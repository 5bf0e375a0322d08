--------------------------- MODULE MCScalingQueue ---------------------------
(* ScalingQueue for TLC: two mains, a worker, and an execution.            *)
EXTENDS ScalingQueue
=============================================================================
