------------------------- MODULE MCActiveExecutions -------------------------
(* ActiveExecutions for TLC: a few calls of run on one or two executions,  *)
(* of which the throttled ones compete for one slot.                       *)
EXTENDS ActiveExecutions, TLC

CallSymmetry == Permutations(Calls)
=============================================================================
