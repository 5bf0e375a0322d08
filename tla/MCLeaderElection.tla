-------------------------- MODULE MCLeaderElection --------------------------
(* LeaderElection for TLC: two mains that start, compete, fail and leave.  *)
EXTENDS LeaderElection
=============================================================================
