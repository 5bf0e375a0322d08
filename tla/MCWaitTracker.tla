---------------------------- MODULE MCWaitTracker ----------------------------
(* WaitTracker for TLC: one execution, or a parent and its child.            *)
EXTENDS WaitTracker, TLC

CONSTANTS p, c

NoParents == [e \in Executions |-> None]
Family == (p :> None) @@ (c :> p)

MainSymmetry == Permutations(Mains)
=============================================================================
