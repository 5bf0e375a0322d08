---------------------------- MODULE MCTaskBroker ----------------------------
(* TaskBroker for TLC: requests for JavaScript tasks, a runner of the same *)
(* type, and in one instance a launcher.                                   *)
EXTENDS TaskBroker, TLC

CONSTANT js

JsRequests == [q \in Requests |-> js]
JsRunners == [r \in Runners |-> js]
RequestSymmetry == Permutations(Requests)
=============================================================================
