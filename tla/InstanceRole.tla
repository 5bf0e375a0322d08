---------------------------- MODULE InstanceRole ----------------------------
(***************************************************************************)
(* The role of each main, as WaitTracker and ScalingQueue take it: an      *)
(* abstraction of cli/src/scaling/multi-main-setup.ee.ts.                  *)
(*                                                                         *)
(* A main gets a role when it has started, and then takes over and steps   *)
(* down at any time, whatever the roles of the others: more than the       *)
(* election ever does (lemma RolesAllowed of LeaderElection_proofs), so    *)
(* that what is shown over these roles does not depend on it.              *)
(***************************************************************************)
CONSTANTS
    Mains       \* host ids

VARIABLES
    process,    \* whether each main's process is "off" or "up"
    role        \* instanceSettings.instanceRole

roleVars == <<process, role>>

RoleTypeOK ==
    /\ process \in [Mains -> {"off", "up"}]
    /\ role \in [Mains -> {"unset", "leader", "follower"}]

RoleInit ==
    /\ process = [m \in Mains |-> "off"]
    /\ role = [m \in Mains |-> "unset"]

BecomeRole(m, r) == role' = [role EXCEPT ![m] = r]

(* The process starts.                                                     *)
StartProcess(m) ==
    /\ process[m] = "off"
    /\ process' = [process EXCEPT ![m] = "up"]
    /\ BecomeRole(m, "unset")

(* init has its first answer.                                              *)
FirstRole(m, r) ==
    /\ process[m] = "up"
    /\ role[m] = "unset"
    /\ BecomeRole(m, r)
    /\ UNCHANGED process

(* takeOverAsLeader, on a main that was not leading.                       *)
TakeOverAsLeader(m) ==
    /\ process[m] = "up"
    /\ role[m] = "follower"
    /\ BecomeRole(m, "leader")
    /\ UNCHANGED process

(* stepDownToFollower, on the leader.                                      *)
StepDownToFollower(m) ==
    /\ process[m] = "up"
    /\ role[m] = "leader"
    /\ BecomeRole(m, "follower")
    /\ UNCHANGED process

(* The process ends or is killed, in the middle of a check or not.         *)
EndProcess(m) ==
    /\ process[m] = "up"
    /\ process' = [process EXCEPT ![m] = "off"]
    /\ \E r \in {"unset", "leader", "follower"} : BecomeRole(m, r)

RoleNext ==
    \E m \in Mains :
        \/ StartProcess(m) \/ EndProcess(m)
        \/ \E r \in {"leader", "follower"} : FirstRole(m, r)
        \/ TakeOverAsLeader(m) \/ StepDownToFollower(m)

RoleSpec == RoleInit /\ [][RoleNext]_roleVars
=============================================================================
