------------------------ MODULE LeaderElection_proofs -----------------------
(***************************************************************************)
(* Proofs about LeaderElection, for any set of mains.                      *)
(*                                                                         *)
(* AssertionsHold is not inductive: that a check may step down a leader    *)
(* only depends on the replies a command can get, and that a change of     *)
(* role is justified depends on what the history has recorded by the time  *)
(* a reply exists.  LeaderInv adds both.  Steady is the state in which one *)
(* leader stays for ever once the faults are over.                         *)
(***************************************************************************)
EXTENDS LeaderElection, TLAPS

(* A command gets the replies of its kind.                                 *)
RepliesFit ==
    \A m \in Mains :
        /\ check[m] = "none" => reply[m] = "pending"
        /\ Claims(m) => reply[m] \in {"pending", "set", "exists"}
        /\ check[m] \in {"renew", "get"} => reply[m] \in {"pending", "own", "other", "missing"}

(* The history has recorded what a reply, or the step taken after it, says *)
(* of the key.                                                             *)
RepliesSeen ==
    \A m \in Mains :
        /\ reply[m] \in {"own", "set"} => "held" \in seen[m]
        /\ reply[m] \in {"other", "missing"} => "not held" \in seen[m]
        /\ check[m] = "reclaim" => "not held" \in seen[m]

LeaderInv ==
    /\ LeaderTypeOK
    /\ AssertionsHold
    /\ RepliesFit
    /\ RepliesSeen

LEMMA InitLeaderInv == Init => LeaderInv
BY DEF Init, LeaderInv, LeaderTypeOK, AssertionsHold, RepliesFit, RepliesSeen, Claims

(* What Redis does keeps the invariant: a command executes and its reply   *)
(* is recorded in the same step.                                           *)
LEMMA RedisStep ==
    ASSUME LeaderInv, NEW m \in Mains, NEW command \in {"set", "del"},
           Execute(m) \/ ExecuteUnanswered(m) \/ ExecuteLate(m, command) \/ Expire
              \/ ExecuteClear(m)
    PROVE  LeaderInv' /\ role' = role
<1> USE MainsAssumption DEF LeaderInv
<1>1. CASE Execute(m)
  <2>1. LeaderTypeOK'
    BY <1>1 DEF Execute, Effect, Claims, SetIfNotExists, Result, KeepObserving, Glimpse, LeaderTypeOK
  <2>2. AssertionsHold' /\ role' = role
    BY <1>1 DEF Execute, AssertionsHold
  <2>3. RepliesFit'
    BY <1>1 DEF Execute, Effect, Claims, Result, RepliesFit, LeaderTypeOK
  <2>4. RepliesSeen'
    <3> SUFFICES ASSUME NEW n \in Mains
                 PROVE  /\ reply'[n] \in {"own", "set"} => "held" \in seen'[n]
                        /\ reply'[n] \in {"other", "missing"} => "not held" \in seen'[n]
                        /\ check'[n] = "reclaim" => "not held" \in seen'[n]
      BY DEF RepliesSeen
    <3>1. check' = check /\ check[m] # "none"
      BY <1>1 DEF Execute, Effect
    <3>2. check[n] # "none" => seen'[n] = seen[n] \cup {Glimpse(n, key')}
      BY <1>1 DEF Execute, Effect, KeepObserving
    <3>3. CASE n = m
      <4>1. reply'[m] = Result(m)
        BY <1>1 DEF Execute, LeaderTypeOK
      <4>2. reply'[m] \in {"own", "set"} => key' = m
        BY <1>1, <4>1 DEF Execute, Effect, Result, SetIfNotExists
      <4>3. reply'[m] \in {"other", "missing"} => key' # m
        BY <1>1, <4>1 DEF Execute, Effect, Result
      <4> QED BY <3>1, <3>2, <3>3, <4>2, <4>3 DEF Glimpse, RepliesSeen
    <3>4. CASE n # m
      <4>1. reply'[n] = reply[n]
        BY <1>1, <3>4 DEF Execute, LeaderTypeOK
      <4>2. check[n] = "none" => reply[n] = "pending"
        BY DEF RepliesFit
      <4> QED BY <3>1, <3>2, <4>1, <4>2 DEF RepliesSeen
    <3> QED BY <3>3, <3>4
  <2> QED BY <2>1, <2>2, <2>3, <2>4
<1>2. ASSUME UNCHANGED <<phase, role, check, reply, faults>>, KeepObserving,
             key' \in Mains \cup {None}, late' \subseteq late,
             clearing' \in [Mains -> {"no", "sent", "done"}]
      PROVE  LeaderInv' /\ role' = role
  <2>1. LeaderTypeOK'
    BY <1>2 DEF KeepObserving, Glimpse, LeaderTypeOK
  <2>2. AssertionsHold' /\ RepliesFit' /\ role' = role
    BY <1>2 DEF AssertionsHold, RepliesFit, Claims
  <2>3. RepliesSeen'
    BY <1>2 DEF KeepObserving, Glimpse, RepliesSeen, RepliesFit, LeaderTypeOK
  <2> QED BY <2>1, <2>2, <2>3
<1>3. CASE ExecuteUnanswered(m)
  BY <1>2, <1>3 DEF ExecuteUnanswered, Effect, SetIfNotExists, mainVars, LeaderTypeOK
<1>4. CASE ExecuteLate(m, command)
  BY <1>2, <1>4 DEF ExecuteLate, SetIfNotExists, mainVars, LeaderTypeOK
<1>5. CASE Expire
  BY <1>2, <1>5 DEF Expire, mainVars, LeaderTypeOK
<1>6. CASE ExecuteClear(m)
  BY <1>2, <1>6 DEF ExecuteClear, LeaderTypeOK
<1> QED BY <1>1, <1>3, <1>4, <1>5, <1>6

(* A check or init that returns leaves nothing that could contradict the   *)
(* new role.                                                               *)
LEMMA ReturnStep ==
    ASSUME LeaderInv, NEW m \in Mains, NEW r \in {"unset", "leader", "follower"},
           Return(m, r), UNCHANGED <<key, faults>>,
           late' \subseteq Mains \X {"set", "del"},
           phase' \in [Mains -> {"off", "up", "closing"}],
           clearing' \in [Mains -> {"no", "sent", "done"}]
    PROVE  LeaderInv'
<1>1. LeaderTypeOK'
  BY DEF LeaderInv, Return, Send, LeaderTypeOK
<1>2. /\ check'[m] = "none" /\ reply'[m] = "pending"
      /\ \A n \in Mains \ {m} : /\ check'[n] = check[n] /\ reply'[n] = reply[n]
                                /\ role'[n] = role[n] /\ seen'[n] = seen[n]
  <2>1. check \in [Mains -> {"none", "init", "renew", "reclaim", "get", "claim"}]
        /\ reply \in [Mains -> {"pending", "own", "other", "missing", "set", "exists"}]
    BY DEF LeaderInv, LeaderTypeOK
  <2>2. role \in [Mains -> {"unset", "leader", "follower"}]
        /\ seen \in [Mains -> SUBSET {"held", "not held"}]
    BY DEF LeaderInv, LeaderTypeOK
  <2>3. /\ check'[m] = "none" /\ reply'[m] = "pending"
        /\ \A n \in Mains \ {m} : check'[n] = check[n] /\ reply'[n] = reply[n]
    BY <2>1 DEF Return, Send
  <2>4. \A n \in Mains \ {m} : role'[n] = role[n] /\ seen'[n] = seen[n]
    BY <2>2 DEF Return
  <2> QED BY <2>3, <2>4
<1>3. AssertionsHold'
  BY <1>2 DEF LeaderInv, AssertionsHold
<1>4. RepliesFit'
  BY <1>2 DEF LeaderInv, RepliesFit, Claims
<1>5. RepliesSeen'
  BY <1>2 DEF LeaderInv, RepliesSeen
<1> QED BY <1>1, <1>3, <1>4, <1>5 DEF LeaderInv

(* The next command of a check starts where the last one left the role and *)
(* the history.                                                            *)
LEMMA SendStep ==
    ASSUME LeaderInv, NEW m \in Mains,
           \/ Answered(m, "renew") /\ Send(m, "reclaim") /\ reply[m] = "missing"
           \/ Answered(m, "get") /\ Send(m, "claim"),
           UNCHANGED <<key, late, phase, role, clearing, faults, seen>>
    PROVE  LeaderInv'
<1> PICK next \in {"reclaim", "claim"} : Send(m, next)
  OBVIOUS
<1>1. LeaderTypeOK'
  BY DEF LeaderInv, Send, LeaderTypeOK
<1>2. /\ reply'[m] = "pending"
      /\ \/ check[m] = "renew" /\ check'[m] = "reclaim" /\ reply[m] = "missing"
         \/ check[m] = "get" /\ check'[m] = "claim"
      /\ \A n \in Mains \ {m} : check'[n] = check[n] /\ reply'[n] = reply[n]
  BY DEF LeaderInv, Answered, Send, LeaderTypeOK
<1>3. AssertionsHold'
  BY <1>2 DEF LeaderInv, AssertionsHold
<1>4. RepliesFit'
  BY <1>2 DEF LeaderInv, RepliesFit, Claims
<1>5. RepliesSeen'
  BY <1>2 DEF LeaderInv, RepliesSeen
<1> QED BY <1>1, <1>3, <1>4, <1>5 DEF LeaderInv

(* What a main does keeps the invariant, and changes its role only for a   *)
(* reason the history has recorded.                                        *)
LEMMA MainStep ==
    ASSUME LeaderInv, NEW m \in Mains,
           HandleReply(m) \/ Boot(m) \/ CheckLeader(m) \/ CommandFails(m)
              \/ Shutdown(m) \/ ClearFails(m) \/ Crash(m)
    PROVE  /\ LeaderInv'
           /\ \A n \in Mains :
                /\ (role[n] # "leader" /\ role'[n] = "leader") => "held" \in seen[n]
                /\ (role[n] = "leader" /\ role'[n] = "follower") => "not held" \in seen[n]
<1> DEFINE Justified ==
      \A n \in Mains :
        /\ (role[n] # "leader" /\ role'[n] = "leader") => "held" \in seen[n]
        /\ (role[n] = "leader" /\ role'[n] = "follower") => "not held" \in seen[n]
<1>1. /\ LeaderTypeOK /\ AssertionsHold /\ RepliesFit /\ RepliesSeen
  BY DEF LeaderInv
<1>2. ASSUME UNCHANGED role PROVE Justified
  BY <1>2
<1>0. late \cup GivenUp(m) \subseteq Mains \X {"set", "del"}
  <2>1. <<m, "set">> \in Mains \X {"set", "del"}
    OBVIOUS
  <2> QED BY <1>1, <2>1 DEF GivenUp, LeaderTypeOK
<1>3. ASSUME NEW r \in {"leader", "follower"}, Return(m, r),
             role[m] # "leader" /\ r = "leader" => "held" \in seen[m],
             role[m] = "leader" /\ r = "follower" => "not held" \in seen[m]
      PROVE  Justified
  BY <1>1, <1>3 DEF Return, LeaderTypeOK
<1>4. ASSUME NEW lost \in SUBSET (Mains \X {"set", "del"}), Destroy(m, lost)
      PROVE  LeaderInv' /\ Justified
  <2>1. RoleOnError(m) \in {"unset", "leader", "follower"}
    BY <1>1 DEF RoleOnError, LeaderTypeOK
  <2>2. LeaderInv'
    BY <1>0, <1>1, <1>4, <2>1, ReturnStep DEF Destroy, LeaderTypeOK
  <2>3. Justified
    BY <1>1, <1>4 DEF Destroy, Return, RoleOnError, LeaderTypeOK, AssertionsHold, RepliesSeen
  <2> QED BY <2>2, <2>3
<1>5. CASE Initialised(m)
  <2>1. PICK r \in {"leader", "follower"} : Return(m, r) /\ (r = "leader" => reply[m] = "set")
    BY <1>5 DEF Initialised
  <2>2. LeaderInv'
    BY <1>1, <1>5, <2>1, ReturnStep DEF Initialised, LeaderTypeOK
  <2>3. Justified
    BY <1>1, <1>3, <1>5, <2>1 DEF Initialised, Answered, AssertionsHold, RepliesSeen
  <2> QED BY <2>2, <2>3
<1>6. CASE CheckAreWeStillLeader(m)
  <2>1. CASE reply[m] = "missing"
    BY <1>2, <1>6, <2>1, SendStep DEF CheckAreWeStillLeader
  <2>2. CASE reply[m] # "missing"
    <3>1. PICK r \in {"leader", "follower"} :
            Return(m, r) /\ (r = "leader" <=> reply[m] = "own")
      BY <1>6, <2>2 DEF CheckAreWeStillLeader
    <3>2. LeaderInv'
      BY <1>1, <1>6, <3>1, ReturnStep DEF CheckAreWeStillLeader, LeaderTypeOK
    <3>3. reply[m] \in {"own", "other"}
      BY <1>1, <1>6, <2>2 DEF CheckAreWeStillLeader, Answered, RepliesFit
    <3>4. Justified
      BY <1>1, <1>3, <3>1, <3>3 DEF RepliesSeen
    <3> QED BY <3>2, <3>4
  <2> QED BY <2>1, <2>2
<1>7. CASE Reclaimed(m)
  <2>1. PICK r \in {"leader", "follower"} : Return(m, r)
    BY <1>7 DEF Reclaimed
  <2>2. LeaderInv'
    BY <1>1, <1>7, <2>1, ReturnStep DEF Reclaimed, LeaderTypeOK
  <2>3. Justified
    BY <1>1, <1>3, <1>7, <2>1 DEF Reclaimed, Answered, AssertionsHold, RepliesSeen
  <2> QED BY <2>2, <2>3
<1>8. CASE CheckCanBecomeLeader(m)
  <2>1. CASE reply[m] = "missing"
    BY <1>2, <1>8, <2>1, SendStep DEF CheckCanBecomeLeader
  <2>2. CASE reply[m] # "missing"
    <3>1. PICK r \in {"leader", "follower"} :
            Return(m, r) /\ (r = "leader" => reply[m] = "own")
      BY <1>8, <2>2 DEF CheckCanBecomeLeader
    <3>2. LeaderInv'
      BY <1>1, <1>8, <3>1, ReturnStep DEF CheckCanBecomeLeader, LeaderTypeOK
    <3>3. Justified
      BY <1>1, <1>3, <1>8, <3>1 DEF CheckCanBecomeLeader, Answered, AssertionsHold, RepliesSeen
    <3> QED BY <3>2, <3>3
  <2> QED BY <2>1, <2>2
<1>9. CASE Claimed(m)
  <2>1. PICK r \in {"leader", "follower"} : Return(m, r) /\ (r = "leader" => reply[m] = "set")
    BY <1>9 DEF Claimed
  <2>2. LeaderInv'
    BY <1>1, <1>9, <2>1, ReturnStep DEF Claimed, LeaderTypeOK
  <2>3. Justified
    BY <1>1, <1>3, <1>9, <2>1 DEF Claimed, Answered, AssertionsHold, RepliesSeen
  <2> QED BY <2>2, <2>3
<1>10. CASE Cleared(m)
  BY <1>4, <1>10 DEF Cleared
<1>11. CASE ClearFails(m)
  <2>1. (IF clearing[m] = "sent" THEN {<<m, "del">>} ELSE {}) \in SUBSET (Mains \X {"set", "del"})
    OBVIOUS
  <2> QED BY <1>4, <1>11, <2>1 DEF ClearFails
<1>12. CASE Crash(m)
  <2>1. (IF clearing[m] = "sent" THEN {<<m, "del">>} ELSE {}) \in SUBSET (Mains \X {"set", "del"})
    OBVIOUS
  <2> QED BY <1>4, <1>12, <2>1 DEF Crash
<1>13. CASE Shutdown(m)
  <2>1. CASE role[m] = "leader"
    <3>1. UNCHANGED <<key, late, role, check, reply, faults, seen>>
      BY <1>13, <2>1 DEF Shutdown
    <3>2. LeaderTypeOK'
      BY <1>1, <1>13, <2>1 DEF Shutdown, LeaderTypeOK
    <3>3. AssertionsHold' /\ RepliesFit' /\ RepliesSeen'
      BY <1>1, <3>1 DEF AssertionsHold, RepliesFit, RepliesSeen, Claims
    <3> QED BY <1>2, <3>1, <3>2, <3>3 DEF LeaderInv
  <2>2. CASE role[m] # "leader"
    BY <1>4, <1>13, <2>2 DEF Shutdown
  <2> QED BY <2>1, <2>2
<1>14. CASE CommandFails(m)
  <2>1. RoleOnError(m) \in {"unset", "leader", "follower"}
    BY <1>1 DEF RoleOnError, LeaderTypeOK
  <2>2. LeaderInv'
    BY <1>0, <1>1, <1>14, <2>1, ReturnStep DEF CommandFails, LeaderTypeOK
  <2>3. Justified
    BY <1>1, <1>14 DEF CommandFails, Return, RoleOnError, LeaderTypeOK, AssertionsHold, RepliesSeen
  <2> QED BY <2>2, <2>3
<1>15. CASE Boot(m)
  <2>1. LeaderTypeOK'
    BY <1>1, <1>15 DEF Boot, Send, Observe, Glimpse, LeaderTypeOK
  <2>2. AssertionsHold' /\ RepliesFit' /\ RepliesSeen'
    BY <1>1, <1>15 DEF Boot, Send, Observe, Glimpse, LeaderTypeOK, AssertionsHold, RepliesFit,
                       RepliesSeen, Claims
  <2>3. Justified
    BY <1>1, <1>15 DEF Boot, LeaderTypeOK
  <2> QED BY <2>1, <2>2, <2>3 DEF LeaderInv
<1>16. CASE CheckLeader(m)
  <2>1. LeaderTypeOK'
    BY <1>1, <1>16 DEF CheckLeader, Send, Observe, Glimpse, LeaderTypeOK
  <2>2. AssertionsHold' /\ RepliesFit' /\ RepliesSeen'
    BY <1>1, <1>16 DEF CheckLeader, Send, Observe, Glimpse, LeaderTypeOK, AssertionsHold, RepliesFit,
                       RepliesSeen, Claims
  <2> QED BY <1>2, <1>16, <2>1, <2>2 DEF LeaderInv, CheckLeader
<1> QED
  BY <1>5, <1>6, <1>7, <1>8, <1>9, <1>10, <1>11, <1>12, <1>13, <1>14, <1>15, <1>16
  DEF HandleReply

LEMMA LeaderStep ==
    ASSUME LeaderInv, [Next]_vars
    PROVE  /\ LeaderInv'
           /\ [\A m \in Mains :
                /\ (role[m] # "leader" /\ role'[m] = "leader") => "held" \in seen[m]
                /\ (role[m] = "leader" /\ role'[m] = "follower") => "not held" \in seen[m]]_vars
<1>1. CASE UNCHANGED vars
  BY <1>1 DEF vars, mainVars, LeaderInv, LeaderTypeOK, AssertionsHold, RepliesFit, RepliesSeen,
              Claims
<1>2. CASE Expire
  <2>1. CASE Mains = {}
    BY <1>2, <2>1 DEF Expire, LeaderInv, LeaderTypeOK, KeepObserving, Glimpse, AssertionsHold,
                      RepliesFit, RepliesSeen, mainVars
  <2>2. CASE Mains # {}
    <3>1. PICK m \in Mains : TRUE
      BY <2>2
    <3> QED BY <1>2, <3>1, RedisStep
  <2> QED BY <2>1, <2>2
<1>3. CASE FaultsEnd
  BY <1>3 DEF FaultsEnd, mainVars, LeaderInv, LeaderTypeOK, AssertionsHold, RepliesFit,
              RepliesSeen, Claims
<1>4. ASSUME NEW m \in Mains,
             \/ Boot(m) \/ CheckLeader(m) \/ Step(m) \/ ExecuteUnanswered(m)
             \/ CommandFails(m) \/ Shutdown(m) \/ ClearFails(m) \/ Crash(m)
             \/ \E command \in {"set", "del"} : ExecuteLate(m, command)
      PROVE  /\ LeaderInv'
             /\ \A n \in Mains :
                  /\ (role[n] # "leader" /\ role'[n] = "leader") => "held" \in seen[n]
                  /\ (role[n] = "leader" /\ role'[n] = "follower") => "not held" \in seen[n]
  <2>1. CASE \/ HandleReply(m) \/ Boot(m) \/ CheckLeader(m) \/ CommandFails(m)
             \/ Shutdown(m) \/ ClearFails(m) \/ Crash(m)
    BY <2>1, MainStep
  <2>2. CASE Execute(m) \/ ExecuteUnanswered(m) \/ ExecuteClear(m)
    BY <2>2, RedisStep
  <2>3. CASE \E command \in {"set", "del"} : ExecuteLate(m, command)
    BY <2>3, RedisStep
  <2> QED BY <1>4, <2>1, <2>2, <2>3 DEF Step
<1> QED BY <1>1, <1>2, <1>3, <1>4 DEF Next

(* Every reachable state satisfies the inductive invariant.                *)
THEOREM LeaderInvariant == Spec => []LeaderInv
BY InitLeaderInv, LeaderStep, PTL DEF Spec

(* The type invariant of leader election, for any number of mains.         *)
THEOREM LeaderTypeCorrect == Spec => []LeaderTypeOK
BY LeaderInvariant, PTL DEF LeaderInv

(* No assertion of MultiMainSetup fails, whatever is lost, late or sent    *)
(* twice: checkLeader reads the role before the await it acts after.       *)
THEOREM AssertionsNeverFail == Spec => []AssertionsHold
BY LeaderInvariant, PTL DEF LeaderInv

(* takeOverAsLeader and stepDownToFollower only run after a check in which *)
(* the main did, respectively did not, hold the key.                       *)
THEOREM RoleFollowsKeyHolds == Spec => RoleFollowsKey
BY InitLeaderInv, LeaderStep, PTL DEF Spec, RoleFollowsKey

-----------------------------------------------------------------------------
(* InstanceRole allows what LeaderElection does to roles.                  *)

Roles == INSTANCE InstanceRole WITH
             process <- [m \in Mains |-> IF phase[m] = "off" THEN "off" ELSE "up"]

(* A main has no role exactly while its init runs, and checks and shutdown *)
(* run in a process.                                                       *)
RoleKnown ==
    \A m \in Mains :
        /\ phase[m] = "off" => check[m] = "none" /\ clearing[m] = "no"
        /\ check[m] = "init" => role[m] = "unset"
        /\ phase[m] # "off" /\ check[m] # "init" => role[m] # "unset"

RolesChange == [Roles!RoleNext]_Roles!roleVars

LEMMA InitRoles == Init => RoleKnown /\ Roles!RoleInit
BY DEF Init, RoleKnown, Roles!RoleInit

(* A step of the election that leaves roles and processes alone.           *)
LEMMA QuietRoles ==
    ASSUME RoleKnown, phase' = phase, role' = role,
           \A n \in Mains : \/ check'[n] = check[n]
                            \/ phase[n] # "off" /\ check[n] # "init" /\ check'[n] # "init",
           \A n \in Mains : clearing[n] = "no" => clearing'[n] = "no"
    PROVE  RoleKnown' /\ RolesChange
BY DEF RoleKnown, RolesChange, Roles!roleVars

(* The check or init of m returns and leaves it in role r.                 *)
LEMMA ReturnRoles ==
    ASSUME LeaderInv, RoleKnown, NEW m \in Mains, NEW r \in {"leader", "follower"},
           phase' = phase, clearing' = clearing, check[m] # "none", Return(m, r)
    PROVE  RoleKnown' /\ RolesChange
<1> USE DEF LeaderInv, LeaderTypeOK, RoleKnown
<1>1. RoleKnown'
  BY DEF Return, Send
<1>2. phase[m] # "off" /\ role'[m] = r /\ \A n \in Mains \ {m} : role'[n] = role[n]
  BY DEF Return
<1>4. CASE role[m] = r
  BY <1>1, <1>4 DEF Return, RolesChange, Roles!roleVars
<1>5. CASE role[m] = "unset"
  <2>1. Roles!FirstRole(m, r)
    BY <1>2, <1>5 DEF Return, Roles!FirstRole, Roles!BecomeRole
  <2> QED BY <1>1, <2>1 DEF Roles!RoleNext, RolesChange
<1>6. CASE role[m] = "leader" /\ r = "follower"
  <2>1. Roles!StepDownToFollower(m)
    BY <1>2, <1>6 DEF Return, Roles!StepDownToFollower, Roles!BecomeRole
  <2> QED BY <1>1, <2>1 DEF Roles!RoleNext, RolesChange
<1>7. CASE role[m] = "follower" /\ r = "leader"
  <2>1. Roles!TakeOverAsLeader(m)
    BY <1>2, <1>7 DEF Return, Roles!TakeOverAsLeader, Roles!BecomeRole
  <2> QED BY <1>1, <2>1 DEF Roles!RoleNext, RolesChange
<1> QED BY <1>4, <1>5, <1>6, <1>7

LEMMA DestroyRoles ==
    ASSUME LeaderInv, RoleKnown, NEW m \in Mains, NEW lost,
           phase[m] # "off", Destroy(m, lost)
    PROVE  RoleKnown' /\ RolesChange
<1> USE DEF LeaderInv, LeaderTypeOK, RoleKnown
<1>1. RoleKnown'
  BY DEF Destroy, Return, Send
<1>2. Roles!EndProcess(m)
  BY DEF Destroy, Return, RoleOnError, Roles!EndProcess, Roles!BecomeRole
<1> QED BY <1>1, <1>2 DEF Roles!RoleNext, RolesChange

LEMMA RolesStep ==
    ASSUME LeaderInv, RoleKnown, [Next]_vars
    PROVE  RoleKnown' /\ RolesChange
<1> USE DEF LeaderInv, LeaderTypeOK
<1>1. CASE UNCHANGED vars
  BY <1>1 DEF vars, mainVars, RoleKnown, RolesChange, Roles!roleVars
<1>2. CASE Expire \/ FaultsEnd
  <2>1. UNCHANGED <<phase, role, check, clearing>>
    BY <1>2 DEF Expire, FaultsEnd, mainVars
  <2> QED BY <2>1, QuietRoles
<1>3. ASSUME NEW m \in Mains,
             \/ Boot(m) \/ CheckLeader(m) \/ Step(m) \/ ExecuteUnanswered(m)
             \/ CommandFails(m) \/ Shutdown(m) \/ ClearFails(m) \/ Crash(m)
             \/ \E command \in {"set", "del"} : ExecuteLate(m, command)
      PROVE  RoleKnown' /\ RolesChange
  <2>1. CASE Boot(m)
    <3>1. RoleKnown'
      BY <2>1 DEF Boot, Send, RoleKnown
    <3>2. Roles!StartProcess(m)
      BY <2>1 DEF Boot, Roles!StartProcess, Roles!BecomeRole
    <3> QED BY <3>1, <3>2 DEF Roles!RoleNext, RolesChange
  <2>2. CASE \/ Execute(m) \/ ExecuteUnanswered(m) \/ ExecuteClear(m)
             \/ \E command \in {"set", "del"} : ExecuteLate(m, command)
    BY <2>2, QuietRoles DEF Execute, ExecuteUnanswered, ExecuteClear, ExecuteLate, mainVars
  <2>3. CASE CheckLeader(m)
    BY <2>3, QuietRoles DEF CheckLeader, Send
  <2>4. CASE Initialised(m)
    BY <2>4, ReturnRoles DEF Initialised, Answered
  <2>5. CASE CheckAreWeStillLeader(m)
    <3>1. CASE reply[m] = "missing"
      BY <2>5, <3>1, QuietRoles DEF CheckAreWeStillLeader, Answered, Send, RoleKnown
    <3>2. CASE reply[m] # "missing"
      BY <2>5, <3>2, ReturnRoles DEF CheckAreWeStillLeader, Answered
    <3> QED BY <3>1, <3>2
  <2>6. CASE Reclaimed(m)
    BY <2>6, ReturnRoles DEF Reclaimed, Answered
  <2>7. CASE CheckCanBecomeLeader(m)
    <3>1. CASE reply[m] = "missing"
      BY <2>7, <3>1, QuietRoles DEF CheckCanBecomeLeader, Answered, Send, RoleKnown
    <3>2. CASE reply[m] # "missing"
      BY <2>7, <3>2, ReturnRoles DEF CheckCanBecomeLeader, Answered
    <3> QED BY <3>1, <3>2
  <2>8. CASE Claimed(m)
    BY <2>8, ReturnRoles DEF Claimed, Answered
  <2>9. CASE CommandFails(m)
    <3>1. RoleOnError(m) \in {"leader", "follower"}
      BY <2>9 DEF CommandFails, RoleOnError, RoleKnown
    <3> QED BY <2>9, <3>1, ReturnRoles DEF CommandFails
  <2>10. CASE Shutdown(m)
    <3>1. CASE role[m] = "leader"
      <4>1. /\ phase[m] = "up" /\ phase' = [phase EXCEPT ![m] = "closing"]
            /\ clearing' = [clearing EXCEPT ![m] = "sent"]
            /\ role' = role /\ check' = check
        BY <2>10, <3>1 DEF Shutdown
      <4>2. RoleKnown'
        BY <4>1 DEF RoleKnown
      <4>3. RolesChange
        BY <4>1 DEF RolesChange, Roles!roleVars
      <4> QED BY <4>2, <4>3
    <3>2. CASE role[m] # "leader"
      BY <2>10, <3>2, DestroyRoles DEF Shutdown
    <3> QED BY <3>1, <3>2
  <2>11. CASE Cleared(m) \/ ClearFails(m)
    <3>1. \E lost : Destroy(m, lost)
      BY <2>11 DEF Cleared, ClearFails
    <3>2. PICK lost : Destroy(m, lost)
      BY <3>1
    <3>3. phase[m] # "off"
      BY <2>11 DEF Cleared, ClearFails, RoleKnown
    <3> QED BY <3>2, <3>3, DestroyRoles
  <2>12. CASE Crash(m)
    BY <2>12, DestroyRoles DEF Crash
  <2> QED
    BY <1>3, <2>1, <2>2, <2>3, <2>4, <2>5, <2>6, <2>7, <2>8, <2>9, <2>10, <2>11, <2>12
       DEF Step, HandleReply
<1> QED BY <1>1, <1>2, <1>3 DEF Next

(* WaitTracker and ScalingQueue leave out no change of roles that the      *)
(* election makes.  InstanceRole allows many that the election does not    *)
(* make, so this says nothing of the election itself.                      *)
LEMMA RolesAllowed == Spec => Roles!RoleSpec
<1>1. Init => RoleKnown /\ Roles!RoleInit
  BY InitRoles
<1>2. LeaderInv /\ RoleKnown /\ [Next]_vars => RoleKnown' /\ RolesChange
  BY RolesStep
<1> QED BY <1>1, <1>2, LeaderInvariant, PTL
   DEF Spec, Roles!RoleSpec, RolesChange

-----------------------------------------------------------------------------
(* One leader stays the leader.                                            *)

(* m leads and holds the key, no command under way can take the key from   *)
(* it, and no reply under way makes another main a leader.                 *)
Steady(m) ==
    /\ faults = "over" /\ key = m
    /\ \A n \in Mains : <<n, "del">> \notin late /\ clearing[n] = "no"
    /\ phase[m] = "up" /\ role[m] = "leader"
    /\ check[m] # "reclaim" /\ reply[m] \in {"pending", "own"}
    /\ \A n \in Mains \ {m} :
          phase[n] = "up" => role[n] # "leader" /\ reply[n] \notin {"own", "set"}

LEMMA SteadyReplies ==
    ASSUME LeaderInv, NEW m \in Mains, Steady(m), NEW n \in Mains, Execute(n)
    PROVE  Steady(m)'
<1> USE MainsAssumption DEF LeaderInv, LeaderTypeOK, Steady
<1>1. /\ key' = key /\ reply' = [reply EXCEPT ![n] = Result(n)]
      /\ UNCHANGED <<late, phase, role, check, clearing, faults>>
  BY DEF Execute, Effect, SetIfNotExists
<1>2. n = m => Result(n) = "own"
  BY DEF AssertionsHold, Result, Claims, Execute, Effect
<1>3. n # m => Result(n) \in {"exists", "other"}
  BY DEF Result
<1> QED BY <1>1, <1>2, <1>3

(* A reply that m, or another main, handles leaves each with its role.     *)
LEMMA SteadyHandled ==
    ASSUME LeaderInv, NEW m \in Mains, Steady(m), NEW n \in Mains, HandleReply(n)
    PROVE  Steady(m)'
<1> USE DEF LeaderInv, LeaderTypeOK, Steady
<1>1. ~Cleared(n)
  BY DEF Cleared
<1>2. UNCHANGED <<key, late, phase, clearing, faults>>
  BY <1>1
     DEF HandleReply, Initialised, CheckAreWeStillLeader, Reclaimed, CheckCanBecomeLeader, Claimed
<1>3. /\ \A k \in Mains \ {n} : role'[k] = role[k] /\ reply'[k] = reply[k] /\ check'[k] = check[k]
      /\ reply'[n] = "pending"
  BY <1>1
     DEF HandleReply, Initialised, CheckAreWeStillLeader, Reclaimed, CheckCanBecomeLeader, Claimed,
         Send, Return
<1>4. ASSUME n = m
      PROVE  role'[n] = "leader" /\ check'[n] # "reclaim"
  <2>1. CheckAreWeStillLeader(n) /\ reply[n] = "own"
    BY <1>1, <1>4
       DEF HandleReply, Initialised, CheckAreWeStillLeader, Reclaimed, CheckCanBecomeLeader, Claimed,
           Answered, AssertionsHold
  <2> QED BY <2>1 DEF CheckAreWeStillLeader, Return, Send
<1>5. ASSUME n # m, phase[n] = "up"
      PROVE  role'[n] # "leader"
  <2>1. reply[n] \notin {"own", "set"} /\ check[n] \notin {"renew", "reclaim"}
    BY <1>5 DEF AssertionsHold
  <2>2. role'[n] = role[n] \/ role'[n] = "follower"
    <3>1. CASE Initialised(n) \/ Claimed(n)
      BY <2>1, <3>1 DEF Initialised, Claimed, Return
    <3>2. CASE CheckCanBecomeLeader(n)
      BY <2>1, <3>2 DEF CheckCanBecomeLeader, Return
    <3> QED
      BY <1>1, <2>1, <3>1, <3>2 DEF HandleReply, CheckAreWeStillLeader, Reclaimed, Answered
  <2> QED BY <1>5, <2>2
<1> QED BY <1>2, <1>3, <1>4, <1>5

LEMMA SteadyStep ==
    ASSUME LeaderInv, NEW m \in Mains, Steady(m), [Next]_vars
    PROVE  Steady(m)'
<1> USE MainsAssumption DEF LeaderInv, LeaderTypeOK
<1>1. CASE UNCHANGED vars
  BY <1>1 DEF vars, mainVars, Steady
<1>2. CASE Expire
  BY <1>2 DEF Expire, Steady
<1>3. CASE FaultsEnd
  BY <1>3 DEF FaultsEnd, Steady
<1>4. ASSUME NEW n \in Mains,
             \/ ExecuteUnanswered(n) \/ CommandFails(n) \/ Shutdown(n) \/ ClearFails(n) \/ Crash(n)
             \/ ExecuteClear(n)
      PROVE  FALSE
  BY <1>4
     DEF ExecuteUnanswered, CommandFails, Shutdown, ClearFails, Crash, ExecuteClear, Steady
<1>5. ASSUME NEW n \in Mains, NEW command \in {"set", "del"}, ExecuteLate(n, command)
      PROVE  Steady(m)'
  BY <1>5 DEF ExecuteLate, SetIfNotExists, mainVars, Steady
<1>6. ASSUME NEW n \in Mains, Boot(n)
      PROVE  Steady(m)'
  BY <1>6 DEF Boot, Send, Steady
<1>7. ASSUME NEW n \in Mains, CheckLeader(n)
      PROVE  Steady(m)'
  BY <1>7 DEF CheckLeader, Send, Steady
<1> QED
  BY <1>1, <1>2, <1>3, <1>4, <1>5, <1>6, <1>7, SteadyReplies, SteadyHandled DEF Next, Step

(* Once Redis answers again and m leads with the key, m is the one leader  *)
(* for ever: no renewal, restart, late command or check of another main    *)
(* ends that.  This is what the system stays in when it has recovered, as  *)
(* the comment of checkAreWeStillLeader says it will.                      *)
THEOREM LeadershipStays ==
    ASSUME NEW m \in Mains
    PROVE  Spec => [](Steady(m) => [](Leaders = {m} /\ key = m))
<1>1. LeaderInv /\ Steady(m) /\ [Next]_vars => Steady(m)'
  BY SteadyStep
<1>2. Steady(m) => Leaders = {m} /\ key = m
  BY DEF Steady, Leaders
<1> QED BY <1>1, <1>2, LeaderInvariant, PTL DEF Spec
=============================================================================
