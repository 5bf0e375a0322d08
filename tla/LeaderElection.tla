--------------------------- MODULE LeaderElection ---------------------------
(***************************************************************************)
(* Leader election between the mains of a multi-main setup.                *)
(*                                                                         *)
(*   cli/src/scaling/multi-main-setup.ee.ts      init, checkLeader, shutdown*)
(*   cli/src/scaling/leader-election-client.ts   its Redis commands        *)
(*                                                                         *)
(* The leader is the host named by one Redis key with a time to live.  A   *)
(* main awaits at most one command of its check at a time, and the command *)
(* takes effect some time before its reply is handled.  A command that     *)
(* timed out, or whose main went away, may still take effect later (it is  *)
(* `late`), and one whose connection broke before the reply is sent again. *)
(* The key may vanish at any time: it expires when its holder is too slow, *)
(* and a failover of Redis can lose it.                                    *)
(***************************************************************************)
EXTENDS Naturals, FiniteSets

CONSTANTS
    Mains,      \* host ids
    None

ASSUME MainsAssumption == None \notin Mains

VARIABLES
    key,        \* the value of the leader key, None when it does not exist
    late,       \* commands nobody awaits that Redis may still execute
    phase,      \* of each main's process
    role,       \* instanceSettings.instanceRole
    check,      \* the command that init or the leader check awaits
    reply,      \* its reply, "pending" until Redis has executed it
    clearing,   \* the DEL that shutdown awaits
    faults,     \* whether anything may still fail
    seen        \* history: whether the main held the key, during its check

mainVars == <<phase, role, check, reply, clearing>>
vars == <<key, late, mainVars, faults, seen>>

LeaderTypeOK ==
    /\ key \in Mains \cup {None}
    /\ late \subseteq Mains \X {"set", "del"}
    /\ phase \in [Mains -> {"off", "up", "closing"}]
    /\ role \in [Mains -> {"unset", "leader", "follower"}]
    /\ check \in [Mains -> {"none", "init", "renew", "reclaim", "get", "claim"}]
    /\ reply \in [Mains -> {"pending", "own", "other", "missing", "set", "exists"}]
    /\ clearing \in [Mains -> {"no", "sent", "done"}]
    /\ faults \in {"possible", "over"}
    /\ seen \in [Mains -> SUBSET {"held", "not held"}]

Init ==
    /\ key = None
    /\ late = {}
    /\ phase = [m \in Mains |-> "off"]
    /\ role = [m \in Mains |-> "unset"]
    /\ check = [m \in Mains |-> "none"]
    /\ reply = [m \in Mains |-> "pending"]
    /\ clearing = [m \in Mains |-> "no"]
    /\ faults = "possible"
    /\ seen = [m \in Mains |-> {}]

-----------------------------------------------------------------------------

Claims(m) == check[m] \in {"init", "reclaim", "claim"}

(* The history of a check starts with it, and grows until it is answered.  *)
Glimpse(m, holder) == IF holder = m THEN "held" ELSE "not held"
Observe(m) == seen' = [seen EXCEPT ![m] = {Glimpse(m, key)}]
KeepObserving ==
    seen' = [n \in Mains |-> IF check[n] = "none" THEN {} ELSE seen[n] \cup {Glimpse(n, key')}]

Send(m, command) ==
    /\ check' = [check EXCEPT ![m] = command]
    /\ reply' = [reply EXCEPT ![m] = "pending"]

(* The check or init of m returns, leaving the main in role r.             *)
Return(m, r) ==
    /\ Send(m, "none")
    /\ role' = [role EXCEPT ![m] = r]
    /\ seen' = [seen EXCEPT ![m] = {}]

Answered(m, command) ==
    /\ check[m] = command
    /\ reply[m] # "pending"

(* The SET of m that is given up while Redis may not have executed it.     *)
GivenUp(m) == IF Claims(m) /\ reply[m] = "pending" THEN {<<m, "set">>} ELSE {}

(* What an error, rather than a reply, makes of the role of m: only a main *)
(* that was about to claim the key again steps down.                       *)
RoleOnError(m) == IF check[m] \in {"init", "reclaim"} THEN "follower" ELSE role[m]

-----------------------------------------------------------------------------
(* Redis.                                                                  *)

SetIfNotExists(m) == key' = IF key = None THEN m ELSE key

(* What the awaited command of m answers.                                  *)
Result(m) ==
    IF Claims(m)
      THEN IF key = None THEN "set" ELSE "exists"
      ELSE CASE key = m -> "own" [] key = None -> "missing" [] OTHER -> "other"

(* SET NX EX, GET or the script INCREASE_TTL_IF_LEADER takes effect.       *)
Effect(m) ==
    /\ check[m] # "none"
    /\ reply[m] = "pending"
    /\ IF Claims(m) THEN SetIfNotExists(m) ELSE key' = key
    /\ KeepObserving

Execute(m) ==
    /\ Effect(m)
    /\ reply' = [reply EXCEPT ![m] = Result(m)]
    /\ UNCHANGED <<late, phase, role, check, clearing, faults>>

(* The connection breaks before the reply: the command is sent again.      *)
ExecuteUnanswered(m) ==
    /\ faults = "possible"
    /\ Effect(m)
    /\ UNCHANGED <<late, mainVars, faults>>

(* A command that nobody awaits any more takes effect, or never does.      *)
ExecuteLate(m, command) ==
    /\ <<m, command>> \in late
    /\ late' = late \ {<<m, command>>}
    /\ \/ command = "set" /\ SetIfNotExists(m)
       \/ command = "del" /\ key' = None
       \/ key' = key
    /\ KeepObserving
    /\ UNCHANGED <<mainVars, faults>>

(* The time to live is over.  While nothing fails, a main that runs renews *)
(* its key in time, every `interval` and well within `ttl`.                *)
Expire ==
    /\ key # None
    /\ faults = "over" => phase[key] # "up"
    /\ key' = None
    /\ KeepObserving
    /\ UNCHANGED <<late, mainVars, faults>>

-----------------------------------------------------------------------------
(* MultiMainSetup.                                                         *)

(* The process starts: init tries to set the key.                          *)
Boot(m) ==
    /\ phase[m] = "off"
    /\ phase' = [phase EXCEPT ![m] = "up"]
    /\ role' = [role EXCEPT ![m] = "unset"]
    /\ Send(m, "init")
    /\ Observe(m)
    /\ UNCHANGED <<key, late, clearing, faults>>

Initialised(m) ==
    /\ Answered(m, "init")
    /\ Return(m, IF reply[m] = "set" THEN "leader" ELSE "follower")
    /\ UNCHANGED <<key, late, phase, clearing, faults>>

(* The interval: checkLeader, unless the previous check is in progress.    *)
CheckLeader(m) ==
    /\ phase[m] = "up"
    /\ check[m] = "none"
    /\ Send(m, IF role[m] = "leader" THEN "renew" ELSE "get")
    /\ Observe(m)
    /\ UNCHANGED <<key, late, phase, role, clearing, faults>>

(* Mutant of CheckAreWeStillLeader: another host's key goes unnoticed.     *)
CheckWithoutStepDown(m) ==
    /\ Answered(m, "renew")
    /\ IF reply[m] = "missing"
         THEN Send(m, "reclaim") /\ UNCHANGED <<role, seen>>
         ELSE Return(m, "leader")
    /\ UNCHANGED <<key, late, phase, clearing, faults>>

(* Mutant of CheckAreWeStillLeader: steps down before it claims the key.   *)
CheckSteppingDownFirst(m) ==
    /\ Answered(m, "renew")
    /\ IF reply[m] = "missing"
         THEN Send(m, "reclaim") /\ role' = [role EXCEPT ![m] = "follower"] /\ UNCHANGED seen
         ELSE Return(m, IF reply[m] = "own" THEN "leader" ELSE "follower")
    /\ UNCHANGED <<key, late, phase, clearing, faults>>

(* checkAreWeStillLeader after tryRenewLeaderTtl: stay, step down, or try  *)
(* to get a missing key back.                                              *)
CheckAreWeStillLeader(m) ==
    /\ Answered(m, "renew")
    /\ IF reply[m] = "missing"
         THEN Send(m, "reclaim") /\ UNCHANGED <<role, seen>>
         ELSE Return(m, IF reply[m] = "own" THEN "leader" ELSE "follower")
    /\ UNCHANGED <<key, late, phase, clearing, faults>>

(* checkAreWeStillLeader after setLeaderIfNotExists.                       *)
Reclaimed(m) ==
    /\ Answered(m, "reclaim")
    /\ Return(m, IF reply[m] = "set" THEN "leader" ELSE "follower")
    /\ UNCHANGED <<key, late, phase, clearing, faults>>

(* Mutant of CheckCanBecomeLeader: a vacant leadership is simply taken.    *)
CheckThenTakeOver(m) ==
    /\ Answered(m, "get")
    /\ Return(m, IF reply[m] = "other" THEN "follower" ELSE "leader")
    /\ UNCHANGED <<key, late, phase, clearing, faults>>

(* checkCanBecomeLeader after getLeader.  A key that already names this    *)
(* host is a mismatch that is resolved by taking over.                     *)
CheckCanBecomeLeader(m) ==
    /\ Answered(m, "get")
    /\ IF reply[m] = "missing"
         THEN Send(m, "claim") /\ UNCHANGED <<role, seen>>
         ELSE Return(m, IF reply[m] = "own" THEN "leader" ELSE "follower")
    /\ UNCHANGED <<key, late, phase, clearing, faults>>

(* Mutant of Claimed: the reply is taken for the new role.                 *)
ClaimedByReply(m) ==
    /\ Answered(m, "claim")
    /\ Return(m, IF reply[m] = "set" THEN "leader" ELSE reply[m])
    /\ UNCHANGED <<key, late, phase, clearing, faults>>

(* checkCanBecomeLeader after setLeaderIfNotExists.                        *)
Claimed(m) ==
    /\ Answered(m, "claim")
    /\ Return(m, IF reply[m] = "set" THEN "leader" ELSE "follower")
    /\ UNCHANGED <<key, late, phase, clearing, faults>>

(* The command times out.                                                  *)
CommandFails(m) ==
    /\ faults = "possible"
    /\ check[m] # "none"
    /\ late' = late \cup GivenUp(m)
    /\ Return(m, RoleOnError(m))
    /\ UNCHANGED <<key, phase, clearing, faults>>

(* client.destroy: a check still under way gets an error.                  *)
Destroy(m, lost) ==
    /\ phase' = [phase EXCEPT ![m] = "off"]
    /\ clearing' = [clearing EXCEPT ![m] = "no"]
    /\ late' = late \cup GivenUp(m) \cup lost
    /\ Return(m, RoleOnError(m))
    /\ UNCHANGED <<key, faults>>

(* shutdown: a leader clears the key first.                                *)
Shutdown(m) ==
    /\ faults = "possible"
    /\ phase[m] = "up"
    /\ IF role[m] = "leader"
         THEN /\ phase' = [phase EXCEPT ![m] = "closing"]
              /\ clearing' = [clearing EXCEPT ![m] = "sent"]
              /\ UNCHANGED <<key, late, role, check, reply, faults, seen>>
         ELSE Destroy(m, {})

(* clearLeader: DEL, whoever holds the key.                                *)
ExecuteClear(m) ==
    /\ clearing[m] = "sent"
    /\ clearing' = [clearing EXCEPT ![m] = "done"]
    /\ key' = None
    /\ KeepObserving
    /\ UNCHANGED <<late, phase, role, check, reply, faults>>

Cleared(m) ==
    /\ clearing[m] = "done"
    /\ Destroy(m, {})

ClearFails(m) ==
    /\ faults = "possible"
    /\ clearing[m] # "no"
    /\ Destroy(m, IF clearing[m] = "sent" THEN {<<m, "del">>} ELSE {})

(* The process is killed.                                                  *)
Crash(m) ==
    /\ faults = "possible"
    /\ phase[m] # "off"
    /\ Destroy(m, IF clearing[m] = "sent" THEN {<<m, "del">>} ELSE {})

(* From here on Redis is available, and the mains that run keep running.   *)
FaultsEnd ==
    /\ faults = "possible"
    /\ \E m \in Mains : phase[m] = "up"
    /\ faults' = "over"
    /\ UNCHANGED <<key, late, mainVars, seen>>

-----------------------------------------------------------------------------

HandleReply(m) ==
    \/ Initialised(m) \/ CheckAreWeStillLeader(m) \/ Reclaimed(m)
    \/ CheckCanBecomeLeader(m) \/ Claimed(m) \/ Cleared(m)

Step(m) == Execute(m) \/ ExecuteClear(m) \/ HandleReply(m)

Next ==
    \/ \E m \in Mains :
         \/ Boot(m) \/ CheckLeader(m) \/ Step(m) \/ ExecuteUnanswered(m)
         \/ CommandFails(m) \/ Shutdown(m) \/ ClearFails(m) \/ Crash(m)
         \/ \E command \in {"set", "del"} : ExecuteLate(m, command)
    \/ Expire
    \/ FaultsEnd

Spec == Init /\ [][Next]_vars

(* The interval timer fires, Redis executes and answers what it is sent,   *)
(* and a key that nobody renews expires.  Nothing else has to happen.      *)
FairSpec ==
    /\ Spec
    /\ \A m \in Mains :
         /\ WF_vars(CheckLeader(m))
         /\ WF_vars(Step(m))
         /\ \A command \in {"set", "del"} : WF_vars(ExecuteLate(m, command))
    /\ WF_vars(Expire)

-----------------------------------------------------------------------------
(* Properties.                                                             *)

(* The assertions of checkAreWeStillLeader, checkCanBecomeLeader,          *)
(* takeOverAsLeader and stepDownToFollower hold whenever a reply or an     *)
(* error arrives, although the role was read before the command was sent.  *)
AssertionsHold ==
    \A m \in Mains :
        /\ check[m] \in {"renew", "reclaim"} => role[m] = "leader"
        /\ check[m] \in {"init", "get", "claim"} => role[m] # "leader"

(* Every change of role is justified by the key: a main that takes over    *)
(* held the key at some moment of the check that decides it, and one that  *)
(* steps down did not, at some moment of it, whatever happened to the key, *)
(* to replies and to older commands in between.                            *)
RoleFollowsKey ==
    [][\A m \in Mains :
         /\ (role[m] # "leader" /\ role'[m] = "leader") => "held" \in seen[m]
         /\ (role[m] = "leader" /\ role'[m] = "follower") => "not held" \in seen[m]]_vars

Leaders == {m \in Mains : phase[m] = "up" /\ role[m] = "leader"}

(* The comment of checkAreWeStillLeader: "this might cause some            *)
(* inconsistencies in a network partition scenario, but eventually the     *)
(* system will recover once Redis is available again".  However many       *)
(* leaders or none there are when things calm down, in the end there is    *)
(* exactly one, and it holds the key.                                      *)
Recovers == [](faults = "over" => <>[](Leaders = {key}))
=============================================================================
