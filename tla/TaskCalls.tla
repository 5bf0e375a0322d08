------------------------------ MODULE TaskCalls ------------------------------
(***************************************************************************)
(* What the task broker promises the Code nodes that call startTask:       *)
(* abstract specification of cli/src/task-runners.                         *)
(*                                                                         *)
(* The code of a call is given to one task, at a moment at which the call  *)
(* waits for it.  A call ends once: it expires before its code was given   *)
(* to a task, and is answered or cancelled after that.  When a runner is   *)
(* lost, exactly the calls fail whose code its tasks have.  Nothing of     *)
(* offers, answers of runners and time limits is left here.                *)
(***************************************************************************)
CONSTANTS
    Requests,   \* calls of startTask
    Runners,
    Tasks       \* pairs of a runner and a number

VARIABLES
    call,       \* what has become of each call
    code        \* which task was given the code of which call

callVars == <<call, code>>

CallsInit ==
    /\ call = [q \in Requests |-> "new"]
    /\ code = {}

Becomes(q, c) == call' = [call EXCEPT ![q] = c]

(* startTask: a broker that drains refuses.                                *)
Ask(q) ==
    /\ call[q] = "new"
    /\ Becomes(q, "requested") \/ Becomes(q, "expired")
    /\ UNCHANGED code

(* The time limit for requests.                                            *)
Expire(q) ==
    /\ call[q] = "requested"
    /\ Becomes(q, "expired")
    /\ UNCHANGED code

(* The settings of a task, and with them the code, go to its runner.       *)
Give(q, t) ==
    /\ call[q] = "requested"
    /\ \A p \in Requests : <<p, t>> \notin code
    /\ Becomes(q, "running")
    /\ code' = code \cup {<<q, t>>}

(* The result of the task, its error or time limit, or the end of the      *)
(* execution.                                                              *)
Answer(q) ==
    /\ call[q] = "running"
    /\ \E result \in {"done", "error", "cancelled"} : Becomes(q, result)
    /\ UNCHANGED code

(* Calls that wait for a task of r.                                        *)
RunningOn(r) ==
    {q \in Requests : call[q] = "running" /\ \E t \in Tasks : t[1] = r /\ <<q, t>> \in code}

(* The runner is deregistered.                                             *)
Lose(r) ==
    /\ call' = [q \in Requests |-> IF q \in RunningOn(r) THEN "error" ELSE call[q]]
    /\ UNCHANGED code

CallsNext ==
    \/ \E q \in Requests : \/ Ask(q) \/ Expire(q) \/ Answer(q)
                           \/ \E t \in Tasks : Give(q, t)
    \/ \E r \in Runners : Lose(r)

CallsSpec == CallsInit /\ [][CallsNext]_callVars
=============================================================================
