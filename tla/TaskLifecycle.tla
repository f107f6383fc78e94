---------------------------- MODULE TaskLifecycle ---------------------------
(***************************************************************************)
(* What the scheduler promises about a task, without its threads, queues   *)
(* and locks: a task waits, runs or is revoked, is over once, and every    *)
(* write of its operation is one of those below.  Scheduler implements     *)
(* this; the front ends (InferService, InferenceScenario) are built on it. *)
(***************************************************************************)
EXTENDS InternalModels

CONSTANT Tasks

VARIABLES
    operations,     \* OpRepository::operations_, by operation id
    fate,           \* of each task
    asked,          \* of each task, whether its cancel_requested flag is set
    id              \* the operation id of each task; only read here

taskVars == <<operations, fate, asked>>

Fate == {"outside", "waiting", "running", "revoked", "over"}

Init ==
    /\ \A i \in DOMAIN operations : operations[i] = Absent
    /\ fate = [t \in Tasks |-> "outside"]
    /\ asked = [t \in Tasks |-> FALSE]

\* Scheduler::updateOperation, a write that creates.
Write(t, op) == operations' = [operations EXCEPT ![id[t]] = op]

Becomes(t, from, to) ==
    /\ fate[t] = from
    /\ fate' = [fate EXCEPT ![t] = to]

-----------------------------------------------------------------------------
\* The submission: an operation is added, and the task admitted or refused.

Add(t) ==
    /\ Write(t, Op("PENDING", "none"))
    /\ fate[t] = "outside"
    /\ UNCHANGED <<fate, asked>>

Admit(t) ==
    /\ Becomes(t, "outside", "waiting")
    /\ UNCHANGED <<operations, asked>>

Refuse(t) ==
    /\ Write(t, Op("FAILURE", "none"))
    /\ fate[t] = "outside"
    /\ UNCHANGED <<fate, asked>>

\* Cancelling: the flag, then a revocation and its report, or a request.

Ask(t) ==
    /\ asked' = [asked EXCEPT ![t] = TRUE]
    /\ UNCHANGED <<operations, fate>>

\* A waiting set erases the first task of that id and may set its flag.
Revoke(t) ==
    /\ \E u \in Tasks : asked[u] /\ id[u] = id[t]
    /\ Becomes(t, "waiting", "revoked")
    /\ asked' = [asked EXCEPT ![t] = TRUE]
    /\ UNCHANGED operations

ReportRevoked(t) ==
    /\ Write(t, Op("CANCELED", "before"))
    /\ Becomes(t, "revoked", "over")
    /\ UNCHANGED asked

RequestCancel(t) ==
    /\ Write(t, Op("CANCEL_REQUESTED", "none"))
    /\ asked[t]
    /\ UNCHANGED <<fate, asked>>

\* The execution.

\* Slip: the flag is not looked at.
Skip_Unasked(t) ==
    /\ Write(t, Op("CANCELED", "before"))
    /\ Becomes(t, "waiting", "over")
    /\ UNCHANGED asked

Skip(t) ==
    /\ asked[t]
    /\ Becomes(t, "waiting", "over")
    /\ Write(t, Op("CANCELED", "before"))
    /\ UNCHANGED asked

Start(t) ==
    /\ Becomes(t, "waiting", "running")
    /\ Write(t, Op("ONGOING", "none"))
    /\ UNCHANGED asked

Settle(t) ==
    /\ Becomes(t, "running", "over")
    /\ \/ Write(t, Op("SUCCESS", "none"))
       \/ Write(t, Op("FAILURE", "none"))
       \/ asked[t] /\ Write(t, Op("CANCELED", "during"))
    /\ UNCHANGED asked

\* An exception that execute() does not catch takes the task that runs and
\* the rest of its unit with it; no operation is written.
Abandon(t) ==
    /\ fate[t] = "running"
    /\ \E rest \in SUBSET {u \in Tasks : fate[u] = "waiting"} :
          fate' = [u \in Tasks |-> IF u \in rest \cup {t} THEN "over" ELSE fate[u]]
    /\ UNCHANGED <<operations, asked>>

\* A client deletes the operation, whatever has become of the task.
Delete(i) ==
    /\ operations' = [operations EXCEPT ![i] = Absent]
    /\ UNCHANGED <<fate, asked>>

Submission(t) == Add(t) \/ Admit(t) \/ Refuse(t)
Canceling(t)  == Ask(t) \/ Revoke(t) \/ ReportRevoked(t) \/ RequestCancel(t)
Execution(t)  == Skip(t) \/ Start(t) \/ Settle(t) \/ Abandon(t)

Next ==
    \/ \E t \in Tasks : Submission(t) \/ Canceling(t) \/ Execution(t)
    \/ \E i \in DOMAIN operations : Delete(i)

Spec == Init /\ [][Next]_taskVars
=============================================================================
