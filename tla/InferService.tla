---------------------------- MODULE InferService ----------------------------
(***************************************************************************)
(* The operations of InferService that clients submit, poll, cancel and    *)
(* delete through the HTTP handlers, several at a time, over the scheduler *)
(* that TaskLifecycle describes.  An operation is known to clients by the  *)
(* id in the answer to its submission, and that id is a tick of a clock:   *)
(* submissions that read the clock in the same tick share one.             *)
(***************************************************************************)
EXTENDS InternalModels, FiniteSets

CONSTANTS
    Tasks,          \* the submissions
    Cancelers,      \* threads that handle cancel requests
    Ids,            \* operation ids: the ticks that some submission reads
    NoTask, NoId,
    SameTick        \* how many submissions may read the clock in one tick

ASSUME TasksAssumption == IsFiniteSet(Tasks) /\ NoTask \notin Tasks
ASSUME TickAssumption  == SameTick \in Nat \ {0}

ASSUME NoIdAssumption == NoId \notin Ids

VARIABLES
    operations, fate, asked,    \* the repository and the scheduler
    id,                         \* the operation id of each submission
    submit_pc,                  \* submitInferenceRequest, per submission
    cancel_pc,                  \* cancelInference, per canceler,
    cancel_id, cancel_task,     \* the id it was given, the task it found
    known,                      \* the ids in answers clients have received
    told                        \* history: what they were told of outcomes, by id

schedulerVars == <<operations, fate, asked>>
submitVars    == <<id, submit_pc>>
cancelVars    == <<cancel_pc, cancel_id, cancel_task>>
clientVars    == <<known, told>>

vars == <<schedulerVars, submitVars, cancelVars, clientVars>>

Lifecycle == INSTANCE TaskLifecycle

\* What getOperationResult, getOperationStatus and cancelInference say of an
\* operation that is over; of any other they give no outcome.
Outcomes(op) ==
    CASE op.state = "SUCCESS"  -> {"result"}
      [] op.state = "CANCELED" -> {"canceled"}
      [] op.state = "FAILURE"  -> {"failed"}
      [] OTHER                 -> {}

\* What clients hear: outcomes read in the operation, and the cancellation
\* that cancelInference presumes of an operation it does not find again.
Words == {"result", "canceled", "failed", "presumed"}

\* The outcomes that were read in the operation of an id.
OutcomesTold(i) == told[i] \ {"presumed"}

Tell(i, outcomes) == told' = [told EXCEPT ![i] = @ \cup outcomes]

SubmitGoto(t, from, to) ==
    /\ submit_pc[t] = from
    /\ submit_pc' = [submit_pc EXCEPT ![t] = to]

CancelGoto(c, from, to) ==
    /\ cancel_pc[c] = from
    /\ cancel_pc' = [cancel_pc EXCEPT ![c] = to]

\* cancelTask returns, and the task it found goes with it.
TaskReturned(c) == cancel_task' = [cancel_task EXCEPT ![c] = NoTask]

\* What the thread knew goes with it.
CancelReturns(c) ==
    /\ cancel_pc' = [cancel_pc EXCEPT ![c] = "idle"]
    /\ cancel_id' = [cancel_id EXCEPT ![c] = NoId]
    /\ TaskReturned(c)

Init ==
    /\ operations = [i \in Ids |-> Absent]
    /\ Lifecycle!Init
    /\ id = [t \in Tasks |-> NoId]
    /\ submit_pc = [t \in Tasks |-> "new"]
    /\ cancel_pc = [c \in Cancelers |-> "idle"]
    /\ cancel_id = [c \in Cancelers |-> NoId]
    /\ cancel_task = [c \in Cancelers |-> NoTask]
    /\ known = {}
    /\ told = [i \in Ids |-> {}]

-----------------------------------------------------------------------------
\* submitInferenceRequest.

\* The model manager's answer is a choice: unknown and disabled models are
\* refused before anything is created.
ResolveModel(t) ==
    /\ \/ SubmitGoto(t, "new", "resolved")
       \/ SubmitGoto(t, "new", "unavailable")
    /\ UNCHANGED <<schedulerVars, id, cancelVars, clientVars>>

\* Slip: request_info keeps the id it came with.
GenerateOperationIds_NotStored(S, i) ==
    /\ S # {} /\ Cardinality(S) <= SameTick
    /\ i \in Ids /\ \A t \in Tasks : id[t] # i
    /\ \A t \in S : submit_pc[t] = "resolved"
    /\ submit_pc' = [t \in Tasks |-> IF t \in S THEN "named" ELSE submit_pc[t]]
    /\ UNCHANGED <<schedulerVars, id, cancelVars, clientVars>>

\* The threads of S read the clock in the same tick, i, which has not been
\* before and does not come again.  Which tick it is, tells nobody anything.
GenerateOperationIds(S, i) ==
    /\ S # {} /\ Cardinality(S) <= SameTick
    /\ i \in Ids /\ \A t \in Tasks : id[t] # i
    /\ \A t \in S : submit_pc[t] = "resolved"
    /\ submit_pc' = [t \in Tasks |-> IF t \in S THEN "named" ELSE submit_pc[t]]
    /\ id' = [t \in Tasks |-> IF t \in S THEN i ELSE id[t]]
    /\ UNCHANGED <<schedulerVars, cancelVars, clientVars>>

AddOperation(t) ==
    /\ SubmitGoto(t, "named", "added")
    /\ Lifecycle!Add(t)
    /\ UNCHANGED <<id, cancelVars, clientVars>>

\* Slip: submitTask answers false of a task it has queued.
SubmitTaskFails_Queued(t) ==
    /\ SubmitGoto(t, "added", "failing")
    /\ Lifecycle!Admit(t) \/ Lifecycle!Refuse(t)
    /\ UNCHANGED <<id, cancelVars, clientVars>>

\* Where the queue is full the scheduler has written FAILURE itself.
SubmitTaskFails(t) ==
    /\ SubmitGoto(t, "added", "failing")
    /\ UNCHANGED schedulerVars \/ Lifecycle!Refuse(t)
    /\ UNCHANGED <<id, cancelVars, clientVars>>

\* 503, with no id in the answer.
AnswerUnavailable(t) ==
    /\ SubmitGoto(t, "failing", "refused")
    /\ Lifecycle!Write(t, Op("FAILURE", "none"))
    /\ UNCHANGED <<fate, asked, id, cancelVars, clientVars>>

SubmitTask(t) ==
    /\ SubmitGoto(t, "added", "admitted")
    /\ Lifecycle!Admit(t)
    /\ UNCHANGED <<id, cancelVars, clientVars>>

\* 202, with the operation as it was created: PENDING.
AnswerAccepted(t) ==
    /\ SubmitGoto(t, "admitted", "accepted")
    /\ known' = known \cup {id[t]}
    /\ UNCHANGED <<schedulerVars, id, cancelVars, told>>

-----------------------------------------------------------------------------
\* getOperationResult and getOperationStatus, and deleteOperation, which
\* three routes reach and which asks nothing of the operation.

GetOperation(i) ==
    /\ i \in known
    /\ Tell(i, Outcomes(operations[i]))
    /\ UNCHANGED <<schedulerVars, submitVars, cancelVars, known>>

DeleteOperation(i) ==
    /\ i \in known
    /\ Lifecycle!Delete(i)
    /\ UNCHANGED <<submitVars, cancelVars, clientVars>>

-----------------------------------------------------------------------------
\* cancelInference, with what Scheduler::cancelTask does on its way.

Over(i) == operations[i].state \in Finished

\* Finished or unknown: answered without asking the scheduler.
CancelInference(c, i) ==
    /\ i \in known
    /\ IF Over(i) \/ operations[i] = Absent
         THEN /\ cancel_pc[c] = "idle"
              /\ Tell(i, Outcomes(operations[i]) \cap {"canceled"})
              /\ UNCHANGED <<cancel_pc, cancel_id>>
         ELSE /\ CancelGoto(c, "idle", "cancelTask")
              /\ cancel_id' = [cancel_id EXCEPT ![c] = i]
              /\ UNCHANGED told
    /\ UNCHANGED <<schedulerVars, submitVars, cancel_task, known>>

\* A task is tracked by its id from shortly before it waits until shortly
\* after it is over, and forgetting one forgets whichever shares the id.
MayBeUntracked(t) == fate[t] \in {"outside", "over"}
MayBeTracked(t)   == submit_pc[t] \in {"added", "admitted", "accepted"}

\* cancelTask looks again; the answer is 409, or the operation if CANCELED.
CancelTooLate(c) ==
    /\ cancel_pc[c] = "cancelTask"
    /\ LET i == cancel_id[c]
       IN  \/ /\ operations[i].state = "CANCELED"
              /\ CancelGoto(c, "cancelTask", "reread")
              /\ UNCHANGED <<cancel_id, cancel_task>>
           \/ /\ \/ operations[i].state \in Finished \ {"CANCELED"}
                 \/ operations[i] = Absent
                 \/ \E t \in Tasks : id[t] = i /\ MayBeUntracked(t)
              /\ operations[i].state # "CANCELED"
              /\ CancelReturns(c)
    /\ UNCHANGED <<schedulerVars, submitVars, clientVars>>

\* A tracked task of that id is found and its flag set.
CancelFlag(c) ==
    /\ CancelGoto(c, "cancelTask", "revoke")
    /\ operations[cancel_id[c]] # Absent /\ ~ Over(cancel_id[c])
    /\ \E t \in Tasks :
          /\ id[t] = cancel_id[c]
          /\ MayBeTracked(t)
          /\ Lifecycle!Ask(t)
          /\ cancel_task' = [cancel_task EXCEPT ![c] = t]
    /\ UNCHANGED <<submitVars, cancel_id, clientVars>>

CancelRevoke(c) ==
    /\ CancelGoto(c, "revoke", "finalize")
    /\ \E t \in Tasks :
          /\ id[t] = cancel_id[c]
          /\ Lifecycle!Revoke(t)
          /\ cancel_task' = [cancel_task EXCEPT ![c] = t]
    /\ UNCHANGED <<submitVars, cancel_id, clientVars>>

CancelFinalize(c) ==
    /\ CancelGoto(c, "finalize", "reread")
    /\ Lifecycle!ReportRevoked(cancel_task[c])
    /\ TaskReturned(c)
    /\ UNCHANGED <<submitVars, cancel_id, clientVars>>

\* Slip: a task that cannot be revoked is reported as canceled.
CancelRequest_SaysCanceled(c) ==
    /\ CancelGoto(c, "revoke", "reread")
    /\ Lifecycle!Write(cancel_task[c], Op("CANCELED", "before"))
    /\ TaskReturned(c)
    /\ UNCHANGED <<fate, asked, submitVars, cancel_id, clientVars>>

\* Not in a waiting set any more, or not yet.
CancelRequest(c) ==
    /\ CancelGoto(c, "revoke", "reread")
    /\ Lifecycle!RequestCancel(cancel_task[c])
    /\ TaskReturned(c)
    /\ UNCHANGED <<submitVars, cancel_id, clientVars>>

\* 200 or 202 with the operation as it is now.  If it has been deleted the
\* answer is 200 "Operation canceled", whatever has become of the task: it is
\* presumed to be canceled, nobody has looked.
CancelAnswer(c) ==
    /\ cancel_pc[c] = "reread"
    /\ CancelReturns(c)
    /\ LET op == operations[cancel_id[c]]
       IN  Tell(cancel_id[c], IF op = Absent THEN {"presumed"} ELSE Outcomes(op))
    /\ UNCHANGED <<schedulerVars, submitVars, known>>

-----------------------------------------------------------------------------
SubmitStep(t) ==
    \/ ResolveModel(t) \/ AddOperation(t) \/ SubmitTask(t) \/ SubmitTaskFails(t)
    \/ AnswerUnavailable(t) \/ AnswerAccepted(t)

CancelStep(c) ==
    \/ \E i \in Ids : CancelInference(c, i)
    \/ CancelTooLate(c) \/ CancelFlag(c) \/ CancelRevoke(c) \/ CancelFinalize(c)
    \/ CancelRequest(c) \/ CancelAnswer(c)

\* Dispatcher and workers.
ExecutionStep(t) ==
    /\ Lifecycle!Execution(t)
    /\ UNCHANGED <<submitVars, cancelVars, clientVars>>

Next ==
    \/ \E t \in Tasks : SubmitStep(t) \/ ExecutionStep(t)
    \/ \E S \in SUBSET Tasks, i \in Ids : GenerateOperationIds(S, i)
    \/ \E i \in Ids : GetOperation(i) \/ DeleteOperation(i)
    \/ \E c \in Cancelers : CancelStep(c)

Spec == Init /\ [][Next]_vars

-----------------------------------------------------------------------------
(***************************************************************************)
(* Every variable keeps its type.                                          *)
(***************************************************************************)
TypeOK ==
    /\ operations \in [Ids -> OperationInfo \cup {Absent}]
    /\ fate \in [Tasks -> Lifecycle!Fate]
    /\ asked \in [Tasks -> BOOLEAN]
    /\ id \in [Tasks -> Ids \cup {NoId}]
    /\ submit_pc \in [Tasks -> {"new", "unavailable", "resolved", "named", "added", "failing",
                                "refused", "admitted", "accepted"}]
    /\ cancel_pc \in [Cancelers -> {"idle", "cancelTask", "revoke", "finalize", "reread"}]
    /\ cancel_id \in [Cancelers -> Ids \cup {NoId}]
    /\ cancel_task \in [Cancelers -> Tasks \cup {NoTask}]
    /\ known \subseteq Ids
    /\ told \in [Ids -> SUBSET Words]

Unshared(t) == id[t] # NoId /\ \A u \in Tasks \ {t} : id[u] # id[t]

(***************************************************************************)
(* Whatever clients poll, cancel and delete, no two outcomes that clients  *)
(* read in one operation differ: not a result and "canceled", not "failed" *)
(* and a result.  Two things are excepted, and disturb nothing else:       *)
(* operations that share an id, and the "Operation canceled" that          *)
(* InferService.cpp 228 answers of an operation deleted meanwhile, which   *)
(* another client may have been told the result of, or be told it yet.     *)
(***************************************************************************)
AnswersAgree == \A t \in Tasks : Unshared(t) => Cardinality(OutcomesTold(id[t])) <= 1

(***************************************************************************)
(* A submission answered 503 can be sent again: its task is never run, and *)
(* its operation says FAILURE for ever (nobody knows the id to delete it). *)
(***************************************************************************)
RefusedIsDead ==
    \A t \in Tasks :
        submit_pc[t] = "refused" =>
            /\ fate[t] = "outside"
            /\ Unshared(t) => operations[id[t]] = Op("FAILURE", "none")

(***************************************************************************)
(* No operation is reported as canceled that no client asked to cancel,    *)
(* shared ids and the presumption of InferService.cpp 228 included.        *)
(***************************************************************************)
CanceledOnRequest ==
    \A i \in Ids :
        (told[i] \cap {"canceled", "presumed"} # {}
           \/ operations[i].state \in {"CANCELED", "CANCEL_REQUESTED"})
        => \E t \in Tasks : id[t] = i /\ asked[t]

(***************************************************************************)
(* A client that read an outcome is never told "still in progress"         *)
(* afterwards: the operation is that outcome, or deleted, or a late cancel *)
(* request has been written over it.  Of an operation presumed to be       *)
(* canceled (InferService.cpp 228) this is not so: its worker may have     *)
(* looked at the flag before the cancel set it, writes ONGOING after the   *)
(* deletion, and the operation is back.                                    *)
(***************************************************************************)
NoWayBack ==
    [][\A t \in Tasks :
          Unshared(t) /\ OutcomesTold(id[t]) # {} =>
             operations'[id[t]].state \notin {"PENDING", "ONGOING"}]_vars
=============================================================================
