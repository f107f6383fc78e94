-------------------------- MODULE InferenceScenario -------------------------
(***************************************************************************)
(* A scenario validates a request, preprocesses it and submits it, one     *)
(* step per round of a loop that another thread may stop.  run() may be    *)
(* called again: the step and the stop signal are members and persist.     *)
(* The repository and the scheduler are those of TaskLifecycle, the        *)
(* operation is added (or not) by whoever constructs the scenario.         *)
(***************************************************************************)
EXTENDS InternalModels, FiniteSets

CONSTANTS
    Tasks,          \* the scenarios; one operation and one task each
    Updating        \* those constructed with an OperationUpdater

ASSUME UpdatingAssumption == Updating \subseteq Tasks

VARIABLES
    operations, fate, asked,    \* the repository and the scheduler
    request,                    \* what there is to say against each request
    stop_signal_, current_step_,
    terminal_code_,
    pc,                         \* of the thread inside run()
    submissions,                \* history: the successful calls of submitTask
    answers                     \* history: what run() has returned

schedulerVars == <<operations, fate, asked>>
historyVars   == <<submissions, answers>>

vars == <<schedulerVars, request, stop_signal_, current_step_, terminal_code_, pc, historyVars>>

Lifecycle == INSTANCE TaskLifecycle WITH id <- [t \in Tasks |-> t]

Request == {"fine", "no payload", "no scheduler", "no request_id", "no model_name"}

Step == {"ValidateRequest", "Preprocess", "DispatchInference", "FinalizeAccepted", "Done", "Failed"}

Init ==
    /\ operations = [t \in Tasks |-> Absent]
    /\ Lifecycle!Init
    /\ request \in [Tasks -> Request]
    /\ stop_signal_ = [t \in Tasks |-> FALSE]
    /\ current_step_ = [t \in Tasks |-> "ValidateRequest"]
    /\ terminal_code_ = [t \in Tasks |-> "Accepted"]
    /\ pc = [t \in Tasks |-> "idle"]
    /\ submissions = [t \in Tasks |-> 0]
    /\ answers = [t \in Tasks |-> {}]

Goto(t, from, to) ==
    /\ pc[t] = from
    /\ pc' = [pc EXCEPT ![t] = to]

Answer(t, code) == answers' = [answers EXCEPT ![t] = @ \cup {code}]

-----------------------------------------------------------------------------
\* The owner of the scenario and the clients.

AddOperation(t) ==
    /\ pc[t] = "idle" /\ answers[t] = {}
    /\ Lifecycle!Add(t)
    /\ UNCHANGED <<request, stop_signal_, current_step_, terminal_code_, pc, historyVars>>

DeleteOperation(t) ==
    /\ Lifecycle!Delete(t)
    /\ UNCHANGED <<request, stop_signal_, current_step_, terminal_code_, pc, historyVars>>

\* cancelTask reaches a task from about when it is queued.
SchedulerStep(t) ==
    /\ \/ Lifecycle!Execution(t)
       \/ fate[t] # "outside" /\ Lifecycle!Canceling(t)
    /\ UNCHANGED <<request, stop_signal_, current_step_, terminal_code_, pc, historyVars>>

StopProcess(t) ==
    /\ stop_signal_' = [stop_signal_ EXCEPT ![t] = TRUE]
    /\ UNCHANGED <<schedulerVars, request, current_step_, terminal_code_, pc, historyVars>>

-----------------------------------------------------------------------------
\* run(), with precheck(), which tells the caller and nobody else.

Precheck(t) == request[t] \notin {"no scheduler", "no request_id", "no model_name"}

RunRefused(t) ==
    /\ pc[t] = "idle" /\ ~ Precheck(t)
    /\ Answer(t, "precheck")
    /\ UNCHANGED <<schedulerVars, request, stop_signal_, current_step_, terminal_code_, pc, submissions>>

Run(t) ==
    /\ Precheck(t)
    /\ Goto(t, "idle", "loop")
    /\ UNCHANGED <<schedulerVars, request, stop_signal_, current_step_, terminal_code_, historyVars>>

\* process(): the test of the loop.
LoopStops(t) ==
    /\ stop_signal_[t]
    /\ Goto(t, "loop", "idle")
    /\ Answer(t, "stopped")
    /\ UNCHANGED <<schedulerVars, request, stop_signal_, current_step_, terminal_code_, submissions>>

LoopGoesOn(t) ==
    /\ ~ stop_signal_[t]
    /\ Goto(t, "loop", "step")
    /\ UNCHANGED <<schedulerVars, request, stop_signal_, current_step_, terminal_code_, historyVars>>

\* A step that succeeds, and one that calls fail().
Succeed(t, step, next) ==
    /\ current_step_[t] = step
    /\ Goto(t, "step", "loop")
    /\ current_step_' = [current_step_ EXCEPT ![t] = next]

Fail(t, step, code) ==
    /\ current_step_[t] = step
    /\ Goto(t, "step", IF t \in Updating THEN "read" ELSE "fail")
    /\ terminal_code_' = [terminal_code_ EXCEPT ![t] = code]
    /\ UNCHANGED current_step_

HasPayload(t) == request[t] # "no payload"

ValidateRequest(t) ==
    /\ IF HasPayload(t)
         THEN Succeed(t, "ValidateRequest", "Preprocess") /\ UNCHANGED terminal_code_
         ELSE Fail(t, "ValidateRequest", "Bad_Request")
    /\ UNCHANGED <<schedulerVars, request, stop_signal_, historyVars>>

\* The preprocessor asks what validateRequest has asked.
Preprocess(t) ==
    /\ IF HasPayload(t)
         THEN Succeed(t, "Preprocess", "DispatchInference") /\ UNCHANGED terminal_code_
         ELSE Fail(t, "Preprocess", "Bad_Request")
    /\ UNCHANGED <<schedulerVars, request, stop_signal_, historyVars>>

\* A second submission would be a second task, which is only counted.
DispatchInference(t) ==
    /\ Succeed(t, "DispatchInference", "FinalizeAccepted")
    /\ IF submissions[t] = 0 THEN Lifecycle!Admit(t) ELSE UNCHANGED schedulerVars
    /\ submissions' = [submissions EXCEPT ![t] = @ + 1]
    /\ UNCHANGED <<request, stop_signal_, terminal_code_, answers>>

\* Slip: submitTask answers false of a task it has queued.
DispatchFails_Queued(t) ==
    /\ Fail(t, "DispatchInference", "Service_Unavailable")
    /\ Lifecycle!Admit(t)
    /\ submissions' = [submissions EXCEPT ![t] = @ + 1]
    /\ UNCHANGED <<request, stop_signal_, answers>>

\* The scheduler is stopping, or its queue is full, which it reports itself.
DispatchFails(t) ==
    /\ Fail(t, "DispatchInference", "Service_Unavailable")
    /\ UNCHANGED schedulerVars \/ Lifecycle!Refuse(t)
    /\ UNCHANGED <<request, stop_signal_, historyVars>>

\* Slip: the machine is rewound for the next request.
FinalizeAccepted_Rewinds(t) ==
    /\ Succeed(t, "FinalizeAccepted", "ValidateRequest")
    /\ terminal_code_' = [terminal_code_ EXCEPT ![t] = "Accepted"]
    /\ UNCHANGED <<schedulerVars, request, stop_signal_, historyVars>>

FinalizeAccepted(t) ==
    /\ Succeed(t, "FinalizeAccepted", "Done")
    /\ terminal_code_' = [terminal_code_ EXCEPT ![t] = "Accepted"]
    /\ UNCHANGED <<schedulerVars, request, stop_signal_, historyVars>>

\* Done, whose answer afterProcess() gives, and Failed.
Finish(t) ==
    /\ current_step_[t] \in {"Done", "Failed"}
    /\ Goto(t, "step", "idle")
    /\ Answer(t, terminal_code_[t])
    /\ UNCHANGED <<schedulerVars, request, stop_signal_, current_step_, terminal_code_, submissions>>

-----------------------------------------------------------------------------
\* OperationUpdater::update: a read, and a write if an entry was found.

UpdateReads(t) ==
    /\ Goto(t, "read", IF operations[t] = Absent THEN "fail" ELSE "write")
    /\ UNCHANGED <<schedulerVars, request, stop_signal_, current_step_, terminal_code_, historyVars>>

\* Slip: the entry that was read is written back as it was.
UpdateWrites_Unchanged(t) ==
    /\ Goto(t, "write", "fail")
    /\ UNCHANGED <<schedulerVars, request, stop_signal_, current_step_, terminal_code_, historyVars>>

UpdateWrites(t) ==
    /\ Goto(t, "write", "fail")
    /\ Lifecycle!Write(t, Op("FAILURE", "none"))
    /\ UNCHANGED <<fate, asked, request, stop_signal_, current_step_, terminal_code_, historyVars>>

\* Slip: the failure is not remembered, and the next run() tries again.
Failed_Retries(t) ==
    /\ Goto(t, "fail", "idle")
    /\ Answer(t, terminal_code_[t])
    /\ UNCHANGED <<schedulerVars, request, stop_signal_, current_step_, terminal_code_, submissions>>

Failed(t) ==
    /\ Goto(t, "fail", "loop")
    /\ current_step_' = [current_step_ EXCEPT ![t] = "Failed"]
    /\ UNCHANGED <<schedulerVars, request, stop_signal_, terminal_code_, historyVars>>

-----------------------------------------------------------------------------
RunStep(t) ==
    \/ RunRefused(t) \/ Run(t) \/ LoopStops(t) \/ LoopGoesOn(t)
    \/ ValidateRequest(t) \/ Preprocess(t)
    \/ DispatchInference(t) \/ DispatchFails(t)
    \/ FinalizeAccepted(t) \/ Finish(t)
    \/ UpdateReads(t) \/ UpdateWrites(t) \/ Failed(t)

Next ==
    \E t \in Tasks :
        RunStep(t) \/ StopProcess(t) \/ AddOperation(t) \/ DeleteOperation(t) \/ SchedulerStep(t)

Spec == Init /\ [][Next]_vars

-----------------------------------------------------------------------------
(***************************************************************************)
(* Every variable keeps its type, and a request is submitted once at most, *)
(* however often run() is called.                                          *)
(***************************************************************************)
TypeOK ==
    /\ operations \in [Tasks -> OperationInfo \cup {Absent}]
    /\ current_step_ \in [Tasks -> Step]
    /\ terminal_code_ \in [Tasks -> {"Accepted", "Bad_Request", "Service_Unavailable"}]
    /\ pc \in [Tasks -> {"idle", "loop", "step", "read", "write", "fail"}]
    /\ submissions \in [Tasks -> {0, 1}]

Refused == {"precheck", "Bad_Request", "Service_Unavailable"}

(***************************************************************************)
(* No run() answers 202 without having submitted the request, and none of  *)
(* a request that an earlier or a later run() submits answers that it was  *)
(* refused.  "Inference scenario stopped" is no such answer: the request   *)
(* may have been submitted.                                                *)
(***************************************************************************)
AnswersAreTrue ==
    \A t \in Tasks :
        /\ "Accepted" \in answers[t] => submissions[t] = 1
        /\ answers[t] \cap Refused # {} => submissions[t] = 0

(***************************************************************************)
(* A scenario that has answered that a step failed has left FAILURE in the *)
(* operation, if it was told to update it and the operation is still there.*)
(***************************************************************************)
FailureIsReported ==
    \A t \in Updating :
        answers[t] \cap {"Bad_Request", "Service_Unavailable"} # {} =>
            operations[t] \in {Op("FAILURE", "none"), Absent}

(***************************************************************************)
(* The updater may bring back an operation deleted between its read and    *)
(* its write, but only before the first answer: what a client deletes      *)
(* after that stays deleted, and run() may be called again.                *)
(***************************************************************************)
DeletionIsFinal ==
    [][\A t \in Tasks :
          answers[t] # {} /\ submissions[t] = 0 /\ operations[t] = Absent =>
             operations'[t] = Absent]_vars
=============================================================================
