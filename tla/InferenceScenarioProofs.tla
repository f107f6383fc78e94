----------------------- MODULE InferenceScenarioProofs -----------------------
(***************************************************************************)
(* Theorems about scenarios, for any number of them, with and without an   *)
(* operation updater, run and stopped any number of times.                 *)
(***************************************************************************)
EXTENDS InferenceScenario, TLAPS

StepFailures == {"Bad_Request", "Service_Unavailable"}

Codes == {"Accepted", "precheck", "stopped"} \cup StepFailures

Types ==
    /\ TypeOK
    /\ fate \in [Tasks -> Lifecycle!Fate]
    /\ request \in [Tasks -> Request]
    /\ stop_signal_ \in [Tasks -> BOOLEAN]
    /\ answers \in [Tasks -> SUBSET Codes]

Failing(t) == current_step_[t] = "Failed" \/ pc[t] \in {"read", "write", "fail"}

(***************************************************************************)
(* Where the machine is tells what it has done: it has submitted exactly   *)
(* when it is past DispatchInference, its terminal code is a failure       *)
(* exactly when a step has failed, and a request that precheck() refuses   *)
(* never starts it.                                                        *)
(***************************************************************************)
MachineInv(t) ==
    /\ submissions[t] = IF current_step_[t] \in {"FinalizeAccepted", "Done"} THEN 1 ELSE 0
    /\ terminal_code_[t] = "Accepted" <=> ~ Failing(t)
    /\ pc[t] \in {"read", "write", "fail"} =>
          current_step_[t] \in {"ValidateRequest", "Preprocess", "DispatchInference"}
    /\ ~ Precheck(t) => pc[t] = "idle" /\ current_step_[t] = "ValidateRequest"
    /\ pc[t] = "idle" /\ answers[t] = {} => current_step_[t] = "ValidateRequest"

\* What has been answered tells where the machine is, whoever runs it next.
AnswerInv(t) ==
    /\ "Accepted" \in answers[t] => current_step_[t] = "Done"
    /\ answers[t] \cap StepFailures # {} => current_step_[t] = "Failed"
    /\ "precheck" \in answers[t] => ~ Precheck(t)
    /\ "stopped" \in answers[t] => stop_signal_[t] /\ pc[t] \in {"idle", "loop"}

\* The scheduler writes nothing about a task it was not given.
OperationInv(t) ==
    /\ submissions[t] = 0 => fate[t] = "outside"
    /\ t \in Updating /\ (pc[t] = "fail" \/ current_step_[t] = "Failed") =>
          operations[t] \in {Op("FAILURE", "none"), Absent}

ScenarioInv(t) == MachineInv(t) /\ AnswerInv(t) /\ OperationInv(t)

IInv == Types /\ \A t \in Tasks : ScenarioInv(t)

LEMMA InitIInv == Init => IInv
<1> SUFFICES ASSUME Init PROVE IInv  OBVIOUS
<1> USE DEF Init, Lifecycle!Init
<1>1. Types
  BY DEF Types, TypeOK, Lifecycle!Fate, OperationInfo, Absent, Op, Step
<1>2. ASSUME NEW t \in Tasks PROVE ScenarioInv(t)
  BY DEF ScenarioInv, MachineInv, Failing, AnswerInv, OperationInv
<1> QED  BY <1>1, <1>2 DEF IInv

-----------------------------------------------------------------------------
(***************************************************************************)
(* A step of another scenario, and every step that leaves a scenario's own *)
(* state alone, keeps what is known of it.                                 *)
(***************************************************************************)
LEMMA Frame ==
    ASSUME NEW t \in Tasks, ScenarioInv(t),
           request'[t] = request[t], stop_signal_'[t] = stop_signal_[t],
           current_step_'[t] = current_step_[t], terminal_code_'[t] = terminal_code_[t],
           pc'[t] = pc[t], submissions'[t] = submissions[t], answers'[t] = answers[t],
           OperationInv(t)'
    PROVE  ScenarioInv(t)'
BY DEF ScenarioInv, MachineInv, Failing, AnswerInv, Precheck

LEMMA WriteEffect ==
    ASSUME Types, NEW t \in Tasks, NEW state \in OperationState, NEW message \in Message,
           Lifecycle!Write(t, Lifecycle!Op(state, message))
    PROVE  /\ operations' \in [Tasks -> OperationInfo \cup {Absent}]
           /\ operations'[t] = Op(state, message)
           /\ \A u \in Tasks \ {t} : operations'[u] = operations[u]
<1>1. operations \in [Tasks -> OperationInfo \cup {Absent}]  BY DEF Types, TypeOK
<1>2. operations' = [operations EXCEPT ![t] = Op(state, message)]
  BY DEF Lifecycle!Write, Lifecycle!Op, Op
<1>3. Op(state, message) \in OperationInfo  BY DEF Op, OperationInfo
<1> QED  BY <1>1, <1>2, <1>3

(***************************************************************************)
(* Whatever the scheduler does for task t, it writes no other operation,   *)
(* and a task that is outside stays there unless it is admitted.           *)
(***************************************************************************)
LEMMA SchedulerEffect ==
    ASSUME Types, NEW t \in Tasks,
           \/ Lifecycle!Submission(t) \/ Lifecycle!Canceling(t) \/ Lifecycle!Execution(t)
           \/ Lifecycle!Delete(t)
    PROVE  /\ operations' \in [Tasks -> OperationInfo \cup {Absent}]
           /\ fate' \in [Tasks -> Lifecycle!Fate]
           /\ \A u \in Tasks \ {t} : operations'[u] = operations[u]
           /\ \A u \in Tasks \ {t} : fate[u] = "outside" => fate'[u] = "outside"
           /\ fate[t] = "outside" /\ ~ Lifecycle!Admit(t) => fate'[t] = "outside"
<1> DEFINE Effect ==
      /\ operations' \in [Tasks -> OperationInfo \cup {Absent}]
      /\ \A u \in Tasks \ {t} : operations'[u] = operations[u]
<1> USE DEF Types, TypeOK, Lifecycle!Fate, Lifecycle!Becomes
<1>1. ASSUME NEW state \in OperationState, NEW message \in Message,
             Lifecycle!Write(t, Lifecycle!Op(state, message))
      PROVE  Effect
  BY <1>1, WriteEffect
<1>2. /\ {"PENDING", "FAILURE", "CANCELED", "CANCEL_REQUESTED", "ONGOING", "SUCCESS"}
            \subseteq OperationState
      /\ {"none", "before", "during"} \subseteq Message
  BY DEF OperationState, Message
<1>3. UNCHANGED operations => Effect  OBVIOUS
<1> HIDE DEF Effect
<1>4. CASE Lifecycle!Submission(t)
  <2>1. Effect
    BY <1>1, <1>2, <1>3, <1>4
    DEF Lifecycle!Submission, Lifecycle!Add, Lifecycle!Admit, Lifecycle!Refuse
  <2> QED
    BY <1>4, <2>1
    DEF Effect, Lifecycle!Submission, Lifecycle!Add, Lifecycle!Admit, Lifecycle!Refuse
<1>5. CASE Lifecycle!Canceling(t)
  <2>1. Effect
    BY <1>1, <1>2, <1>3, <1>5
    DEF Lifecycle!Canceling, Lifecycle!Ask, Lifecycle!Revoke, Lifecycle!ReportRevoked,
        Lifecycle!RequestCancel
  <2> QED
    BY <1>5, <2>1
    DEF Effect, Lifecycle!Canceling, Lifecycle!Ask, Lifecycle!Revoke, Lifecycle!ReportRevoked,
        Lifecycle!RequestCancel
<1>6. CASE Lifecycle!Execution(t)
  <2>1. Effect
    BY <1>1, <1>2, <1>3, <1>6
    DEF Lifecycle!Execution, Lifecycle!Skip, Lifecycle!Start, Lifecycle!Settle,
        Lifecycle!Abandon
  <2> QED
    BY <1>6, <2>1
    DEF Effect, Lifecycle!Execution, Lifecycle!Skip, Lifecycle!Start, Lifecycle!Settle,
        Lifecycle!Abandon
<1>7. CASE Lifecycle!Delete(t)
  <2>1. Effect  BY <1>7 DEF Effect, Lifecycle!Delete, Lifecycle!Absent, Absent
  <2> QED  BY <1>7, <2>1 DEF Effect, Lifecycle!Delete
<1> QED  BY <1>4, <1>5, <1>6, <1>7

\* The state of a scenario that only its own steps change.
Same(u) ==
    /\ request'[u] = request[u] /\ stop_signal_'[u] = stop_signal_[u]
    /\ current_step_'[u] = current_step_[u] /\ terminal_code_'[u] = terminal_code_[u]
    /\ pc'[u] = pc[u] /\ submissions'[u] = submissions[u] /\ answers'[u] = answers[u]

LEMMA OneScenario ==
    ASSUME IInv, Types', NEW t \in Tasks, ScenarioInv(t)',
           \A u \in Tasks \ {t} : /\ Same(u) /\ operations'[u] = operations[u]
                                  /\ fate[u] = "outside" => fate'[u] = "outside"
    PROVE  IInv'
<1>1. ASSUME NEW u \in Tasks \ {t} PROVE ScenarioInv(u)'
  <2>1. ScenarioInv(u) /\ Same(u)  BY DEF IInv
  <2>2. OperationInv(u)'  BY <2>1 DEF Same, ScenarioInv, OperationInv
  <2> QED  BY <2>1, <2>2, Frame DEF Same
<1> QED  BY <1>1 DEF IInv

-----------------------------------------------------------------------------
\* run(): the steps that neither submit nor report.
LEMMA LoopInv ==
    ASSUME IInv, NEW t \in Tasks,
           \/ RunRefused(t) \/ Run(t) \/ LoopStops(t) \/ LoopGoesOn(t)
           \/ ValidateRequest(t) \/ Preprocess(t) \/ FinalizeAccepted(t) \/ Finish(t)
           \/ UpdateReads(t) \/ Failed(t)
    PROVE  IInv'
<1>1. Types /\ ScenarioInv(t)  BY DEF IInv
<1>2. ASSUME Types', ScenarioInv(t)', \A u \in Tasks \ {t} : Same(u), UNCHANGED schedulerVars
      PROVE  IInv'
  BY <1>2, OneScenario DEF schedulerVars
<1> USE DEF Types, TypeOK, Goto, Answer, schedulerVars, historyVars, ScenarioInv,
            MachineInv, AnswerInv, OperationInv, Failing, StepFailures, Same, Codes
<1>3. CASE RunRefused(t)
  <2>1. Types' /\ \A u \in Tasks \ {t} : Same(u)  BY <1>1, <1>3 DEF RunRefused
  <2>2. ScenarioInv(t)'  BY <1>1, <1>3 DEF RunRefused, Precheck
  <2> QED  BY <1>2, <1>3, <2>1, <2>2 DEF RunRefused
<1>4. CASE Run(t)
  <2>1. Types' /\ \A u \in Tasks \ {t} : Same(u)  BY <1>1, <1>4 DEF Run
  <2>2. ScenarioInv(t)'  BY <1>1, <1>4 DEF Run, Precheck
  <2> QED  BY <1>2, <1>4, <2>1, <2>2 DEF Run
<1>5. CASE LoopStops(t)
  <2>1. Types' /\ \A u \in Tasks \ {t} : Same(u)  BY <1>1, <1>5 DEF LoopStops
  <2>2. ScenarioInv(t)'  BY <1>1, <1>5 DEF LoopStops, Precheck
  <2> QED  BY <1>2, <1>5, <2>1, <2>2 DEF LoopStops
<1>6. CASE LoopGoesOn(t)
  <2>1. Types' /\ \A u \in Tasks \ {t} : Same(u)  BY <1>1, <1>6 DEF LoopGoesOn
  <2>2. ScenarioInv(t)'  BY <1>1, <1>6 DEF LoopGoesOn, Precheck
  <2> QED  BY <1>2, <1>6, <2>1, <2>2 DEF LoopGoesOn
<1>7. CASE ValidateRequest(t)
  <2>1. Types' /\ \A u \in Tasks \ {t} : Same(u)
    BY <1>1, <1>7 DEF ValidateRequest, Succeed, Fail, Step
  <2>2. ScenarioInv(t)'  BY <1>1, <1>7 DEF ValidateRequest, Succeed, Fail, Precheck
  <2> QED  BY <1>2, <1>7, <2>1, <2>2 DEF ValidateRequest
<1>8. CASE Preprocess(t)
  <2>1. Types' /\ \A u \in Tasks \ {t} : Same(u)
    BY <1>1, <1>8 DEF Preprocess, Succeed, Fail, Step
  <2>2. CASE Succeed(t, "Preprocess", "DispatchInference") /\ UNCHANGED terminal_code_
    <3>1. ScenarioInv(t)'  BY <1>1, <1>8, <2>2 DEF Preprocess, Succeed, Precheck
    <3> QED  BY <1>2, <1>8, <2>1, <3>1 DEF Preprocess
  <2>3. CASE Fail(t, "Preprocess", "Bad_Request")
    <3>1. ScenarioInv(t)'  BY <1>1, <1>8, <2>3 DEF Preprocess, Fail, Precheck
    <3> QED  BY <1>2, <1>8, <2>1, <3>1 DEF Preprocess
  <2> QED  BY <1>8, <2>2, <2>3 DEF Preprocess
<1>9. CASE FinalizeAccepted(t)
  <2>1. Types' /\ \A u \in Tasks \ {t} : Same(u)
    BY <1>1, <1>9 DEF FinalizeAccepted, Succeed, Step
  <2>2. ScenarioInv(t)'  BY <1>1, <1>9 DEF FinalizeAccepted, Succeed, Precheck
  <2> QED  BY <1>2, <1>9, <2>1, <2>2 DEF FinalizeAccepted
<1>10. CASE Finish(t)
  <2>1. Types' /\ \A u \in Tasks \ {t} : Same(u)  BY <1>1, <1>10 DEF Finish
  <2>2. ScenarioInv(t)'  BY <1>1, <1>10 DEF Finish, Precheck
  <2> QED  BY <1>2, <1>10, <2>1, <2>2 DEF Finish
<1>11. CASE UpdateReads(t)
  <2>1. Types' /\ \A u \in Tasks \ {t} : Same(u)  BY <1>1, <1>11 DEF UpdateReads
  <2>2. ScenarioInv(t)'  BY <1>1, <1>11 DEF UpdateReads, Precheck
  <2> QED  BY <1>2, <1>11, <2>1, <2>2 DEF UpdateReads
<1>12. CASE Failed(t)
  <2>1. Types' /\ \A u \in Tasks \ {t} : Same(u)  BY <1>1, <1>12 DEF Failed, Step
  <2>2. ScenarioInv(t)'  BY <1>1, <1>12 DEF Failed, Precheck
  <2> QED  BY <1>2, <1>12, <2>1, <2>2 DEF Failed
<1> QED  BY <1>3, <1>4, <1>5, <1>6, <1>7, <1>8, <1>9, <1>10, <1>11, <1>12

\* run(): the steps that reach the scheduler or the repository.
LEMMA DispatchInv ==
    ASSUME IInv, NEW t \in Tasks, DispatchInference(t) \/ DispatchFails(t) \/ UpdateWrites(t)
    PROVE  IInv'
<1>1. Types /\ ScenarioInv(t)  BY DEF IInv
<1>2. /\ operations' \in [Tasks -> OperationInfo \cup {Absent}]
      /\ fate' \in [Tasks -> Lifecycle!Fate]
      /\ \A u \in Tasks \ {t} : operations'[u] = operations[u]
      /\ \A u \in Tasks \ {t} : fate[u] = "outside" => fate'[u] = "outside"
  <2>1. ASSUME Lifecycle!Admit(t) \/ Lifecycle!Refuse(t) PROVE <1>2
    BY <1>1, <2>1, SchedulerEffect DEF Lifecycle!Submission
  <2>2. ASSUME UNCHANGED schedulerVars PROVE <1>2
    BY <1>1, <2>2 DEF schedulerVars, Types, TypeOK
  <2>3. ASSUME UpdateWrites(t) PROVE <1>2
    <3>1. "FAILURE" \in OperationState /\ "none" \in Message  BY DEF OperationState, Message
    <3>2. Op("FAILURE", "none") = Lifecycle!Op("FAILURE", "none")  BY DEF Op, Lifecycle!Op
    <3> QED  BY <1>1, <2>3, <3>1, <3>2, WriteEffect DEF UpdateWrites, Types
  <2> QED  BY <2>1, <2>2, <2>3 DEF DispatchInference, DispatchFails
<1>3. ASSUME Types', ScenarioInv(t)', \A u \in Tasks \ {t} : Same(u) PROVE IInv'
  BY <1>2, <1>3, OneScenario
<1> USE DEF Types, TypeOK, Goto, schedulerVars, historyVars, ScenarioInv, MachineInv, AnswerInv,
            OperationInv, Failing, StepFailures, Same, Codes
<1>4. CASE DispatchInference(t)
  <2>1. submissions[t] = 0  BY <1>1, <1>4 DEF DispatchInference, Succeed
  <2>2. Types' /\ \A u \in Tasks \ {t} : Same(u)
    BY <1>1, <1>2, <1>4, <2>1 DEF DispatchInference, Succeed, Step
  <2>3. submissions'[t] = 1 /\ current_step_'[t] = "FinalizeAccepted" /\ pc'[t] = "loop"
    BY <1>1, <1>4, <2>1 DEF DispatchInference, Succeed
  <2>4. MachineInv(t)' /\ AnswerInv(t)'
    BY <1>1, <1>4, <2>3 DEF DispatchInference, Succeed, Precheck
  <2>5. OperationInv(t)'  BY <2>3
  <2> QED  BY <1>3, <2>2, <2>4, <2>5
<1>5. CASE DispatchFails(t)
  <2>1. submissions[t] = 0 /\ fate[t] = "outside"  BY <1>1, <1>5 DEF DispatchFails, Fail
  <2>2. fate'[t] = "outside"
    BY <1>5, <2>1 DEF DispatchFails, Lifecycle!Refuse
  <2>3. Types' /\ \A u \in Tasks \ {t} : Same(u)
    BY <1>1, <1>2, <1>5 DEF DispatchFails, Fail, Step
  <2>4. MachineInv(t)' /\ AnswerInv(t)'  BY <1>1, <1>5 DEF DispatchFails, Fail, Precheck
  <2>5. t \in Updating => pc'[t] = "read" /\ current_step_'[t] = "DispatchInference"
    BY <1>1, <1>5 DEF DispatchFails, Fail
  <2>6. OperationInv(t)'  BY <2>2, <2>5
  <2> QED  BY <1>3, <2>3, <2>4, <2>6
<1>6. CASE UpdateWrites(t)
  <2>1. Types' /\ \A u \in Tasks \ {t} : Same(u)  BY <1>1, <1>2, <1>6 DEF UpdateWrites
  <2>2. MachineInv(t)' /\ AnswerInv(t)'  BY <1>1, <1>6 DEF UpdateWrites, Precheck
  <2>3. operations'[t] = Op("FAILURE", "none")
    BY <1>1, <1>6 DEF UpdateWrites, Lifecycle!Write, Lifecycle!Op, Op
  <2>4. OperationInv(t)'  BY <1>1, <1>6, <2>3 DEF UpdateWrites
  <2> QED  BY <1>3, <2>1, <2>2, <2>4
<1> QED  BY <1>4, <1>5, <1>6

\* The scheduler, the clients, the owner of the scenario, and stopProcess.
LEMMA OthersInv ==
    ASSUME IInv, NEW t \in Tasks,
           StopProcess(t) \/ AddOperation(t) \/ DeleteOperation(t) \/ SchedulerStep(t)
    PROVE  IInv'
<1>1. Types /\ ScenarioInv(t)  BY DEF IInv
<1> USE DEF Types, TypeOK, schedulerVars, historyVars, Same
<1>2. CASE StopProcess(t)
  <2>1. Types' /\ (\A u \in Tasks \ {t} : Same(u)) /\ UNCHANGED schedulerVars
    BY <1>1, <1>2 DEF StopProcess
  <2>2. ScenarioInv(t)'
    BY <1>1, <1>2
    DEF StopProcess, ScenarioInv, MachineInv, AnswerInv, OperationInv, Failing, Precheck
  <2> QED  BY <2>1, <2>2, OneScenario
<1>3. ASSUME Lifecycle!Submission(t) \/ Lifecycle!Canceling(t) \/ Lifecycle!Execution(t)
                \/ Lifecycle!Delete(t),
             \A u \in Tasks : Same(u),
             UNCHANGED <<request, stop_signal_, current_step_, terminal_code_, pc, historyVars>>,
             OperationInv(t)'
      PROVE  IInv'
  <2>1. /\ operations' \in [Tasks -> OperationInfo \cup {Absent}]
        /\ fate' \in [Tasks -> Lifecycle!Fate]
        /\ \A u \in Tasks \ {t} : operations'[u] = operations[u]
        /\ \A u \in Tasks \ {t} : fate[u] = "outside" => fate'[u] = "outside"
    BY <1>1, <1>3, SchedulerEffect
  <2>2. Types'  BY <1>1, <1>3, <2>1
  <2>3. ScenarioInv(t)'  BY <1>1, <1>3, Frame
  <2> QED  BY <1>3, <2>1, <2>2, <2>3, OneScenario
<1>4. CASE AddOperation(t)
  <2>1. current_step_[t] = "ValidateRequest" /\ pc[t] = "idle"
    BY <1>1, <1>4 DEF AddOperation, ScenarioInv, MachineInv
  <2>2. fate'[t] = "outside" /\ Lifecycle!Submission(t)
    BY <1>4 DEF AddOperation, Lifecycle!Add, Lifecycle!Submission
  <2>3. OperationInv(t)'  BY <1>4, <2>1, <2>2 DEF AddOperation, OperationInv
  <2> QED  BY <1>3, <1>4, <2>2, <2>3 DEF AddOperation
<1>5. CASE DeleteOperation(t)
  <2>1. operations'[t] = Absent /\ fate' = fate
    BY <1>1, <1>5 DEF DeleteOperation, Lifecycle!Delete, Lifecycle!Absent, Absent
  <2>2. OperationInv(t)'  BY <1>1, <1>5, <2>1 DEF DeleteOperation, ScenarioInv, OperationInv
  <2> QED  BY <1>3, <1>5, <2>2 DEF DeleteOperation
<1>6. CASE SchedulerStep(t)
  <2>1. fate[t] # "outside"
    BY <1>6 DEF SchedulerStep, Lifecycle!Execution, Lifecycle!Skip, Lifecycle!Start,
                Lifecycle!Settle, Lifecycle!Abandon, Lifecycle!Becomes
  <2>2. submissions[t] # 0  BY <1>1, <2>1 DEF ScenarioInv, OperationInv
  <2>3. OperationInv(t)'
    BY <1>1, <1>6, <2>2 DEF SchedulerStep, ScenarioInv, MachineInv, OperationInv
  <2> QED  BY <1>3, <1>6, <2>3 DEF SchedulerStep
<1> QED  BY <1>2, <1>4, <1>5, <1>6

LEMMA NextIInv == IInv /\ [Next]_vars => IInv'
<1> SUFFICES ASSUME IInv, [Next]_vars PROVE IInv'  OBVIOUS
<1>1. ASSUME NEW t \in Tasks, RunStep(t) PROVE IInv'
  BY <1>1, LoopInv, DispatchInv DEF RunStep
<1>2. CASE UNCHANGED vars
  BY <1>2 DEF vars, schedulerVars, historyVars, IInv, Types, TypeOK, ScenarioInv, MachineInv,
              AnswerInv, OperationInv, Failing, Precheck
<1> QED  BY <1>1, <1>2, OthersInv DEF Next

-----------------------------------------------------------------------------
(***************************************************************************)
(* The scenarios' variables keep their types, and a request is submitted   *)
(* once at most, however often run() is called.                            *)
(***************************************************************************)
THEOREM ScenarioTypeCorrect == Spec => []TypeOK
<1>1. IInv => TypeOK  BY DEF IInv, Types
<1> QED  BY <1>1, InitIInv, NextIInv, PTL DEF Spec

(***************************************************************************)
(* 202 means the request was submitted, and a refusal that it never will   *)
(* be, for every sequence of runs and stops.                               *)
(***************************************************************************)
THEOREM ScenarioAnswersAreTrue == Spec => []AnswersAreTrue
<1>1. IInv => AnswersAreTrue
  BY DEF IInv, Types, TypeOK, ScenarioInv, MachineInv, AnswerInv, AnswersAreTrue, Refused,
         StepFailures, Step
<1> QED  BY <1>1, InitIInv, NextIInv, PTL DEF Spec

(***************************************************************************)
(* A failed step is in the operation once it is in the answer: nobody but  *)
(* the updater writes the operation of a task that was never submitted.    *)
(***************************************************************************)
THEOREM FailuresAreReported == Spec => []FailureIsReported
<1>1. IInv => FailureIsReported
  BY UpdatingAssumption
  DEF IInv, ScenarioInv, AnswerInv, OperationInv, FailureIsReported, StepFailures
<1> QED  BY <1>1, InitIInv, NextIInv, PTL DEF Spec

\* A step for one task writes no other's operation.
LEMMA OneOperation ==
    ASSUME IInv, NEW u \in Tasks, NEW t \in Tasks \ {u},
           RunStep(u) \/ StopProcess(u) \/ AddOperation(u) \/ DeleteOperation(u) \/ SchedulerStep(u)
    PROVE  operations'[t] = operations[t]
<1>1. Types  BY DEF IInv
<1>2. ASSUME Lifecycle!Submission(u) \/ Lifecycle!Canceling(u) \/ Lifecycle!Execution(u)
                \/ Lifecycle!Delete(u)
      PROVE  operations'[t] = operations[t]
  BY <1>1, <1>2, SchedulerEffect
<1>3. CASE RunStep(u)
  <2>1. CASE DispatchInference(u)
    BY <1>2, <2>1 DEF DispatchInference, Lifecycle!Submission, schedulerVars
  <2>2. CASE DispatchFails(u)
    BY <1>2, <2>2 DEF DispatchFails, Lifecycle!Submission, schedulerVars
  <2>3. CASE UpdateWrites(u)
    BY <1>1, <2>3 DEF UpdateWrites, Lifecycle!Write, Types, TypeOK
  <2>4. ASSUME UNCHANGED schedulerVars PROVE operations'[t] = operations[t]
    BY <2>4 DEF schedulerVars
  <2> QED
    BY <1>3, <2>1, <2>2, <2>3, <2>4
    DEF RunStep, RunRefused, Run, LoopStops, LoopGoesOn, ValidateRequest, Preprocess,
        FinalizeAccepted, Finish, UpdateReads, Failed
<1>4. CASE StopProcess(u)  BY <1>4 DEF StopProcess, schedulerVars
<1>5. CASE AddOperation(u)  BY <1>2, <1>5 DEF AddOperation, Lifecycle!Submission
<1>6. CASE DeleteOperation(u)  BY <1>2, <1>6 DEF DeleteOperation
<1>7. CASE SchedulerStep(u)  BY <1>2, <1>7 DEF SchedulerStep
<1> QED  BY <1>3, <1>4, <1>5, <1>6, <1>7

(***************************************************************************)
(* After its first answer a scenario that has submitted nothing writes its *)
(* operation no more: the write of the updater that brings a deleted       *)
(* operation back always comes before.                                     *)
(***************************************************************************)
THEOREM DeletionsAreFinal == Spec => DeletionIsFinal
<1>1. ASSUME IInv, [Next]_vars, NEW t \in Tasks,
             answers[t] # {}, submissions[t] = 0, operations[t] = Absent
      PROVE  operations'[t] = Absent
  <2>1. Types /\ ScenarioInv(t)  BY <1>1 DEF IInv
  <2>2. pc[t] \in {"idle", "loop"} \/ current_step_[t] = "Failed"
    <3>1. "Accepted" \notin answers[t]
      BY <1>1, <2>1 DEF ScenarioInv, MachineInv, AnswerInv
    <3>2. PICK code \in answers[t] : TRUE  BY <1>1
    <3>3. code \in {"precheck", "stopped"} \cup StepFailures
      BY <2>1, <3>1, <3>2 DEF Types, Codes
    <3> QED  BY <2>1, <3>2, <3>3 DEF ScenarioInv, MachineInv, AnswerInv
  <2>3. ASSUME UNCHANGED schedulerVars PROVE operations'[t] = operations[t]
    BY <2>3 DEF schedulerVars
  <2>4. CASE RunStep(t)
    <3>1. ~ DispatchInference(t) /\ ~ DispatchFails(t) /\ ~ UpdateWrites(t)
      BY <2>1, <2>2
      DEF DispatchInference, DispatchFails, UpdateWrites, Succeed, Fail, Goto, ScenarioInv,
          MachineInv
    <3> QED
      BY <1>1, <2>3, <2>4, <3>1
      DEF RunStep, RunRefused, Run, LoopStops, LoopGoesOn, ValidateRequest, Preprocess,
          FinalizeAccepted, Finish, UpdateReads, Failed
  <2>5. CASE StopProcess(t)  BY <1>1, <2>3, <2>5 DEF StopProcess
  <2>6. CASE AddOperation(t)  BY <1>1, <2>6 DEF AddOperation
  <2>7. CASE DeleteOperation(t)
    BY <2>1, <2>7
    DEF DeleteOperation, Lifecycle!Delete, Lifecycle!Absent, Absent, Types, TypeOK
  <2>8. ~ SchedulerStep(t)
    BY <1>1, <2>1
    DEF ScenarioInv, OperationInv, SchedulerStep, Lifecycle!Execution, Lifecycle!Skip,
        Lifecycle!Start, Lifecycle!Settle, Lifecycle!Abandon, Lifecycle!Becomes
  <2>9. CASE UNCHANGED vars  BY <1>1, <2>3, <2>9 DEF vars
  <2>10. ASSUME NEW u \in Tasks \ {t},
                RunStep(u) \/ StopProcess(u) \/ AddOperation(u) \/ DeleteOperation(u)
                   \/ SchedulerStep(u)
         PROVE  operations'[t] = Absent
    BY <1>1, <2>10, OneOperation
  <2> QED  BY <1>1, <2>4, <2>5, <2>6, <2>7, <2>8, <2>9, <2>10 DEF Next
<1>2. IInv /\ [Next]_vars =>
         [\A t \in Tasks :
             answers[t] # {} /\ submissions[t] = 0 /\ operations[t] = Absent =>
                operations'[t] = Absent]_vars
  BY <1>1
<1> QED  BY <1>2, InitIInv, NextIInv, PTL DEF Spec, DeletionIsFinal
=============================================================================
