----------------------- MODULE SchedulerLifecycleProofs -----------------------
(***************************************************************************)
(* What becomes of a task: theorems about its execution, its cancellation  *)
(* and the outcome clients poll, and that the scheduler implements         *)
(* TaskLifecycle, for any number of tasks, models, clients and workers.    *)
(***************************************************************************)
EXTENDS SchedulerCustodyProofs

(***************************************************************************)
(* Where a task stands with the worker whose current task it is, and with  *)
(* the canceler that has revoked it.                                       *)
(***************************************************************************)
Handling(t, pcs) == \E w \in Workers : Current(t, w, pcs)

AtRecord(t)   == Handling(t, {"record"})
Settled(t)    == Handling(t, {"forget", "record"})
PastInfer(t)  == Handling(t, {"recheck", "settle", "forget", "record"})
Forgetting(t) == \E c \in Cancelers : cancel_pc[c] = "forget" /\ cancel_task[c] = t

(***************************************************************************)
(* The invariant behind the theorems, task by task ...                     *)
(***************************************************************************)
Over(t) == Submitted(t) /\ ~ Revoked(t) /\ (InCustody(t) => Settled(t))

TaskInv(t) ==
    /\ InCustody(t) => t \in tracked_tasks \/ AtRecord(t)
    /\ submit_pc[t] = "enqueue" => t \in tracked_tasks
    /\ t \in tracked_tasks => submit_pc[t] = "enqueue" \/ Submitted(t)
    /\ infers[t] # 0 => infers[t] = 1 /\ Submitted(t) /\ (InCustody(t) => PastInfer(t))
    /\ operations[t].state \in Finished =>
          \/ Over(t)
          \/ submit_pc[t] \in {"failed", "refused"} /\ operations[t] = Op("FAILURE", "none")
    /\ operations[t].state = "SUCCESS" => infers[t] = 1
    /\ operations[t] = Op("CANCELED", "before") => infers[t] = 0
    /\ Submitted(t) /\ (t \notin tracked_tasks \/ Settled(t) \/ Forgetting(t)) =>
          operations[t].state \in Finished \cup {"CANCEL_REQUESTED", "ABSENT"}

(***************************************************************************)
(* ... canceler by canceler: the task is known to the scheduler and its    *)
(* flag is set; one canceler at most has revoked it, from a queue, so that *)
(* nobody holds it and it never reached infer() ...                        *)
(***************************************************************************)
Revoker(c, t) == cancel_pc[c] \in {"finalize", "forget"} /\ cancel_task[c] = t

CancelInv(c) ==
    /\ \A t \in Tasks : Revoker(c, t) =>
          /\ Submitted(t) /\ ~ InCustody(t) /\ infers[t] = 0
          /\ \A d \in Cancelers : Revoker(d, t) => d = c
    /\ cancel_pc[c] \in {"store", "revoke", "finalize", "forget", "request"} =>
          submit_pc[cancel_task[c]] = "enqueue" \/ Submitted(cancel_task[c])
    /\ cancel_pc[c] \in {"revoke", "finalize", "forget", "request"} =>
          cancel_requested[cancel_task[c]]

(***************************************************************************)
(* ... and worker by worker: the outcome it is about to write is true.     *)
(***************************************************************************)
TrueOutcome(op, t) ==
    \/ op = Op("CANCELED", "before") /\ infers[t] = 0 /\ cancel_requested[t]
    \/ op = Op("SUCCESS", "none") /\ infers[t] = 1
    \/ op = Op("FAILURE", "none")
    \/ op = Op("CANCELED", "during") /\ cancel_requested[t]

ExecInv(w) ==
    /\ worker_pc[w] = "recheck" => /\ infers[Head(work[w])] = 1
                                   /\ result[w] \in {Op("SUCCESS", "none"), Op("FAILURE", "none")}
    /\ worker_pc[w] = "settle" => TrueOutcome(result[w], Head(work[w]))

LifeInv ==
    /\ \A t \in Tasks : TaskInv(t)
    /\ \A c \in Cancelers : CancelInv(c)
    /\ \A w \in Workers : ExecInv(w)

\* The invariants of the two modules before.
Ground == IInv /\ NeverRefused /\ CustodyInv

-----------------------------------------------------------------------------
\* A step that leaves alone all that the invariant and the fate of a task
\* depend on.

SameStage(u) ==
    /\ AtRecord(u)' <=> AtRecord(u)
    /\ Settled(u)' <=> Settled(u)
    /\ PastInfer(u)' <=> PastInfer(u)
    /\ Running(u)' <=> Running(u)

SameCancel(u) ==
    /\ Revoked(u)' <=> Revoked(u)
    /\ Forgetting(u)' <=> Forgetting(u)

Same(u) ==
    /\ SameStage(u) /\ SameCancel(u)
    /\ InCustody(u)' <=> InCustody(u)
    /\ u \in tracked_tasks' <=> u \in tracked_tasks
    /\ submit_pc'[u] = submit_pc[u]
    /\ operations'[u] = operations[u]
    /\ infers'[u] = infers[u]

\* Such a task keeps its part of the invariant.
LEMMA SameTask ==
    ASSUME NEW u, TaskInv(u), Same(u)
    PROVE  TaskInv(u)'
  BY DEF TaskInv, Over, Same, SameStage, SameCancel, Submitted

\* The current task of a worker is in nobody else's hands.
LEMMA CurrentTask ==
    ASSUME TypeOK, CustodyInv, NEW w \in Workers, work[w] # <<>>, NEW t, t = Head(work[w])
    PROVE  /\ t \in Tasks /\ InCustody(t) /\ ~ Queued(t) /\ Submitted(t)
           /\ \A v \in Workers : work[v] # <<>> /\ Head(work[v]) = t => v = w
           /\ \A pcs : Handling(t, pcs) <=> worker_pc[w] \in pcs
           /\ Running(t) <=> \/ worker_pc[w] \in {"infer", "recheck"}
                             \/ worker_pc[w] = "settle" /\ result[w] # Op("CANCELED", "before")
<1>1. \A v \in Workers : work[v] # <<>> => Among(Head(work[v]), work[v]) /\ Head(work[v]) \in Tasks
  <2> SUFFICES ASSUME NEW v \in Workers, work[v] # <<>>
               PROVE  Among(Head(work[v]), work[v]) /\ Head(work[v]) \in Tasks
    OBVIOUS
  <2>1. work[v] \in Seq(Tasks)  BY DEF TypeOK
  <2> QED  BY <2>1, TailMembers, HeadTailProperties
<1>2. t \in Tasks /\ AtWorker(t) /\ InCustody(t)  BY <1>1 DEF AtWorker, InCustody
<1>3. ~ Queued(t) /\ Submitted(t)  BY <1>2 DEF CustodyInv, OneHolder, Queued
<1>4. \A v \in Workers : work[v] # <<>> /\ Head(work[v]) = t => v = w
  BY <1>1, <1>2 DEF CustodyInv, OneHolder
<1>5. \A pcs : Handling(t, pcs) <=> worker_pc[w] \in pcs  BY <1>4 DEF Handling, Current
<1>6. Running(t) <=> \/ worker_pc[w] \in {"infer", "recheck"}
                     \/ worker_pc[w] = "settle" /\ result[w] # Op("CANCELED", "before")
  BY <1>4 DEF Running, Current
<1> QED  BY <1>2, <1>3, <1>4, <1>5, <1>6

\* Being handled is being in custody, with a worker.
LEMMA HandledIsHeld ==
    ASSUME TypeOK, CustodyInv, NEW t
    PROVE  /\ AtRecord(t) => Settled(t)
           /\ Settled(t) => PastInfer(t)
           /\ PastInfer(t) \/ Running(t) => InCustody(t) /\ ~ Queued(t)
           /\ ~ (Settled(t) /\ Running(t))
<1>1. ASSUME NEW w \in Workers, NEW pcs, Current(t, w, pcs)
      PROVE  /\ InCustody(t) /\ ~ Queued(t)
             /\ Settled(t) <=> worker_pc[w] \in {"forget", "record"}
             /\ Running(t) => worker_pc[w] \in {"infer", "recheck", "settle"}
  BY <1>1, CurrentTask DEF Current, Settled
<1>2. AtRecord(t) => Settled(t)  BY DEF AtRecord, Settled, Handling, Current
<1>3. Settled(t) => PastInfer(t)  BY DEF PastInfer, Settled, Handling, Current
<1>4. PastInfer(t) \/ Running(t) => InCustody(t) /\ ~ Queued(t)
  BY <1>1 DEF PastInfer, Handling, Running
<1>5. ~ (Settled(t) /\ Running(t))
  <2> SUFFICES ASSUME Settled(t), Running(t) PROVE FALSE  OBVIOUS
  <2>1. PICK w \in Workers : Current(t, w, {"forget", "record"})  BY DEF Settled, Handling
  <2> QED  BY <1>1, <2>1 DEF Current
<1> QED  BY <1>2, <1>3, <1>4, <1>5

\* A worker goes on with its current task.
LEMMA StageMove ==
    ASSUME TypeOK, CustodyInv, NEW w \in Workers, work[w] # <<>>, NEW t, t = Head(work[w]),
           NEW to, worker_pc' = [worker_pc EXCEPT ![w] = to], work' = work,
           \A v \in Workers \ {w} : result'[v] = result[v]
    PROVE  /\ AtRecord(t)' <=> to = "record"
           /\ Settled(t)' <=> to \in {"forget", "record"}
           /\ PastInfer(t)' <=> to \in {"recheck", "settle", "forget", "record"}
           /\ Running(t)' <=> \/ to \in {"infer", "recheck"}
                              \/ to = "settle" /\ result'[w] # Op("CANCELED", "before")
           /\ \A u \in Tasks \ {t} : SameStage(u)
<1>1. /\ worker_pc'[w] = to
      /\ \A v \in Workers \ {w} : worker_pc'[v] = worker_pc[v]
  BY DEF TypeOK
<1>2. \A v \in Workers : work[v] # <<>> /\ Head(work[v]) = t => v = w  BY CurrentTask
<1>3. \A pcs : Handling(t, pcs)' <=> to \in pcs
  BY <1>1, <1>2 DEF Handling, Current
<1>4. Running(t)' <=> \/ to \in {"infer", "recheck"}
                      \/ to = "settle" /\ result'[w] # Op("CANCELED", "before")
  BY <1>1, <1>2 DEF Running, Current
<1>5. ASSUME NEW u \in Tasks \ {t} PROVE SameStage(u)
  <2>1. \A v \in Workers : work[v] # <<>> /\ Head(work[v]) = u => v # w  OBVIOUS
  <2>2. \A pcs : Handling(u, pcs)' <=> Handling(u, pcs)
    BY <1>1, <2>1 DEF Handling, Current
  <2>3. Running(u)' <=> Running(u)  BY <1>1, <2>1 DEF Running, Current
  <2> QED  BY <2>2, <2>3 DEF SameStage, AtRecord, Settled, PastInfer
<1> QED  BY <1>3, <1>4, <1>5 DEF AtRecord, Settled, PastInfer

\* The cancelers' part, in a step of another thread.
LEMMA CancelersKept ==
    ASSUME HandsFull, \A c \in Cancelers : CancelInv(c), UNCHANGED cancelVars,
           \A u \in Tasks :
              /\ Submitted(u) => Submitted(u)'
              /\ submit_pc[u] = "enqueue" => submit_pc'[u] = "enqueue" \/ Submitted(u)'
              /\ Submitted(u) /\ ~ InCustody(u) => ~ InCustody(u)' /\ infers'[u] = infers[u]
              /\ cancel_requested[u] => cancel_requested'[u]
    PROVE  \A c \in Cancelers : CancelInv(c)'
<1> SUFFICES ASSUME NEW c \in Cancelers PROVE CancelInv(c)'  OBVIOUS
<1>1. CancelInv(c)  OBVIOUS
<1>2. cancel_pc' = cancel_pc /\ cancel_task' = cancel_task  BY DEF cancelVars
<1>3. \A d \in Cancelers, u \in Tasks : Revoker(d, u)' <=> Revoker(d, u)  BY <1>2 DEF Revoker
<1>4. ASSUME NEW u \in Tasks, Revoker(c, u)'
      PROVE  /\ Submitted(u)' /\ ~ InCustody(u)' /\ infers'[u] = 0
             /\ \A d \in Cancelers : Revoker(d, u)' => d = c
  BY <1>1, <1>3, <1>4 DEF CancelInv
<1>5. cancel_pc[c] # "idle" => cancel_task[c] \in Tasks  BY DEF HandsFull
<1>6. cancel_pc[c] \in {"store", "revoke", "finalize", "forget", "request"} =>
         submit_pc'[cancel_task[c]] = "enqueue" \/ Submitted(cancel_task[c])'
  BY <1>1, <1>2, <1>5 DEF CancelInv
<1>7. cancel_pc[c] \in {"revoke", "finalize", "forget", "request"} =>
         cancel_requested'[cancel_task[c]]
  BY <1>1, <1>2, <1>5 DEF CancelInv
<1> QED  BY <1>2, <1>4, <1>6, <1>7 DEF CancelInv

\* The workers' part, where a worker stands still.
LEMMA WorkerKept ==
    ASSUME TypeOK, CustodyInv, HandsFull, NEW w \in Workers, ExecInv(w),
           work'[w] = work[w], worker_pc'[w] = worker_pc[w], result'[w] = result[w],
           \A u \in Tasks : cancel_requested[u] => cancel_requested'[u],
           worker_pc[w] \in {"recheck", "settle"} =>
              infers'[Head(work[w])] = infers[Head(work[w])]
    PROVE  ExecInv(w)'
<1>1. CASE worker_pc[w] \in {"recheck", "settle"}
  <2>1. Head(work[w]) \in Tasks  BY <1>1, CurrentTask DEF HandsFull, Busy
  <2> QED  BY <1>1, <2>1 DEF ExecInv, TrueOutcome
<1>2. CASE worker_pc[w] \notin {"recheck", "settle"}  BY <1>2 DEF ExecInv
<1> QED  BY <1>1, <1>2

\* Nothing a worker or a canceler does to its task is seen in a step of
\* another thread.
LEMMA OtherThread ==
    ASSUME NEW u
    PROVE  /\ UNCHANGED workerVars => SameStage(u)
           /\ UNCHANGED cancelVars => SameCancel(u)
  BY DEF SameStage, AtRecord, Settled, PastInfer, Handling, Running, Current, workerVars,
         SameCancel, Revoked, Forgetting, cancelVars

-----------------------------------------------------------------------------
\* Of a task that is not in the scheduler yet there is nothing to tell.
LEMMA NotSubmitted ==
    ASSUME TypeOK, CustodyInv, LifeInv, NEW t \in Tasks, ~ Submitted(t)
    PROVE  /\ ~ InCustody(t) /\ ~ AtRecord(t) /\ ~ Settled(t) /\ ~ PastInfer(t) /\ ~ Running(t)
           /\ ~ Revoked(t) /\ ~ Forgetting(t)
           /\ infers[t] = 0
           /\ operations[t].state \in Finished =>
                 submit_pc[t] \in {"failed", "refused"} /\ operations[t] = Op("FAILURE", "none")
<1>1. ~ InCustody(t)  BY DEF CustodyInv
<1>2. ~ Revoked(t) /\ ~ Forgetting(t)
  BY DEF LifeInv, CancelInv, Revoker, Revoked, Forgetting
<1> QED  BY <1>1, <1>2, HandledIsHeld DEF LifeInv, TaskInv, Over

\* A submission tells the scheduler of its task and writes PENDING or FAILURE.
LEMMA SubmitterLife ==
    ASSUME TypeOK, HandsFull, CustodyInv, LifeInv, NEW t \in Tasks, Submitter(t)
    PROVE  /\ LifeInv'
           /\ \A u \in Tasks \ {t} : Same(u)
<1>1. /\ UNCHANGED <<cancelVars, workerVars, infers, cancel_requested>>
      /\ \A u \in Tasks \ {t} : submit_pc'[u] = submit_pc[u]
  BY DEF Submitter, SubmitUnavailableModel, SubmitInferenceRequest, AdmitCheckStop, AdmitContext,
         AdmitSnapshot, AdmitQueueFull, AdmitWithinLimit, TrackTask, AdmitFIFO, AdmitBatch,
         AdmitModelStat, AdmitNotify, SubmitFailed, SubmitGoto, submitElse, TypeOK
<1>2. \A u \in Tasks \ {t} : /\ operations'[u] = operations[u]
                             /\ u \in tracked_tasks' <=> u \in tracked_tasks
  BY DEF Submitter, SubmitUnavailableModel, SubmitInferenceRequest, AdmitCheckStop, AdmitContext,
         AdmitSnapshot, AdmitQueueFull, AdmitWithinLimit, TrackTask, AdmitFIFO, AdmitBatch,
         AdmitModelStat, AdmitNotify, SubmitFailed, UpdateOperation, submitRest, TypeOK
<1>3. \A u \in Tasks \ {t} : InCustody(u)' <=> InCustody(u)
  BY AdmitCustody, SubmitterStill DEF Still
<1>4. \A u \in Tasks : SameStage(u) /\ SameCancel(u)  BY <1>1, OtherThread
<1>5. \A u \in Tasks \ {t} : Same(u)  BY <1>1, <1>2, <1>3, <1>4 DEF Same
<1>6. Submitted(t) => Submitted(t)'
  BY DEF Submitter, SubmitUnavailableModel, SubmitInferenceRequest, AdmitCheckStop, AdmitContext,
         AdmitSnapshot, AdmitQueueFull, AdmitWithinLimit, TrackTask, AdmitFIFO, AdmitBatch,
         AdmitModelStat, AdmitNotify, SubmitFailed, SubmitGoto, Submitted, TypeOK
<1>7. submit_pc[t] = "enqueue" => Submitted(t)'
  BY DEF Submitter, SubmitUnavailableModel, SubmitInferenceRequest, AdmitCheckStop, AdmitContext,
         AdmitSnapshot, AdmitQueueFull, AdmitWithinLimit, TrackTask, AdmitFIFO, AdmitBatch,
         AdmitModelStat, AdmitNotify, SubmitFailed, SubmitGoto, Submitted, TypeOK
<1>8. Submitted(t) => (InCustody(t)' <=> InCustody(t))
  BY AdmitCustody, SubmitterStill DEF Still, Submitted, AdmitFIFO, AdmitBatch, SubmitGoto
<1>9. \A c \in Cancelers : CancelInv(c)'
  <2>1. \A u \in Tasks :
              /\ Submitted(u) => Submitted(u)'
              /\ submit_pc[u] = "enqueue" => submit_pc'[u] = "enqueue" \/ Submitted(u)'
              /\ Submitted(u) /\ ~ InCustody(u) => ~ InCustody(u)' /\ infers'[u] = infers[u]
              /\ cancel_requested[u] => cancel_requested'[u]
    BY <1>1, <1>3, <1>6, <1>7, <1>8 DEF Submitted
  <2> QED  BY <1>1, <2>1, CancelersKept DEF LifeInv
<1>10. \A w \in Workers : ExecInv(w)'  BY <1>1, WorkerKept DEF LifeInv, workerVars
<1>11. TaskInv(t)'
  <2> USE DEF SubmitGoto, TypeOK
  <2>1. TaskInv(t)  BY DEF LifeInv
  <2>2. CASE submit_pc[t] \in {"stat", "notify"}
    <3>1. /\ operations' = operations /\ tracked_tasks' = tracked_tasks
          /\ submit_pc'[t] \in {"notify", "accepted"}
      BY <2>2 DEF Submitter, SubmitUnavailableModel, SubmitInferenceRequest, AdmitCheckStop,
             AdmitContext, AdmitSnapshot, AdmitQueueFull, AdmitWithinLimit, TrackTask, AdmitFIFO,
             AdmitBatch, AdmitModelStat, AdmitNotify, SubmitFailed
    <3> QED
      BY <1>1, <1>4, <1>8, <2>1, <2>2, <3>1
         DEF TaskInv, Over, SameStage, SameCancel, Submitted
  <2>3. CASE AdmitFIFO(t) \/ AdmitBatch(t)
    <3>1. /\ operations' = operations /\ tracked_tasks' = tracked_tasks
          /\ submit_pc[t] = "enqueue" /\ submit_pc'[t] = "stat"
      BY <2>3 DEF AdmitFIFO, AdmitBatch
    <3> QED
      BY <1>1, <1>4, <2>1, <3>1, NotSubmitted
         DEF TaskInv, Over, SameStage, SameCancel, Submitted
  <2>4. CASE submit_pc[t] \notin {"stat", "notify"} /\ ~ AdmitFIFO(t) /\ ~ AdmitBatch(t)
    <3>1. /\ submit_pc[t] \notin {"enqueue", "accepted", "refused"}
          /\ \/ submit_pc'[t] = "enqueue" /\ tracked_tasks' = tracked_tasks \cup {t}
             \/ submit_pc'[t] \notin {"enqueue", "stat", "notify", "accepted"}
                /\ tracked_tasks' = tracked_tasks
          /\ \/ operations'[t] = operations[t] /\ submit_pc[t] \notin {"failed", "refused"}
             \/ operations'[t] = Op("PENDING", "none")
             \/ operations'[t] = Op("FAILURE", "none") /\ submit_pc'[t] \in {"failed", "refused"}
      BY <2>4 DEF Submitter, SubmitUnavailableModel, SubmitInferenceRequest, AdmitCheckStop,
             AdmitContext, AdmitSnapshot, AdmitQueueFull, AdmitWithinLimit, TrackTask, AdmitFIFO,
             AdmitBatch, AdmitModelStat, AdmitNotify, SubmitFailed, UpdateOperation, submitRest
    <3>2. ~ Submitted(t) /\ ~ Submitted(t)'  BY <2>4, <3>1 DEF Submitted
    <3>3. InCustody(t)' <=> InCustody(t)  BY <2>4, SubmitterStill DEF Still
    <3> QED
      BY <1>1, <1>4, <2>1, <3>1, <3>2, <3>3, NotSubmitted
         DEF TaskInv, SameStage, SameCancel, Submitted, Op, Finished
  <2> QED  BY <2>2, <2>3, <2>4
<1>12. \A u \in Tasks \ {t} : TaskInv(u)'  BY <1>5, SameTask DEF LifeInv
<1> QED  BY <1>5, <1>9, <1>10, <1>11, <1>12 DEF LifeInv

\* A canceler sets a flag, takes a task out of a queue and reports it, or
\* writes a request.
LEMMA CancelLife ==
    ASSUME TypeOK, HandsFull, CustodyInv, LifeInv, NEW c \in Cancelers,
           CancelStep(c) \/ \E t \in Cancelable : CancelBegin(c, t)
    PROVE  /\ LifeInv'
           /\ \A u \in Tasks : cancel_pc[c] = "idle" \/ u # cancel_task[c] => Same(u)
<1>0. PICK t : t = cancel_task[c]  OBVIOUS
<1> USE <1>0 DEF CancelGoto
<1>1. UNCHANGED <<workerVars, submit_pc, infers>>
  BY DEF CancelStep, CancelBegin, CancelUntracked, CancelLookup, CancelFlag, CancelRevokeFIFO,
         CancelRevokeBatch, CancelNotQueued, CancelFinalize, CancelForget, CancelRequest,
         cancelElse, submitVars
<1>2. \A d \in Cancelers \ {c} : cancel_pc'[d] = cancel_pc[d] /\ cancel_task'[d] = cancel_task[d]
  BY DEF CancelStep, CancelBegin, CancelUntracked, CancelLookup, CancelFlag, CancelRevokeFIFO,
         CancelRevokeBatch, CancelNotQueued, CancelFinalize, CancelForget, CancelRequest,
         cancelRest, TypeOK
<1>3. /\ cancel_pc[c] # "idle" => t \in Tasks
      /\ cancel_pc'[c] # "idle" => cancel_task'[c] = t \/ cancel_pc'[c] = "flag"
  BY DEF CancelStep, CancelBegin, CancelUntracked, CancelLookup, CancelFlag, CancelRevokeFIFO,
         CancelRevokeBatch, CancelNotQueued, CancelFinalize, CancelForget, CancelRequest,
         cancelRest, TypeOK, HandsFull
<1>4. /\ \A u \in Tasks : cancel_requested[u] => cancel_requested'[u]
      /\ \A u \in Tasks : cancel_pc[c] = "idle" \/ u # t =>
            operations'[u] = operations[u] /\ (u \in tracked_tasks' <=> u \in tracked_tasks)
  BY <1>3 DEF CancelStep, CancelBegin, CancelUntracked, CancelLookup, CancelFlag,
         CancelRevokeFIFO, CancelRevokeBatch, CancelNotQueued, CancelFinalize, CancelForget,
         CancelRequest, UpdateOperation, cancelRest, TypeOK
<1>5. \A u \in Tasks : /\ InCustody(u)' => InCustody(u)
                       /\ cancel_pc[c] = "idle" \/ u # t => (InCustody(u)' <=> InCustody(u))
  <2>1. CASE CancelRevokeFIFO(c) \/ CancelRevokeBatch(c)
    <3>1. cancel_pc[c] = "revoke"  BY <2>1 DEF CancelRevokeFIFO, CancelRevokeBatch
    <3> QED  BY <1>3, <2>1, <3>1, RevokeCustody
  <2>2. CASE ~ CancelRevokeFIFO(c) /\ ~ CancelRevokeBatch(c)  BY <2>2, CancelStill DEF Still
  <2> QED  BY <2>1, <2>2
<1>6. \/ /\ cancel_pc[c] = "revoke" /\ cancel_pc'[c] = "finalize"
         /\ CancelRevokeFIFO(c) \/ CancelRevokeBatch(c)
      \/ cancel_pc[c] = "finalize" /\ cancel_pc'[c] = "forget" /\ CancelFinalize(c)
      \/ cancel_pc[c] = "forget" /\ cancel_pc'[c] = "idle" /\ CancelForget(c)
      \/ /\ cancel_pc[c] \notin {"finalize", "forget"}
         /\ cancel_pc'[c] \notin {"finalize", "forget"}
         /\ ~ CancelRevokeFIFO(c) /\ ~ CancelRevokeBatch(c)
         /\ tracked_tasks' = tracked_tasks
         /\ operations' = operations \/ CancelRequest(c)
  BY DEF CancelStep, CancelBegin, CancelUntracked, CancelLookup, CancelFlag, CancelRevokeFIFO,
         CancelRevokeBatch, CancelNotQueued, CancelFinalize, CancelForget, CancelRequest,
         cancelRest, TypeOK
<1>7. ASSUME NEW u \in Tasks, cancel_pc[c] = "idle" \/ u # t
      PROVE  Same(u)
  <2>1. SameCancel(u)
    BY <1>2, <1>3, <1>6, <1>7 DEF SameCancel, Revoked, Forgetting
  <2>2. SameStage(u)  BY <1>1, OtherThread
  <2> QED  BY <1>1, <1>4, <1>5, <1>7, <2>1, <2>2 DEF Same
<1>8. CancelInv(c) /\ \A d \in Cancelers : CancelInv(d)  BY DEF LifeInv
<1>9. cancel_pc[c] = "revoke" /\ cancel_pc'[c] = "finalize" =>
         /\ t \in Tasks /\ Queued(t) /\ InCustody(t) /\ ~ InCustody(t)'
         /\ Submitted(t) /\ infers[t] = 0
         /\ operations' = operations /\ tracked_tasks' = tracked_tasks
  <2> SUFFICES ASSUME cancel_pc[c] = "revoke", cancel_pc'[c] = "finalize"
               PROVE  /\ t \in Tasks /\ Queued(t) /\ InCustody(t) /\ ~ InCustody(t)'
                      /\ Submitted(t) /\ infers[t] = 0
                      /\ operations' = operations /\ tracked_tasks' = tracked_tasks
    OBVIOUS
  <2>1. CancelRevokeFIFO(c) \/ CancelRevokeBatch(c)  BY <1>6
  <2>2. t \in Tasks /\ Queued(t) /\ ~ InCustody(t)'  BY <1>3, <2>1, RevokeCustody
  <2>3. InCustody(t) /\ Submitted(t)  BY <2>2 DEF InCustody, CustodyInv
  <2>4. infers[t] = 0  BY <2>2, <2>3, HandledIsHeld DEF LifeInv, TaskInv
  <2> QED  BY <2>1, <2>2, <2>3, <2>4 DEF CancelRevokeFIFO, CancelRevokeBatch
<1>10. \A u \in Tasks :
          Revoker(c, u)' => /\ u = t /\ Submitted(u) /\ ~ InCustody(u)' /\ infers[u] = 0
                            /\ \A d \in Cancelers \ {c} : ~ Revoker(d, u)
  <2> SUFFICES ASSUME NEW u \in Tasks, Revoker(c, u)'
               PROVE  /\ u = t /\ Submitted(u) /\ ~ InCustody(u)' /\ infers[u] = 0
                      /\ \A d \in Cancelers \ {c} : ~ Revoker(d, u)
    OBVIOUS
  <2>1. u = t  BY <1>3 DEF Revoker
  <2>2. CASE cancel_pc[c] = "revoke" /\ cancel_pc'[c] = "finalize"
    BY <1>8, <1>9, <2>1, <2>2 DEF CancelInv
  <2>3. CASE cancel_pc[c] = "finalize"
    <3>1. Revoker(c, u)  BY <2>1, <2>3 DEF Revoker
    <3> QED  BY <1>5, <1>8, <2>1, <3>1 DEF CancelInv
  <2> QED  BY <1>6, <2>2, <2>3 DEF Revoker
<1>11. ASSUME NEW d \in Cancelers \ {c} PROVE CancelInv(d)'
  <2>1. \A u \in Tasks : Revoker(d, u)' <=> Revoker(d, u)  BY <1>2 DEF Revoker
  <2>2. \A u \in Tasks, e \in Cancelers \ {c} : Revoker(e, u)' <=> Revoker(e, u)
    BY <1>2 DEF Revoker
  <2>3. ASSUME NEW u \in Tasks, Revoker(d, u)'
        PROVE  /\ Submitted(u)' /\ ~ InCustody(u)' /\ infers'[u] = 0
               /\ \A e \in Cancelers : Revoker(e, u)' => e = d
    BY <1>1, <1>5, <1>8, <1>10, <2>1, <2>2, <2>3 DEF CancelInv, Submitted
  <2>4. cancel_pc[d] # "idle" => cancel_task[d] \in Tasks  BY DEF HandsFull
  <2> QED  BY <1>1, <1>2, <1>4, <1>8, <2>3, <2>4 DEF CancelInv, Submitted
<1>12. CancelInv(c)'
  <2>1. ASSUME NEW u \in Tasks, Revoker(c, u)'
        PROVE  /\ Submitted(u)' /\ ~ InCustody(u)' /\ infers'[u] = 0
               /\ \A e \in Cancelers : Revoker(e, u)' => e = c
    <3>1. \A e \in Cancelers \ {c} : Revoker(e, u)' <=> Revoker(e, u)  BY <1>2 DEF Revoker
    <3> QED  BY <1>1, <1>10, <2>1, <3>1 DEF Submitted
  <2>2. /\ cancel_pc'[c] \in {"store", "revoke", "finalize", "forget", "request"} =>
              submit_pc[t] = "enqueue" \/ Submitted(t)
        /\ cancel_pc'[c] \in {"revoke", "finalize", "forget", "request"} => cancel_requested'[t]
    <3>1. CASE CancelLookup(c)
      BY <3>1 DEF CancelLookup, LifeInv, TaskInv, TypeOK
    <3>2. CASE CancelFlag(c)
      BY <1>3, <1>8, <3>2 DEF CancelFlag, CancelInv, TypeOK
    <3>3. CASE ~ CancelLookup(c) /\ ~ CancelFlag(c)
      BY <1>3, <1>4, <1>8, <3>3
         DEF CancelStep, CancelBegin, CancelUntracked, CancelRevokeFIFO, CancelRevokeBatch,
             CancelNotQueued, CancelFinalize, CancelForget, CancelRequest, CancelInv, TypeOK
    <3> QED  BY <3>1, <3>2, <3>3
  <2>3. cancel_pc'[c] \in {"store", "revoke", "finalize", "forget", "request"} =>
           cancel_task'[c] = t
    BY <1>3
  <2> QED  BY <1>1, <2>1, <2>2, <2>3 DEF CancelInv, Submitted
<1>13. \A w \in Workers : ExecInv(w)'  BY <1>1, <1>4, WorkerKept DEF LifeInv, workerVars
<1>14. ASSUME t \in Tasks, cancel_pc[c] # "idle" PROVE TaskInv(t)'
  <2>1. TaskInv(t)  BY <1>14 DEF LifeInv
  <2>2. SameStage(t)  BY <1>1, OtherThread
  <2>3. CASE /\ cancel_pc[c] \notin {"finalize", "forget"}
             /\ cancel_pc'[c] \notin {"finalize", "forget"}
    <3>1. SameCancel(t)  BY <1>2, <1>3, <1>14, <2>3 DEF SameCancel, Revoked, Forgetting
    <3>2. InCustody(t)' <=> InCustody(t)
      BY <1>6, <1>14, <2>3, CancelStill DEF Still
    <3>3. tracked_tasks' = tracked_tasks  BY <1>6, <2>3
    <3>4. CASE operations' = operations
      <4>1. Same(t)  BY <1>1, <2>2, <3>1, <3>2, <3>3, <3>4 DEF Same
      <4> QED  BY <2>1, <4>1, SameTask
    <3>5. CASE CancelRequest(c)
      <4>1. operations'[t] = Op("CANCEL_REQUESTED", "none")
        BY <1>14, <3>5 DEF CancelRequest, UpdateOperation, TypeOK
      <4> QED
        BY <1>1, <2>1, <2>2, <3>1, <3>2, <3>3, <4>1
           DEF TaskInv, SameStage, Submitted, Op, Finished
    <3> QED  BY <1>6, <2>3, <3>4, <3>5
  <2>4. CASE cancel_pc[c] = "revoke" /\ cancel_pc'[c] = "finalize"
    <3>1. ~ Settled(t)  BY <1>9, <2>4, HandledIsHeld
    <3>2. operations[t].state \notin Finished
      BY <1>9, <2>1, <2>4, <3>1 DEF TaskInv, Over, Submitted
    <3>3. Forgetting(t)' => Forgetting(t)  BY <1>2, <2>4 DEF Forgetting
    <3> QED
      BY <1>1, <1>9, <2>1, <2>2, <2>4, <3>2, <3>3 DEF TaskInv, SameStage, Submitted, Finished
  <2>5. CASE cancel_pc[c] = "finalize" /\ CancelFinalize(c)
    <3>1. Revoker(c, t) /\ Revoker(c, t)'
      BY <2>5 DEF Revoker, CancelFinalize, cancelVars, TypeOK
    <3>2. /\ Submitted(t) /\ ~ InCustody(t)' /\ infers[t] = 0
          /\ \A d \in Cancelers \ {c} : ~ Revoker(d, t)
      BY <1>10, <1>14, <3>1
    <3>3. ~ Revoked(t)'  BY <1>2, <2>5, <3>2 DEF Revoked, Revoker, CancelFinalize, TypeOK
    <3>4. operations'[t] = Op("CANCELED", "before") /\ tracked_tasks' = tracked_tasks
      BY <1>14, <2>5 DEF CancelFinalize, UpdateOperation, TypeOK
    <3> QED
      BY <1>1, <2>1, <2>2, <3>2, <3>3, <3>4 DEF TaskInv, Over, SameStage, Submitted, Op, Finished
  <2>6. CASE cancel_pc[c] = "forget" /\ CancelForget(c)
    <3>1. Revoker(c, t) /\ Forgetting(t)  BY <2>6 DEF Revoker, Forgetting
    <3>2. /\ Submitted(t) /\ ~ InCustody(t) /\ infers[t] = 0
          /\ \A d \in Cancelers \ {c} : ~ Revoker(d, t)
      BY <1>8, <1>14, <3>1 DEF CancelInv
    <3>3. ~ Revoked(t)' /\ ~ Revoked(t)
      BY <1>2, <2>6, <3>2 DEF Revoked, Revoker, CancelForget, TypeOK
    <3>4. operations' = operations /\ tracked_tasks' = tracked_tasks \ {t}
      BY <2>6 DEF CancelForget
    <3>5. ~ InCustody(t)'  BY <1>5, <1>14, <3>2
    <3> QED
      BY <1>1, <2>1, <2>2, <3>1, <3>2, <3>3, <3>4, <3>5
         DEF TaskInv, Over, SameStage, Submitted, Finished
  <2> QED  BY <1>6, <2>3, <2>4, <2>5, <2>6
<1>15. \A u \in Tasks : TaskInv(u)'
  BY <1>3, <1>7, <1>14, SameTask DEF LifeInv
<1> QED  BY <1>7, <1>11, <1>12, <1>13, <1>15 DEF LifeInv

-----------------------------------------------------------------------------
\* Handing tasks to the pool changes nothing of what is known of them.
LEMMA DispatcherLife ==
    ASSUME TypeOK, HandsFull, NeverRefused, CustodyInv, LifeInv, Dispatcher
    PROVE  /\ LifeInv'
           /\ \A u \in Tasks : Same(u)
           /\ UNCHANGED <<operations, cancel_requested, result>>
<1>1. ~ (Dispatch /\ pool_stop)  BY DEF Dispatch, DispatchGoto, NeverRefused
<1>2. UNCHANGED <<cancelVars, workerVars, submit_pc, infers, cancel_requested, operations,
                  tracked_tasks>>
  BY <1>1 DEF Dispatcher, DispatchLock, DispatchBlock, DispatchTimeout, DispatchDayTimeout,
         DispatchWake, DispatchExit, SelectFIFO, SelectBatch, SelectNothing, Dispatch,
         dispatchElse, dispatchRest, submitVars
<1>3. \A u \in Tasks : InCustody(u)' <=> InCustody(u)
  BY <1>1, SelectCustody, DispatchCustody, DispatcherStill DEF Still
<1>4. \A u \in Tasks : Same(u)  BY <1>2, <1>3, OtherThread DEF Same
<1>5. \A c \in Cancelers : CancelInv(c)'
  BY <1>2, <1>3, CancelersKept DEF LifeInv, Submitted
<1>6. \A w \in Workers : ExecInv(w)'  BY <1>2, WorkerKept DEF LifeInv, workerVars
<1> QED  BY <1>2, <1>4, <1>5, <1>6, SameTask DEF LifeInv, workerVars

\* Nor do the clock and stop().
LEMMA IdleLife ==
    ASSUME TypeOK, HandsFull, CustodyInv, LifeInv,
           (\E t \in Tasks : WindowElapses(t)) \/ StopRequest \/ StopStep \/ UNCHANGED vars
    PROVE  /\ LifeInv'
           /\ \A u \in Tasks : Same(u)
           /\ UNCHANGED <<operations, cancel_requested, result>>
<1>1. UNCHANGED <<cancelVars, workerVars, submit_pc, infers, cancel_requested, operations,
                  tracked_tasks>>
  BY DEF WindowElapses, StopRequest, StopStep, StopNotify, StopJoinDispatcher, StopJoinWorkers,
         stopElse, vars, taskVars, submitVars
<1>2. \A u \in Tasks : InCustody(u)' <=> InCustody(u)  BY OthersStill DEF Still
<1>3. \A u \in Tasks : Same(u)  BY <1>1, <1>2, OtherThread DEF Same
<1>4. \A c \in Cancelers : CancelInv(c)'
  BY <1>1, <1>2, CancelersKept DEF LifeInv, Submitted
<1>5. \A w \in Workers : ExecInv(w)'  BY <1>1, WorkerKept DEF LifeInv, workerVars
<1> QED  BY <1>1, <1>3, <1>4, <1>5, SameTask DEF LifeInv, workerVars

\* A deleted operation claims nothing.
LEMMA DeleteLife ==
    ASSUME TypeOK, HandsFull, CustodyInv, LifeInv, NEW t \in Deletable, DeleteOperation(t)
    PROVE  /\ LifeInv'
           /\ t \in Tasks
           /\ \A u \in Tasks \ {t} : Same(u)
<1>1. /\ UNCHANGED <<cancelVars, workerVars, submit_pc, infers, cancel_requested, tracked_tasks>>
      /\ t \in Tasks
      /\ operations' = [operations EXCEPT ![t] = Absent]
  BY ClientsAssumption DEF DeleteOperation, UpdateOperation, submitVars
<1>2. \A u \in Tasks : InCustody(u)' <=> InCustody(u)  BY OthersStill DEF Still
<1>3. \A u \in Tasks : SameStage(u) /\ SameCancel(u)  BY <1>1, OtherThread
<1>4. \A u \in Tasks \ {t} : Same(u)  BY <1>1, <1>2, <1>3 DEF Same, TypeOK
<1>5. \A c \in Cancelers : CancelInv(c)'
  BY <1>1, <1>2, CancelersKept DEF LifeInv, Submitted
<1>6. \A w \in Workers : ExecInv(w)'  BY <1>1, WorkerKept DEF LifeInv, workerVars
<1>7. TaskInv(t)'
  <2>1. TaskInv(t) /\ operations'[t] = Absent  BY <1>1 DEF LifeInv, TypeOK
  <2> QED
    BY <1>1, <1>2, <1>3, <2>1
       DEF TaskInv, SameStage, SameCancel, Submitted, Absent, Op, Finished
<1> QED  BY <1>1, <1>4, <1>5, <1>6, <1>7, SameTask DEF LifeInv

-----------------------------------------------------------------------------
\* A worker begins with a task, or is done with one: the task it leaves and
\* the task it turns to are at no stage of the execution then.
LEMMA StageEnd ==
    ASSUME TypeOK, CustodyInv, NEW w \in Workers,
           NEW to \in {"idle", "exited", "check"}, worker_pc' = [worker_pc EXCEPT ![w] = to],
           \A v \in Workers \ {w} : work'[v] = work[v] /\ result'[v] = result[v],
           NEW u \in Tasks
    PROVE  /\ \/ worker_pc[w] \in {"idle", "exited", "check"}
              \/ ~ (work[w] # <<>> /\ Head(work[w]) = u)
              => SameStage(u)
           /\ work[w] # <<>> /\ Head(work[w]) = u
                 => ~ AtRecord(u)' /\ ~ Settled(u)' /\ ~ PastInfer(u)' /\ ~ Running(u)'
<1>1. /\ worker_pc'[w] = to
      /\ \A v \in Workers \ {w} : worker_pc'[v] = worker_pc[v]
  BY DEF TypeOK
<1>2. \A pcs : \A v \in Workers \ {w} : Current(u, v, pcs)' <=> Current(u, v, pcs)
  BY <1>1 DEF Current
<1>3. \A pcs : "idle" \notin pcs /\ "exited" \notin pcs /\ "check" \notin pcs
                  => ~ Current(u, w, pcs)'
  BY <1>1 DEF Current
<1>4. /\ AtRecord(u)' <=> \E v \in Workers \ {w} : Current(u, v, {"record"})
      /\ Settled(u)' <=> \E v \in Workers \ {w} : Current(u, v, {"forget", "record"})
      /\ PastInfer(u)' <=> \E v \in Workers \ {w} :
                              Current(u, v, {"recheck", "settle", "forget", "record"})
      /\ Running(u)' <=> \E v \in Workers \ {w} :
            \/ Current(u, v, {"infer", "recheck"})
            \/ Current(u, v, {"settle"}) /\ result[v] # Op("CANCELED", "before")
  BY <1>2, <1>3 DEF AtRecord, Settled, PastInfer, Handling, Running
<1>5. ASSUME worker_pc[w] \in {"idle", "exited", "check"} \/ ~ (work[w] # <<>> /\ Head(work[w]) = u)
      PROVE  SameStage(u)
  <2>1. \A pcs : "idle" \notin pcs /\ "exited" \notin pcs /\ "check" \notin pcs
                  => ~ Current(u, w, pcs)
    BY <1>5 DEF Current
  <2> QED  BY <1>4, <2>1 DEF SameStage, AtRecord, Settled, PastInfer, Handling, Running
<1>6. ASSUME work[w] # <<>>, Head(work[w]) = u
      PROVE  ~ AtRecord(u)' /\ ~ Settled(u)' /\ ~ PastInfer(u)' /\ ~ Running(u)'
  <2>1. \A pcs : \A v \in Workers \ {w} : ~ Current(u, v, pcs)
    BY <1>6, CurrentTask DEF Current
  <2> QED  BY <1>4, <2>1
<1> QED  BY <1>5, <1>6

\* A worker goes through execute() with its current task.
LEMMA MoveLife ==
    ASSUME TypeOK, HandsFull, CustodyInv, LifeInv, NEW w \in Workers, Worker(w),
           ~ TakeUnit(w), ~ WorkerExit(w), ~ ExecuteThrow(w), ~ ExecuteRecord(w),
           NEW t, t = Head(work[w])
    PROVE  /\ LifeInv'
           /\ \A u \in Tasks \ {t} : Same(u)
<1> USE DEF WorkerGoto
<1>1. /\ UNCHANGED <<cancelVars, submit_pc, cancel_requested, work>>
      /\ Busy(w)
      /\ \A v \in Workers \ {w} : result'[v] = result[v] /\ worker_pc'[v] = worker_pc[v]
  BY DEF Worker, ExecuteSkip, ExecuteStart, ExecuteOngoing, ExecuteUnavailableModel, ExecuteInfer,
         ExecuteRecheck, ExecuteSettle, ExecuteForget, workerElse, workerRest, submitVars, Busy,
         TypeOK
<1>2. work[w] # <<>> /\ t \in Tasks /\ InCustody(t) /\ Submitted(t)
  BY <1>1, CurrentTask DEF HandsFull
<1>3. \A u \in Tasks \ {t} : /\ operations'[u] = operations[u]
                             /\ u \in tracked_tasks' <=> u \in tracked_tasks
                             /\ infers'[u] = infers[u]
  BY DEF Worker, ExecuteSkip, ExecuteStart, ExecuteOngoing, ExecuteUnavailableModel, ExecuteInfer,
         ExecuteRecheck, ExecuteSettle, ExecuteForget, UpdateOperation, workerRest, TypeOK
<1>4. \A u \in Tasks : InCustody(u)' <=> InCustody(u)  BY WorkerStill DEF Still
<1>5. \A u \in Tasks : SameCancel(u)  BY <1>1, OtherThread
<1>6. PICK to : worker_pc' = [worker_pc EXCEPT ![w] = to]
  BY DEF Worker, ExecuteSkip, ExecuteStart, ExecuteOngoing, ExecuteUnavailableModel, ExecuteInfer,
         ExecuteRecheck, ExecuteSettle, ExecuteForget
<1>7. worker_pc'[w] = to  BY <1>6 DEF TypeOK
<1>8. /\ AtRecord(t)' <=> to = "record"
      /\ Settled(t)' <=> to \in {"forget", "record"}
      /\ PastInfer(t)' <=> to \in {"recheck", "settle", "forget", "record"}
      /\ \A u \in Tasks \ {t} : SameStage(u)
  BY <1>1, <1>2, <1>6, StageMove
<1>9. /\ AtRecord(t) <=> worker_pc[w] = "record"
      /\ Settled(t) <=> worker_pc[w] \in {"forget", "record"}
      /\ PastInfer(t) <=> worker_pc[w] \in {"recheck", "settle", "forget", "record"}
  <2>1. \A pcs : Handling(t, pcs) <=> worker_pc[w] \in pcs  BY <1>2, CurrentTask
  <2> QED  BY <2>1 DEF AtRecord, Settled, PastInfer
<1>10. \A u \in Tasks \ {t} : Same(u)
  BY <1>1, <1>3, <1>4, <1>5, <1>8 DEF Same
<1>11. ~ Revoked(t) /\ ~ Forgetting(t)
  BY <1>2 DEF LifeInv, CancelInv, Revoker, Revoked, Forgetting
<1>12. \A c \in Cancelers : CancelInv(c)'
  <2>1. \A u \in Tasks : Submitted(u) /\ ~ InCustody(u) => ~ InCustody(u)' /\ infers'[u] = infers[u]
    BY <1>2, <1>3, <1>4
  <2> QED  BY <1>1, <2>1, CancelersKept DEF LifeInv, Submitted
<1>13. \A v \in Workers \ {w} : ExecInv(v)'
  <2> SUFFICES ASSUME NEW v \in Workers \ {w} PROVE ExecInv(v)'  OBVIOUS
  <2>1. worker_pc[v] \in {"recheck", "settle"} => infers'[Head(work[v])] = infers[Head(work[v])]
    BY <1>2, <1>3, CurrentTask DEF HandsFull, Busy
  <2> QED  BY <1>1, <2>1, WorkerKept DEF LifeInv
<1>14. TaskInv(t) /\ ExecInv(w)  BY <1>2 DEF LifeInv
<1>15. infers[t] \in Nat /\ cancel_requested[t] \in BOOLEAN  BY <1>2 DEF TypeOK
<1>16. TaskInv(t)' /\ ExecInv(w)'
  <2> USE <1>1, <1>2, <1>4, <1>5, <1>7, <1>8, <1>9, <1>11, <1>14, <1>15
      DEF TaskInv, ExecInv, TrueOutcome, Over, SameCancel, Submitted, TypeOK, Canceled,
          UpdateOperation
  <2>1. CASE ExecuteSkip(w)
    <3>1. /\ worker_pc[w] = "check" /\ to = "settle" /\ cancel_requested[t]
          /\ UNCHANGED <<operations, tracked_tasks, infers>>
          /\ result'[w] = Op("CANCELED", "before")
      BY <2>1, <1>6 DEF ExecuteSkip
    <3> QED  BY <3>1
  <2>2. CASE ExecuteStart(w)
    <3>1. /\ worker_pc[w] = "check" /\ to = "ongoing"
          /\ UNCHANGED <<operations, tracked_tasks, infers>>
      BY <2>2 DEF ExecuteStart, workerRest
    <3> QED  BY <3>1
  <2>3. CASE ExecuteOngoing(w)
    <3>1. /\ worker_pc[w] = "ongoing" /\ to = "infer"
          /\ UNCHANGED <<tracked_tasks, infers>>
          /\ operations'[t] = Op("ONGOING", "none")
      BY <2>3 DEF ExecuteOngoing
    <3> QED  BY <3>1 DEF Op, Finished
  <2>4. CASE ExecuteUnavailableModel(w)
    <3>1. /\ worker_pc[w] = "infer" /\ to = "settle"
          /\ UNCHANGED <<operations, tracked_tasks, infers>>
          /\ result'[w] = Op("FAILURE", "none")
      BY <2>4 DEF ExecuteUnavailableModel
    <3> QED  BY <3>1
  <2>5. CASE ExecuteInfer(w)
    <3>1. /\ worker_pc[w] = "infer" /\ to = "recheck"
          /\ UNCHANGED <<operations, tracked_tasks>>
          /\ infers'[t] = infers[t] + 1
          /\ result'[w] \in {Op("SUCCESS", "none"), Op("FAILURE", "none")}
      BY <2>5 DEF ExecuteInfer
    <3>2. infers[t] = 0 /\ infers'[t] = 1  BY <3>1
    <3>3. operations[t].state \notin Finished  BY <3>1
    <3> QED  BY <3>1, <3>2, <3>3 DEF Op, Finished
  <2>6. CASE ExecuteRecheck(w)
    <3>1. /\ worker_pc[w] = "recheck" /\ to = "settle"
          /\ UNCHANGED <<operations, tracked_tasks, infers>>
          /\ \/ result'[w] = Op("CANCELED", "during") /\ cancel_requested[t]
             \/ result'[w] = result[w]
      BY <2>6 DEF ExecuteRecheck
    <3> QED  BY <3>1
  <2>7. CASE ExecuteSettle(w)
    <3>1. /\ worker_pc[w] = "settle" /\ to = "forget"
          /\ UNCHANGED <<tracked_tasks, infers>>
          /\ operations'[t] = result[w]
      BY <2>7 DEF ExecuteSettle
    <3> QED  BY <3>1 DEF Op, Finished
  <2>8. CASE ExecuteForget(w)
    <3>1. /\ worker_pc[w] = "forget" /\ to = "record"
          /\ UNCHANGED <<operations, infers>>
          /\ tracked_tasks' = tracked_tasks \ {t}
      BY <2>8 DEF ExecuteForget
    <3> QED  BY <3>1
  <2> QED  BY <2>1, <2>2, <2>3, <2>4, <2>5, <2>6, <2>7, <2>8 DEF Worker
<1> QED  BY <1>10, <1>12, <1>13, <1>16, SameTask DEF LifeInv

\* A worker takes a unit, or leaves.
LEMMA TakeLife ==
    ASSUME TypeOK, HandsFull, CustodyInv, LifeInv, NEW w \in Workers,
           TakeUnit(w) \/ WorkerExit(w)
    PROVE  /\ LifeInv'
           /\ \A u \in Tasks : Same(u)
           /\ UNCHANGED <<operations, cancel_requested>>
<1>1. /\ UNCHANGED <<cancelVars, submit_pc, cancel_requested, operations, tracked_tasks, infers,
                     result>>
      /\ \A v \in Workers \ {w} : work'[v] = work[v] /\ worker_pc'[v] = worker_pc[v]
      /\ worker_pc[w] = "idle"
      /\ worker_pc'[w] \in {"exited", "check"}
  BY DEF TakeUnit, WorkerExit, WorkerGoto, workerElse, workerRest, submitVars, TypeOK
<1>2. PICK to \in {"idle", "exited", "check"} : worker_pc' = [worker_pc EXCEPT ![w] = to]
  BY DEF TakeUnit, WorkerExit, WorkerGoto
<1>3. \A u \in Tasks : SameStage(u)  BY <1>1, <1>2, StageEnd
<1>4. \A u \in Tasks : InCustody(u)' <=> InCustody(u)
  <2>1. CASE TakeUnit(w)  BY <2>1, TakeCustody DEF Still
  <2>2. CASE ~ TakeUnit(w)
    <3>1. WorkerExit(w) /\ Worker(w) /\ ~ ExecuteRecord(w) /\ ~ ExecuteThrow(w)
      BY <1>1, <2>2 DEF Worker, ExecuteRecord, ExecuteThrow, WorkerGoto
    <3> QED  BY <2>2, <3>1, WorkerStill DEF Still
  <2> QED  BY <2>1, <2>2
<1>5. \A u \in Tasks : Same(u)  BY <1>1, <1>3, <1>4, OtherThread DEF Same
<1>6. \A c \in Cancelers : CancelInv(c)'
  BY <1>1, <1>4, CancelersKept DEF LifeInv, Submitted
<1>7. \A v \in Workers : ExecInv(v)'
  <2>1. ExecInv(w)'  BY <1>1 DEF ExecInv
  <2>2. ASSUME NEW v \in Workers \ {w} PROVE ExecInv(v)'  BY <1>1, WorkerKept DEF LifeInv
  <2> QED  BY <2>1, <2>2
<1> QED  BY <1>1, <1>5, <1>6, <1>7, SameTask DEF LifeInv

\* A worker is done with its current task, or loses what is left of its unit.
LEMMA LetGoLife ==
    ASSUME TypeOK, HandsFull, CustodyInv, LifeInv, NEW w \in Workers,
           ExecuteRecord(w) \/ ExecuteThrow(w), NEW t, t = Head(work[w])
    PROVE  /\ LifeInv'
           /\ t \in Tasks /\ InCustody(t) /\ ~ InCustody(t)'
           /\ ~ Running(t)' /\ ~ Revoked(t) /\ ~ Revoked(t)'
           /\ ExecuteRecord(w) => Settled(t) /\ ~ Running(t)
           /\ ExecuteThrow(w) => Running(t)
           /\ \A u \in Tasks \ {t} :
                 /\ SameStage(u) /\ SameCancel(u) /\ submit_pc'[u] = submit_pc[u]
                 /\ InCustody(u)' <=>
                       InCustody(u) /\ ~ (ExecuteThrow(w) /\ Among(u, work[w]))
           /\ UNCHANGED <<operations, cancel_requested, submit_pc>>
<1> USE DEF WorkerGoto
<1>1. /\ UNCHANGED <<cancelVars, submit_pc, cancel_requested, operations, tracked_tasks, result>>
      /\ \A v \in Workers \ {w} : work'[v] = work[v] /\ worker_pc'[v] = worker_pc[v]
      /\ Busy(w) /\ worker_pc'[w] \in {"idle", "check"}
  BY DEF ExecuteRecord, ExecuteThrow, Busy, workerElse, submitVars, TypeOK
<1>2. PICK to \in {"idle", "exited", "check"} : worker_pc' = [worker_pc EXCEPT ![w] = to]
  BY DEF ExecuteRecord, ExecuteThrow
<1>3. /\ work[w] # <<>> /\ t \in Tasks /\ InCustody(t) /\ Submitted(t)
      /\ Among(t, work[w])
  <2>1. work[w] # <<>> /\ work[w] \in Seq(Tasks)  BY <1>1 DEF HandsFull, TypeOK
  <2> QED  BY <2>1, CurrentTask, TailMembers
<1>4. \A u \in Tasks \ {t} : SameStage(u)  BY <1>1, <1>2, StageEnd
<1>5. ~ AtRecord(t)' /\ ~ Settled(t)' /\ ~ PastInfer(t)' /\ ~ Running(t)'
  BY <1>1, <1>2, <1>3, StageEnd
<1>6. \A u \in Tasks : SameCancel(u)  BY <1>1, OtherThread
<1>7. ~ Revoked(t) /\ ~ Forgetting(t)
  BY <1>3 DEF LifeInv, CancelInv, Revoker, Revoked, Forgetting
<1>8. /\ ~ InCustody(t)'
      /\ \A u \in Tasks \ {t} :
            InCustody(u)' <=> InCustody(u) /\ ~ (ExecuteThrow(w) /\ Among(u, work[w]))
  <2>1. ~ (ExecuteRecord(w) /\ ExecuteThrow(w))  BY DEF ExecuteRecord, ExecuteThrow
  <2> QED  BY <1>3, <2>1, RecordCustody, ThrowCustody
<1>9. \A u \in Tasks \ {t} : infers'[u] = infers[u]
  BY DEF ExecuteRecord, ExecuteThrow, TypeOK
<1>10. /\ ExecuteRecord(w) => Settled(t) /\ AtRecord(t) /\ ~ Running(t) /\ infers'[t] = infers[t]
       /\ ExecuteThrow(w) => Running(t) /\ ~ PastInfer(t) /\ infers'[t] = infers[t] + 1
  <2>1. /\ Running(t) <=> \/ worker_pc[w] \in {"infer", "recheck"}
                          \/ worker_pc[w] = "settle" /\ result[w] # Op("CANCELED", "before")
        /\ \A pcs : Handling(t, pcs) <=> worker_pc[w] \in pcs
    BY <1>3, CurrentTask
  <2>2. /\ Settled(t) <=> worker_pc[w] \in {"forget", "record"}
        /\ AtRecord(t) <=> worker_pc[w] = "record"
        /\ PastInfer(t) <=> worker_pc[w] \in {"recheck", "settle", "forget", "record"}
    BY <2>1 DEF Settled, AtRecord, PastInfer
  <2>3. ExecuteRecord(w) => worker_pc[w] = "record" /\ infers' = infers
    BY DEF ExecuteRecord
  <2>4. ExecuteThrow(w) => worker_pc[w] = "infer" /\ infers' = [infers EXCEPT ![t] = @ + 1]
    BY DEF ExecuteThrow
  <2> QED  BY <1>3, <2>1, <2>2, <2>3, <2>4 DEF TypeOK
<1>11. \A c \in Cancelers : CancelInv(c)'
  <2>1. \A u \in Tasks : Submitted(u) /\ ~ InCustody(u) => ~ InCustody(u)' /\ infers'[u] = infers[u]
    BY <1>3, <1>8, <1>9
  <2> QED  BY <1>1, <2>1, CancelersKept DEF LifeInv, Submitted
<1>12. \A v \in Workers : ExecInv(v)'
  <2>1. ExecInv(w)'  BY <1>1 DEF ExecInv
  <2>2. ASSUME NEW v \in Workers \ {w} PROVE ExecInv(v)'
    <3>1. worker_pc[v] \in {"recheck", "settle"} => infers'[Head(work[v])] = infers[Head(work[v])]
      BY <1>3, <1>9, CurrentTask DEF HandsFull, Busy
    <3> QED  BY <1>1, <3>1, WorkerKept DEF LifeInv
  <2> QED  BY <2>1, <2>2
<1>13. TaskInv(t)'
  <2>1. TaskInv(t) /\ infers[t] \in Nat  BY <1>3 DEF LifeInv, TypeOK
  <2>2. CASE ExecuteRecord(w)
    BY <1>1, <1>3, <1>5, <1>6, <1>7, <1>8, <1>10, <2>1, <2>2
       DEF TaskInv, Over, SameCancel, Submitted
  <2>3. CASE ExecuteThrow(w)
    <3>1. infers[t] = 0 /\ infers'[t] = 1  BY <1>3, <1>10, <2>1, <2>3 DEF TaskInv
    <3>2. operations[t].state \notin Finished
      <4>1. ~ Settled(t)  BY <1>10, <2>3, HandledIsHeld
      <4> QED  BY <1>3, <2>1, <4>1 DEF TaskInv, Over, Submitted
    <3> QED
      BY <1>1, <1>3, <1>5, <1>6, <1>7, <1>8, <2>1, <3>1, <3>2
         DEF TaskInv, Over, SameCancel, Submitted, Op, Finished
  <2> QED  BY <2>2, <2>3
<1>14. ASSUME NEW u \in Tasks \ {t} PROVE TaskInv(u)'
  <2>1. TaskInv(u)  BY DEF LifeInv
  <2> QED
    BY <1>1, <1>4, <1>6, <1>8, <1>9, <2>1
       DEF TaskInv, Over, SameStage, SameCancel, Submitted
<1> QED
  BY <1>1, <1>3, <1>4, <1>5, <1>6, <1>7, <1>8, <1>10, <1>11, <1>12, <1>13, <1>14
     DEF LifeInv, SameCancel

-----------------------------------------------------------------------------
\* All of it together: the invariant holds at the start ...
LEMMA InitLife == Init => LifeInv
<1> SUFFICES ASSUME Init PROVE LifeInv  OBVIOUS
<1>1. \A t \in Tasks : ~ InCustody(t)
  <2>1. /\ pending_tasks = <<>> /\ unit = <<>> /\ pool = <<>>
        /\ \A m \in Models : queues[m].tasks = <<>>
        /\ \A w \in Workers : work[w] = <<>>
    BY DEF Init, Batch!EmptyQueue
  <2> QED
    BY <2>1 DEF InCustody, Queued, Pooled, AtWorker, Among, Fifo!Holds, Batch!Holds
<1>2. /\ \A t \in Tasks : /\ submit_pc[t] = "new" /\ infers[t] = 0
                          /\ operations[t] = Absent /\ t \notin tracked_tasks
      /\ \A c \in Cancelers : cancel_pc[c] = "idle"
      /\ \A w \in Workers : worker_pc[w] = "idle"
  BY DEF Init
<1>3. \A t \in Tasks : TaskInv(t)
  BY <1>1, <1>2 DEF TaskInv, Submitted, Absent, Op, Finished
<1>4. \A c \in Cancelers : CancelInv(c)  BY <1>2 DEF CancelInv, Revoker
<1>5. \A w \in Workers : ExecInv(w)  BY <1>2 DEF ExecInv
<1> QED  BY <1>3, <1>4, <1>5 DEF LifeInv

\* ... and every step keeps it.
LEMMA NextLife ==
    ASSUME Ground, LifeInv, [Next]_vars
    PROVE  LifeInv'
<1>1. TypeOK /\ HandsFull /\ NeverRefused /\ CustodyInv  BY DEF Ground, IInv
<1>2. CASE \E t \in Tasks : Submitter(t)  BY <1>1, <1>2, SubmitterLife
<1>3. CASE \E c \in Cancelers : CancelStep(c) \/ \E t \in Cancelable : CancelBegin(c, t)
  BY <1>1, <1>3, CancelLife
<1>4. CASE \E t \in Deletable : DeleteOperation(t)  BY <1>1, <1>4, DeleteLife
<1>5. CASE Dispatcher  BY <1>1, <1>5, DispatcherLife
<1>6. ASSUME NEW w \in Workers, Worker(w) PROVE LifeInv'
  <2>1. CASE TakeUnit(w) \/ WorkerExit(w)  BY <1>1, <2>1, TakeLife
  <2>2. CASE ExecuteRecord(w) \/ ExecuteThrow(w)  BY <1>1, <2>2, LetGoLife
  <2>3. CASE ~ TakeUnit(w) /\ ~ WorkerExit(w) /\ ~ ExecuteRecord(w) /\ ~ ExecuteThrow(w)
    BY <1>1, <1>6, <2>3, MoveLife
  <2> QED  BY <2>1, <2>2, <2>3
<1>7. CASE (\E t \in Tasks : WindowElapses(t)) \/ StopRequest \/ StopStep \/ UNCHANGED vars
  BY <1>1, <1>7, IdleLife
<1> QED  BY <1>2, <1>3, <1>4, <1>5, <1>6, <1>7 DEF Next, Terminating

\* In every reachable state of any instance.
THEOREM LifeHolds == Spec => [](Ground /\ LifeInv)
  BY CustodyHolds, InitLife, NextLife, PTL DEF Spec, Ground

-----------------------------------------------------------------------------
(***************************************************************************)
(* A task that is queued or executing can be found by a cancel request,    *)
(* whatever the interleaving of its admission, its cancellation and its    *)
(* execution.                                                              *)
(***************************************************************************)
THEOREM TaskIsTrackedUntilSettled == Spec => []TrackedUntilSettled
<1>1. LifeInv => TrackedUntilSettled
  BY DEF LifeInv, TaskInv, AtRecord, Handling, TrackedUntilSettled
<1> QED  BY LifeHolds, <1>1, PTL

(***************************************************************************)
(* No task reaches infer() twice, and SUCCESS is read of no other task.    *)
(***************************************************************************)
THEOREM TaskIsInferredOnce == Spec => []InferredOnce
<1>1. LifeInv => InferredOnce
  BY DEF LifeInv, TaskInv, InferredOnce
<1> QED  BY LifeHolds, <1>1, PTL

(***************************************************************************)
(* "request canceled before execution" is never said of a task that has    *)
(* reached infer(), or will.                                               *)
(***************************************************************************)
THEOREM CanceledIsNeverExecuted == Spec => []CanceledBeforeExecution
<1>1. LifeInv => CanceledBeforeExecution
  BY DEF LifeInv, TaskInv, CanceledBeforeExecution
<1> QED  BY LifeHolds, <1>1, PTL

(***************************************************************************)
(* A task the scheduler has accepted and forgotten has its outcome in the  *)
(* repository, a late CANCEL_REQUESTED, or no operation any more.          *)
(***************************************************************************)
THEOREM SettledTaskIsReported == Spec => []SettledIsReported
<1>1. LifeInv => SettledIsReported
  BY DEF LifeInv, TaskInv, SettledIsReported, Accepted, Submitted
<1> QED  BY LifeHolds, <1>1, PTL

-----------------------------------------------------------------------------
\* Who writes an operation, and what it finds: a submission in progress, a
\* deletion, a canceler at work on the task, or the worker executing it.
LEMMA OperationIsWritten ==
    ASSUME Ground, LifeInv, [Next]_vars, NEW t \in Tasks, operations'[t] # operations[t]
    PROVE  \/ /\ submit_pc[t] \notin {"accepted", "refused"}
              /\ \/ operations[t].state \notin Finished
                 \/ operations'[t].state = operations[t].state
           \/ operations'[t] = Absent
           \/ /\ \E c \in Cancelers : cancel_task[c] = t
              /\ Revoked(t) \/ operations'[t] = Op("CANCEL_REQUESTED", "none")
           \/ InCustody(t) /\ ~ Settled(t)
<1>1. TypeOK /\ HandsFull /\ NeverRefused /\ CustodyInv  BY DEF Ground, IInv
<1>2. \A u \in Tasks : Same(u) => u # t  BY DEF Same
<1>3. ASSUME NEW u \in Tasks, Submitter(u)
      PROVE  /\ submit_pc[t] \notin {"accepted", "refused"}
             /\ \/ operations[t].state \notin Finished
                \/ operations'[t].state = operations[t].state
  <2>1. u = t  BY <1>1, <1>2, <1>3, SubmitterLife
  <2>2. SubmitInferenceRequest(t) \/ AdmitQueueFull(t) \/ SubmitFailed(t)
    BY <1>3, <2>1 DEF Submitter, SubmitUnavailableModel, AdmitCheckStop, AdmitContext,
           AdmitSnapshot, AdmitWithinLimit, TrackTask, AdmitFIFO, AdmitBatch, AdmitModelStat,
           AdmitNotify, submitRest
  <2>3. /\ submit_pc[t] \in {"new", "limit", "failed"}
        /\ submit_pc[t] = "failed" => operations'[t] = Op("FAILURE", "none")
    BY <1>1, <2>2 DEF SubmitInferenceRequest, AdmitQueueFull, SubmitFailed, SubmitGoto,
           UpdateOperation, TypeOK
  <2>4. operations[t].state \in Finished =>
           submit_pc[t] \in {"failed", "refused"} /\ operations[t] = Op("FAILURE", "none")
    BY <1>1, <2>3, NotSubmitted DEF Submitted
  <2> QED  BY <2>3, <2>4
<1>4. ASSUME NEW c \in Cancelers, CancelStep(c) \/ \E u \in Cancelable : CancelBegin(c, u)
      PROVE  /\ cancel_task[c] = t
             /\ Revoked(t) \/ operations'[t] = Op("CANCEL_REQUESTED", "none")
  <2>1. cancel_task[c] = t  BY <1>1, <1>2, <1>4, CancelLife
  <2>2. CancelFinalize(c) \/ CancelRequest(c)
    BY <1>4 DEF CancelStep, CancelBegin, CancelUntracked, CancelLookup, CancelFlag,
           CancelRevokeFIFO, CancelRevokeBatch, CancelNotQueued, CancelForget, cancelRest
  <2> QED
    BY <1>1, <2>1, <2>2
       DEF CancelFinalize, CancelRequest, CancelGoto, UpdateOperation, Revoked, TypeOK
<1>5. ASSUME NEW u \in Deletable, DeleteOperation(u)
      PROVE  operations'[t] = Absent
  <2>1. u = t  BY <1>1, <1>2, <1>5, DeleteLife
  <2> QED  BY <1>1, <1>5, <2>1 DEF DeleteOperation, UpdateOperation, TypeOK
<1>6. ~ Dispatcher  BY <1>1, DispatcherLife
<1>7. ASSUME NEW w \in Workers, Worker(w)
      PROVE  InCustody(t) /\ ~ Settled(t)
  <2>1. ExecuteOngoing(w) \/ ExecuteSettle(w)
    BY <1>7 DEF Worker, TakeUnit, WorkerExit, ExecuteSkip, ExecuteStart, ExecuteUnavailableModel,
           ExecuteInfer, ExecuteThrow, ExecuteRecheck, ExecuteForget, ExecuteRecord, workerRest
  <2>2. worker_pc[w] \in {"ongoing", "settle"} /\ work[w] # <<>>
    BY <1>1, <2>1 DEF ExecuteOngoing, ExecuteSettle, WorkerGoto, HandsFull, Busy
  <2>3. t = Head(work[w])
    BY <1>1, <2>1 DEF ExecuteOngoing, ExecuteSettle, UpdateOperation, TypeOK
  <2>4. InCustody(t) /\ (Settled(t) <=> worker_pc[w] \in {"forget", "record"})
    BY <1>1, <2>2, <2>3, CurrentTask DEF Settled
  <2> QED  BY <2>2, <2>4
<1>8. ~ ((\E u \in Tasks : WindowElapses(u)) \/ StopRequest \/ StopStep \/ UNCHANGED vars)
  BY <1>1, IdleLife
<1> QED  BY <1>3, <1>4, <1>5, <1>6, <1>7, <1>8 DEF Next, Terminating

(***************************************************************************)
(* Nothing replaces an outcome but a deletion or the CANCEL_REQUESTED of a *)
(* late cancel: no second outcome is ever written over a first.            *)
(***************************************************************************)
THEOREM OutcomeStays == Spec => OutcomeIsStable
<1>1. ASSUME Ground, LifeInv, [Next]_vars, NEW t \in Tasks, operations[t].state \in Finished
      PROVE  operations'[t].state \in {operations[t].state, "ABSENT", "CANCEL_REQUESTED"}
  <2>1. CASE operations'[t] = operations[t]  BY <2>1
  <2>2. CASE operations'[t] # operations[t]
    <3>1. TaskInv(t) /\ TypeOK /\ CustodyInv  BY <1>1 DEF LifeInv, Ground, IInv
    <3>2. ~ (InCustody(t) /\ ~ Settled(t))
      BY <1>1, <3>1 DEF TaskInv, Over, CustodyInv, Submitted
    <3>3. ~ Revoked(t)
      BY <1>1, <3>1, NotSubmitted DEF TaskInv, Over, Submitted
    <3> QED  BY <1>1, <2>2, <3>2, <3>3, OperationIsWritten DEF Op, Absent
  <2> QED  BY <2>1, <2>2
<1>2. Ground /\ LifeInv /\ [Next]_vars =>
         [\A t \in Tasks :
             operations[t].state \in Finished =>
                operations'[t].state \in {operations[t].state, "ABSENT", "CANCEL_REQUESTED"}]_vars
  BY <1>1
<1> QED  BY LifeHolds, <1>2, PTL DEF Spec, OutcomeIsStable

(***************************************************************************)
(* A deleted operation comes back only while its task is tracked, its      *)
(* submission is in progress or a cancel request still works on it: once   *)
(* all three are over, it stays deleted.                                   *)
(***************************************************************************)
THEOREM DeletedStaysDeleted == Spec => OnlyLiveTasksReappear
<1>1. ASSUME Ground, LifeInv, [Next]_vars, NEW t \in Tasks,
             operations[t] = Absent, operations'[t] # Absent
      PROVE  \/ t \in tracked_tasks
             \/ submit_pc[t] \notin {"accepted", "refused"}
             \/ \E c \in Cancelers : cancel_task[c] = t
  <2>1. TaskInv(t) /\ TypeOK /\ CustodyInv  BY <1>1 DEF LifeInv, Ground, IInv
  <2>2. InCustody(t) /\ ~ Settled(t) => t \in tracked_tasks
    BY <2>1, HandledIsHeld DEF TaskInv
  <2> QED  BY <1>1, <2>2, OperationIsWritten
<1>2. Ground /\ LifeInv /\ [Next]_vars =>
         [\A t \in Tasks :
             operations[t] = Absent /\ operations'[t] # Absent =>
                \/ t \in tracked_tasks
                \/ submit_pc[t] \notin {"accepted", "refused"}
                \/ \E c \in Cancelers : cancel_task[c] = t]_vars
  BY <1>1
<1> QED  BY LifeHolds, <1>2, PTL DEF Spec, OnlyLiveTasksReappear

-----------------------------------------------------------------------------
\* The fate of a task, in the terms of the invariant.
LEMMA FateValue ==
    ASSUME NEW t
    PROVE  /\ FateOf(t) = IF ~ Submitted(t) THEN "outside"
                          ELSE IF Revoked(t) THEN "revoked"
                          ELSE IF Running(t) THEN "running"
                          ELSE IF InCustody(t) /\ ~ Settled(t) THEN "waiting" ELSE "over"
           /\ FateOf(t)' = IF ~ Submitted(t)' THEN "outside"
                           ELSE IF Revoked(t)' THEN "revoked"
                           ELSE IF Running(t)' THEN "running"
                           ELSE IF InCustody(t)' /\ ~ Settled(t)' THEN "waiting" ELSE "over"
  BY DEF FateOf, Submitted, Settled, Handling

\* A step that leaves a task alone leaves its fate alone.
LEMMA SameFate ==
    ASSUME NEW u, Same(u)
    PROVE  FateOf(u)' = FateOf(u)
  BY FateValue DEF Same, SameStage, SameCancel, Submitted

\* The abstract steps, in the terms of FateOf.
LEMMA FateStep ==
    ASSUME NEW t \in Tasks, \A u \in Tasks \ {t} : FateOf(u)' = FateOf(u)
    PROVE  /\ FateOf(t)' = FateOf(t) =>
                 UNCHANGED [u \in Tasks |-> FateOf(u)]
           /\ \A from, to : FateOf(t) = from /\ FateOf(t)' = to =>
                 Lifecycle!Becomes(t, from, to)
           /\ \A state, message : UpdateOperation(t, Op(state, message)) =>
                 Lifecycle!Write(t, Lifecycle!Op(state, message))
<1>1. FateOf(t)' = FateOf(t) => UNCHANGED [u \in Tasks |-> FateOf(u)]
  OBVIOUS
<1>2. ASSUME NEW from, NEW to, FateOf(t) = from, FateOf(t)' = to
      PROVE  Lifecycle!Becomes(t, from, to)
  BY <1>2 DEF Lifecycle!Becomes
<1>3. ASSUME NEW state, NEW message, UpdateOperation(t, Op(state, message))
      PROVE  Lifecycle!Write(t, Lifecycle!Op(state, message))
  BY <1>3 DEF Lifecycle!Write, Lifecycle!Op, Op, UpdateOperation
<1> QED  BY <1>1, <1>2, <1>3

\* A submission adds the operation, and admits or refuses the task.
LEMMA SubmitterImplements ==
    ASSUME Ground, LifeInv, NEW t \in Tasks, Submitter(t)
    PROVE  [Lifecycle!Next]_(Lifecycle!taskVars)
<1>1. TypeOK /\ HandsFull /\ CustodyInv  BY DEF Ground, IInv
<1>2. \A u \in Tasks \ {t} : FateOf(u)' = FateOf(u)  BY <1>1, SubmitterLife, SameFate
<1>3. UNCHANGED <<cancel_requested, workerVars, cancelVars>>
  BY DEF Submitter, SubmitUnavailableModel, SubmitInferenceRequest, AdmitCheckStop, AdmitContext,
         AdmitSnapshot, AdmitQueueFull, AdmitWithinLimit, TrackTask, AdmitFIFO, AdmitBatch,
         AdmitModelStat, AdmitNotify, SubmitFailed, submitElse
<1>4. SameStage(t) /\ SameCancel(t)  BY <1>3, OtherThread
<1>5. ~ Submitted(t) /\ ~ Submitted(t)' => FateOf(t) = "outside" /\ FateOf(t)' = "outside"
  BY FateValue
<1>6. CASE SubmitInferenceRequest(t)
  <2>1. ~ Submitted(t) /\ ~ Submitted(t)' /\ UpdateOperation(t, Op("PENDING", "none"))
    BY <1>1, <1>6 DEF SubmitInferenceRequest, SubmitGoto, Submitted, TypeOK
  <2>2. Lifecycle!Add(t)  BY <1>2, <1>3, <1>5, <2>1, FateStep DEF Lifecycle!Add
  <2> QED  BY <2>2 DEF Lifecycle!Next, Lifecycle!Submission
<1>7. CASE AdmitQueueFull(t) \/ SubmitFailed(t)
  <2>1. ~ Submitted(t) /\ ~ Submitted(t)' /\ UpdateOperation(t, Op("FAILURE", "none"))
    BY <1>1, <1>7 DEF AdmitQueueFull, SubmitFailed, SubmitGoto, Submitted, TypeOK
  <2>2. Lifecycle!Refuse(t)  BY <1>2, <1>3, <1>5, <2>1, FateStep DEF Lifecycle!Refuse
  <2> QED  BY <2>2 DEF Lifecycle!Next, Lifecycle!Submission
<1>8. CASE AdmitFIFO(t) \/ AdmitBatch(t)
  <2>1. ~ Submitted(t) /\ Submitted(t)' /\ operations' = operations
    BY <1>1, <1>8 DEF AdmitFIFO, AdmitBatch, SubmitGoto, Submitted, TypeOK
  <2>2. InCustody(t)'  BY <1>1, <1>8, AdmitCustody
  <2>3. ~ Revoked(t)' /\ ~ Running(t)' /\ ~ Settled(t)'
    BY <1>1, <1>4, <2>1, NotSubmitted DEF SameStage, SameCancel
  <2>4. FateOf(t) = "outside" /\ FateOf(t)' = "waiting"
    BY <2>1, <2>2, <2>3, FateValue
  <2>5. Lifecycle!Admit(t)  BY <1>2, <1>3, <2>1, <2>4, FateStep DEF Lifecycle!Admit
  <2> QED  BY <2>5 DEF Lifecycle!Next, Lifecycle!Submission
<1>9. CASE /\ ~ SubmitInferenceRequest(t) /\ ~ AdmitQueueFull(t) /\ ~ SubmitFailed(t)
           /\ ~ AdmitFIFO(t) /\ ~ AdmitBatch(t)
  <2>1. operations' = operations /\ (Submitted(t)' <=> Submitted(t))
    BY <1>1, <1>9 DEF Submitter, SubmitUnavailableModel, AdmitCheckStop, AdmitContext,
           AdmitSnapshot, AdmitWithinLimit, TrackTask, AdmitModelStat, AdmitNotify, SubmitGoto,
           submitRest, Submitted, TypeOK
  <2>2. InCustody(t)' <=> InCustody(t)  BY <1>1, <1>9, SubmitterStill DEF Still
  <2>3. FateOf(t)' = FateOf(t)
    BY <1>4, <2>1, <2>2, FateValue DEF SameStage, SameCancel
  <2> QED  BY <1>2, <1>3, <2>1, <2>3, FateStep DEF Lifecycle!taskVars
<1> QED  BY <1>6, <1>7, <1>8, <1>9

\* A cancellation asks, revokes and reports the revocation, or asks and
\* reports the request.
LEMMA CancelImplements ==
    ASSUME Ground, LifeInv, NEW c \in Cancelers,
           CancelStep(c) \/ \E u \in Cancelable : CancelBegin(c, u)
    PROVE  [Lifecycle!Next]_(Lifecycle!taskVars)
<1>1. TypeOK /\ HandsFull /\ CustodyInv  BY DEF Ground, IInv
<1>2. CASE \E u \in Cancelable : CancelBegin(c, u)
  <2>1. /\ cancel_pc[c] = "idle"
        /\ UNCHANGED <<operations, cancel_requested>>
    BY <1>2 DEF CancelBegin, CancelGoto
  <2>2. \A u \in Tasks : FateOf(u)' = FateOf(u)  BY <1>1, <2>1, CancelLife, SameFate
  <2>3. UNCHANGED [u \in Tasks |-> FateOf(u)]  BY <2>2
  <2> QED  BY <2>1, <2>3 DEF Lifecycle!taskVars
<1>3. CASE CancelStep(c)
  <2>0. PICK t : t = cancel_task[c]  OBVIOUS
  <2> USE DEF CancelGoto
  <2>1. cancel_pc[c] # "idle"
    BY <1>3 DEF CancelStep, CancelUntracked, CancelLookup, CancelFlag, CancelRevokeFIFO,
           CancelRevokeBatch, CancelNotQueued, CancelFinalize, CancelForget, CancelRequest
  <2>2. t \in Tasks  BY <1>1, <2>0, <2>1 DEF HandsFull
  <2>3. \A u \in Tasks \ {t} : FateOf(u)' = FateOf(u)  BY <1>1, <2>0, CancelLife, SameFate
  <2>4. /\ UNCHANGED <<workerVars, submit_pc>>
        /\ \A d \in Cancelers \ {c} :
              cancel_pc'[d] = cancel_pc[d] /\ cancel_task'[d] = cancel_task[d]
    BY <1>1, <1>3 DEF CancelStep, CancelUntracked, CancelLookup, CancelFlag, CancelRevokeFIFO,
           CancelRevokeBatch, CancelNotQueued, CancelFinalize, CancelForget, CancelRequest,
           cancelElse, cancelRest, submitVars, TypeOK
  <2>5. SameStage(t) /\ (Submitted(t)' <=> Submitted(t))
    BY <2>4, OtherThread DEF Submitted
  <2>6. CancelInv(c) /\ TaskInv(t)  BY <2>2 DEF LifeInv
  <2>7. ASSUME ~ CancelRevokeFIFO(c), ~ CancelRevokeBatch(c), ~ CancelFinalize(c)
        PROVE  FateOf(t)' = FateOf(t)
    <3>1. cancel_pc[c] # "finalize" /\ cancel_pc'[c] # "finalize"
      BY <1>1, <1>3, <2>7 DEF CancelStep, CancelUntracked, CancelLookup, CancelFlag,
             CancelNotQueued, CancelForget, CancelRequest, TypeOK
    <3>2. Revoked(t)' <=> Revoked(t)  BY <2>4, <3>1 DEF Revoked
    <3>3. InCustody(t)' <=> InCustody(t)  BY <1>1, <2>2, <2>7, CancelStill DEF Still
    <3> QED  BY <2>5, <3>2, <3>3, FateValue DEF SameStage
  <2>8. CASE CancelFlag(c)
    <3>1. ~ CancelRevokeFIFO(c) /\ ~ CancelRevokeBatch(c) /\ ~ CancelFinalize(c)
      BY <2>8 DEF CancelFlag, CancelRevokeFIFO, CancelRevokeBatch, CancelFinalize
    <3>2. /\ operations' = operations
          /\ cancel_requested' = [cancel_requested EXCEPT ![t] = TRUE]
      BY <2>0, <2>8 DEF CancelFlag
    <3>3. Lifecycle!Ask(t)
      BY <2>2, <2>3, <2>7, <3>1, <3>2, FateStep DEF Lifecycle!Ask
    <3> QED  BY <2>2, <3>3 DEF Lifecycle!Next, Lifecycle!Canceling
  <2>9. CASE CancelRevokeFIFO(c) \/ CancelRevokeBatch(c)
    <3>1. /\ UNCHANGED <<operations, cancel_requested, cancel_task>>
          /\ cancel_pc[c] = "revoke" /\ cancel_pc'[c] = "finalize"
      BY <1>1, <2>9 DEF CancelRevokeFIFO, CancelRevokeBatch, TypeOK
    <3>2. Queued(t) /\ InCustody(t) /\ Submitted(t) /\ ~ Running(t) /\ ~ Settled(t)
      BY <1>1, <2>0, <2>2, <2>9, RevokeCustody, HandledIsHeld DEF InCustody, CustodyInv
    <3>3. ~ Revoked(t) /\ Revoked(t)'
      BY <2>0, <2>2, <3>1, <3>2 DEF LifeInv, CancelInv, Revoker, Revoked
    <3>4. FateOf(t) = "waiting" /\ FateOf(t)' = "revoked"
      BY <2>5, <3>2, <3>3, FateValue
    <3>5. cancel_requested[t]  BY <2>0, <2>6, <3>1 DEF CancelInv
    <3>6. cancel_requested' = [cancel_requested EXCEPT ![t] = TRUE]
      BY <1>1, <2>2, <3>1, <3>5 DEF TypeOK
    <3>7. Lifecycle!Revoke(t)
      BY <2>2, <2>3, <3>1, <3>4, <3>5, <3>6, FateStep DEF Lifecycle!Revoke
    <3> QED  BY <2>2, <3>7 DEF Lifecycle!Next, Lifecycle!Canceling
  <2>10. CASE CancelFinalize(c)
    <3>1. /\ UNCHANGED <<cancel_requested, cancel_task>>
          /\ UpdateOperation(t, Op("CANCELED", "before"))
          /\ cancel_pc[c] = "finalize" /\ cancel_pc'[c] = "forget"
      BY <1>1, <2>0, <2>10 DEF CancelFinalize, TypeOK
    <3>2. Revoker(c, t) /\ Revoked(t)  BY <2>0, <3>1 DEF Revoker, Revoked
    <3>3. /\ Submitted(t) /\ ~ InCustody(t)
          /\ \A d \in Cancelers \ {c} : ~ Revoker(d, t)
      BY <2>2, <2>6, <3>2 DEF CancelInv
    <3>4. ~ Revoked(t)'  BY <2>4, <3>1, <3>3 DEF Revoked, Revoker
    <3>5. ~ Running(t)  BY <1>1, <3>3, HandledIsHeld
    <3>6. ~ InCustody(t)'
      <4>1. ~ CancelRevokeFIFO(c) /\ ~ CancelRevokeBatch(c)
        BY <3>1 DEF CancelRevokeFIFO, CancelRevokeBatch
      <4> QED  BY <1>1, <1>3, <2>2, <3>3, <4>1, CancelStill DEF Still
    <3>7. FateOf(t) = "revoked" /\ FateOf(t)' = "over"
      BY <2>5, <3>2, <3>3, <3>4, <3>5, <3>6, FateValue DEF SameStage
    <3>8. Lifecycle!ReportRevoked(t)
      BY <2>2, <2>3, <3>1, <3>7, FateStep DEF Lifecycle!ReportRevoked
    <3> QED  BY <2>2, <3>8 DEF Lifecycle!Next, Lifecycle!Canceling
  <2>11. CASE CancelRequest(c)
    <3>1. ~ CancelRevokeFIFO(c) /\ ~ CancelRevokeBatch(c) /\ ~ CancelFinalize(c)
      BY <2>11 DEF CancelRequest, CancelRevokeFIFO, CancelRevokeBatch, CancelFinalize
    <3>2. /\ UNCHANGED cancel_requested
          /\ UpdateOperation(t, Op("CANCEL_REQUESTED", "none"))
          /\ cancel_requested[t]
      BY <2>0, <2>6, <2>11 DEF CancelRequest, CancelInv
    <3>3. Lifecycle!RequestCancel(t)
      BY <2>2, <2>3, <2>7, <3>1, <3>2, FateStep DEF Lifecycle!RequestCancel
    <3> QED  BY <2>2, <3>3 DEF Lifecycle!Next, Lifecycle!Canceling
  <2>12. CASE CancelUntracked(c) \/ CancelLookup(c) \/ CancelNotQueued(c) \/ CancelForget(c)
    <3>1. /\ UNCHANGED <<operations, cancel_requested>>
          /\ cancel_pc[c] # "finalize" /\ cancel_pc'[c] # "finalize"
      BY <1>1, <2>12 DEF CancelUntracked, CancelLookup, CancelNotQueued, CancelForget, cancelRest,
             TypeOK
    <3>2. ~ CancelRevokeFIFO(c) /\ ~ CancelRevokeBatch(c) /\ ~ CancelFinalize(c)
      BY <1>1, <3>1 DEF CancelRevokeFIFO, CancelRevokeBatch, CancelFinalize, TypeOK
    <3> QED  BY <2>2, <2>3, <2>7, <3>1, <3>2, FateStep DEF Lifecycle!taskVars
  <2> QED  BY <1>3, <2>8, <2>9, <2>10, <2>11, <2>12 DEF CancelStep
<1> QED  BY <1>2, <1>3

\* An execution starts or skips the task, and settles it.
LEMMA MoveImplements ==
    ASSUME Ground, LifeInv, NEW w \in Workers, Worker(w),
           ~ TakeUnit(w), ~ WorkerExit(w), ~ ExecuteThrow(w), ~ ExecuteRecord(w)
    PROVE  [Lifecycle!Next]_(Lifecycle!taskVars)
<1>0. PICK t : t = Head(work[w])  OBVIOUS
<1> USE <1>0 DEF WorkerGoto
<1>1. TypeOK /\ HandsFull /\ CustodyInv  BY DEF Ground, IInv
<1>2. /\ UNCHANGED <<cancelVars, submit_pc, cancel_requested, work>>
      /\ Busy(w)
      /\ \A v \in Workers \ {w} : result'[v] = result[v]
  BY <1>1 DEF Worker, ExecuteSkip, ExecuteStart, ExecuteOngoing, ExecuteUnavailableModel,
         ExecuteInfer, ExecuteRecheck, ExecuteSettle, ExecuteForget, workerElse, workerRest,
         submitVars, Busy, TypeOK
<1>3. work[w] # <<>>  BY <1>1, <1>2 DEF HandsFull
<1>4. /\ t \in Tasks /\ InCustody(t) /\ Submitted(t)
      /\ Running(t) <=> \/ worker_pc[w] \in {"infer", "recheck"}
                        \/ worker_pc[w] = "settle" /\ result[w] # Op("CANCELED", "before")
      /\ Settled(t) <=> worker_pc[w] \in {"forget", "record"}
  BY <1>1, <1>3, CurrentTask DEF Settled
<1>5. \A u \in Tasks \ {t} : FateOf(u)' = FateOf(u)  BY <1>1, MoveLife, SameFate
<1>6. InCustody(t)' /\ Submitted(t)'
  BY <1>1, <1>2, <1>4, WorkerStill DEF Still, Submitted
<1>7. PICK to : worker_pc' = [worker_pc EXCEPT ![w] = to]
  BY DEF Worker, ExecuteSkip, ExecuteStart, ExecuteOngoing, ExecuteUnavailableModel, ExecuteInfer,
         ExecuteRecheck, ExecuteSettle, ExecuteForget
<1>8. /\ worker_pc'[w] = to
      /\ Settled(t)' <=> to \in {"forget", "record"}
      /\ Running(t)' <=> \/ to \in {"infer", "recheck"}
                         \/ to = "settle" /\ result'[w] # Op("CANCELED", "before")
  BY <1>1, <1>2, <1>3, <1>7, StageMove DEF TypeOK
<1>9. ~ Revoked(t) /\ ~ Revoked(t)'
  <2>1. ~ Revoked(t)  BY <1>4 DEF LifeInv, CancelInv, Revoker, Revoked
  <2> QED  BY <1>2, <2>1, OtherThread DEF SameCancel
<1>10. /\ FateOf(t) = IF Running(t) THEN "running" ELSE IF Settled(t) THEN "over" ELSE "waiting"
       /\ FateOf(t)' = IF Running(t)' THEN "running"
                       ELSE IF Settled(t)' THEN "over" ELSE "waiting"
  BY <1>4, <1>6, <1>9, FateValue
<1>11. CASE ExecuteOngoing(w)
  <2>1. /\ worker_pc[w] = "ongoing" /\ to = "infer"
        /\ UpdateOperation(t, Op("ONGOING", "none"))
    BY <1>8, <1>11, <1>1 DEF ExecuteOngoing, TypeOK
  <2>2. FateOf(t) = "waiting" /\ FateOf(t)' = "running"  BY <1>4, <1>8, <1>10, <2>1
  <2>3. Lifecycle!Start(t)  BY <1>2, <1>4, <1>5, <2>1, <2>2, FateStep DEF Lifecycle!Start
  <2> QED  BY <1>4, <2>3 DEF Lifecycle!Next, Lifecycle!Execution
<1>12. CASE ExecuteSettle(w)
  <2>1. /\ worker_pc[w] = "settle" /\ to = "forget"
        /\ UpdateOperation(t, result[w])
    BY <1>8, <1>12, <1>1 DEF ExecuteSettle, TypeOK
  <2>2. FateOf(t)' = "over" /\ ~ Settled(t)  BY <1>4, <1>8, <1>10, <2>1
  <2>3. TrueOutcome(result[w], t)  BY <2>1 DEF LifeInv, ExecInv
  <2>4. CASE result[w] = Op("CANCELED", "before")
    <3>1. FateOf(t) = "waiting"  BY <1>4, <1>10, <2>1, <2>2, <2>4
    <3>2. cancel_requested[t]  BY <2>3, <2>4 DEF TrueOutcome, Op
    <3>3. Lifecycle!Skip(t)
      BY <1>2, <1>4, <1>5, <2>1, <2>2, <2>4, <3>1, <3>2, FateStep DEF Lifecycle!Skip
    <3> QED  BY <1>4, <3>3 DEF Lifecycle!Next, Lifecycle!Execution
  <2>5. CASE result[w] # Op("CANCELED", "before")
    <3>1. FateOf(t) = "running"  BY <1>4, <1>10, <2>1, <2>5
    <3>2. Lifecycle!Becomes(t, "running", "over")  BY <1>4, <1>5, <2>2, <3>1, FateStep
    <3>3. \/ Lifecycle!Write(t, Lifecycle!Op("SUCCESS", "none"))
          \/ Lifecycle!Write(t, Lifecycle!Op("FAILURE", "none"))
          \/ cancel_requested[t] /\ Lifecycle!Write(t, Lifecycle!Op("CANCELED", "during"))
      BY <1>4, <1>5, <2>1, <2>3, <2>5, FateStep DEF TrueOutcome
    <3>4. Lifecycle!Settle(t)  BY <1>2, <3>2, <3>3 DEF Lifecycle!Settle
    <3> QED  BY <1>4, <3>4 DEF Lifecycle!Next, Lifecycle!Execution
  <2> QED  BY <2>4, <2>5
<1>13. CASE ~ ExecuteOngoing(w) /\ ~ ExecuteSettle(w)
  <2>1. operations' = operations
    BY <1>13 DEF Worker, ExecuteSkip, ExecuteStart, ExecuteUnavailableModel, ExecuteInfer,
           ExecuteRecheck, ExecuteForget, workerRest
  <2>2. FateOf(t)' = FateOf(t)
    <3>1. \/ worker_pc[w] = "check" /\ to = "settle" /\ result'[w] = Op("CANCELED", "before")
          \/ worker_pc[w] = "check" /\ to = "ongoing"
          \/ /\ worker_pc[w] = "infer" /\ to = "settle"
             /\ result'[w] = Op("FAILURE", "none")
          \/ worker_pc[w] = "infer" /\ to = "recheck"
          \/ /\ worker_pc[w] = "recheck" /\ to = "settle"
             /\ result'[w] = Op("CANCELED", "during") \/ result'[w] = result[w]
          \/ worker_pc[w] = "forget" /\ to = "record"
      BY <1>1, <1>8, <1>13
         DEF Worker, ExecuteSkip, ExecuteStart, ExecuteUnavailableModel, ExecuteInfer,
             ExecuteRecheck, ExecuteForget, TypeOK
    <3>2. worker_pc[w] = "recheck" => result[w] # Op("CANCELED", "before")
      BY DEF LifeInv, ExecInv, Op
    <3> QED  BY <1>4, <1>8, <1>10, <3>1, <3>2 DEF Op
  <2> QED  BY <1>2, <1>4, <1>5, <2>1, <2>2, FateStep DEF Lifecycle!taskVars
<1> QED  BY <1>11, <1>12, <1>13

\* What is recorded is over already; an exception abandons the rest.
LEMMA LetGoImplements ==
    ASSUME Ground, LifeInv, NEW w \in Workers, ExecuteRecord(w) \/ ExecuteThrow(w)
    PROVE  [Lifecycle!Next]_(Lifecycle!taskVars)
<1>0. PICK t : t = Head(work[w])  OBVIOUS
<1>1. TypeOK /\ HandsFull /\ CustodyInv  BY DEF Ground, IInv
<1>2. /\ t \in Tasks /\ InCustody(t) /\ ~ InCustody(t)'
      /\ ~ Running(t)' /\ ~ Revoked(t) /\ ~ Revoked(t)'
      /\ ExecuteRecord(w) => Settled(t) /\ ~ Running(t)
      /\ ExecuteThrow(w) => Running(t)
      /\ \A u \in Tasks \ {t} :
            /\ SameStage(u) /\ SameCancel(u) /\ submit_pc'[u] = submit_pc[u]
            /\ InCustody(u)' <=> InCustody(u) /\ ~ (ExecuteThrow(w) /\ Among(u, work[w]))
      /\ UNCHANGED <<operations, cancel_requested, submit_pc>>
  BY <1>0, <1>1, LetGoLife
<1>3. Submitted(t) /\ Submitted(t)'  BY <1>1, <1>2 DEF CustodyInv, Submitted
<1>4. FateOf(t)' = "over"  BY <1>2, <1>3, FateValue
<1>5. ASSUME NEW u \in Tasks \ {t}, ~ (ExecuteThrow(w) /\ Among(u, work[w]))
      PROVE  FateOf(u)' = FateOf(u)
  BY <1>2, <1>5, FateValue DEF SameStage, SameCancel, Submitted
<1>6. CASE ExecuteRecord(w)
  <2>1. ~ ExecuteThrow(w)  BY <1>6 DEF ExecuteRecord, ExecuteThrow, WorkerGoto
  <2>2. FateOf(t) = "over"  BY <1>2, <1>3, <1>6, FateValue
  <2> QED  BY <1>2, <1>4, <1>5, <2>1, <2>2, FateStep DEF Lifecycle!taskVars
<1>7. CASE ExecuteThrow(w)
  <2> DEFINE rest == {u \in Tasks \ {t} : Among(u, work[w])}
  <2>1. FateOf(t) = "running"  BY <1>2, <1>3, <1>7, FateValue
  <2>2. ASSUME NEW u \in rest PROVE FateOf(u) = "waiting" /\ FateOf(u)' = "over"
    <3>1. AtWorker(u) /\ InCustody(u) /\ Submitted(u) /\ ~ InCustody(u)'
      BY <1>1, <1>2, <1>7 DEF AtWorker, InCustody, CustodyInv
    <3>2. ~ Revoked(u)  BY <3>1 DEF LifeInv, CancelInv, Revoker, Revoked
    <3>3. \A v \in Workers : \A pcs : ~ Current(u, v, pcs)
      <4> SUFFICES ASSUME NEW v \in Workers, work[v] # <<>>, Head(work[v]) = u PROVE FALSE
        BY DEF Current
      <4>1. work[v] \in Seq(Tasks)  BY <1>1 DEF TypeOK
      <4>2. Among(u, work[v])  BY <4>1, TailMembers
      <4>3. v = w  BY <1>1, <4>2 DEF CustodyInv, OneHolder
      <4> QED  BY <1>0, <4>3
    <3>4. ~ Running(u) /\ ~ Settled(u)  BY <3>3 DEF Running, Settled, Handling
    <3>5. ~ Revoked(u)' /\ ~ Running(u)' /\ ~ Settled(u)' /\ Submitted(u)'
      BY <1>2, <3>1, <3>2, <3>4 DEF SameStage, SameCancel, Submitted
    <3> QED  BY <3>1, <3>2, <3>4, <3>5, FateValue
  <2> HIDE DEF rest
  <2>3. \A u \in Tasks : FateOf(u)' = IF u \in rest \cup {t} THEN "over" ELSE FateOf(u)
    <3>1. \A u \in Tasks \ {t} : u \notin rest => ~ Among(u, work[w])  BY DEF rest
    <3> QED  BY <1>4, <1>5, <2>2, <3>1
  <2>4. rest \in SUBSET {u \in Tasks : FateOf(u) = "waiting"}
    <3>1. rest \subseteq Tasks  BY DEF rest
    <3> QED  BY <2>2, <3>1
  <2>5. Lifecycle!Abandon(t)
    BY <1>2, <2>1, <2>3, <2>4 DEF Lifecycle!Abandon
  <2> QED  BY <1>2, <2>5 DEF Lifecycle!Next, Lifecycle!Execution
<1> QED  BY <1>6, <1>7

(***************************************************************************)
(* The scheduler implements TaskLifecycle: every step of every thread is   *)
(* one abstract step of one task, or changes neither a fate nor an         *)
(* operation.                                                              *)
(***************************************************************************)
THEOREM SchedulerImplementsLifecycle == Spec => ImplementsLifecycle
<1>1. Init => Lifecycle!Init
  <2> SUFFICES ASSUME Init PROVE Lifecycle!Init  OBVIOUS
  <2>1. \A t \in Tasks : FateOf(t) = "outside"
    BY FateValue DEF Init, Submitted
  <2> QED  BY <2>1 DEF Init, Lifecycle!Init, Lifecycle!Absent, Absent
<1>2. Ground /\ LifeInv /\ [Next]_vars => [Lifecycle!Next]_(Lifecycle!taskVars)
  <2> SUFFICES ASSUME Ground, LifeInv, [Next]_vars
               PROVE  [Lifecycle!Next]_(Lifecycle!taskVars)
    OBVIOUS
  <2>1. TypeOK /\ HandsFull /\ NeverRefused /\ CustodyInv  BY DEF Ground, IInv
  <2>2. ASSUME \A u \in Tasks : Same(u), UNCHANGED <<operations, cancel_requested>>
        PROVE  [Lifecycle!Next]_(Lifecycle!taskVars)
    <3>1. \A u \in Tasks : FateOf(u)' = FateOf(u)  BY <2>2, SameFate
    <3>2. UNCHANGED [u \in Tasks |-> FateOf(u)]  BY <3>1
    <3> QED  BY <2>2, <3>2 DEF Lifecycle!taskVars
  <2>3. CASE \E t \in Tasks : Submitter(t)  BY <2>3, SubmitterImplements
  <2>4. CASE \E c \in Cancelers : CancelStep(c) \/ \E t \in Cancelable : CancelBegin(c, t)
    BY <2>4, CancelImplements
  <2>5. ASSUME NEW t \in Deletable, DeleteOperation(t)
        PROVE  [Lifecycle!Next]_(Lifecycle!taskVars)
    <3>1. /\ t \in Tasks /\ \A u \in Tasks \ {t} : FateOf(u)' = FateOf(u)
          /\ UNCHANGED <<cancelVars, workerVars, submit_pc, cancel_requested>>
      BY <2>1, <2>5, DeleteLife, SameFate DEF DeleteOperation, submitVars
    <3>2. InCustody(t)' <=> InCustody(t)  BY <2>1, <2>5, <3>1, OthersStill DEF Still
    <3>3. FateOf(t)' = FateOf(t)
      <4>1. SameStage(t) /\ SameCancel(t)  BY <3>1, OtherThread
      <4> QED  BY <3>1, <3>2, <4>1, FateValue DEF SameStage, SameCancel, Submitted
    <3>4. operations' = [operations EXCEPT ![t] = Lifecycle!Absent] /\ t \in DOMAIN operations
      BY <2>1, <2>5, <3>1 DEF DeleteOperation, UpdateOperation, Lifecycle!Absent, Absent, TypeOK
    <3>5. Lifecycle!Delete(t)
      BY <3>1, <3>3, <3>4, FateStep DEF Lifecycle!Delete
    <3> QED  BY <3>4, <3>5 DEF Lifecycle!Next
  <2>6. CASE Dispatcher  BY <2>1, <2>2, <2>6, DispatcherLife
  <2>7. ASSUME NEW w \in Workers, Worker(w)
        PROVE  [Lifecycle!Next]_(Lifecycle!taskVars)
    <3>1. CASE TakeUnit(w) \/ WorkerExit(w)  BY <2>1, <2>2, <3>1, TakeLife
    <3>2. CASE ExecuteRecord(w) \/ ExecuteThrow(w)  BY <3>2, LetGoImplements
    <3>3. CASE ~ TakeUnit(w) /\ ~ WorkerExit(w) /\ ~ ExecuteRecord(w) /\ ~ ExecuteThrow(w)
      BY <2>7, <3>3, MoveImplements
    <3> QED  BY <3>1, <3>2, <3>3
  <2>8. CASE (\E t \in Tasks : WindowElapses(t)) \/ StopRequest \/ StopStep \/ UNCHANGED vars
    BY <2>1, <2>2, <2>8, IdleLife
  <2> QED  BY <2>3, <2>4, <2>5, <2>6, <2>7, <2>8 DEF Next, Terminating
<1> QED  BY LifeHolds, <1>1, <1>2, PTL DEF Spec, ImplementsLifecycle, Lifecycle!Spec
=============================================================================
