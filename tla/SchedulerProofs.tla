--------------------------- MODULE SchedulerProofs ---------------------------
(***************************************************************************)
(* Theorems about the scheduler, for any number of tasks, models, clients  *)
(* and workers.                                                            *)
(***************************************************************************)
EXTENDS SchedulerProperties, FiniteSetTheorems, SequenceTheorems, TLAPS

(***************************************************************************)
(* What the type invariant and the exactness of the inflight count need    *)
(* besides themselves: a thread that is between taking something over and  *)
(* handing it on holds something.  A worker reads Head(work[w]) and the    *)
(* count is returned when a busy worker becomes idle, so both rest on it.  *)
(***************************************************************************)
HandsFull ==
    /\ dispatch_pc = "dispatch" => unit # <<>>
    /\ \A i \in DOMAIN pool : pool[i] # <<>>
    /\ \A w \in Workers : Busy(w) => work[w] # <<>>
    /\ \A c \in Cancelers : cancel_pc[c] # "idle" => cancel_task[c] \in Tasks

IInv == TypeOK /\ InflightExact /\ HandsFull

-----------------------------------------------------------------------------
\* Sequences: the ways a waiting set is changed keep its elements.

LEMMA SubSeqTyped ==
    ASSUME NEW S, NEW s \in Seq(S), NEW m \in Nat \ {0}, NEW n \in 0 .. Len(s)
    PROVE  /\ SubSeq(s, m, n) \in Seq(S)
           /\ m = 1 /\ n > 0 => SubSeq(s, m, n) # <<>>
           /\ m <= n + 1 => Len(SubSeq(s, m, n)) = n + 1 - m
<1>1. \A i \in m .. n : s[i] \in S  BY ElementOfSeq
<1>2. m \in Int /\ n \in Int  OBVIOUS
<1> QED  BY <1>1, <1>2, SubSeqProperties

LEMMA RemoveAtTyped ==
    ASSUME NEW S, NEW s \in Seq(S), NEW i \in DOMAIN s
    PROVE  /\ SubSeq(s, 1, i - 1) \o SubSeq(s, i + 1, Len(s)) \in Seq(S)
           /\ Len(SubSeq(s, 1, i - 1) \o SubSeq(s, i + 1, Len(s))) = Len(s) - 1
<1>1. i \in 1 .. Len(s) /\ Len(s) \in Nat  OBVIOUS
<1>2. SubSeq(s, 1, i - 1) \in Seq(S) /\ Len(SubSeq(s, 1, i - 1)) = i - 1
  BY <1>1, SubSeqTyped
<1>3. SubSeq(s, i + 1, Len(s)) \in Seq(S) /\ Len(SubSeq(s, i + 1, Len(s))) = Len(s) - i
  BY <1>1, SubSeqTyped
<1>4. Len(SubSeq(s, 1, i - 1) \o SubSeq(s, i + 1, Len(s))) = (i - 1) + (Len(s) - i)
  BY <1>2, <1>3, ConcatProperties
<1>5. SubSeq(s, 1, i - 1) \o SubSeq(s, i + 1, Len(s)) \in Seq(S)
  BY <1>2, <1>3, ConcatProperties
<1>6. (i - 1) + (Len(s) - i) = Len(s) - 1  BY <1>1
<1> QED  BY <1>4, <1>5, <1>6

LEMMA CutTyped ==
    ASSUME NEW S, NEW s \in Seq(S), NEW n \in 1 .. Len(s)
    PROVE  /\ SubSeq(s, 1, n) \in Seq(S) /\ SubSeq(s, 1, n) # <<>>
           /\ SubSeq(s, n + 1, Len(s)) \in Seq(S)
<1>1. /\ n \in 0 .. Len(s) /\ n > 0 /\ Len(s) \in 0 .. Len(s)
      /\ 1 \in Nat \ {0} /\ n + 1 \in Nat \ {0}
  OBVIOUS
<1> QED  BY <1>1, SubSeqTyped

LEMMA TailTyped ==
    ASSUME NEW S, NEW s \in Seq(S), s # <<>>
    PROVE  /\ Head(s) \in S
           /\ Tail(s) \in Seq(S)
           /\ Len(Tail(s)) = Len(s) - 1
           /\ \A i \in DOMAIN Tail(s) : i + 1 \in DOMAIN s /\ Tail(s)[i] = s[i + 1]
  BY HeadTailProperties

-----------------------------------------------------------------------------
\* The number of busy workers when one of them changes state.

LEMMA BusyFinite == IsFiniteSet(BusyWorkers) /\ Cardinality(BusyWorkers) \in Nat
<1>1. IsFiniteSet(BusyWorkers)
  BY ThreadsAssumption, FS_Subset DEF BusyWorkers
<1> QED  BY <1>1, FS_CardinalityType

LEMMA BusyChange ==
    ASSUME TypeOK, NEW w \in Workers, NEW to,
           worker_pc' = [worker_pc EXCEPT ![w] = to]
    PROVE  /\ Busy(w) = Busy(w)' => Cardinality(BusyWorkers') = Cardinality(BusyWorkers)
           /\ ~ Busy(w) /\ Busy(w)'
                => Cardinality(BusyWorkers') = Cardinality(BusyWorkers) + 1
           /\ Busy(w) /\ ~ Busy(w)'
                => /\ Cardinality(BusyWorkers) > 0
                   /\ Cardinality(BusyWorkers') = Cardinality(BusyWorkers) - 1
<1>1. \A v \in Workers \ {w} : Busy(v)' <=> Busy(v)  BY DEF TypeOK, Busy
<1>2. ASSUME Busy(w) = Busy(w)'
      PROVE  Cardinality(BusyWorkers') = Cardinality(BusyWorkers)
  <2>1. BusyWorkers' = BusyWorkers  BY <1>1, <1>2 DEF BusyWorkers
  <2> QED  BY <2>1
<1>3. ASSUME ~ Busy(w), Busy(w)'
      PROVE  Cardinality(BusyWorkers') = Cardinality(BusyWorkers) + 1
  <2>1. BusyWorkers' = BusyWorkers \cup {w} /\ w \notin BusyWorkers
    BY <1>1, <1>3 DEF BusyWorkers
  <2> QED  BY <2>1, BusyFinite, FS_AddElement
<1>4. ASSUME Busy(w), ~ Busy(w)'
      PROVE  /\ Cardinality(BusyWorkers) > 0
             /\ Cardinality(BusyWorkers') = Cardinality(BusyWorkers) - 1
  <2>1. BusyWorkers' = BusyWorkers \ {w} /\ w \in BusyWorkers
    BY <1>1, <1>4 DEF BusyWorkers
  <2>2. Cardinality(BusyWorkers') = Cardinality(BusyWorkers) - 1
    BY <2>1, BusyFinite, FS_RemoveElement
  <2>3. Cardinality(BusyWorkers) # 0  BY <2>1, BusyFinite, FS_EmptySet
  <2> QED  BY <2>2, <2>3, BusyFinite
<1> QED  BY <1>2, <1>3, <1>4

-----------------------------------------------------------------------------
THEOREM InitIInv == Init => IInv
<1> SUFFICES ASSUME Init PROVE IInv  OBVIOUS
<1>1. TypeOK
  BY DEF Init, TypeOK, Batch!EmptyQueue, SubmitPc, CancelPc, DispatchPc, WorkerPc, StopPc
<1>2. BusyWorkers = {}  BY DEF Init, BusyWorkers, Busy
<1>3. InflightExact  BY <1>2, FS_EmptySet DEF Init, InflightExact
<1>4. HandsFull  BY DEF Init, HandsFull, Busy
<1> QED  BY <1>1, <1>3, <1>4 DEF IInv

-----------------------------------------------------------------------------
\* A submission touches neither the pool nor anyone's hands: of the invariant
\* only the types are at stake.
LEMMA SubmitterIInv ==
    ASSUME IInv, NEW t \in Tasks, Submitter(t)
    PROVE  IInv'
<1> USE DEF IInv, TypeOK, SubmitGoto, SubmitPc, UpdateOperation, submitElse, submitRest,
            queueVars, routing, cancelVars, workerVars, stopVars
<1>1. ModelOf[t] \in Models  BY ModelsAssumption
<1>2. Op("PENDING", "none") \in OperationInfo /\ Op("FAILURE", "none") \in OperationInfo
  BY DEF Op, OperationInfo, OperationState, Message
<1>3. TypeOK'
  <2>1. CASE SubmitUnavailableModel(t)  BY <2>1 DEF SubmitUnavailableModel
  <2>2. CASE SubmitInferenceRequest(t)  BY <1>2, <2>2 DEF SubmitInferenceRequest
  <2>3. CASE AdmitCheckStop(t)  BY <2>3 DEF AdmitCheckStop
  <2>4. CASE AdmitContext(t)  BY <2>4 DEF AdmitContext, OwnerOf
  <2>5. CASE AdmitSnapshot(t)  BY <2>5 DEF AdmitSnapshot
  <2>6. CASE AdmitQueueFull(t)  BY <1>2, <2>6 DEF AdmitQueueFull
  <2>7. CASE AdmitWithinLimit(t)  BY <2>7 DEF AdmitWithinLimit
  <2>8. CASE TrackTask(t)  BY <2>8 DEF TrackTask
  <2>9. CASE AdmitFIFO(t)  BY <2>9 DEF AdmitFIFO, Fifo!Admit
  <2>10. CASE AdmitBatch(t)
    <3>1. Conf[ModelOf[t]].max_batch_size \in Nat
      BY <1>1, ModelsAssumption DEF ModelConf
    <3>2. Append(queues[ModelOf[t]].tasks, t) \in Seq(Tasks)
      BY <1>1
    <3>3. queues' \in [Models -> [tasks : Seq(Tasks), max_batch_size : Nat \ {0}]]
      BY <1>1, <2>10, <3>1, <3>2 DEF AdmitBatch, Batch!Admit
    <3> QED  BY <2>10, <3>3 DEF AdmitBatch, Batch!Admit
  <2>11. CASE AdmitModelStat(t)  BY <1>1, <2>11 DEF AdmitModelStat
  <2>12. CASE AdmitNotify(t)  BY <2>12 DEF AdmitNotify, WakeDispatcher, DispatchPc
  <2>13. CASE SubmitFailed(t)  BY <1>2, <2>13 DEF SubmitFailed
  <2> QED
    BY <2>1, <2>2, <2>3, <2>4, <2>5, <2>6, <2>7, <2>8, <2>9, <2>10, <2>11, <2>12, <2>13
       DEF Submitter
<1>4. /\ UNCHANGED submitElse
      /\ dispatch_pc' = "dispatch" => dispatch_pc = "dispatch"
  BY DEF Submitter, SubmitUnavailableModel, SubmitInferenceRequest, AdmitCheckStop, AdmitContext,
         AdmitSnapshot, AdmitQueueFull, AdmitWithinLimit, TrackTask, AdmitFIFO, AdmitBatch,
         AdmitModelStat, AdmitNotify, SubmitFailed, WakeDispatcher
<1>5. InflightExact'  BY <1>4 DEF InflightExact, BusyWorkers, Busy
<1>6. HandsFull'  BY <1>4 DEF HandsFull, Busy
<1> QED  BY <1>3, <1>5, <1>6

\* A canceler has its task in hand from its first step to its last.
LEMMA CancelIInv ==
    ASSUME IInv, NEW c \in Cancelers,
           CancelStep(c) \/ \E t \in Cancelable : CancelBegin(c, t)
    PROVE  IInv'
<1> USE DEF IInv, TypeOK, HandsFull, CancelGoto, CancelPc, UpdateOperation, cancelElse, cancelRest,
            queueVars, statVars, submitVars, routing, dispatchVars, workerVars, stopVars
<1>1. /\ Op("CANCELED", "before") \in OperationInfo
      /\ Op("CANCEL_REQUESTED", "none") \in OperationInfo
  BY DEF Op, OperationInfo, OperationState, Message
<1>2. TypeOK' /\ (\A d \in Cancelers : cancel_pc'[d] # "idle" => cancel_task'[d] \in Tasks)
  <2>1. CASE \E t \in Cancelable : CancelBegin(c, t)
    BY <2>1, ClientsAssumption DEF CancelBegin
  <2>2. CASE CancelUntracked(c)  BY <2>2 DEF CancelUntracked
  <2>3. CASE CancelLookup(c)  BY <2>3 DEF CancelLookup
  <2>4. CASE CancelFlag(c)  BY <2>4 DEF CancelFlag
  <2>5. CASE CancelRevokeFIFO(c)
    <3>1. PICK i \in DOMAIN pending_tasks : pending_tasks' = Fifo!RemoveAt(pending_tasks, i)
      BY <2>5 DEF CancelRevokeFIFO, Fifo!Revoke
    <3>2. pending_tasks' \in Seq(Tasks)  BY <3>1, RemoveAtTyped DEF Fifo!RemoveAt
    <3> QED  BY <2>5, <3>2 DEF CancelRevokeFIFO
  <2>6. CASE CancelRevokeBatch(c)
    <3>1. PICK m \in Models : \E i \in DOMAIN queues[m].tasks :
            /\ queues' = [queues EXCEPT ![m].tasks = Batch!RemoveAt(@, i)]
            /\ elapsed' = elapsed \ {cancel_task[c]}
      BY <2>6 DEF CancelRevokeBatch, Batch!Revoke
    <3>2. \A i \in DOMAIN queues[m].tasks : Batch!RemoveAt(queues[m].tasks, i) \in Seq(Tasks)
      BY RemoveAtTyped DEF Batch!RemoveAt
    <3>3. queues' \in [Models -> [tasks : Seq(Tasks), max_batch_size : Nat \ {0}]]
      <4>1. PICK i \in DOMAIN queues[m].tasks :
                queues' = [queues EXCEPT ![m].tasks = Batch!RemoveAt(@, i)]
        BY <3>1
      <4>2. /\ queues \in [Models -> [tasks : Seq(Tasks), max_batch_size : Nat \ {0}]]
            /\ Batch!RemoveAt(queues[m].tasks, i) \in Seq(Tasks)
        BY <3>2
      <4> HIDE DEF IInv, TypeOK, HandsFull
      <4> QED  BY <4>1, <4>2
    <3>4. elapsed' \subseteq Tasks  BY <3>1
    <3>5. cancel_pc' = [cancel_pc EXCEPT ![c] = "finalize"] /\ cancel_pc[c] # "idle"
      BY <2>6 DEF CancelRevokeBatch
    <3>6. UNCHANGED <<cancelElse, operations, tracked_tasks, cancel_requested, pending_tasks,
                      cancel_task>>
      BY <2>6 DEF CancelRevokeBatch
    <3> QED  BY <3>3, <3>4, <3>5, <3>6
  <2>7. CASE CancelNotQueued(c)  BY <2>7 DEF CancelNotQueued
  <2>8. CASE CancelFinalize(c)  BY <1>1, <2>8 DEF CancelFinalize
  <2>9. CASE CancelForget(c)  BY <2>9 DEF CancelForget
  <2>10. CASE CancelRequest(c)  BY <1>1, <2>10 DEF CancelRequest
  <2> QED
    BY <2>1, <2>2, <2>3, <2>4, <2>5, <2>6, <2>7, <2>8, <2>9, <2>10 DEF CancelStep
<1>3. UNCHANGED cancelElse
  BY DEF CancelStep, CancelBegin, CancelUntracked, CancelLookup, CancelFlag, CancelRevokeFIFO,
         CancelRevokeBatch, CancelNotQueued, CancelFinalize, CancelForget, CancelRequest
<1>4. InflightExact'  BY <1>3 DEF InflightExact, BusyWorkers, Busy
<1>5. HandsFull'  BY <1>2, <1>3 DEF Busy
<1> QED  BY <1>2, <1>4, <1>5

LEMMA DeleteIInv ==
    ASSUME IInv, NEW t \in Tasks, DeleteOperation(t)
    PROVE  IInv'
  BY DEF IInv, TypeOK, HandsFull, InflightExact, BusyWorkers, Busy, DeleteOperation,
         UpdateOperation, queueVars, statVars, submitVars, routing, cancelVars, dispatchVars,
         workerVars, stopVars

-----------------------------------------------------------------------------
\* The dispatcher: what it selects is not empty, and handing it to the pool
\* lengthens the pool's queue and the count by one.
LEMMA DispatcherIInv ==
    ASSUME IInv, Dispatcher
    PROVE  IInv'
<1> USE DEF IInv, TypeOK, HandsFull, DispatchGoto, DispatchPc, dispatchElse, dispatchRest,
            queueVars, submitVars, routing, cancelVars, workerVars, stopVars
<1>1. BusyWorkers' = BusyWorkers /\ (\A w \in Workers : Busy(w)' = Busy(w))
  BY DEF Dispatcher, DispatchLock, DispatchBlock, DispatchTimeout, DispatchDayTimeout, DispatchWake,
         DispatchExit, SelectFIFO, SelectBatch, SelectNothing, Dispatch, BusyWorkers, Busy
<1>2. CASE DispatchLock
  <2>1. wait_dur' \in {"zero", "window", "day"}
    BY <1>2 DEF DispatchLock, MinWaitDuration
  <2> QED  BY <1>1, <1>2, <2>1 DEF DispatchLock, InflightExact
<1>3. CASE DispatchBlock  BY <1>1, <1>3 DEF DispatchBlock, InflightExact
<1>4. CASE DispatchTimeout  BY <1>1, <1>4 DEF DispatchTimeout, InflightExact
<1>5. CASE DispatchDayTimeout  BY <1>1, <1>5 DEF DispatchDayTimeout, InflightExact
<1>6. CASE DispatchWake  BY <1>1, <1>6 DEF DispatchWake, InflightExact
<1>7. CASE DispatchExit  BY <1>1, <1>7 DEF DispatchExit, InflightExact
<1>8. CASE SelectFIFO
  <2>1. unit' \in Seq(Tasks) /\ unit' # <<>> /\ pending_tasks' \in Seq(Tasks)
    BY <1>8, TailTyped DEF SelectFIFO, Fifo!Select, Fifo!Ready
  <2> QED  BY <1>1, <1>8, <2>1 DEF SelectFIFO, InflightExact
<1>9. ASSUME NEW m \in Models, SelectBatch(m)
      PROVE  IInv'
  <2> DEFINE tasks == queues[m].tasks
             size  == IF Batch!SizeReady(m) THEN queues[m].max_batch_size ELSE Len(tasks)
  <2>1. tasks \in Seq(Tasks) /\ tasks # <<>> /\ size \in 1 .. Len(tasks)
    BY <1>9 DEF SelectBatch, Batch!Select, Batch!Ready, Batch!SizeReady
  <2>2. /\ SubSeq(tasks, 1, size) \in Seq(Tasks)
        /\ SubSeq(tasks, 1, size) # <<>>
        /\ SubSeq(tasks, size + 1, Len(tasks)) \in Seq(Tasks)
    <3> HIDE DEF tasks, size
    <3> QED  BY <2>1, CutTyped
  <2>3. unit' \in Seq(Tasks) /\ unit' # <<>>
    BY <1>9, <2>2 DEF SelectBatch, Batch!Select
  <2>4. queues' \in [Models -> [tasks : Seq(Tasks), max_batch_size : Nat \ {0}]]
    BY <1>9, <2>2 DEF SelectBatch, Batch!Select
  <2>5. elapsed' \subseteq Tasks
    BY <1>9 DEF SelectBatch, Batch!Select
  <2> QED  BY <1>1, <1>9, <2>3, <2>4, <2>5 DEF SelectBatch, InflightExact
<1>10. CASE SelectNothing  BY <1>1, <1>10 DEF SelectNothing, InflightExact
<1>11. CASE Dispatch
  <2>1. Op("FAILURE", "none") \in OperationInfo
    BY DEF Op, OperationInfo, OperationState, Message
  <2>2. CASE pool_stop
    <3>1. operations' \in [Tasks -> OperationInfo \cup {Absent}]
      BY <1>11, <2>1, <2>2 DEF Dispatch
    <3> QED  BY <1>1, <1>11, <2>2, <3>1 DEF Dispatch, InflightExact
  <2>3. CASE ~ pool_stop
    <3>1. /\ pool' = Append(pool, unit)
          /\ inflight_task_count' = inflight_task_count + 1
          /\ unit # <<>>
      BY <1>11, <2>3 DEF Dispatch
    <3>2. /\ pool' \in Seq(Seq(Tasks))
          /\ Len(pool') = Len(pool) + 1
          /\ \A i \in DOMAIN pool' : pool'[i] # <<>>
      BY <3>1
    <3>3. InflightExact'  BY <1>1, <3>1, <3>2, BusyFinite DEF InflightExact
    <3>4. inflight_task_count' \in Nat  BY <3>1
    <3>5. UNCHANGED <<dispatchElse, operations, tracked_tasks, queueVars, wait_dur>>
          /\ unit' = <<>> /\ dispatch_pc' = "top"
      BY <1>11, <2>3 DEF Dispatch
    <3>6. TypeOK'  BY <3>2, <3>4, <3>5
    <3>7. HandsFull'  BY <1>1, <3>2, <3>5
    <3> QED  BY <3>3, <3>6, <3>7
  <2> QED  BY <2>2, <2>3
<1> QED
  BY <1>2, <1>3, <1>4, <1>5, <1>6, <1>7, <1>8, <1>9, <1>10, <1>11 DEF Dispatcher

-----------------------------------------------------------------------------
\* A worker becomes busy with the unit it takes from the pool, stays busy
\* while the unit has tasks, and returns the count when it has none or when
\* infer() throws.
LEMMA WorkerIInv ==
    ASSUME IInv, NEW w \in Workers, Worker(w)
    PROVE  IInv'
<1> USE DEF IInv, TypeOK, HandsFull, WorkerGoto, WorkerPc, UpdateOperation, workerElse, workerRest,
            queueVars, statVars, submitVars, routing, cancelVars, dispatchVars, stopVars
<1>1. \A state \in {"CANCELED", "SUCCESS", "FAILURE", "ONGOING"}, message \in Message :
         Op(state, message) \in OperationInfo
  BY DEF Op, OperationInfo, OperationState
<1>2. Busy(w) => work[w] # <<>> /\ Head(work[w]) \in Tasks /\ ModelOf[Head(work[w])] \in Models
  BY TailTyped, ModelsAssumption
<1>3. \A v \in Workers : Busy(v) <=> worker_pc[v] \notin {"idle", "exited"}
  BY DEF Busy
<1>4. \A v \in Workers : Busy(v)' <=> worker_pc'[v] \notin {"idle", "exited"}
  BY DEF Busy
<1>5. CASE TakeUnit(w)
  <2>1. /\ Head(pool) \in Seq(Tasks) /\ Head(pool) # <<>>
        /\ pool' \in Seq(Seq(Tasks)) /\ Len(pool') = Len(pool) - 1
        /\ \A i \in DOMAIN pool' : pool'[i] # <<>>
    BY <1>5, TailTyped DEF TakeUnit
  <2>2. Cardinality(BusyWorkers') = Cardinality(BusyWorkers) + 1
    BY <1>3, <1>4, <1>5, BusyChange DEF TakeUnit
  <2>3. InflightExact'  BY <1>5, <2>1, <2>2, BusyFinite DEF TakeUnit, InflightExact
  <2> QED  BY <1>3, <1>4, <1>5, <2>1, <2>3 DEF TakeUnit
<1>6. CASE WorkerExit(w)
  <2>1. Busy(w) = FALSE /\ Busy(w)' = FALSE
    BY <1>6 DEF WorkerExit, Busy
  <2>2. Cardinality(BusyWorkers') = Cardinality(BusyWorkers)
    BY <1>6, <2>1, BusyChange DEF WorkerExit
  <2> QED  BY <1>3, <1>4, <1>6, <2>2 DEF WorkerExit, InflightExact
<1>7. ASSUME Busy(w), Busy(w)', UNCHANGED <<workerElse, pool, statVars, work>>,
             \E to \in WorkerPc : worker_pc' = [worker_pc EXCEPT ![w] = to],
             operations' \in [Tasks -> OperationInfo \cup {Absent}],
             tracked_tasks' \subseteq Tasks,
             result' \in [Workers -> OperationInfo \cup {Absent}],
             infers' \in [Tasks -> Nat]
      PROVE  IInv'
  <2>1. Cardinality(BusyWorkers') = Cardinality(BusyWorkers)
    BY <1>7, BusyChange
  <2>2. InflightExact'  BY <1>7, <2>1 DEF InflightExact
  <2>3. TypeOK'  BY <1>7
  <2>4. HandsFull'  BY <1>3, <1>4, <1>7
  <2> QED  BY <2>2, <2>3, <2>4
<1>8. CASE ExecuteSkip(w)  BY <1>1, <1>3, <1>4, <1>7, <1>8 DEF ExecuteSkip, Message
<1>9. CASE ExecuteStart(w)  BY <1>3, <1>4, <1>7, <1>9 DEF ExecuteStart
<1>10. CASE ExecuteOngoing(w)
  BY <1>1, <1>2, <1>3, <1>4, <1>7, <1>10 DEF ExecuteOngoing, Message
<1>11. CASE ExecuteUnavailableModel(w)
  BY <1>1, <1>3, <1>4, <1>7, <1>11 DEF ExecuteUnavailableModel, Message
<1>12. CASE ExecuteInfer(w)
  <2>1. PICK state \in {"SUCCESS", "FAILURE"} :
            result' = [result EXCEPT ![w] = Op(state, "none")]
    BY <1>12 DEF ExecuteInfer
  <2>2. result' \in [Workers -> OperationInfo \cup {Absent}]
    BY <1>1, <2>1 DEF Message
  <2>3. Head(work[w]) \in Tasks  BY <1>2, <1>3, <1>12 DEF ExecuteInfer
  <2>4. infers' \in [Tasks -> Nat]  BY <1>12, <2>3 DEF ExecuteInfer
  <2> QED  BY <1>3, <1>4, <1>7, <1>12, <2>2, <2>4 DEF ExecuteInfer
<1>13. CASE ExecuteRecheck(w)
  BY <1>1, <1>3, <1>4, <1>7, <1>13 DEF ExecuteRecheck, Message
<1>14. CASE ExecuteSettle(w)
  BY <1>2, <1>3, <1>4, <1>7, <1>14 DEF ExecuteSettle
<1>15. CASE ExecuteForget(w)
  BY <1>3, <1>4, <1>7, <1>15 DEF ExecuteForget
<1>16. CASE ExecuteThrow(w)
  <2>1. /\ Cardinality(BusyWorkers) > 0
        /\ Cardinality(BusyWorkers') = Cardinality(BusyWorkers) - 1
    BY <1>3, <1>4, <1>16, BusyChange DEF ExecuteThrow
  <2>2. InflightExact' /\ inflight_task_count' \in Nat
    BY <1>16, <2>1, BusyFinite DEF ExecuteThrow, InflightExact
  <2>3. Head(work[w]) \in Tasks  BY <1>2, <1>3, <1>16 DEF ExecuteThrow
  <2>4. TypeOK'
    <3>1. infers' \in [Tasks -> Nat]  BY <1>16, <2>3 DEF ExecuteThrow
    <3>2. worker_pc' \in [Workers -> WorkerPc] /\ work' \in [Workers -> Seq(Tasks)]
      BY <1>16 DEF ExecuteThrow
    <3> QED  BY <1>16, <2>2, <3>1, <3>2 DEF ExecuteThrow
  <2>5. HandsFull'  BY <1>3, <1>4, <1>16 DEF ExecuteThrow
  <2> QED  BY <2>2, <2>4, <2>5
<1>17. CASE ExecuteRecord(w)
  <2>1. Busy(w) /\ work[w] # <<>>  BY <1>3, <1>17 DEF ExecuteRecord
  <2>2. Tail(work[w]) \in Seq(Tasks) /\ (Len(work[w]) # 1 => Tail(work[w]) # <<>>)
    <3>1. work[w] \in Seq(Tasks)  OBVIOUS
    <3>2. Len(work[w]) \in Nat \ {0} /\ Len(Tail(work[w])) = Len(work[w]) - 1
      BY <2>1, <3>1, TailTyped, EmptySeq
    <3>3. Tail(work[w]) \in Seq(Tasks)  BY <2>1, <3>1, TailTyped
    <3>4. ASSUME Len(work[w]) # 1 PROVE Tail(work[w]) # <<>>
      <4>1. Len(Tail(work[w])) # 0  BY <3>2, <3>4
      <4> QED  BY <3>3, <4>1, EmptySeq
    <3> QED  BY <3>3, <3>4
  <2>3. InflightExact' /\ inflight_task_count' \in Nat
    <3>1. CASE Len(work[w]) = 1
      <4>1. /\ Cardinality(BusyWorkers) > 0
            /\ Cardinality(BusyWorkers') = Cardinality(BusyWorkers) - 1
        BY <1>4, <1>17, <2>1, <3>1, BusyChange DEF ExecuteRecord
      <4> QED  BY <1>17, <3>1, <4>1, BusyFinite DEF ExecuteRecord, InflightExact
    <3>2. CASE Len(work[w]) # 1
      <4>1. Cardinality(BusyWorkers') = Cardinality(BusyWorkers)
        BY <1>4, <1>17, <2>1, <3>2, BusyChange DEF ExecuteRecord
      <4> QED  BY <1>17, <3>2, <4>1 DEF ExecuteRecord, InflightExact
    <3> QED  BY <3>1, <3>2
  <2>4. current_inflight' \in [Models -> Nat]
    BY <1>2, <1>17, <2>1 DEF ExecuteRecord
  <2> QED  BY <1>3, <1>4, <1>17, <2>2, <2>3, <2>4 DEF ExecuteRecord
<1> QED
  BY <1>5, <1>6, <1>8, <1>9, <1>10, <1>11, <1>12, <1>13, <1>14, <1>15, <1>16, <1>17 DEF Worker

LEMMA StopIInv ==
    ASSUME IInv, StopRequest \/ StopStep
    PROVE  IInv'
<1> USE DEF IInv, TypeOK, HandsFull, InflightExact, BusyWorkers, Busy, StopGoto, StopPc, stopElse,
            stopRest, taskVars, queueVars, statVars, submitVars, routing, cancelVars, workerVars
<1>1. CASE StopRequest  BY <1>1 DEF StopRequest, Accepted
<1>2. CASE StopNotify  BY <1>2 DEF StopNotify, WakeDispatcher, DispatchPc
<1>3. CASE StopJoinDispatcher  BY <1>3 DEF StopJoinDispatcher
<1>4. CASE StopJoinWorkers  BY <1>4 DEF StopJoinWorkers
<1> QED  BY <1>1, <1>2, <1>3, <1>4 DEF StopStep

LEMMA ClockIInv ==
    ASSUME IInv, NEW t \in Tasks, WindowElapses(t)
    PROVE  IInv'
  BY DEF IInv, TypeOK, HandsFull, InflightExact, BusyWorkers, Busy, WindowElapses,
         Batch!WindowElapses, taskVars, statVars, submitVars, routing, cancelVars, dispatchVars,
         workerVars, stopVars

LEMMA StutterIInv ==
    ASSUME IInv, UNCHANGED vars
    PROVE  IInv'
  BY DEF IInv, TypeOK, HandsFull, InflightExact, BusyWorkers, Busy, vars, taskVars, queueVars,
         statVars, submitVars, routing, cancelVars, dispatchVars, workerVars, stopVars

-----------------------------------------------------------------------------
LEMMA NextIInv == IInv /\ [Next]_vars => IInv'
<1> SUFFICES ASSUME IInv, [Next]_vars PROVE IInv'  OBVIOUS
<1>1. CASE \E t \in Tasks : Submitter(t)  BY <1>1, SubmitterIInv
<1>2. CASE \E t \in Tasks : WindowElapses(t)  BY <1>2, ClockIInv
<1>3. CASE \E c \in Cancelers : CancelStep(c) \/ \E t \in Cancelable : CancelBegin(c, t)
  BY <1>3, CancelIInv
<1>4. CASE \E t \in Deletable : DeleteOperation(t)
  BY <1>4, DeleteIInv, ClientsAssumption
<1>5. CASE Dispatcher  BY <1>5, DispatcherIInv
<1>6. CASE \E w \in Workers : Worker(w)  BY <1>6, WorkerIInv
<1>7. CASE StopRequest \/ StopStep  BY <1>7, StopIInv
<1>8. CASE UNCHANGED vars  BY <1>8, StutterIInv
<1> QED
  BY <1>1, <1>2, <1>3, <1>4, <1>5, <1>6, <1>7, <1>8 DEF Next, Terminating

THEOREM InvariantHolds == Spec => []IInv
  BY InitIInv, NextIInv, PTL DEF Spec

(***************************************************************************)
(* Every variable keeps its type.  In particular inflight_task_count and   *)
(* current_inflight never go below zero, and no worker reads the head of   *)
(* an empty unit.                                                          *)
(***************************************************************************)
THEOREM TypeCorrect == Spec => []TypeOK
<1>1. IInv => TypeOK  BY DEF IInv
<1> QED  BY InvariantHolds, <1>1, PTL

(***************************************************************************)
(* inflight_task_count_ is exactly the number of units in the pool's queue *)
(* and with its workers, for any number of workers, none included.         *)
(***************************************************************************)
THEOREM InflightIsExact == Spec => []InflightExact
<1>1. IInv => InflightExact  BY DEF IInv
<1> QED  BY InvariantHolds, <1>1, PTL

-----------------------------------------------------------------------------
(***************************************************************************)
(* The bound on the FIFO queue.  The queue's length alone is not inductive *)
(* (a submission that has passed the check adds to it later), so those     *)
(* submissions are counted with it; each of them is in progress, and       *)
(* MaxClients bounds the submissions in progress.                          *)
(***************************************************************************)
PastLimit == {t \in Submitting : strategy[t] = "FIFO" /\ submit_pc[t] \in {"track", "enqueue"}}

Bounded(limit) == Len(pending_tasks) + Cardinality(PastLimit) <= limit + MaxClients - 1

QInv ==
    /\ Cardinality(Submitting) <= MaxClients
    /\ ~ Churn => \A t \in Tasks : submit_pc[t] \in {"snapshot", "limit"} => conf_found[t]
    /\ \A m \in Models :
          DropsAt(Conf[m].max_queue_size) /\ ~ Churn => Bounded(Conf[m].max_queue_size)

LEMMA SubmittingFinite ==
    /\ IsFiniteSet(Submitting) /\ Cardinality(Submitting) \in Nat
    /\ IsFiniteSet(PastLimit) /\ Cardinality(PastLimit) \in Nat
    /\ Cardinality(PastLimit) <= Cardinality(Submitting)
<1>1. IsFiniteSet(Submitting)  BY TasksAssumption, FS_Subset DEF Submitting
<1>2. PastLimit \in SUBSET Submitting  BY DEF PastLimit
<1> QED  BY <1>1, <1>2, FS_Subset, FS_CardinalityType

LEMMA LimitIsNat == \A m \in Models : Conf[m].max_queue_size \in Nat
  BY ModelsAssumption DEF ModelConf

\* Fewer submissions past the check and no longer queue keep the bound.
LEMMA BoundedShrinks ==
    ASSUME TypeOK, TypeOK', PastLimit' \subseteq PastLimit,
           Len(pending_tasks') <= Len(pending_tasks),
           NEW limit \in Nat, Bounded(limit)
    PROVE  Bounded(limit)'
<1>1. Cardinality(PastLimit') <= Cardinality(PastLimit) /\ Cardinality(PastLimit') \in Nat
  BY SubmittingFinite, FS_Subset, FS_CardinalityType
<1>2. Len(pending_tasks) \in Nat /\ Len(pending_tasks') \in Nat  BY DEF TypeOK
<1> QED  BY <1>1, <1>2, SubmittingFinite, ThreadsAssumption DEF Bounded

LEMMA InitQInv == Init => QInv
<1> SUFFICES ASSUME Init PROVE QInv  OBVIOUS
<1>1. Submitting = {} /\ PastLimit = {}  BY DEF Init, Submitting, PastLimit
<1>2. Cardinality(Submitting) = 0 /\ Cardinality(PastLimit) = 0  BY <1>1, FS_EmptySet
<1>3. Len(pending_tasks) = 0 /\ \A t \in Tasks : submit_pc[t] = "new"  BY DEF Init
<1>4. ASSUME NEW m \in Models, DropsAt(Conf[m].max_queue_size)
      PROVE  Bounded(Conf[m].max_queue_size)
  <2>1. Conf[m].max_queue_size \in Nat /\ Conf[m].max_queue_size >= 1
    BY <1>4, LimitIsNat DEF DropsAt
  <2> QED  BY <1>2, <1>3, <2>1, ThreadsAssumption DEF Bounded
<1> QED  BY <1>2, <1>3, <1>4, ThreadsAssumption DEF QInv

\* No step outside the submissions lengthens the queue.
LEMMA OthersQInv ==
    ASSUME QInv, TypeOK, TypeOK', UNCHANGED submitVars,
           Len(pending_tasks') <= Len(pending_tasks)
    PROVE  QInv'
<1>1. Submitting' = Submitting /\ PastLimit' = PastLimit
  BY DEF Submitting, PastLimit, submitVars, routing
<1>2. \A m \in Models : DropsAt(Conf[m].max_queue_size)' = DropsAt(Conf[m].max_queue_size)
  BY DEF DropsAt
<1>3. ASSUME NEW m \in Models, Bounded(Conf[m].max_queue_size)
      PROVE  Bounded(Conf[m].max_queue_size)'
  BY <1>1, <1>3, BoundedShrinks, LimitIsNat
<1> QED  BY <1>1, <1>2, <1>3 DEF QInv, submitVars, routing

LEMMA SubmitterQInv ==
    ASSUME QInv, TypeOK, TypeOK', NEW t \in Tasks, Submitter(t)
    PROVE  QInv'
<1> USE DEF SubmitGoto, submitRest, submitElse, routing, queueVars
<1>1. ModelOf[t] \in Models  BY ModelsAssumption
\* How each step changes what the invariant is about.
<1>2. Cardinality(Submitting') <= MaxClients
  <2>1. CASE SubmitInferenceRequest(t)
    <3>1. Submitting' = Submitting \cup {t} /\ t \notin Submitting
      BY <2>1 DEF SubmitInferenceRequest, Submitting, TypeOK
    <3>2. Cardinality(Submitting') = Cardinality(Submitting) + 1
      BY <3>1, SubmittingFinite, FS_AddElement
    <3> QED  BY <2>1, <3>2, SubmittingFinite, ThreadsAssumption DEF SubmitInferenceRequest
  <2>2. CASE ~ SubmitInferenceRequest(t)
    <3>1. submit_pc' = [submit_pc EXCEPT ![t] = submit_pc'[t]]
          /\ (submit_pc'[t] \notin {"new", "accepted", "refused"}
                => submit_pc[t] \notin {"new", "accepted", "refused"})
      BY <2>2 DEF Submitter, SubmitUnavailableModel, AdmitCheckStop, AdmitContext, AdmitSnapshot,
             AdmitQueueFull, AdmitWithinLimit, TrackTask, AdmitFIFO, AdmitBatch, AdmitModelStat,
             AdmitNotify, SubmitFailed, TypeOK
    <3>2. Submitting' \subseteq Submitting  BY <3>1 DEF Submitting, TypeOK
    <3>3. Cardinality(Submitting') <= Cardinality(Submitting) /\ Cardinality(Submitting') \in Nat
      BY <3>2, SubmittingFinite, FS_Subset, FS_CardinalityType
    <3> QED  BY <3>3, SubmittingFinite, ThreadsAssumption DEF QInv
  <2> QED  BY <2>1, <2>2
<1>3. ASSUME ~ Churn, NEW u \in Tasks, submit_pc'[u] \in {"snapshot", "limit"}
      PROVE  conf_found'[u]
  <2>1. CASE AdmitContext(t)  BY <1>3, <2>1 DEF QInv, AdmitContext, TypeOK
  <2>2. CASE AdmitSnapshot(t)  BY <1>3, <2>2 DEF QInv, AdmitSnapshot, TypeOK
  <2>3. CASE ~ AdmitContext(t) /\ ~ AdmitSnapshot(t)
    <3>1. submit_pc'[t] \notin {"snapshot", "limit"}
      BY <2>3 DEF Submitter, SubmitUnavailableModel, SubmitInferenceRequest,
             AdmitCheckStop, AdmitQueueFull, AdmitWithinLimit, TrackTask, AdmitFIFO, AdmitBatch,
             AdmitModelStat, AdmitNotify, SubmitFailed, TypeOK
    <3>2. u # t  BY <1>3, <3>1
    <3>3. submit_pc'[u] = submit_pc[u] /\ conf_found'[u] = conf_found[u]
      BY <2>3, <3>2 DEF Submitter, SubmitUnavailableModel, SubmitInferenceRequest,
             AdmitCheckStop, AdmitQueueFull, AdmitWithinLimit, TrackTask, AdmitFIFO, AdmitBatch,
             AdmitModelStat, AdmitNotify, SubmitFailed, TypeOK
    <3> QED  BY <1>3, <3>3 DEF QInv
  <2> QED  BY <2>1, <2>2, <2>3
<1>4. ASSUME NEW m \in Models, DropsAt(Conf[m].max_queue_size), ~ Churn
      PROVE  Bounded(Conf[m].max_queue_size)'
  <2> DEFINE limit == Conf[m].max_queue_size
  <2>1. Bounded(limit) /\ limit \in Nat  BY <1>4, LimitIsNat DEF QInv
  <2>2. CASE AdmitFIFO(t)
    <3>1. t \in PastLimit /\ PastLimit' = PastLimit \ {t}
      BY <2>2 DEF AdmitFIFO, PastLimit, Submitting, TypeOK
    <3>2. Cardinality(PastLimit') = Cardinality(PastLimit) - 1
      BY <3>1, SubmittingFinite, FS_RemoveElement
    <3>3. Len(pending_tasks') = Len(pending_tasks) + 1
      BY <2>2 DEF AdmitFIFO, Fifo!Admit, TypeOK
    <3>4. Len(pending_tasks) \in Nat  BY DEF TypeOK
    <3> QED  BY <2>1, <3>2, <3>3, <3>4, SubmittingFinite DEF Bounded
  <2>3. CASE AdmitWithinLimit(t) /\ strategy[t] = "FIFO"
    <3>1. /\ conf_found[t]
          /\ Conf[ModelOf[t]].drop_if_queue_full
          /\ Conf[ModelOf[t]].max_queue_size \in 1 .. limit
      BY <1>1, <1>4, <2>3 DEF QInv, DropsAt, AdmitWithinLimit
    <3>2. Len(pending_tasks) \in Nat  BY DEF TypeOK
    <3>3. ~ (Len(pending_tasks) >= Conf[ModelOf[t]].max_queue_size)
      BY <2>3, <3>1 DEF AdmitWithinLimit, QueueFull, Fifo!PendingTaskCount
    <3>4. Len(pending_tasks) < limit  BY <2>1, <3>1, <3>2, <3>3
    <3>5. pending_tasks' = pending_tasks  BY <2>3 DEF AdmitWithinLimit
    <3>6. Cardinality(PastLimit') \in Nat /\ Cardinality(PastLimit') <= MaxClients
      <4>1. /\ IsFiniteSet(Submitting') /\ Cardinality(Submitting') \in Nat
            /\ PastLimit' \in SUBSET Submitting'
        BY TasksAssumption, FS_Subset, FS_CardinalityType DEF Submitting, PastLimit
      <4> QED  BY <1>2, <4>1, FS_Subset, FS_CardinalityType, ThreadsAssumption
    <3> QED  BY <2>1, <3>2, <3>5, <3>6, <3>4, ThreadsAssumption DEF Bounded
  <2>4. CASE ~ AdmitFIFO(t) /\ ~ (AdmitWithinLimit(t) /\ strategy[t] = "FIFO")
    <3>1. pending_tasks' = pending_tasks
      BY <2>4 DEF Submitter, SubmitUnavailableModel, SubmitInferenceRequest, AdmitCheckStop,
             AdmitContext, AdmitSnapshot, AdmitQueueFull, AdmitWithinLimit, TrackTask,
             AdmitBatch, AdmitModelStat, AdmitNotify, SubmitFailed
    <3>2. \A u \in Tasks \ {t} : submit_pc'[u] = submit_pc[u] /\ strategy'[u] = strategy[u]
      <4>1. CASE AdmitContext(t)  BY <4>1 DEF AdmitContext, TypeOK
      <4>2. CASE ~ AdmitContext(t)
        BY <2>4, <4>2 DEF Submitter, SubmitUnavailableModel, SubmitInferenceRequest,
               AdmitCheckStop, AdmitSnapshot, AdmitQueueFull, AdmitWithinLimit, TrackTask,
               AdmitBatch, AdmitModelStat, AdmitNotify, SubmitFailed, TypeOK
      <4> QED  BY <4>1, <4>2
    <3>3. t \in PastLimit' => t \in PastLimit
      <4>1. CASE TrackTask(t)
        BY <4>1 DEF TrackTask, PastLimit, Submitting, TypeOK
      <4>2. CASE AdmitWithinLimit(t)
        BY <2>4, <4>2 DEF AdmitWithinLimit, PastLimit, Submitting, TypeOK
      <4>3. CASE ~ TrackTask(t) /\ ~ AdmitWithinLimit(t)
        BY <2>4, <4>3 DEF Submitter, SubmitUnavailableModel, SubmitInferenceRequest,
               AdmitCheckStop, AdmitContext, AdmitSnapshot, AdmitQueueFull, AdmitBatch,
               AdmitModelStat, AdmitNotify, SubmitFailed, PastLimit, Submitting, TypeOK
      <4> QED  BY <4>1, <4>2, <4>3
    <3>4. PastLimit' \subseteq PastLimit  BY <3>2, <3>3 DEF PastLimit, Submitting
    <3>5. Len(pending_tasks') <= Len(pending_tasks)  BY <3>1 DEF TypeOK
    <3> QED  BY <2>1, <3>4, <3>5, BoundedShrinks
  <2> QED  BY <2>2, <2>3, <2>4
<1>5. \A m \in Models : DropsAt(Conf[m].max_queue_size)' = DropsAt(Conf[m].max_queue_size)
  BY DEF DropsAt
<1> QED  BY <1>2, <1>3, <1>4, <1>5 DEF QInv

LEMMA NextQInv == IInv /\ IInv' /\ QInv /\ [Next]_vars => QInv'
<1> SUFFICES ASSUME IInv, IInv', QInv, [Next]_vars PROVE QInv'  OBVIOUS
<1> USE DEF queueVars
<1>1. TypeOK /\ TypeOK'  BY DEF IInv
<1>2. pending_tasks \in Seq(Tasks) /\ Len(pending_tasks) \in Nat  BY <1>1 DEF TypeOK
<1>3. ASSUME pending_tasks' = pending_tasks, UNCHANGED submitVars
      PROVE  QInv'
  BY <1>1, <1>2, <1>3, OthersQInv
<1>4. CASE \E t \in Tasks : Submitter(t)  BY <1>1, <1>4, SubmitterQInv
<1>5. CASE \E t \in Tasks : WindowElapses(t)  BY <1>3, <1>5 DEF WindowElapses
<1>6. ASSUME NEW c \in Cancelers, CancelStep(c) \/ \E t \in Cancelable : CancelBegin(c, t)
      PROVE  QInv'
  <2>1. UNCHANGED submitVars
    BY <1>6 DEF CancelStep, CancelBegin, CancelUntracked, CancelLookup, CancelFlag,
           CancelRevokeFIFO, CancelRevokeBatch, CancelNotQueued, CancelFinalize, CancelForget,
           CancelRequest, cancelElse
  <2>2. CASE CancelRevokeFIFO(c)
    <3>1. PICK i \in DOMAIN pending_tasks :
            pending_tasks' = SubSeq(pending_tasks, 1, i - 1)
                               \o SubSeq(pending_tasks, i + 1, Len(pending_tasks))
      BY <2>2 DEF CancelRevokeFIFO, Fifo!Revoke, Fifo!RemoveAt
    <3>2. Len(pending_tasks') = Len(pending_tasks) - 1
      BY <1>2, <3>1, RemoveAtTyped
    <3> QED  BY <1>1, <1>2, <2>1, <3>2, OthersQInv
  <2>3. CASE ~ CancelRevokeFIFO(c)
    <3>1. pending_tasks' = pending_tasks
      BY <1>6, <2>3 DEF CancelStep, CancelBegin, CancelUntracked, CancelLookup, CancelFlag,
             CancelRevokeBatch, CancelNotQueued, CancelFinalize, CancelForget, CancelRequest,
             cancelRest
    <3> QED  BY <1>3, <2>1, <3>1
  <2> QED  BY <2>2, <2>3
<1>7. CASE \E t \in Deletable : DeleteOperation(t)  BY <1>3, <1>7 DEF DeleteOperation
<1>8. CASE Dispatcher
  <2>1. UNCHANGED submitVars
    BY <1>8 DEF Dispatcher, DispatchLock, DispatchBlock, DispatchTimeout, DispatchDayTimeout,
           DispatchWake, DispatchExit, SelectFIFO, SelectBatch, SelectNothing, Dispatch,
           dispatchElse
  <2>2. CASE SelectFIFO
    <3>1. Len(pending_tasks') = Len(pending_tasks) - 1
      BY <1>2, <2>2, TailTyped DEF SelectFIFO, Fifo!Select, Fifo!Ready
    <3> QED  BY <1>1, <1>2, <2>1, <3>1, OthersQInv
  <2>3. CASE ~ SelectFIFO
    <3>1. pending_tasks' = pending_tasks
      BY <1>8, <2>3 DEF Dispatcher, DispatchLock, DispatchBlock, DispatchTimeout,
             DispatchDayTimeout, DispatchWake, DispatchExit, SelectBatch, SelectNothing, Dispatch,
             dispatchRest
    <3> QED  BY <1>3, <2>1, <3>1
  <2> QED  BY <2>2, <2>3
<1>9. CASE \E w \in Workers : Worker(w)
  BY <1>3, <1>9 DEF Worker, TakeUnit, WorkerExit, ExecuteSkip, ExecuteStart, ExecuteOngoing,
         ExecuteUnavailableModel, ExecuteInfer, ExecuteThrow, ExecuteRecheck, ExecuteSettle,
         ExecuteForget, ExecuteRecord, workerElse
<1>10. CASE StopRequest \/ StopStep
  BY <1>3, <1>10 DEF StopRequest, StopStep, StopNotify, StopJoinDispatcher, StopJoinWorkers,
         stopElse
<1>11. CASE UNCHANGED vars  BY <1>3, <1>11 DEF vars
<1> QED
  BY <1>4, <1>5, <1>6, <1>7, <1>8, <1>9, <1>10, <1>11 DEF Next, Terminating

(***************************************************************************)
(* With every model dropping at max_queue_size and no model unregistered   *)
(* meanwhile, the FIFO queue exceeds the limit by no more than the other   *)
(* submissions in progress, however many tasks and models there are.       *)
(***************************************************************************)
THEOREM QueueIsBounded == Spec => []QueueBounded
<1>1. QInv /\ TypeOK => QueueBounded
  <2> SUFFICES ASSUME QInv, TypeOK, NEW m \in Models, DropsAt(Conf[m].max_queue_size), ~ Churn
               PROVE  Fifo!PendingTaskCount <= Conf[m].max_queue_size + MaxClients - 1
    BY DEF QueueBounded
  <2>1. Bounded(Conf[m].max_queue_size)  BY DEF QInv
  <2>2. Len(pending_tasks) \in Nat  BY DEF TypeOK
  <2> QED
    BY <2>1, <2>2, SubmittingFinite, LimitIsNat, ThreadsAssumption
       DEF Bounded, Fifo!PendingTaskCount
<1>2. IInv => TypeOK  BY DEF IInv
<1> QED  BY InvariantHolds, InitQInv, NextQInv, <1>1, <1>2, PTL DEF Spec
=============================================================================
