------------------------------ MODULE Scheduler -----------------------------
(***************************************************************************)
(* The request lifecycle of the inference platform: client threads that    *)
(* submit (InferService + Scheduler::admit), cancel and delete operations, *)
(* the dispatcher thread, the workers of the thread pool, and stop().      *)
(*                                                                         *)
(* One step is a stretch of code between two accesses to shared state.     *)
(* strategies_mutex_ is held across steps by the dispatcher alone; every   *)
(* other thread takes and releases it within one step, whose guard is      *)
(* MutexFree.  The two waiting sets are the modules StrategyFIFO and       *)
(* StrategyBatch, instantiated over this module's variables.               *)
(***************************************************************************)
EXTENDS PolicySelector, Integers, Sequences, FiniteSets

CONSTANTS
    Tasks,          \* operation ids; a task and its operation share one
    Models,
    ModelOf,        \* [Tasks -> Models]
    Conf,           \* [Models -> ModelConf]
    Workers,        \* threads of the pool; none if the core count is unknown
    Cancelers,      \* client threads that send cancel requests
    NoTask,         \* what a canceler at rest cancels
    MaxClients,     \* submissions in progress at the same time, at most
    Cancelable,     \* the tasks clients try to cancel
    Deletable,      \* the operations clients delete
    CanStop,        \* is stop() ever called?
    Churn,          \* are models unregistered or disabled meanwhile?
    MayThrow,       \* may infer() throw what execute() does not catch?
    RelockGranted   \* what locking strategies_mutex_ again does in the thread
                    \* that holds it: TRUE, it is granted; FALSE, it blocks

ASSUME TasksAssumption     == IsFiniteSet(Tasks)
ASSUME ModelsAssumption    == /\ IsFiniteSet(Models)
                              /\ ModelOf \in [Tasks -> Models]
                              /\ Conf \in [Models -> ModelConf]
ASSUME ThreadsAssumption   == IsFiniteSet(Workers) /\ MaxClients \in Nat \ {0}
ASSUME ClientsAssumption   == /\ Cancelable \subseteq Tasks /\ Deletable \subseteq Tasks
                              /\ NoTask \notin Tasks
ASSUME SwitchesAssumption  == {CanStop, Churn, MayThrow, RelockGranted} \subseteq BOOLEAN

VARIABLES
    operations,             \* OpRepository::operations_
    tracked_tasks,          \* ids in Scheduler::tracked_tasks_
    cancel_requested,       \* the atomic flag of each task
    pending_tasks,          \* the FIFO strategy's deque
    queues, elapsed,        \* the batch strategy's queues and clock
    pool,                   \* ThreadPool::tasks_: dispatch units to execute
    inflight_task_count,    \* units handed to the pool and not finished
    current_inflight,       \* model_stats_[m].current_inflight
    submit_pc,              \* submission of each task
    strategy, conf_found,   \* its task->strategy, its context.model_meta.conf
    cancel_pc, cancel_task, \* each canceler, and the task it cancels
    dispatch_pc, wait_dur,  \* the dispatcher, the duration it sleeps for
    unit,                   \* the unit it has selected
    worker_pc, work,        \* each worker, and what is left of its unit
    result,                 \* the outcome it is about to write, Absent if none
    stop_pc,                \* the thread inside stop()
    infers,                 \* history: how often each task reached infer()
    accepted_at_stop        \* history: the tasks accepted when stop() began

taskVars     == <<operations, tracked_tasks, cancel_requested>>
queueVars    == <<pending_tasks, queues, elapsed>>
statVars     == <<inflight_task_count, current_inflight>>
routing      == <<strategy, conf_found>>
submitVars   == <<submit_pc, routing>>
cancelVars   == <<cancel_pc, cancel_task>>
dispatchVars == <<dispatch_pc, wait_dur, unit>>
workerVars   == <<worker_pc, work, result>>
stopVars     == <<stop_pc, accepted_at_stop>>

vars == <<taskVars, queueVars, pool, statVars, submitVars, cancelVars,
          dispatchVars, workerVars, stopVars, infers>>

Fifo  == INSTANCE StrategyFIFO
Batch == INSTANCE StrategyBatch

\* For each thread, what none of its steps touches ("Else") and what most of
\* its steps leave alone ("Rest").
submitElse   == <<cancel_requested, pool, inflight_task_count, cancelVars, wait_dur, unit,
                  workerVars, stopVars, infers>>
submitRest   == <<operations, tracked_tasks, queueVars, current_inflight, routing,
                  dispatch_pc>>
cancelElse   == <<pool, statVars, submitVars, dispatchVars, workerVars, stopVars, infers>>
cancelRest   == <<operations, tracked_tasks, cancel_requested, queueVars, cancel_task>>
dispatchElse == <<cancel_requested, current_inflight, submitVars, cancelVars, workerVars,
                  stopVars, infers>>
dispatchRest == <<operations, tracked_tasks, queueVars, pool, inflight_task_count, wait_dur,
                  unit>>
workerElse   == <<cancel_requested, queueVars, submitVars, cancelVars, dispatchVars, stopVars>>
workerRest   == <<operations, tracked_tasks, pool, statVars, work, result, infers>>
stopElse     == <<taskVars, queueVars, pool, statVars, submitVars, cancelVars, wait_dur, unit,
                  workerVars, infers>>
stopRest     == <<dispatch_pc, accepted_at_stop>>

-----------------------------------------------------------------------------
\* Derived state.

\* worker_count_ is never 0, even when the pool has no thread.
WorkerCount == IF Workers = {} THEN 1 ELSE Cardinality(Workers)

stop_requested == stop_pc # "running"
pool_stop      == stop_pc \in {"draining", "stopped"}

\* From the moment it locks until it sleeps, and from the end of its sleep
\* until it has selected, the dispatcher holds strategies_mutex_.
MutexFree == dispatch_pc \notin {"block", "decide"}

Submitting == {t \in Tasks : submit_pc[t] \notin {"new", "accepted", "refused"}}

QueuedTaskCount == Fifo!PendingTaskCount + Batch!PendingTaskCount

\* computeMinWaitDuration.
MinWaitDuration ==
    LET next == {Fifo!NextReadyIn, Batch!NextReadyIn}
    IN  CASE "zero" \in next   -> "zero"
          [] next = {"day"}    -> "day"
          [] OTHER             -> "window"

\* notify_one and notify_all alike: the dispatcher is the only waiter.
WakeDispatcher ==
    dispatch_pc' = IF dispatch_pc = "asleep" THEN "notified" ELSE dispatch_pc

\* Scheduler::updateOperation reads the entry and then writes every field of
\* it, whether it found one or not: a blind write.
UpdateOperation(t, op) == operations' = [operations EXCEPT ![t] = op]

SubmitGoto(t, from, to) ==
    /\ submit_pc[t] = from
    /\ submit_pc' = [submit_pc EXCEPT ![t] = to]

CancelGoto(c, from, to) ==
    /\ cancel_pc[c] = from
    /\ cancel_pc' = [cancel_pc EXCEPT ![c] = to]

WorkerGoto(w, from, to) ==
    /\ worker_pc[w] = from
    /\ worker_pc' = [worker_pc EXCEPT ![w] = to]

Init ==
    /\ operations = [t \in Tasks |-> Absent]
    /\ tracked_tasks = {}
    /\ cancel_requested = [t \in Tasks |-> FALSE]
    /\ pending_tasks = <<>>
    /\ queues = [m \in Models |-> Batch!EmptyQueue]
    /\ elapsed = {}
    /\ pool = <<>>
    /\ inflight_task_count = 0
    /\ current_inflight = [m \in Models |-> 0]
    /\ submit_pc = [t \in Tasks |-> "new"]
    /\ strategy = [t \in Tasks |-> "FIFO"]
    /\ conf_found = [t \in Tasks |-> FALSE]
    /\ cancel_pc = [c \in Cancelers |-> "idle"]
    /\ cancel_task = [c \in Cancelers |-> NoTask]
    /\ dispatch_pc = "top"
    /\ wait_dur = "day"
    /\ unit = <<>>
    /\ worker_pc = [w \in Workers |-> "idle"]
    /\ work = [w \in Workers |-> <<>>]
    /\ result = [w \in Workers |-> Absent]
    /\ stop_pc = "running"
    /\ infers = [t \in Tasks |-> 0]
    /\ accepted_at_stop = {}

-----------------------------------------------------------------------------
\* A client thread in submitInferenceRequest, then in Scheduler::admit.

\* The model is unknown or not enabled: answered without creating anything.
SubmitUnavailableModel(t) ==
    /\ Churn
    /\ SubmitGoto(t, "new", "refused")
    /\ UNCHANGED <<submitElse, submitRest>>

SubmitInferenceRequest(t) ==
    /\ Cardinality(Submitting) < MaxClients
    /\ SubmitGoto(t, "new", "check")
    /\ UpdateOperation(t, Op("PENDING", "none"))
    /\ UNCHANGED <<submitElse, tracked_tasks, queueVars, current_inflight, routing, dispatch_pc>>

AdmitCheckStop(t) ==
    /\ SubmitGoto(t, "check", IF stop_requested THEN "failed" ELSE "context")
    /\ UNCHANGED <<submitElse, submitRest>>

\* buildAdmissionContext resolves the model and reads the inflight count ...
AdmitContext(t) ==
    /\ SubmitGoto(t, "context", "snapshot")
    /\ \E found \in (IF Churn THEN BOOLEAN ELSE {TRUE}) :
          /\ conf_found' = [conf_found EXCEPT ![t] = found]
          /\ strategy' = [strategy EXCEPT ![t] =
                IF found
                  THEN OwnerOf(SelectStrategy(Conf[ModelOf[t]], inflight_task_count, WorkerCount))
                  ELSE "FIFO"]
    /\ UNCHANGED <<submitElse, operations, tracked_tasks, queueVars, current_inflight, dispatch_pc>>

\* ... then locks strategies_mutex_ for the batch windows; strategy() locks
\* it again to find the owner.
AdmitSnapshot(t) ==
    /\ MutexFree
    /\ SubmitGoto(t, "snapshot", "limit")
    /\ UNCHANGED <<submitElse, submitRest>>

\* The queue of the owning strategy, all models together, is at the limit
\* configured for this model, and the model drops.
QueueFull(t) ==
    LET conf == Conf[ModelOf[t]]
    IN  /\ conf_found[t]
        /\ conf.max_queue_size > 0
        /\ conf.drop_if_queue_full
        /\ (IF strategy[t] = "FIFO" THEN Fifo!PendingTaskCount ELSE Batch!PendingTaskCount)
              >= conf.max_queue_size

AdmitQueueFull(t) ==
    /\ QueueFull(t)
    /\ SubmitGoto(t, "limit", "failed")
    /\ UpdateOperation(t, Op("FAILURE", "none"))
    /\ UNCHANGED <<submitElse, tracked_tasks, queueVars, current_inflight, routing, dispatch_pc>>

AdmitWithinLimit(t) ==
    /\ ~ QueueFull(t)
    /\ SubmitGoto(t, "limit", "track")
    /\ UNCHANGED <<submitElse, submitRest>>

TrackTask(t) ==
    /\ SubmitGoto(t, "track", "enqueue")
    /\ tracked_tasks' = tracked_tasks \cup {t}
    /\ UNCHANGED <<submitElse, operations, queueVars, current_inflight, routing, dispatch_pc>>

\* The strategy's admit is the last to look at the admission's context.
AdmitFIFO(t) ==
    /\ strategy[t] = "FIFO"
    /\ SubmitGoto(t, "enqueue", "stat")
    /\ Fifo!Admit(t)
    /\ conf_found' = [conf_found EXCEPT ![t] = FALSE]
    /\ UNCHANGED <<submitElse, operations, tracked_tasks, queues, elapsed, current_inflight,
                   strategy, dispatch_pc>>

AdmitBatch(t) ==
    /\ strategy[t] = "MaxThroughput"
    /\ SubmitGoto(t, "enqueue", "stat")
    /\ Batch!Admit(ModelOf[t], t, conf_found[t], Conf[ModelOf[t]])
    /\ conf_found' = [conf_found EXCEPT ![t] = FALSE]
    /\ UNCHANGED <<submitElse, operations, tracked_tasks, pending_tasks, current_inflight,
                   strategy, dispatch_pc>>

AdmitModelStat(t) ==
    /\ SubmitGoto(t, "stat", "notify")
    /\ current_inflight' = [current_inflight EXCEPT ![ModelOf[t]] = @ + 1]
    /\ UNCHANGED <<submitElse, operations, tracked_tasks, queueVars, routing, dispatch_pc>>

AdmitNotify(t) ==
    /\ SubmitGoto(t, "notify", "accepted")
    /\ WakeDispatcher
    /\ UNCHANGED <<submitElse, operations, tracked_tasks, queueVars, current_inflight, routing>>

\* admit returned false: the service writes FAILURE and answers 503.
SubmitFailed(t) ==
    /\ SubmitGoto(t, "failed", "refused")
    /\ UpdateOperation(t, Op("FAILURE", "none"))
    /\ UNCHANGED <<submitElse, tracked_tasks, queueVars, current_inflight, routing, dispatch_pc>>

-----------------------------------------------------------------------------
\* A client thread in cancelInference, then in Scheduler::cancelTask.

\* Unknown and finished operations are answered here, with no change.
CancelBegin(c, t) ==
    /\ operations[t].state \in OperationState \ Finished
    /\ CancelGoto(c, "idle", "flag")
    /\ cancel_task' = [cancel_task EXCEPT ![c] = t]
    /\ UNCHANGED <<cancelElse, operations, tracked_tasks, cancel_requested, queueVars>>

CancelUntracked(c) ==
    /\ cancel_task[c] \notin tracked_tasks
    /\ CancelGoto(c, "flag", "idle")
    /\ cancel_task' = [cancel_task EXCEPT ![c] = NoTask]
    /\ UNCHANGED <<cancelElse, operations, tracked_tasks, cancel_requested, queueVars>>

CancelLookup(c) ==
    /\ cancel_task[c] \in tracked_tasks
    /\ CancelGoto(c, "flag", "store")
    /\ UNCHANGED <<cancelElse, cancelRest>>

CancelFlag(c) ==
    /\ CancelGoto(c, "store", "revoke")
    /\ cancel_requested' = [cancel_requested EXCEPT ![cancel_task[c]] = TRUE]
    /\ UNCHANGED <<cancelElse, operations, tracked_tasks, queueVars, cancel_task>>

CancelRevokeFIFO(c) ==
    /\ MutexFree
    /\ CancelGoto(c, "revoke", "finalize")
    /\ Fifo!Revoke(cancel_task[c])
    /\ UNCHANGED <<cancelElse, operations, tracked_tasks, cancel_requested, queues, elapsed,
                   cancel_task>>

CancelRevokeBatch(c) ==
    /\ MutexFree
    /\ CancelGoto(c, "revoke", "finalize")
    /\ Batch!Revoke(cancel_task[c])
    /\ UNCHANGED <<cancelElse, operations, tracked_tasks, cancel_requested, pending_tasks,
                   cancel_task>>

\* Slip: a task that is not queued is reported as revoked.
CancelNotQueued_Finalizes(c) ==
    /\ MutexFree
    /\ ~ Fifo!Holds(cancel_task[c])
    /\ ~ Batch!Holds(cancel_task[c])
    /\ CancelGoto(c, "revoke", "finalize")
    /\ UNCHANGED <<cancelElse, cancelRest>>

CancelNotQueued(c) ==
    /\ MutexFree
    /\ ~ Fifo!Holds(cancel_task[c])
    /\ ~ Batch!Holds(cancel_task[c])
    /\ CancelGoto(c, "revoke", "request")
    /\ UNCHANGED <<cancelElse, cancelRest>>

\* finalizeCanceledTask: CANCELED first, then out of tracked_tasks_.  The
\* model's statistics are not told.
CancelFinalize(c) ==
    /\ CancelGoto(c, "finalize", "forget")
    /\ UpdateOperation(cancel_task[c], Op("CANCELED", "before"))
    /\ UNCHANGED <<cancelElse, tracked_tasks, cancel_requested, queueVars, cancel_task>>

CancelForget(c) ==
    /\ CancelGoto(c, "forget", "idle")
    /\ tracked_tasks' = tracked_tasks \ {cancel_task[c]}
    /\ cancel_task' = [cancel_task EXCEPT ![c] = NoTask]
    /\ UNCHANGED <<cancelElse, operations, cancel_requested, queueVars>>

\* Slip: the request is taken for the end of the task.
CancelRequest_Forgets(c) ==
    /\ CancelGoto(c, "request", "idle")
    /\ UpdateOperation(cancel_task[c], Op("CANCEL_REQUESTED", "none"))
    /\ tracked_tasks' = tracked_tasks \ {cancel_task[c]}
    /\ cancel_task' = [cancel_task EXCEPT ![c] = NoTask]
    /\ UNCHANGED <<cancelElse, cancel_requested, queueVars>>

\* Written whatever has become of the task since it was looked up.
CancelRequest(c) ==
    /\ CancelGoto(c, "request", "idle")
    /\ UpdateOperation(cancel_task[c], Op("CANCEL_REQUESTED", "none"))
    /\ cancel_task' = [cancel_task EXCEPT ![c] = NoTask]
    /\ UNCHANGED <<cancelElse, tracked_tasks, cancel_requested, queueVars>>

\* deleteOperation, at any time and in any state.
DeleteOperation(t) ==
    /\ operations[t] # Absent
    /\ UpdateOperation(t, Absent)
    /\ UNCHANGED <<tracked_tasks, cancel_requested, queueVars, pool, statVars, submitVars,
                   cancelVars, dispatchVars, workerVars, stopVars, infers>>

-----------------------------------------------------------------------------
\* The dispatcher thread: dispatchLoop.

DispatchGoto(from, to) == dispatch_pc = from /\ dispatch_pc' = to

\* Locks, computes how long to sleep, and evaluates wait_for's predicate.
DispatchLock ==
    /\ DispatchGoto("top", IF stop_requested THEN "decide" ELSE "block")
    /\ wait_dur' = MinWaitDuration
    /\ UNCHANGED <<dispatchElse, operations, tracked_tasks, queueVars, pool, inflight_task_count,
                   unit>>

\* Releases the mutex and sleeps, in one step, until the deadline.
DispatchBlock ==
    /\ DispatchGoto("block", "asleep")
    /\ UNCHANGED <<dispatchElse, dispatchRest>>

\* The deadline passes.  A window may be found to end early: select() then
\* has nothing ready and the loop computes the duration again.
DispatchTimeout ==
    /\ wait_dur \in {"zero", "window"}
    /\ DispatchGoto("asleep", "decide")
    /\ UNCHANGED <<dispatchElse, dispatchRest>>

\* The 24 hours of a sleep that began with every queue empty are over.
DispatchDayTimeout ==
    /\ wait_dur = "day"
    /\ DispatchGoto("asleep", "decide")
    /\ UNCHANGED <<dispatchElse, dispatchRest>>

\* Notified: the predicate is all that is looked at.  Without a stop request
\* the dispatcher goes back to sleep until the same deadline.
DispatchWake ==
    /\ DispatchGoto("notified", IF stop_requested THEN "decide" ELSE "block")
    /\ UNCHANGED <<dispatchElse, dispatchRest>>

\* Slip: the stop flag alone ends the loop.
DispatchExit_IgnoresQueues ==
    /\ stop_requested
    /\ DispatchGoto("decide", "exited")
    /\ UNCHANGED <<dispatchElse, dispatchRest>>

DispatchExit ==
    /\ stop_requested
    /\ QueuedTaskCount = 0
    /\ DispatchGoto("decide", "exited")
    /\ UNCHANGED <<dispatchElse, dispatchRest>>

\* selectReadyUnit builds its SelectionContext from runtimeSnapshot(), which
\* locks the mutex the dispatcher is holding.
Selecting ==
    /\ ~ (stop_requested /\ QueuedTaskCount = 0)
    /\ RelockGranted

\* The map of strategies is not ordered: either may be asked first.
SelectFIFO ==
    /\ Selecting
    /\ DispatchGoto("decide", "dispatch")
    /\ Fifo!Select(unit')
    /\ UNCHANGED <<dispatchElse, operations, tracked_tasks, queues, elapsed, pool,
                   inflight_task_count, wait_dur>>

SelectBatch(m) ==
    /\ Selecting
    /\ DispatchGoto("decide", "dispatch")
    /\ Batch!Select(m, unit')
    /\ UNCHANGED <<dispatchElse, operations, tracked_tasks, pending_tasks, pool,
                   inflight_task_count, wait_dur>>

SelectNothing ==
    /\ Selecting
    /\ ~ Fifo!Ready
    /\ \A m \in Models : ~ Batch!Ready(m)
    /\ DispatchGoto("decide", "top")
    /\ UNCHANGED <<dispatchElse, dispatchRest>>

UnitTasks == {unit[i] : i \in DOMAIN unit}

\* Slip: the unit is not counted.
Dispatch_NotCounted ==
    /\ DispatchGoto("dispatch", "top")
    /\ unit' = <<>>
    /\ IF pool_stop
         THEN /\ operations' = [t \in Tasks |-> IF t \in UnitTasks THEN Op("FAILURE", "none")
                                                                   ELSE operations[t]]
              /\ tracked_tasks' = tracked_tasks \ UnitTasks
              /\ UNCHANGED <<pool, inflight_task_count>>
         ELSE /\ UNCHANGED inflight_task_count
              /\ pool' = Append(pool, unit)
              /\ UNCHANGED <<operations, tracked_tasks>>
    /\ UNCHANGED <<dispatchElse, queueVars, wait_dur>>

\* The unit goes to the pool; a stopped pool refuses it and its tasks fail.
Dispatch ==
    /\ DispatchGoto("dispatch", "top")
    /\ unit' = <<>>
    /\ IF pool_stop
         THEN /\ operations' = [t \in Tasks |-> IF t \in UnitTasks THEN Op("FAILURE", "none")
                                                                   ELSE operations[t]]
              /\ tracked_tasks' = tracked_tasks \ UnitTasks
              /\ UNCHANGED <<pool, inflight_task_count>>
         ELSE /\ inflight_task_count' = inflight_task_count + 1
              /\ pool' = Append(pool, unit)
              /\ UNCHANGED <<operations, tracked_tasks>>
    /\ UNCHANGED <<dispatchElse, queueVars, wait_dur>>

-----------------------------------------------------------------------------
\* A worker of the thread pool: Scheduler::execute, task after task.

\* Slip: the unit is copied out of the queue.
TakeUnit_NotPopped(w) ==
    /\ pool # <<>>
    /\ WorkerGoto(w, "idle", "check")
    /\ work' = [work EXCEPT ![w] = Head(pool)]
    /\ UNCHANGED pool
    /\ UNCHANGED <<workerElse, operations, tracked_tasks, statVars, result, infers>>

TakeUnit(w) ==
    /\ pool # <<>>
    /\ WorkerGoto(w, "idle", "check")
    /\ work' = [work EXCEPT ![w] = Head(pool)]
    /\ pool' = Tail(pool)
    /\ UNCHANGED <<workerElse, operations, tracked_tasks, statVars, result, infers>>

\* Slip: the pool's stop flag is set once its workers have been joined.
WorkerExit_FlagAfterJoin(w) ==
    /\ stop_pc = "stopped"
    /\ pool = <<>>
    /\ WorkerGoto(w, "idle", "exited")
    /\ UNCHANGED <<workerElse, workerRest>>

\* The pool is drained before its threads leave.
WorkerExit(w) ==
    /\ pool_stop
    /\ pool = <<>>
    /\ WorkerGoto(w, "idle", "exited")
    /\ UNCHANGED <<workerElse, workerRest>>

Canceled(w) == cancel_requested[Head(work[w])]

\* Slip: the skipped task is forgotten and not reported.
ExecuteSkip_NoReport(w) ==
    /\ WorkerGoto(w, "check", "forget")
    /\ Canceled(w)
    /\ result' = [result EXCEPT ![w] = Op("CANCELED", "before")]
    /\ UNCHANGED <<workerElse, operations, tracked_tasks, pool, statVars, work, infers>>

ExecuteSkip(w) ==
    /\ WorkerGoto(w, "check", "settle")
    /\ Canceled(w)
    /\ result' = [result EXCEPT ![w] = Op("CANCELED", "before")]
    /\ UNCHANGED <<workerElse, operations, tracked_tasks, pool, statVars, work, infers>>

ExecuteStart(w) ==
    /\ WorkerGoto(w, "check", "ongoing")
    /\ ~ Canceled(w)
    /\ UNCHANGED <<workerElse, workerRest>>

ExecuteOngoing(w) ==
    /\ WorkerGoto(w, "ongoing", "infer")
    /\ UpdateOperation(Head(work[w]), Op("ONGOING", "none"))
    /\ UNCHANGED <<workerElse, tracked_tasks, pool, statVars, work, result, infers>>

\* Unregistered or disabled since it was submitted.
ExecuteUnavailableModel(w) ==
    /\ Churn
    /\ WorkerGoto(w, "infer", "settle")
    /\ result' = [result EXCEPT ![w] = Op("FAILURE", "none")]
    /\ UNCHANGED <<workerElse, operations, tracked_tasks, pool, statVars, work, infers>>

ExecuteInfer(w) ==
    /\ WorkerGoto(w, "infer", "recheck")
    /\ \E state \in {"SUCCESS", "FAILURE"} :
          result' = [result EXCEPT ![w] = Op(state, "none")]
    /\ infers' = [infers EXCEPT ![Head(work[w])] = @ + 1]
    /\ UNCHANGED <<workerElse, operations, tracked_tasks, pool, statVars, work>>

\* Slip: no guard returns the count.
ExecuteThrow_NoGuard(w) ==
    /\ MayThrow
    /\ WorkerGoto(w, "infer", "idle")
    /\ infers' = [infers EXCEPT ![Head(work[w])] = @ + 1]
    /\ work' = [work EXCEPT ![w] = <<>>]
    /\ UNCHANGED <<workerElse, operations, tracked_tasks, pool, statVars, result>>

\* The exception leaves execute(): the guard returns the inflight count, the
\* pool thread swallows it, and the rest of the unit is dropped.
ExecuteThrow(w) ==
    /\ MayThrow
    /\ WorkerGoto(w, "infer", "idle")
    /\ infers' = [infers EXCEPT ![Head(work[w])] = @ + 1]
    /\ work' = [work EXCEPT ![w] = <<>>]
    /\ inflight_task_count' = inflight_task_count - 1
    /\ UNCHANGED <<workerElse, operations, tracked_tasks, pool, current_inflight, result>>

\* Slip: the message of the first check.
ExecuteRecheck_SaysBefore(w) ==
    /\ WorkerGoto(w, "recheck", "settle")
    /\ result' = IF Canceled(w) THEN [result EXCEPT ![w] = Op("CANCELED", "before")]
                                ELSE result
    /\ UNCHANGED <<workerElse, operations, tracked_tasks, pool, statVars, work, infers>>

\* Whatever infer() returned, a cancel request seen now prevails.
ExecuteRecheck(w) ==
    /\ WorkerGoto(w, "recheck", "settle")
    /\ result' = IF Canceled(w) THEN [result EXCEPT ![w] = Op("CANCELED", "during")]
                                ELSE result
    /\ UNCHANGED <<workerElse, operations, tracked_tasks, pool, statVars, work, infers>>

ExecuteSettle(w) ==
    /\ WorkerGoto(w, "settle", "forget")
    /\ UpdateOperation(Head(work[w]), result[w])
    /\ result' = [result EXCEPT ![w] = Absent]
    /\ UNCHANGED <<workerElse, tracked_tasks, pool, statVars, work, infers>>

\* Slip: the result is recorded here and again below.
ExecuteForget_RecordsToo(w) ==
    /\ WorkerGoto(w, "forget", "record")
    /\ tracked_tasks' = tracked_tasks \ {Head(work[w])}
    /\ current_inflight' = [current_inflight EXCEPT ![ModelOf[Head(work[w])]] =
                               IF @ > 0 THEN @ - 1 ELSE 0]
    /\ UNCHANGED <<workerElse, operations, pool, inflight_task_count, work, result, infers>>

ExecuteForget(w) ==
    /\ WorkerGoto(w, "forget", "record")
    /\ tracked_tasks' = tracked_tasks \ {Head(work[w])}
    /\ UNCHANGED <<workerElse, operations, pool, statVars, work, result, infers>>

\* Slip: the decrement does not saturate.
ExecuteRecord_Underflow(w) ==
    LET m    == ModelOf[Head(work[w])]
        last == Len(work[w]) = 1
    IN  /\ WorkerGoto(w, "record", IF last THEN "idle" ELSE "check")
        /\ current_inflight' = [current_inflight EXCEPT ![m] = @ - 1]
        /\ inflight_task_count' = IF last THEN inflight_task_count - 1
                                          ELSE inflight_task_count
        /\ work' = [work EXCEPT ![w] = Tail(@)]
        /\ UNCHANGED <<workerElse, operations, tracked_tasks, pool, result, infers>>

\* Slip: the outcome is written again after the task was forgotten.
ExecuteRecord_LateUpdate(w) ==
    LET m    == ModelOf[Head(work[w])]
        last == Len(work[w]) = 1
    IN  /\ WorkerGoto(w, "record", IF last THEN "idle" ELSE "check")
        /\ current_inflight' = [current_inflight EXCEPT ![m] = IF @ > 0 THEN @ - 1 ELSE 0]
        /\ inflight_task_count' = IF last THEN inflight_task_count - 1
                                          ELSE inflight_task_count
        /\ UpdateOperation(Head(work[w]), Op("SUCCESS", "none"))
        /\ work' = [work EXCEPT ![w] = Tail(@)]
        /\ UNCHANGED <<workerElse, tracked_tasks, pool, result, infers>>

\* recordModelResult, and after the last task of the unit the inflight guard.
ExecuteRecord(w) ==
    LET m    == ModelOf[Head(work[w])]
        last == Len(work[w]) = 1
    IN  /\ WorkerGoto(w, "record", IF last THEN "idle" ELSE "check")
        /\ current_inflight' = [current_inflight EXCEPT ![m] = IF @ > 0 THEN @ - 1 ELSE 0]
        /\ inflight_task_count' = IF last THEN inflight_task_count - 1
                                          ELSE inflight_task_count
        /\ work' = [work EXCEPT ![w] = Tail(@)]
        /\ UNCHANGED <<workerElse, operations, tracked_tasks, pool, result, infers>>

-----------------------------------------------------------------------------
\* The thread in stop().  Only the first call does anything.

Accepted == {t \in Tasks : submit_pc[t] = "accepted"}

StopGoto(from, to) == stop_pc = from /\ stop_pc' = to

\* The flag is set, and below the dispatcher notified, without the mutex.
StopRequest ==
    /\ CanStop
    /\ StopGoto("running", "flagged")
    /\ accepted_at_stop' = Accepted
    /\ UNCHANGED <<stopElse, dispatch_pc>>

StopNotify ==
    /\ StopGoto("flagged", "joining")
    /\ WakeDispatcher
    /\ UNCHANGED <<stopElse, accepted_at_stop>>

StopJoinDispatcher ==
    /\ dispatch_pc = "exited"
    /\ StopGoto("joining", "draining")
    /\ UNCHANGED <<stopElse, stopRest>>

StopJoinWorkers ==
    /\ \A w \in Workers : worker_pc[w] = "exited"
    /\ StopGoto("draining", "stopped")
    /\ UNCHANGED <<stopElse, stopRest>>

-----------------------------------------------------------------------------
WindowElapses(t) ==
    /\ Batch!WindowElapses(t)
    /\ UNCHANGED <<taskVars, pending_tasks, pool, statVars, submitVars, cancelVars,
                   dispatchVars, workerVars, stopVars, infers>>

\* Everyone has returned: the program is at its end, not in a deadlock.
Terminating ==
    /\ stop_pc = "stopped"
    /\ Submitting = {}
    /\ \A c \in Cancelers : cancel_pc[c] = "idle"
    /\ UNCHANGED vars

Submitter(t) ==
    \/ SubmitUnavailableModel(t) \/ SubmitInferenceRequest(t)
    \/ AdmitCheckStop(t) \/ AdmitContext(t) \/ AdmitSnapshot(t)
    \/ AdmitQueueFull(t) \/ AdmitWithinLimit(t) \/ TrackTask(t)
    \/ AdmitFIFO(t) \/ AdmitBatch(t) \/ AdmitModelStat(t) \/ AdmitNotify(t)
    \/ SubmitFailed(t)

\* A cancelTask that has been begun.
CancelStep(c) ==
    \/ CancelUntracked(c) \/ CancelLookup(c) \/ CancelFlag(c)
    \/ CancelRevokeFIFO(c) \/ CancelRevokeBatch(c) \/ CancelNotQueued(c)
    \/ CancelFinalize(c) \/ CancelForget(c) \/ CancelRequest(c)

Dispatcher ==
    \/ DispatchLock \/ DispatchBlock \/ DispatchTimeout \/ DispatchDayTimeout
    \/ DispatchWake \/ DispatchExit
    \/ SelectFIFO \/ (\E m \in Models : SelectBatch(m)) \/ SelectNothing \/ Dispatch

Worker(w) ==
    \/ TakeUnit(w) \/ WorkerExit(w) \/ ExecuteSkip(w) \/ ExecuteStart(w)
    \/ ExecuteOngoing(w) \/ ExecuteUnavailableModel(w) \/ ExecuteInfer(w)
    \/ ExecuteThrow(w) \/ ExecuteRecheck(w) \/ ExecuteSettle(w) \/ ExecuteForget(w)
    \/ ExecuteRecord(w)

\* stop() once it has been called.
StopStep == StopNotify \/ StopJoinDispatcher \/ StopJoinWorkers

Next ==
    \/ \E t \in Tasks : Submitter(t) \/ WindowElapses(t)
    \/ \E c \in Cancelers : CancelStep(c) \/ \E t \in Cancelable : CancelBegin(c, t)
    \/ \E t \in Deletable : DeleteOperation(t)
    \/ Dispatcher
    \/ \E w \in Workers : Worker(w)
    \/ StopRequest \/ StopStep
    \/ Terminating

Spec == Init /\ [][Next]_vars

\* Every thread that can run does, and time passes.  Nothing obliges clients
\* to submit, cancel or delete, nor anyone to call stop().
Fairness ==
    /\ WF_vars(Dispatcher)
    /\ WF_vars(StopStep)
    /\ \A w \in Workers : WF_vars(Worker(w))
    /\ \A c \in Cancelers : WF_vars(CancelStep(c))
    /\ \A t \in Tasks : WF_vars(Submitter(t) /\ submit_pc[t] # "new") /\ WF_vars(WindowElapses(t))

FairSpec == Spec /\ Fairness
=============================================================================
