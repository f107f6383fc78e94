------------------------ MODULE SchedulerProperties -------------------------
(***************************************************************************)
(* What the scheduler promises.  The properties the code keeps come first; *)
(* the last section states what its comments and messages say and the      *)
(* code does not do.                                                       *)
(***************************************************************************)
EXTENDS Scheduler

Among(t, seq) == \E i \in DOMAIN seq : seq[i] = t

Queued(t)    == Fifo!Holds(t) \/ Batch!Holds(t)
Pooled(t)    == \E i \in DOMAIN pool : Among(t, pool[i])
AtWorker(t)  == \E w \in Workers : Among(t, work[w])

\* Some component holds the task and has still to deal with it.
InCustody(t) == Queued(t) \/ Among(t, unit) \/ Pooled(t) \/ AtWorker(t)

\* The task a worker is about, while it is about one.
Current(t, w, pcs) == worker_pc[w] \in pcs /\ work[w] # <<>> /\ Head(work[w]) = t

Busy(w) == worker_pc[w] \notin {"idle", "exited"}

BusyWorkers == {w \in Workers : Busy(w)}

-----------------------------------------------------------------------------
(***************************************************************************)
(* Every variable keeps its type.                                          *)
(***************************************************************************)
SubmitPc   == {"new", "check", "context", "snapshot", "limit", "track", "enqueue", "stat",
               "notify", "accepted", "failed", "refused"}
CancelPc   == {"idle", "flag", "store", "revoke", "finalize", "forget", "request"}
DispatchPc == {"top", "block", "asleep", "notified", "decide", "dispatch", "exited"}
WorkerPc   == {"idle", "check", "ongoing", "infer", "recheck", "settle", "forget", "record",
               "exited"}
StopPc     == {"running", "flagged", "joining", "draining", "stopped"}

TypeOK ==
    /\ operations \in [Tasks -> OperationInfo \cup {Absent}]
    /\ tracked_tasks \subseteq Tasks
    /\ cancel_requested \in [Tasks -> BOOLEAN]
    /\ pending_tasks \in Seq(Tasks)
    /\ queues \in [Models -> [tasks : Seq(Tasks), max_batch_size : Nat \ {0}]]
    /\ elapsed \subseteq Tasks
    /\ pool \in Seq(Seq(Tasks))
    /\ inflight_task_count \in Nat
    /\ current_inflight \in [Models -> Nat]
    /\ submit_pc \in [Tasks -> SubmitPc]
    /\ strategy \in [Tasks -> {"FIFO", "MaxThroughput"}]
    /\ conf_found \in [Tasks -> BOOLEAN]
    /\ cancel_pc \in [Cancelers -> CancelPc]
    /\ cancel_task \in [Cancelers -> Tasks \cup {NoTask}]
    /\ dispatch_pc \in DispatchPc
    /\ wait_dur \in {"zero", "window", "day"}
    /\ unit \in Seq(Tasks)
    /\ worker_pc \in [Workers -> WorkerPc]
    /\ work \in [Workers -> Seq(Tasks)]
    /\ result \in [Workers -> OperationInfo \cup {Absent}]
    /\ stop_pc \in StopPc
    /\ infers \in [Tasks -> Nat]
    /\ accepted_at_stop \subseteq Tasks

(***************************************************************************)
(* A task is never in two places: the strategies, the dispatcher, the pool *)
(* and the workers hand it over (pop, erase, move) and work on no copy,    *)
(* whatever a cancel request does to it on its way.  (Scheduler.cpp 238    *)
(* does copy the unit, to fail its tasks if the pool refuses the other.)   *)
(***************************************************************************)
PositionsIn(t, place, seq) == {<<place, i>> : i \in {j \in DOMAIN seq : seq[j] = t}}

Positions(t) ==
    PositionsIn(t, <<"fifo">>, pending_tasks) \cup PositionsIn(t, <<"unit">>, unit)
    \cup (UNION {PositionsIn(t, <<"batch", m>>, queues[m].tasks) : m \in Models})
    \cup (UNION {PositionsIn(t, <<"pool", i>>, pool[i]) : i \in DOMAIN pool})
    \cup (UNION {PositionsIn(t, <<"worker", w>>, work[w]) : w \in Workers})

OnePlace == \A t \in Tasks : \A p, q \in Positions(t) : p = q

(***************************************************************************)
(* inflight_task_count_ is exactly the number of units in the pool's queue *)
(* and in its workers' hands: the guard in execute() returns the count on  *)
(* every way out, the uncaught exception included.  The policy compares    *)
(* this number with the number of workers.  (The code counts at 236 and    *)
(* enqueues at 237, one step here: in between it is one too many.)         *)
(***************************************************************************)
InflightExact ==
    inflight_task_count = Len(pool) + Cardinality(BusyWorkers)

(***************************************************************************)
(* A task that is queued or executing can be found by a cancel request: it *)
(* is tracked before it enters a waiting set, and until its outcome is in  *)
(* the repository.                                                         *)
(***************************************************************************)
TrackedUntilSettled ==
    \A t \in Tasks :
        InCustody(t) => \/ t \in tracked_tasks
                        \/ \E w \in Workers : Current(t, w, {"record"})

(***************************************************************************)
(* No task reaches infer() twice, and SUCCESS is only ever read of a task  *)
(* that did.                                                               *)
(***************************************************************************)
InferredOnce ==
    \A t \in Tasks : /\ infers[t] <= 1
                     /\ operations[t].state = "SUCCESS" => infers[t] = 1

(***************************************************************************)
(* "request canceled before execution" (Scheduler.cpp 138 and 299) is      *)
(* true: no interleaving of the cancel with the dispatcher and the worker  *)
(* lets a task so reported reach infer(), before or after.                 *)
(***************************************************************************)
CanceledBeforeExecution ==
    \A t \in Tasks : operations[t] = Op("CANCELED", "before") => infers[t] = 0

(***************************************************************************)
(* Once the scheduler has forgotten an accepted task, whoever polls its    *)
(* operation reads an outcome, or the CANCEL_REQUESTED of a late cancel,   *)
(* never PENDING or ONGOING.                                               *)
(***************************************************************************)
SettledIsReported ==
    \A t \in Accepted \ tracked_tasks :
        operations[t].state \in Finished \cup {"CANCEL_REQUESTED", "ABSENT"}

(***************************************************************************)
(* InternalModels.hpp 124: current_inflight is the number of a model's     *)
(* "tasks currently being executed".  One half of that the code keeps: the *)
(* tasks of the units workers have taken are all counted, unless an        *)
(* admission for the model is between the queue and admitModelStat,        *)
(* although a result may be recorded before its admission and the          *)
(* decrement saturates at 0.  InflightIsExecuting below is the other half. *)
(***************************************************************************)
ExecutingTasks(m) == {t \in Tasks : ModelOf[t] = m /\ AtWorker(t)}

ExecutingIsCounted ==
    \A m \in Models :
        (\A t \in Tasks : ModelOf[t] = m => submit_pc[t] # "stat")
            => current_inflight[m] >= Cardinality(ExecutingTasks(m))

(***************************************************************************)
(* With every model dropping at max_queue_size, the check in admit is made *)
(* before the push and not with it: the FIFO queue may exceed the limit,   *)
(* but by no more than the other submissions in progress.                  *)
(***************************************************************************)
DropsAt(limit) ==
    \A m \in Models : Conf[m].drop_if_queue_full /\ Conf[m].max_queue_size \in 1 .. limit

QueueBounded ==
    \A m \in Models : LET limit == Conf[m].max_queue_size IN
        DropsAt(limit) /\ ~ Churn => Fifo!PendingTaskCount <= limit + MaxClients - 1

(***************************************************************************)
(* A dispatch unit holds tasks of one model, no more than the batch size   *)
(* that model is configured with.                                          *)
(***************************************************************************)
WellFormedUnit(u) ==
    \A i, j \in DOMAIN u :
        /\ ModelOf[u[i]] = ModelOf[u[j]]
        /\ Len(u) <= 1 \/ Len(u) <= Conf[ModelOf[u[i]]].max_batch_size

UnitsWellFormed ==
    /\ WellFormedUnit(unit)
    /\ \A i \in DOMAIN pool : pool[i] # <<>> /\ WellFormedUnit(pool[i])
    /\ \A w \in Workers : WellFormedUnit(work[w])

(***************************************************************************)
(* stop() drains: when it returns, no task that had been accepted before   *)
(* the call is left in a queue, in the pool or with a worker, and no unit  *)
(* is inflight.                                                            *)
(***************************************************************************)
StopDrains ==
    stop_pc = "stopped" => /\ inflight_task_count = 0
                           /\ \A t \in accepted_at_stop : ~ InCustody(t)

-----------------------------------------------------------------------------
(***************************************************************************)
(* An outcome in the repository is replaced by nothing but a deletion or   *)
(* the CANCEL_REQUESTED of a cancel that looked the task up before: the    *)
(* workers, the revoking cancelers and the failing admissions never write  *)
(* a second outcome over a first.                                          *)
(***************************************************************************)
OutcomeIsStable ==
    [][\A t \in Tasks :
          operations[t].state \in Finished =>
             operations'[t].state \in {operations[t].state, "ABSENT", "CANCEL_REQUESTED"}]_vars

(***************************************************************************)
(* updateOperation creates the entry it does not find.  A deleted          *)
(* operation therefore comes back, but only while its task is tracked, its *)
(* submission is in progress, or a cancel request still works on it.       *)
(***************************************************************************)
OnlyLiveTasksReappear ==
    [][\A t \in Tasks :
          operations[t] = Absent /\ operations'[t] # Absent =>
             \/ t \in tracked_tasks
             \/ submit_pc[t] \notin {"accepted", "refused"}
             \/ \E c \in Cancelers : cancel_task[c] = t]_vars

-----------------------------------------------------------------------------
(***************************************************************************)
(* The scheduler implements TaskLifecycle: whatever its threads interleave,*)
(* each of their steps does one thing to one task, or nothing.  A task     *)
(* leaves the waiting sets, the pool and the workers once, it is revoked   *)
(* or started or skipped and never two of them, and nothing writes an      *)
(* operation but what has just happened to its task.                       *)
(***************************************************************************)
Revoked(t) == \E c \in Cancelers : cancel_pc[c] = "finalize" /\ cancel_task[c] = t

Running(t) ==
    \E w \in Workers :
        \/ Current(t, w, {"infer", "recheck"})
        \/ Current(t, w, {"settle"}) /\ result[w] # Op("CANCELED", "before")

FateOf(t) ==
    IF submit_pc[t] \notin {"stat", "notify", "accepted"} THEN "outside"
    ELSE IF Revoked(t)                                    THEN "revoked"
    ELSE IF Running(t)                                    THEN "running"
    ELSE IF InCustody(t) /\ \A w \in Workers : ~ Current(t, w, {"forget", "record"})
                                                          THEN "waiting"
                                                          ELSE "over"

Lifecycle == INSTANCE TaskLifecycle WITH
    fate  <- [t \in Tasks |-> FateOf(t)],
    asked <- cancel_requested,
    id    <- [t \in Tasks |-> t]

ImplementsLifecycle == Lifecycle!Spec

-----------------------------------------------------------------------------
(***************************************************************************)
(* An accepted task is not tracked for ever: it is executed or canceled,   *)
(* provided infer() returns, time passes (for the sleep of 24 hours), and  *)
(* nobody calls stop() meanwhile.                                          *)
(***************************************************************************)
AcceptedIsForgotten ==
    \A t \in Tasks :
        (submit_pc[t] = "accepted") ~> (t \notin tracked_tasks \/ stop_requested)

(***************************************************************************)
(* stop() returns.                                                         *)
(***************************************************************************)
StopReturns == stop_requested ~> (stop_pc = "stopped")

-----------------------------------------------------------------------------
(***************************************************************************)
(* Scheduler.cpp 211 to 213: the notify of an admit wakes the dispatcher   *)
(* early from the 24 hours it sleeps when every queue is empty.  So once   *)
(* it is awake and something is queued, it does not sleep on to the old    *)
(* deadline.  (A notification it does not hear is another matter: the push *)
(* is made without the mutex and may come before the wait begins.)         *)
(***************************************************************************)
WokenOnAdmit ==
    [][dispatch_pc = "notified" /\ wait_dur = "day" /\ QueuedTaskCount > 0
          => dispatch_pc' # "block"]_vars

(***************************************************************************)
(* InternalModels.hpp 124 and Scheduler.hpp 64: current_inflight counts    *)
(* "tasks currently being executed" and changes "on every state transition *)
(* inside execute()".  So no task is counted that no worker has taken.     *)
(***************************************************************************)
InflightIsExecuting ==
    \A m \in Models : current_inflight[m] <= Cardinality(ExecutingTasks(m))

(***************************************************************************)
(* Scheduler.cpp 143: CANCEL_REQUESTED means waiting for in-flight         *)
(* execution to finish.  So the task is still with the scheduler.          *)
(***************************************************************************)
CancelRequestedIsInFlight ==
    \A t \in Tasks : operations[t].state = "CANCEL_REQUESTED" => t \in tracked_tasks
=============================================================================
