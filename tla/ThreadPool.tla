----------------------------- MODULE ThreadPool -----------------------------
(***************************************************************************)
(* The pool of worker threads behind the scheduler: a queue, a mutex and a *)
(* condition variable.  What a thread does between locking and unlocking   *)
(* (or waiting) is one step.                                               *)
(***************************************************************************)
EXTENDS Integers, Sequences, FiniteSets

CONSTANTS
    Workers,        \* the threads of the pool
    Units,          \* the functions that may be enqueued, each once
    NoUnit

\* hardware_concurrency() may answer 0; such a pool runs nothing.
ASSUME WorkersAssumption == IsFiniteSet(Workers) /\ Workers # {}
ASSUME UnitsAssumption   == NoUnit \notin Units

VARIABLES
    stop_, tasks_,  \* as in the class, guarded by queue_mutex_
    worker_pc,      \* of each worker; "waiting" is blocked on condition_
    task,           \* the unit each worker runs
    answer,         \* of enqueue, by unit
    stop_pc,        \* of the thread that calls stop
    joined          \* the workers it has joined

vars == <<stop_, tasks_, worker_pc, task, answer, stop_pc, joined>>

Waiting == {w \in Workers : worker_pc[w] = "waiting"}
Ready   == {w \in Workers : worker_pc[w] = "ready"}
Running == {w \in Workers : worker_pc[w] = "running"}

Init ==
    /\ stop_ = FALSE /\ tasks_ = <<>>
    /\ worker_pc = [w \in Workers |-> "ready"]
    /\ task = [w \in Workers |-> NoUnit]
    /\ answer = [u \in Units |-> "none"]
    /\ stop_pc = "idle" /\ joined = {}

-----------------------------------------------------------------------------
\* notify_one wakes some waiting worker, or nobody when none waits.
NotifyOne ==
    IF Waiting = {}
      THEN UNCHANGED worker_pc
      ELSE \E w \in Waiting : worker_pc' = [worker_pc EXCEPT ![w] = "ready"]

\* Slip: the unit is queued and nobody is told.
Enqueue_NoNotify(u) ==
    /\ answer[u] = "none" /\ ~ stop_
    /\ tasks_' = Append(tasks_, u)
    /\ answer' = [answer EXCEPT ![u] = "accepted"]
    /\ UNCHANGED <<stop_, worker_pc, task, stop_pc, joined>>

Enqueue(u) ==
    /\ answer[u] = "none" /\ ~ stop_
    /\ tasks_' = Append(tasks_, u)
    /\ NotifyOne
    /\ answer' = [answer EXCEPT ![u] = "accepted"]
    /\ UNCHANGED <<stop_, task, stop_pc, joined>>

EnqueueStopped(u) ==
    /\ answer[u] = "none" /\ stop_
    /\ answer' = [answer EXCEPT ![u] = "refused"]
    /\ UNCHANGED <<stop_, tasks_, worker_pc, task, stop_pc, joined>>

-----------------------------------------------------------------------------
\* worker().  A worker that has the mutex, for the first time or again after
\* a wait, waits, leaves or takes a unit.

WorkerWait(w) ==
    /\ worker_pc[w] = "ready" /\ tasks_ = <<>> /\ ~ stop_
    /\ worker_pc' = [worker_pc EXCEPT ![w] = "waiting"]
    /\ UNCHANGED <<stop_, tasks_, task, answer, stop_pc, joined>>

\* Slip: a stopped pool drops what is queued.
WorkerExit_LeavesUnits(w) ==
    /\ worker_pc[w] = "ready" /\ stop_
    /\ worker_pc' = [worker_pc EXCEPT ![w] = "exited"]
    /\ UNCHANGED <<stop_, tasks_, task, answer, stop_pc, joined>>

WorkerExit(w) ==
    /\ worker_pc[w] = "ready" /\ tasks_ = <<>> /\ stop_
    /\ worker_pc' = [worker_pc EXCEPT ![w] = "exited"]
    /\ UNCHANGED <<stop_, tasks_, task, answer, stop_pc, joined>>

\* Slip: condition_.wait without a predicate.
WorkerTake_NoPredicate(w) ==
    /\ worker_pc[w] = "ready"
    /\ task' = [task EXCEPT ![w] = IF tasks_ = <<>> THEN NoUnit ELSE Head(tasks_)]
    /\ tasks_' = IF tasks_ = <<>> THEN tasks_ ELSE Tail(tasks_)
    /\ worker_pc' = [worker_pc EXCEPT ![w] = "running"]
    /\ UNCHANGED <<stop_, answer, stop_pc, joined>>

WorkerTake(w) ==
    /\ worker_pc[w] = "ready" /\ tasks_ # <<>>
    /\ task' = [task EXCEPT ![w] = Head(tasks_)]
    /\ tasks_' = Tail(tasks_)
    /\ worker_pc' = [worker_pc EXCEPT ![w] = "running"]
    /\ UNCHANGED <<stop_, answer, stop_pc, joined>>

\* The unit returns or throws: either way the worker goes round again.
WorkerReturn(w) ==
    /\ worker_pc[w] = "running"
    /\ worker_pc' = [worker_pc EXCEPT ![w] = "ready"]
    /\ task' = [task EXCEPT ![w] = NoUnit]
    /\ UNCHANGED <<stop_, tasks_, answer, stop_pc, joined>>

\* A condition variable may wake a thread nobody notified.
SpuriousWakeup(w) ==
    /\ worker_pc[w] = "waiting"
    /\ worker_pc' = [worker_pc EXCEPT ![w] = "ready"]
    /\ UNCHANGED <<stop_, tasks_, task, answer, stop_pc, joined>>

-----------------------------------------------------------------------------
\* stop(), called by Scheduler::stop and once more by the destructor.

StopFlag ==
    /\ stop_pc \in {"idle", "returned"}
    /\ stop_' = TRUE
    /\ stop_pc' = "notify"
    /\ UNCHANGED <<tasks_, worker_pc, task, answer, joined>>

StopNotify ==
    /\ stop_pc = "notify"
    /\ worker_pc' = [w \in Workers |-> IF w \in Waiting THEN "ready" ELSE worker_pc[w]]
    /\ stop_pc' = "join"
    /\ UNCHANGED <<stop_, tasks_, task, answer, joined>>

StopJoin(w) ==
    /\ stop_pc = "join"
    /\ worker_pc[w] = "exited" /\ w \notin joined
    /\ joined' = joined \cup {w}
    /\ UNCHANGED <<stop_, tasks_, worker_pc, task, answer, stop_pc>>

StopReturn ==
    /\ stop_pc = "join" /\ joined = Workers
    /\ stop_pc' = "returned"
    /\ UNCHANGED <<stop_, tasks_, worker_pc, task, answer, joined>>

-----------------------------------------------------------------------------
Worker(w) == WorkerWait(w) \/ WorkerExit(w) \/ WorkerTake(w) \/ WorkerReturn(w)

\* A call of stop that has begun.
StopStep == StopNotify \/ (\E w \in Workers : StopJoin(w)) \/ StopReturn

Next ==
    \/ \E u \in Units : Enqueue(u) \/ EnqueueStopped(u)
    \/ \E w \in Workers : Worker(w) \/ SpuriousWakeup(w)
    \/ StopFlag \/ StopStep

\* Threads are scheduled and units return; nobody has to be woken for no
\* reason, or to call enqueue or stop.
Fairness == (\A w \in Workers : WF_vars(Worker(w))) /\ WF_vars(StopStep)

Spec == Init /\ [][Next]_vars /\ Fairness

-----------------------------------------------------------------------------
(***************************************************************************)
(* Every variable keeps its type, and a worker holds a unit exactly while  *)
(* it runs one.                                                            *)
(***************************************************************************)
TypeOK ==
    /\ stop_ \in BOOLEAN
    /\ tasks_ \in Seq(Units)
    /\ worker_pc \in [Workers -> {"ready", "waiting", "running", "exited"}]
    /\ task \in [Workers -> Units \cup {NoUnit}]
    /\ answer \in [Units -> {"none", "accepted", "refused"}]
    /\ stop_pc \in {"idle", "notify", "join", "returned"}
    /\ joined \subseteq Workers
    /\ \A w \in Workers : task[w] = NoUnit <=> worker_pc[w] # "running"

(***************************************************************************)
(* No wakeup is lost: while a worker sleeps there is an awake worker on    *)
(* its way to the queue for every unit in it.                              *)
(***************************************************************************)
WorkConserving == Waiting # {} => Len(tasks_) <= Cardinality(Ready)

Promise == INSTANCE Executor WITH
    accepted <- {u \in Units : answer[u] = "accepted"},
    queue    <- tasks_,
    running  <- {task[w] : w \in Running},
    stopping <- stop_,
    stopped  <- joined = Workers

(***************************************************************************)
(* The pool runs every unit it accepts, once and in order, whatever units  *)
(* throw, and a stop drains it and returns.                                *)
(***************************************************************************)
ImplementsExecutor == Promise!Spec
=============================================================================
