# A TLA+ model of the inference platform

`src/` is a C++17 inference server: clients submit requests over HTTP, a scheduler queues
them, a dispatcher thread groups them into dispatch units, a thread pool executes the units
against ONNX Runtime, and clients poll an operation repository for the outcome. This directory
models that life cycle, checks it with TLC on small instances, and proves its safety
properties with TLAPS for instances of any size. It says in two small modules what the
scheduler (`TaskLifecycle`) and the thread pool (`Executor`) promise, shows that the detailed
modules keep these promises, and builds the front ends on the first of them.

Contents: [inventory](#1-inventory), [modules](#2-modules), [runs](#3-runs),
[proofs](#4-proofs), [what the code does against its own words](#5-findings),
[abstractions](#6-abstractions-and-what-is-left-out), [plan](#7-plan).

## 1. Inventory

| component | state | operations | who calls it |
|---|---|---|---|
| Inference service (`server/InferService.cpp`) | none of its own | submit, cancel, delete, status, result; register ... disable a model | HTTP handlers |
| Operation repository (`core/OperationRepository.cpp`) | `operations_`, under one lock | add, update (creates what it does not find), get, remove | service, scheduler |
| Scheduler (`scheduler/Scheduler.cpp`) | `tracked_tasks_`, `inflight_task_count_`, `model_stats_`, `stop_requested_`, the strategies under `strategies_mutex_` | `submitTask`/`admit`, `cancelTask`, `dispatchLoop`, `execute`, `stop` | service; its own dispatcher thread; the pool's threads |
| Policy selector (`scheduler/PolicySelector.hpp`) | none | `selectStrategy` | `admit` |
| FIFO strategy | one deque under its own mutex | `admit`, `select`, `revoke`, `pendingTaskCount`, `nextReadyIn`, `clear` | scheduler |
| Batch strategy | one queue per model with the batch size and window captured when it was empty | the same, and `batchWindowStates` | scheduler |
| Thread pool (`common/ThreadPool.cpp`) | queue of closures, `stop_`, condition variable | `enqueue`, `worker`, `stop` | dispatcher, `stop` |
| Model manager (`model_manager/ModelManager.cpp`) | `model_registry_`, without a lock | register, unregister, load, unload, enable, disable, resolve | service; scheduler (resolve) |
| ONNX Runtime backend | `sessions_` under a shared mutex | `load`, `unload`, `warmup`, `infer` | model manager; the pool's threads |
| Backend registry | a map filled at start-up | `registerBackend`, `getBackend` | start-up; model manager, scheduler |
| Inference scenario, operation updater, preprocessor | a step machine with a stop signal | `run`, `stop`, conditional update | nothing in the server yet |
| Configuration, convertors, HTTP API, logger, start-up | none that lasts | JSON, routing, output | - |

**Interactions.** A submission is a chain of short critical sections on different locks (the
repository, `strategies_mutex_`, `tracked_tasks_mutex_`, the strategy's mutex, the statistics'
mutex), so other threads run between any two of them. The dispatcher holds `strategies_mutex_`
from the computation of its sleep to the sleep, and from the end of the sleep to the end of the
selection; everything else takes it briefly. The cancel flag of a task is an atomic shared by
the canceler and the worker. `stop()` is called by the destructor.

**What is hard.** (a) A cancel against the dispatcher's pop and the worker's two looks at the
flag. (b) A worker that finishes a task before its submission has done its bookkeeping.
(c) `stop()` against submissions, against the dispatcher's sleep and against the pool.
(d) Batches cut at a captured size, released by a window, robbed of a task by a cancel.
(e) An exception out of `infer()` in the middle of a unit. (f) An operation deleted while its
task runs. (g) A model disabled, unloaded or unregistered between the moment a worker resolves
it and the moment it looks for its session. (h) Windows and sleeps computed from clocks that
were read before a lock was taken, and from ages truncated to milliseconds. (i) One wake-up per
unit on a condition variable. (j) Clients that poll, cancel and delete one operation at a time,
under an id that is a tick of a clock. PROJECT.json lists each hazard at its line.

**What makes each component correct.**
*Scheduler*: a task is in one place, is inferred at most once, can be canceled while it is in
custody, and has an outcome when it is forgotten; the counters the policy and the snapshot use
are right; `stop()` drains and returns; what is accepted is dealt with.
*Strategies*: nothing lost, duplicated or reordered; units of one model and of bounded size; a
unit is offered when `nextReadyIn` says so. *Pool*: every unit is run once, also when it stops.
*Model manager and backend*: what the registry calls loaded has the session of its own
configuration. *Repository*: an outcome is not overwritten. *Inference service*: what clients are
told of one operation fits together, and what was refused is dead. *Scenario*: an answer says
what was done, and a failure is in the operation before it is in the answer.

## 2. Modules

| module | models | composed how |
|---|---|---|
| `InternalModels` | operation states, strategies, the scheduling fields of a `ModelConf`, what a configuration file can set of them | extended |
| `TaskLifecycle` | abstract: what may become of a task and of its operation | implemented by `Scheduler`; instantiated by `InferService` and `InferenceScenario` as the scheduler they call |
| `PolicySelector` | `DefaultPolicySelector::selectStrategy`, the fall-back of `Scheduler::strategy` | extends `InternalModels` |
| `StrategyFIFO`, `StrategyBatch` | the two waiting sets, one action or operator per method | instantiated by `Scheduler` over its variables as `Fifo` and `Batch` |
| `Scheduler` | clients, dispatcher, workers, `stop()`, with the repository and the pool's queue | extends `PolicySelector` |
| `SchedulerProperties` | what the scheduler promises, the refinement mapping included | extends `Scheduler`, instantiates `TaskLifecycle` |
| `SchedulerProofs` | theorems about types, counters and the queue limit | extends `SchedulerProperties` |
| `SchedulerCustodyProofs` | theorems about where a task is, what is in a unit, and what `stop()` leaves | extends `SchedulerProofs` |
| `SchedulerLifecycleProofs` | theorems about what becomes of a task, and the refinement of `TaskLifecycle` | extends `SchedulerCustodyProofs` |
| `MCScheduler` | instances for TLC | extends `SchedulerProperties` |
| `BatchWindow`, `BatchWindowProofs`, `MCBatchWindow` | the clock of the batching set, and the dispatcher that sleeps by it | alone |
| `Executor` | abstract: what a pool of threads promises | implemented by `ThreadPool` |
| `ThreadPool`, `ThreadPoolProofs`, `MCThreadPool` | queue, mutex, condition variable, workers, `stop()` | instantiates `Executor` |
| `InferService`, `InferServiceProofs`, `MCInferService` | submit, poll, cancel and delete as clients see them | instantiates `TaskLifecycle` |
| `InferenceScenario`, `InferenceScenarioProofs`, `MCInferenceScenario` | the step machine with its stop signal and its updater | instantiates `TaskLifecycle` |
| `ModelManager`, `ModelManagerProofs`, `MCModelManager` | registry, sessions, and the workers that resolve and infer | alone |

### Scheduler

One step is the stretch of code between two accesses to shared state. The threads and their
program counters:

- **a submission of task `t`** (`submit_pc[t]`): `new` -> `check` (entry PENDING added) ->
  `context` (stop flag read) -> `snapshot` (model resolved, inflight count read, owner chosen) ->
  `limit` (batch windows read under the mutex) -> `track` (queue limit read) -> `enqueue`
  (tracked) -> `stat` (pushed) -> `notify` (statistics) -> `accepted`; or `failed` -> `refused`.
- **a canceler `c`** (`cancel_pc[c]`): reads the operation, looks the task up, sets the flag, tries
  to revoke under the mutex, then either writes CANCELED and forgets the task, or writes
  CANCEL_REQUESTED. A client may also delete an operation at any time.
- **the dispatcher** (`dispatch_pc`): `top` (locks, computes `wait_dur`, tests the predicate) ->
  `block` -> `asleep` -> by timeout `decide`, or `notified` and then `decide` or `block` according
  to the predicate -> exits, selects a unit, or finds nothing -> `dispatch`.
- **a worker `w`** (`worker_pc[w]`): takes a unit; for each task `check` (cancel flag) -> `ongoing`
  -> `infer` -> `recheck` (cancel flag) -> `settle` (outcome written) -> `forget` -> `record`.
- **the thread in `stop()`** (`stop_pc`): flag, notify, join the dispatcher, stop and join the pool.

The dispatcher is the only thread that keeps `strategies_mutex_` across steps, so the mutex is
the predicate `MutexFree` over `dispatch_pc`. Every action states what it leaves alone; the
tuples `submitElse`, `cancelElse`, ... are what no step of a thread touches.

A definition named `X_Suffix` stands before `X` and is `X` with a plausible mistake; each
property of a passing run is violated when one of them replaces its original.

### Strategies

`StrategyFIFO` is the deque. `StrategyBatch` keeps a queue per model with the batch size captured
when it was empty; the clock is the set `elapsed` of queued tasks that have waited for the whole
window, and `WindowElapses` adds one. `nextReadyIn` has three values: `zero`, `window`, `day`.
`StratrgyBatch.cpp` is not in `src/scheduler/CMakeLists.txt`, and its line 112 calls `std::min` on two duration types, which
does not compile; the module models the minimum it plainly means.

### BatchWindow

What `StrategyBatch` leaves to the set `elapsed`: a clock in ticks, `TicksPerMs` of them to the
millisecond. A task is stamped by its constructor (`Construct`) and pushed later (`Admit`), so a
queue is not in the order of its stamps; `select` and `nextReadyIn` read the clock before they
take the mutex, each in a step of its own; ages are truncated to milliseconds (`Milliseconds`); a
queue captures size and window when it is empty, from whatever configuration the admission found
(`Confs`). The dispatcher is the variable `pc`. It keeps `strategies_mutex_` from the question to
the sleep and from the end of the sleep to the end of `select`, and `Revoke` waits for it;
`Admit` does not, `admit` pushes without that mutex.

`SleepSuffices` is the property that ties the two methods: after a sleep of `nextReadyIn` there is a
unit. It holds because `wait_for` starts from a clock of its own, read after the one
`nextReadyIn` used; counted from that one (`Sleep_FromRead`) the truncation of ages makes the
dispatcher wake too early.

### TaskLifecycle and its implementation

A task is `outside`, `waiting`, `running`, `revoked` or `over`. Each of its actions is one write of
the operation, one change of the task's fate, or the two together, and the actions say which writes
are possible in which fate. The mapping (`FateOf` in `SchedulerProperties`) computes the fate from
the program counters of the submission, the canceler and the worker and from the place the task is
in: it is outside until it is pushed, waits in the queues, in the dispatcher's hands, in the
pool and behind other tasks of its unit, runs from the write of ONGOING, and is over with the write
of its outcome. An exception that leaves `execute()` is `Abandon`, the only way in which a task
is over and its operation does not say so.

### ThreadPool

One step is what a thread does between taking the mutex and giving it up or waiting. `notify_one`
wakes any one waiting worker, `notify_all` all, and the condition variable may wake a worker for
nothing. `stop()` is called twice in the code, by `Scheduler::stop` and by the pool's destructor, and
may be called again here. The refinement mapping takes `tasks_` for the queue and what the running
workers hold for the units that run.

### InferService

Submissions and cancels are threads of their own again, now over the scheduler `TaskLifecycle`
describes, with an operation id as the clients' only handle. `GenerateOperationIds(S, i)` gives
the tick `i`, which has not been before, to every thread of `S`: ids may coincide. Ids are a constant set
without an order: which tick an id is, tells nobody anything. `told` records which outcomes clients were told of an
id by a status, a result or the answer to a cancel. The "Operation canceled" that
`InferService.cpp` 228 answers when the operation has been deleted meanwhile is recorded as a word of its own,
`presumed`: nobody has read it in an operation, and it can be wrong (section 5). `OutcomesTold` is
what was read; `AnswersAgree` and `NoWayBack` are about that, `CanceledOnRequest` about both. When `cancelTask` finds a task is taken
over-approximately from its fate (`MayBeTracked`, `MayBeUntracked`): tracking begins shortly before a
task waits and ends shortly after it is over.

### InferenceScenario

`run()` is the loop of `process()`: a test of the stop signal and then one step, so `StopProcess` falls between
the two as it may. A step that fails writes through the updater, which reads and then writes,
two steps (`UpdateReads`, `UpdateWrites`), and only then sets the state `Failed`. `run()` may be
called again by one thread at a time; step, answer and stop signal persist. Whoever owns the
scenario adds the operation, if at all, before the first run, and a cancel reaches the task
from its submission on.

### ModelManager

One server thread changes the registry (it has no lock, so two would be a data race), in between
the backend's critical sections: `loadModel` is two steps, the session and then the state, and so is
`unloadModel`, between which a LOADED model has no session. Workers
copy an ENABLED entry and later look for a session under the request's name. Sessions are keyed by
the `model_name` inside the file (`NameIn`), the registry by the name in the request, and a file may
hold different contents over time (`FileOf`).

## 3. Runs

All runs are exhaustive.

| run | instance | what it shows |
|---|---|---|
| `core` | 2 tasks, FIFO, 2 workers, 1 canceler, deletions, models that disappear, an `infer()` that may throw, 2 concurrent submissions | `ImplementsLifecycle`; where a task is and who can reach it (`OnePlace`, `TrackedUntilSettled`), what its operation may say (`InferredOnce`, `CanceledBeforeExecution`, `SettledIsReported`, `OutcomeIsStable`, `OnlyLiveTasksReappear`), the counters (`InflightExact`, `ExecutingIsCounted`) |
| `batch` | 3 tasks, batches of 2, 1 worker, 1 canceler, `infer()` may throw | `OnePlace`, `InflightExact` and `CanceledBeforeExecution` for units of several tasks that fill up, time out, lose a task or are cut short; `UnitsWellFormed` |
| `live` | 2 tasks, 2 concurrent submissions, batches of 2 in queues that refuse a second task, `stop()` at any time or never, fair threads | `AcceptedIsForgotten`, `StopReturns`, `StopDrains`; batches, too, implement `TaskLifecycle` |
| `window` | 3 tasks in the queues of 2 models, two configurations, 2.5 ms in half milliseconds | `WindowFromPush`: nobody is kept past a window by those in front; `SleepSuffices`; `WaitNotUnderReported` |
| `pool` | 3 workers, 4 units, `stop()` at any time and again, fair threads | `ImplementsExecutor`, its liveness included; `WorkConserving`: no wake-up is lost |
| `service` | 3 submissions, of which 2 may share an id, 1 canceler, polls and deletions at any time | `AnswersAgree`, `RefusedIsDead`, `CanceledOnRequest`, `NoWayBack` |
| `scenario` | 2 scenarios, one with an updater, every kind of request, run, stopped, canceled and deleted again and again | `AnswersAreTrue`, `FailureIsReported`, `DeletionIsFinal` |
| `models` | 3 models, a file that changes, a file that claims another's name, 2 workers | `LoadedHasSession`, `ServesItsConf`, `RunsWhatItResolved`, `OrphansAreStuck` |
| `relock`, `oversleep`, `latecancel`, `inflight` | one task | the disagreements of section 5 |

**Deadlock** is checked in `core`, `batch` and `live`, where `Terminating` is the only explicit end
(everybody has returned), and in `models`, which has none. It is not in `window` (the clock ends at its bound), `pool` (nobody
need enqueue; what must not stop is its liveness property), `service` and
`scenario` (all submissions are over and all operations deleted, or clients have lost
interest), and `relock` (which shows a thread that blocks).

**Bounds.** `Tasks` bounds the submissions, `MaxClients` those in progress
at once. Two tasks and two workers give every pairwise race between a task being canceled, one
executing and one queued; three tasks are the least with which a batch of two leaves one behind
and with which two operations can share an id beside a third
that must not notice. In `live` the queue limit of one is passed, and a batch of two filled, by two submissions that both pass
the check before either pushes. One canceler cancels as often as it likes. The
statistics saturate at 0 and are bounded by the tasks. In `window`, `MaxClock` is 5 ticks of half a
millisecond, `DayMs` 3: enough for a window of 2 ms to begin at any tick, elapse and be
overslept by one, and for a clock to be read on either side of a truncation; `UInt32s` is 65536 and stands for
2^32 (any value beyond the clock will do). In `pool` there are more units than workers and more
workers than a `notify_one` wakes. Workers are symmetric; so are tasks that nobody cancels, in the
runs without temporal properties; in `window` the two tasks of one model are, in `service` the submissions
and the ids (three, one per submission: more are never used).

**Fairness** (`FairSpec`). Weak fairness of the dispatcher, of each worker, of a submission or a
cancel that has begun, of `stop()` once called, and of the clock. The operating system runs
threads that can run, and a mutex held for a bounded time is acquired in the end: only the
dispatcher holds one across steps and it releases it when it sleeps. Nothing obliges a client to submit or anybody to
call `stop()`. The dispatcher's fairness includes the end of a sleep of 24 hours: without it an
accepted task can stay queued, see `oversleep`. `infer()` is assumed to return.
`AcceptedIsForgotten` gives up once `stop()` is called, because a submission that tested the stop
flag before can push after the dispatcher has left, and its task then stays PENDING.
`ThreadPool` assumes the same of its workers and of a `stop()` that has begun, and at least one
worker (`WorkersAssumption`): `hardware_concurrency()` may answer 0, the constructor then starts
no thread, and `Executor`'s liveness would be false. Spurious wake-ups are never assumed to happen.

## 4. Proofs

Assumptions are the named ASSUMEs of the modules: finite sets of tasks, models and workers, at least one
client, functions of the right type. In `Scheduler` the set of workers may be empty, and one theorem
(`StopDrainsAccepted`) says in its statement that it is not.

Every invariant and action property of a passing run is the conclusion of a theorem here; of the
refinements, the safety half is. One theorem states what no run checks (`QueueIsBounded`).

`SchedulerProofs`:

- **`TypeCorrect`, `InflightIsExact`.** Neither is inductive. A worker that finishes its unit
  returns the count, so the count stays a natural number only because it counts that worker
  (`InflightExact`), and the worker reads `Head(work[w])`, which is a task only because a busy
  worker has something in its hands (`HandsFull`, which reaches back to the pool never holding an
  empty unit and to the dispatcher never handing one over). The invariant is
  `IInv == TypeOK /\ InflightExact /\ HandsFull`; one lemma per thread shows that each of its steps
  keeps it, with the cardinality of the set of busy workers handled once in `BusyChange`.
- **`QueueIsBounded`.** The length of the queue is not inductive: a submission that has passed the
  check pushes later. `QInv` counts those submissions with the queue; each was let through when the
  queue was below the limit, and there are at most `MaxClients` of them. It takes three submissions, a limit
  of one and two clients to tell this bound from a looser one, so it is left to the proof.

`SchedulerCustodyProofs`, on top of `IInv`:

- **`TaskInOnePlace`.** `CustodyInv` says where a task can be: no sequence holds it twice
  (`NoneTwice`), no two holders have it (`OneHolder`, over the waiting sets, the dispatcher's unit, the
  pool and the workers), the queue of a model holds tasks of that model, what is held has been
  submitted, and a thread has empty hands unless it is between taking over and handing on
  (`HandsEmpty`, the converse of `HandsFull`). The last part is what makes a hand-over exclusive: what
  a dispatcher or worker takes over is all it has. The lemmas `AppendMembers`, `RemoveAtMembers`,
  `TailMembers` and `CutMembers` say what the four operations on queues do to the elements, and there is one
  lemma for each step that moves a task. On the way, `NeverRefused`: the pool does not refuse the
  dispatcher, because it is stopped after the dispatcher has been joined.
- **`UnitsAreWellFormed`.** Not inductive: a worker's unit is the rest of one, the pool's was the
  dispatcher's, and the dispatcher's was the front of a queue with a captured size. `UnitsInv` has all
  four, and `WellFormedTail` the step from a unit to its rest.
- **`ExecutingIsAlwaysCounted`.** The half of the documented meaning of `current_inflight` that holds (for the
  other see `inflight` in section 5): no task a worker has taken is missing from it. Inductive is `StatsInv`: of each
  model, `current_inflight` and the submissions that have pushed and not counted yet are together no
  fewer than the tasks in custody, wherever they are. A worker
  that records a task takes one off both sides; if it finds the count at zero, because the submission has
  not counted yet, the uncounted submissions bound the tasks on their own.
- **`StopDrainsAccepted`.** `StopInv`: the dispatcher leaves with empty queues as far as the tasks
  accepted before the stop go, a worker leaves with an empty pool, and `stop()` returns when all have
  left. It needs a worker: with an empty pool of threads (the hazard at `Scheduler.cpp` 21)
  `stop()` joins nobody and the pool's queue stays as it is.

`SchedulerLifecycleProofs`, on top of both:

- **The invariant `LifeInv`** has three parts, one per actor. For a task (`TaskInv`): in custody it is
  tracked, unless its worker is at the last line of the loop (`AtRecord`); while it waits it has not
  been inferred; an outcome in its operation means that nobody is going to execute it any more (`Over`), or
  that its submission was refused; and once it is submitted and untracked, or its worker or canceler
  is past the write, the operation has an outcome. For a canceler
  (`CancelInv`): a task it has revoked is in nobody's custody, was never inferred, and was revoked by it
  alone. For a worker (`ExecInv`): the outcome it is about to write is true of the task.
  None of the three is inductive without the others: the cancel's
  write of CANCELED after a revocation is an outcome of a task in nobody's custody, which only
  `OnePlace` turns into a task no worker will reach.
- **`TaskIsTrackedUntilSettled`, `TaskIsInferredOnce`, `CanceledIsNeverExecuted`,
  `SettledTaskIsReported`** follow from `LifeInv` state by state, **`OutcomeStays`** and
  **`DeletedStaysDeleted`** step by step: in the state before a write, `LifeInv` excludes every writer
  but those the property names.
- **`SchedulerImplementsLifecycle`.** The safety of `ImplementsLifecycle`, which is all `TaskLifecycle`
  states. `FateOf` is evaluated before and after each step (`FateValue`, and one lemma per kind of step), and
  the step is shown to be the action of `TaskLifecycle` for that pair of fates and writes, or a stutter:
  the push is the task's entry, a revocation under the mutex takes it out, the write of ONGOING starts
  it, the write of an outcome ends it, and an exception out of `execute()` is one `Abandon` of the task
  that runs with the rest of its unit, whose tasks are shown to be waiting (nobody else holds them, and
  no canceler has revoked what a worker holds). With it the theorems about `InferService` and `InferenceScenario`, which are about any scheduler that
  implements `TaskLifecycle`, hold of this one for any number of tasks, clients and workers.

`BatchWindowProofs`, for any tick, window, day, configurations and bound on the clock:

- **The invariant `WInv`.** A queue holds each of its tasks once and in the order of the pushes
  (`InLine`); nobody is stamped or pushed in the future, and nobody is pushed before being stamped (`Stamped`);
  an undisturbed sleep ends when some queue is due, in ticks (`WakesToWork`, `DueAt`). A task that
  is revoked or selected thins out a queue: `Thinned` says what that keeps, for an erasure
  (`ErasedIsThinned`) and a cut (`CutIsThinned`) alike.
- **`WindowCountsFromPush`, `WaitIsNotUnderReported`.** The front was pushed no later than anything
  behind it and stamped before it was pushed, so it is at least as old; truncation keeps that order
  on both sides of zero (`MillisecondsMonotone`). The second needs the clock to stay below the range
  of `uint32_t` (`WindowAssumption`).
- **`SleepIsEnough`.** `NextReadyInReaches`: an answer of less than a day is the remaining time of some front, by
  the existence of a minimum (`MinIsLeast`). `SleepWindow` turns it into ticks: a truncated age is at most the
  age, so the remaining time errs on the late side, and the sleep is counted from a clock that is no
  earlier than the one the age was taken from, nor than the stamp of a front younger than it.
- **`WindowTypeCorrect`.** With it that a task is in the queue of its model exactly while it is queued.

`ModelManagerProofs`:

- **`LoadedModelsHaveSessions`, `LoadedModelsServeTheirConf`.** By `KeysAgree` (a session is kept
  under the name in the file it was built from), `LoadingHasSession` (between the halves of
  `loadModel` the session is there) and `UnloadingHasNone` (between those of `unloadModel` it is not,
  and the model is LOADED, never ENABLED).
- **`WorkersRunWhatTheyResolved`.** By `ResolvedStays`: while a worker is about a model, either the
  session of that name is the one it resolved, or there is none and the registry still has the
  configuration it would be built from again. That holds because `unregisterModel` refuses an
  unloaded model; with the test the other way round the property is violated (it is the mutant).
- **`OrphansStayStuck`.** The price of the same test: a model unregistered while loaded leaves a
  session that refuses every later load.

`ThreadPoolProofs`, for any number of workers and units:

- **`PoolTypeCorrect`, `NoWakeupIsLost`.** `WorkConserving` is inductive with `TypeOK`: while a worker
  waits, the queue is no longer than the number of workers that are awake and hold nothing.
  `enqueue` adds one to both, a worker that takes a unit subtracts one from both, and a worker waits or
  leaves only before an empty queue. The lemmas `ReadyChange` and `ReadyLeaves` count.
- **`PoolImplementsExecutor`.** Initial states map to initial states and every step to a step of
  `Executor` or a stutter, under `RInv`: a unit is in one place (`Once`), only what was
  accepted is anywhere (`OnlyAccepted`), and who has left found the pool stopped and the queue empty
  (`Drained`). The liveness half of `ImplementsExecutor` is TLC's.

`InferServiceProofs`, for any number of submissions and cancelers, and ids shared in any way:

- **`ServiceTypeCorrect`.** A submission answered 202 has an id to answer, since it has one from
  `generateOperationId` on (`Naming`); a cancel works on a task of the id it was given (`Reach`).
- **`AnswersAlwaysAgree`, `ThereIsNoWayBack`.** The invariant `Settled(t)`, of an operation whose id
  nobody shares: an outcome can be read or has been read only when the task is over, what has been read
  is one outcome, and what can be read is that one or none. What line 228 presumes is not an outcome that was read: with it
  both would be false. It needs what the scheduler has of a task
  for each point of its submission (`Fates`) and what a canceler can be working on (`Reach`).
- **`RefusedStaysDead`, `CanceledOnlyOnRequest`.** From the same invariant; the latter for shared ids too, and for
  what is presumed: where `cancelTask` has answered true, somebody has asked (`Reach`).

`InferenceScenarioProofs`, for any number of scenarios:

- **`ScenarioTypeCorrect`, `ScenarioAnswersAreTrue`, `FailuresAreReported`, `DeletionsAreFinal`.** One
  invariant per scenario: where the machine stands and what it has submitted (`MachineInv`), what it can
  have answered there (`AnswerInv`), and that the operation of a task never submitted is written by the
  scenario alone (`OperationInv`). `OneScenario` and `Frame` carry it over the steps of all the others.

**Model-checked only.** Liveness, which the prover does not reach: `AcceptedIsForgotten` and
`StopReturns` of the scheduler under `FairSpec`, and the liveness half of `ImplementsExecutor`; with
it everything about ENABLED, deadlock included. The four violations of section 5, which are
counterexamples. Nothing in a theorem's module is recursive: induction over data is out of reach
too, and the sums and minima the model needs are sets with a cardinality or a least element.

## 5. Findings

| run | property | what happens |
|---|---|---|
| `relock` | `AcceptedIsForgotten` | `selectReadyUnit` calls `runtimeSnapshot`, which locks the `std::mutex` the dispatcher holds. Undefined by the standard; where it blocks, the first selection is the last thing the dispatcher does. `RelockGranted` is the choice: every other run takes the outcome under which the server works at all |
| `oversleep` | `WokenOnAdmit` | the predicate of `wait_for` tests the stop flag only: the notification of `admit` wakes the dispatcher from the 24 hours it sleeps before empty queues, a task is queued by then, and it goes back to sleep until the old deadline, where the comment says it is woken early |
| `latecancel` | `CancelRequestedIsInFlight` | CANCEL_REQUESTED is written over an outcome that has come in meanwhile, and stays |
| `inflight` | `InflightIsExecuting` | `current_inflight`, documented as the "tasks currently being executed" and changed "inside execute()", counts a task from its admission on, before any worker has it |

Also seen, without a run of its own: `stop()` sets the flag and notifies without the mutex
(`Scheduler.cpp` 149-154), both can fall between the dispatcher's test and its wait, and the stop then lasts until
the sleep is over. An `admit` can lose its notification the same way: it pushes without that mutex, after the
dispatcher has looked at the queues and before it waits. A revoked task is never taken off
`current_inflight` (136), and a result recorded before its admission leaves it one too high: both stay for good.
`oldest_wait_ms` is the age of the front, whose
stamp need not be the oldest, and a front stamped after the clock was read wraps it to 49 days.

The answer of `InferService.cpp` 228 ("Operation canceled", 200) presumes what it has not looked at. A client
reads the result of an operation; a late cancel has written CANCEL_REQUESTED over it (`latecancel`); another client
deletes the operation; and the canceler is told that it was canceled. Or the worker has looked at the flag before the cancel
set it; the cancel writes CANCEL_REQUESTED, a client deletes the operation, the canceler is told that it was canceled;
then the worker writes ONGOING (`Scheduler.cpp` 304), and a poll finds the operation "still in progress".
`AnswersAgree` and `NoWayBack` except this answer, and operations that share an id, and nothing else.

## 6. Abstractions, and what is left out

- Payloads, tensors, messages (but for the two kinds of cancellation), logging and HTTP.
- Of the model statistics, `current_inflight`; the four totals only grow.
- Real time: in `Scheduler` a window elapses at any moment after the task is queued, and a sleep for a window may end
  early; it then selects nothing and computes the duration again, as the code does. The arithmetic
  is in `BatchWindow`.
- Spurious wake-ups of the dispatcher: the predicate makes them steps from `asleep` to `block`.
- A configuration file can set `max_batch_size` but not the strategy, the queue limit or the drop
  policy (`ConfFromFile`), so today only the FIFO path is reached from files. `core` runs that
  configuration; `batch` and `live` use configurations that the structures allow.
- In `Scheduler`, resolving a model is a choice (`Churn`); `ModelManager` says where it comes from.
- In `Scheduler` operation ids are unique; `InferService` lets those of one tick share one.
- A submission concurrent with `stop()` needs a caller of the public `stop()`; the destructor runs
  when no client holds the scheduler any more.
- The refusal of a stopped pool in `dispatch` is modelled and never reached: the pool is stopped
  after the dispatcher has left.
- Data races on the registry of models (no outcome of one is worth enumerating); a file that names a backend nobody registered
  (`ModelManager.cpp` 51 calls through a null pointer and the process ends).
- The backend registry, start-up and logger: filled once, run once, output only. The HTTP handlers'
  parsing in front of the calls `InferService` models; the JSON conversions but for
  `ConfFromFile`.
- `StrategyFIFO::clear`, which nobody calls. `clear` of the batching set is in `BatchWindow`.
- The operation of a scenario refused by `precheck()`, or stopped before its submission, stays
  PENDING: no code reports it, and `FailureIsReported` speaks of failed steps only.
- A second submission of one scenario would be a second task; it is counted and shown not to happen.

## 7. Plan

1. *(done)* `Scheduler` with its strategies; `TypeOK`, `InflightExact` and
   `QueueBounded` proved. `ModelManager` with its theorems.
2. *(done)* `TaskLifecycle` as the promise of `Scheduler`; `InferService` and `InferenceScenario` on it, with
   their theorems.
3. *(done)* `BatchWindow`; `ThreadPool` as an `Executor`, with its theorems.
4. *(done)* `OnePlace` and what rests on it, up to the steps of `ImplementsLifecycle`, which carries the
   theorems about the front ends down to the threads and locks; the theorems about `BatchWindow`.
5. `WaitingSet`, what a strategy promises (a bag of admitted tasks; a unit is a non-empty part of it;
   revoke takes one out), and `StrategyFIFO` and `StrategyBatch`, with `clear`, shown to implement it.
   `CustodyInv` has what the proof needs.
