----------------------------- MODULE BatchWindow ----------------------------
(***************************************************************************)
(* The timing of the batching waiting set, which StrategyBatch abstracts:  *)
(* a task is stamped when it is constructed and pushed later, select and   *)
(* nextReadyIn read the clock before they take the mutex, ages are         *)
(* truncated to milliseconds, and a queue keeps the window of the          *)
(* configuration it saw when it was last empty.                            *)
(*                                                                         *)
(* The clock counts ticks; TicksPerMs of them are a millisecond.           *)
(***************************************************************************)
EXTENDS Integers, Sequences, FiniteSets, SequencesExt

CONSTANTS
    Tasks, Models,
    ModelOf,            \* [Tasks -> Models]
    Confs,              \* the configurations admissions may find
    DefaultTimeoutMs,   \* ModelQueue::batch_timeout_ms, 20 in the code
    DayMs,              \* the 24 hours nextReadyIn answers at most
    TicksPerMs,
    UInt32s,            \* how many values a uint32_t has, 2^32
    MaxClock            \* bounds the clock

ASSUME WindowAssumption ==
    /\ ModelOf \in [Tasks -> Models]
    /\ Confs \subseteq [max_batch_size : Nat, batch_timeout_ms : Nat]
    /\ DefaultTimeoutMs \in Nat /\ DayMs \in Nat
    /\ TicksPerMs \in Nat \ {0} /\ MaxClock \in Nat
    /\ UInt32s \in Nat /\ MaxClock < UInt32s

VARIABLES
    clock,
    queues,         \* [Models -> [tasks, max_batch_size, batch_timeout_ms]]
    stage,          \* of each task
    enqueued_at,    \* its stamp
    pushed_at,      \* history: when it entered its queue
    pc,             \* the dispatcher,
    now,            \* the clock it read before it took the mutex,
    deadline,       \* when its sleep ends,
    undisturbed     \* history: it sleeps less than a day, and since it took
                    \* the mutex to ask how long, no task has been taken away

vars == <<clock, queues, stage, enqueued_at, pushed_at, pc, now, deadline, undisturbed>>

dispatcherVars == <<pc, now, deadline, undisturbed>>

EmptyQueue == [tasks |-> <<>>, max_batch_size |-> 1, batch_timeout_ms |-> DefaultTimeoutMs]

Init ==
    /\ clock = 0
    /\ queues = [m \in Models |-> EmptyQueue]
    /\ stage = [t \in Tasks |-> "new"]
    /\ enqueued_at = [t \in Tasks |-> 0]
    /\ pushed_at = [t \in Tasks |-> 0]
    /\ pc = "nextReadyIn" /\ now = 0 /\ deadline = 0 /\ undisturbed = FALSE

\* duration_cast<milliseconds> truncates towards zero.
Milliseconds(ticks) ==
    IF ticks >= 0 THEN ticks \div TicksPerMs ELSE - ((- ticks) \div TicksPerMs)

Nonempty == {m \in Models : queues[m].tasks # <<>>}

\* Slip: the back of the deque.
FrontTask_Back(m) == queues[m].tasks[Len(queues[m].tasks)]

FrontTask(m) == Head(queues[m].tasks)

Age(m, at) == Milliseconds(at - enqueued_at[FrontTask(m)])

SizeReady(m) == Len(queues[m].tasks) >= queues[m].max_batch_size

Ready(m, at) ==
    /\ m \in Nonempty
    /\ SizeReady(m) \/ Age(m, at) >= queues[m].batch_timeout_ms

-----------------------------------------------------------------------------
Tick ==
    /\ clock < MaxClock
    /\ clock' = clock + 1
    /\ UNCHANGED <<queues, stage, enqueued_at, pushed_at, dispatcherVars>>

\* Task's constructor, at the start of Scheduler::submitTask.
Construct(t) ==
    /\ stage[t] = "new"
    /\ stage' = [stage EXCEPT ![t] = "stamped"]
    /\ enqueued_at' = [enqueued_at EXCEPT ![t] = clock]
    /\ UNCHANGED <<clock, queues, pushed_at, dispatcherVars>>

Captured(queue, conf) ==
    IF queue.tasks # <<>>
      THEN queue
      ELSE [queue EXCEPT
              !.max_batch_size = IF conf.max_batch_size > 0 THEN conf.max_batch_size ELSE 1,
              !.batch_timeout_ms = conf.batch_timeout_ms]

\* The model may have been found with any configuration, or not at all.
Admit(t) ==
    LET m == ModelOf[t]
    IN  /\ stage[t] = "stamped"
        /\ stage' = [stage EXCEPT ![t] = "queued"]
        /\ pushed_at' = [pushed_at EXCEPT ![t] = clock]
        /\ \E queue \in {queues[m]} \cup {Captured(queues[m], conf) : conf \in Confs} :
              queues' = [queues EXCEPT ![m] = [queue EXCEPT !.tasks = Append(@, t)]]
        /\ UNCHANGED <<clock, enqueued_at, dispatcherVars>>

\* The stamps of tasks that are in no queue any more are of no interest.
Leave(S) ==
    /\ stage' = [t \in Tasks |-> IF t \in S THEN "gone" ELSE stage[t]]
    /\ enqueued_at' = [t \in Tasks |-> IF t \in S THEN 0 ELSE enqueued_at[t]]
    /\ pushed_at' = [t \in Tasks |-> IF t \in S THEN 0 ELSE pushed_at[t]]

\* Slip: found, and not erased.
Revoke_NotErased(t) ==
    /\ pc \in {"nextReadyIn", "sleeping"}
    /\ stage[t] = "queued"
    /\ Leave({t})
    /\ undisturbed' = FALSE
    /\ UNCHANGED <<clock, queues, pc, now, deadline>>

\* cancelTask reaches the queue under strategies_mutex_, which the dispatcher
\* holds from "nextReadyIn" to the sleep and from its end to the unlock after
\* select; it gives it up while it sleeps.
Revoke(t) ==
    /\ pc \in {"nextReadyIn", "sleeping"}
    /\ \E m \in Models : \E i \in DOMAIN queues[m].tasks :
          /\ queues[m].tasks[i] = t
          /\ queues' = [queues EXCEPT ![m].tasks = RemoveAt(@, i)]
    /\ Leave({t})
    /\ undisturbed' = FALSE
    /\ UNCHANGED <<clock, pc, now, deadline>>

\* Nobody calls clear; an owner of the strategy may.
Clear ==
    /\ Nonempty # {}
    /\ queues' = [m \in Models |-> EmptyQueue]
    /\ Leave({t \in Tasks : stage[t] = "queued"})
    /\ undisturbed' = FALSE
    /\ UNCHANGED <<clock, pc, now, deadline>>

-----------------------------------------------------------------------------
\* The dispatcher: how long to sleep, the sleep, what to run.

NextReadyInReadsClock ==
    /\ pc = "nextReadyIn" /\ pc' = "nextReadyInLocks"
    /\ now' = clock
    /\ UNCHANGED <<clock, queues, stage, enqueued_at, pushed_at, deadline, undisturbed>>

Remaining(m) == queues[m].batch_timeout_ms - Age(m, now)

NextReadyIn ==
    IF \E m \in Nonempty : SizeReady(m) \/ Remaining(m) <= 0
      THEN 0
      ELSE Min({DayMs} \cup {Remaining(m) : m \in Nonempty})

\* Slip: wait_until, from the clock nextReadyIn read.
Sleep_FromRead ==
    /\ pc = "nextReadyInLocks"
    /\ pc' = "sleeping"
    /\ deadline' = now + NextReadyIn * TicksPerMs
    /\ undisturbed' = (NextReadyIn < DayMs)
    /\ now' = 0
    /\ UNCHANGED <<clock, queues, stage, enqueued_at, pushed_at>>

\* wait_for reads the clock again: the sleep counts from here.
Sleep ==
    /\ pc = "nextReadyInLocks"
    /\ pc' = "sleeping"
    /\ deadline' = clock + NextReadyIn * TicksPerMs
    /\ undisturbed' = (NextReadyIn < DayMs)
    /\ now' = 0
    /\ UNCHANGED <<clock, queues, stage, enqueued_at, pushed_at>>

\* The end of the sleep, and then select reads the clock.
Wake ==
    /\ pc = "sleeping" /\ pc' = "selectLocks"
    /\ clock >= deadline
    /\ now' = clock /\ deadline' = 0
    /\ UNCHANGED <<clock, queues, stage, enqueued_at, pushed_at, undisturbed>>

\* stop() ends the sleep.
WakeEarly ==
    /\ pc = "sleeping" /\ pc' = "selectLocks"
    /\ clock < deadline
    /\ now' = clock /\ deadline' = 0 /\ undisturbed' = FALSE
    /\ UNCHANGED <<clock, queues, stage, enqueued_at, pushed_at>>

\* The first max_batch_size tasks of one ready queue.
Select(m) ==
    LET tasks == queues[m].tasks
        size  == Min({Len(tasks), queues[m].max_batch_size})
    IN  /\ pc = "selectLocks" /\ pc' = "nextReadyIn"
        /\ Ready(m, now)
        /\ queues' = [queues EXCEPT ![m].tasks = SubSeq(tasks, size + 1, Len(tasks))]
        /\ Leave({tasks[i] : i \in 1 .. size})
        /\ now' = 0 /\ undisturbed' = FALSE
        /\ UNCHANGED <<clock, deadline>>

SelectNothing ==
    /\ pc = "selectLocks" /\ pc' = "nextReadyIn"
    /\ \A m \in Models : ~ Ready(m, now)
    /\ now' = 0 /\ undisturbed' = FALSE
    /\ UNCHANGED <<clock, queues, stage, enqueued_at, pushed_at, deadline>>

-----------------------------------------------------------------------------
Next ==
    \/ Tick \/ Clear
    \/ \E t \in Tasks : Construct(t) \/ Admit(t) \/ Revoke(t)
    \/ NextReadyInReadsClock \/ Sleep \/ Wake \/ WakeEarly
    \/ \E m \in Models : Select(m)
    \/ SelectNothing

Spec == Init /\ [][Next]_vars

-----------------------------------------------------------------------------
\* batchWindowStates: oldest_wait_ms of a queue, for a thread that read the
\* clock at "at" and then took the mutex.

\* Slip: the task at the back.
OldestWaitMs_Back(m, at) ==
    Milliseconds(at - enqueued_at[queues[m].tasks[Len(queues[m].tasks)]]) % UInt32s

OldestWaitMs(m, at) == Age(m, at) % UInt32s

(***************************************************************************)
(* Every variable keeps its type, and a task is queued exactly while it is *)
(* in the queue of its model, once.                                        *)
(***************************************************************************)
TypeOK ==
    /\ clock \in 0 .. MaxClock
    /\ queues \in [Models -> [tasks : Seq(Tasks), max_batch_size : Nat \ {0}, batch_timeout_ms : Nat]]
    /\ stage \in [Tasks -> {"new", "stamped", "queued", "gone"}]
    /\ \A t \in Tasks :
          Cardinality({i \in DOMAIN queues[ModelOf[t]].tasks : queues[ModelOf[t]].tasks[i] = t})
             = IF stage[t] = "queued" THEN 1 ELSE 0
    /\ pc \in {"nextReadyIn", "nextReadyInLocks", "sleeping", "selectLocks"}

(***************************************************************************)
(* The tasks of a queue are not in the order of their stamps, yet none     *)
(* hides behind its front: a task that has been in the queue for a whole   *)
(* window is in a queue that select would take now.                        *)
(***************************************************************************)
WindowFromPush ==
    \A m \in Nonempty : \A i \in DOMAIN queues[m].tasks :
        clock - pushed_at[queues[m].tasks[i]] >= queues[m].batch_timeout_ms * TicksPerMs =>
            Ready(m, clock)

(***************************************************************************)
(* A dispatcher that has slept for what nextReadyIn answered finds a unit: *)
(* neither the truncation of ages, nor a clock read before the front was   *)
(* even stamped, makes it go round once more.                              *)
(***************************************************************************)
SleepSuffices ==
    pc = "selectLocks" /\ undisturbed => \E m \in Models : Ready(m, now)

(***************************************************************************)
(* Whenever a thread read the clock, oldest_wait_ms is at least the time   *)
(* each task of the window had been in it by then.  (It can be more: the   *)
(* stamp is older than the push, and a stamp younger than the clock wraps  *)
(* to 49 days.)                                                            *)
(***************************************************************************)
WaitNotUnderReported ==
    \A m \in Nonempty : \A at \in 0 .. clock : \A i \in DOMAIN queues[m].tasks :
        OldestWaitMs(m, at) >= Milliseconds(at - pushed_at[queues[m].tasks[i]])
=============================================================================
