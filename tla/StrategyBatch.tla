---------------------------- MODULE StrategyBatch ---------------------------
(***************************************************************************)
(* The batching waiting set: one queue per model, released when it holds a *)
(* full batch or when its front has waited for batch_timeout_ms.  The      *)
(* clock is abstracted: "elapsed" holds the queued tasks whose age has     *)
(* reached the window of their queue, and WindowElapses is time passing.   *)
(***************************************************************************)
EXTENDS Integers, Sequences, FiniteSets, SequencesExt

CONSTANT Models

VARIABLES
    queues,     \* [Models -> [tasks, max_batch_size]]; a model the map does
                \* not hold yet is an empty queue with the struct's default
    elapsed     \* the tasks that have waited for their whole window

EmptyQueue == [tasks |-> <<>>, max_batch_size |-> 1]

\* The batch size is captured when the queue is empty, and only then.
Admit(model, task, found, conf) ==
    /\ queues' = [queues EXCEPT ![model] =
          [tasks |-> Append(@.tasks, task),
           max_batch_size |->
              IF @.tasks = <<>> /\ found
                THEN IF conf.max_batch_size > 0 THEN conf.max_batch_size ELSE 1
                ELSE @.max_batch_size]]
    /\ UNCHANGED elapsed

SizeReady(model) == Len(queues[model].tasks) >= queues[model].max_batch_size

\* Slip: the window is not looked at.
TimeoutReady_Never(model) == FALSE

TimeoutReady(model) == Head(queues[model].tasks) \in elapsed

Ready(model) ==
    /\ queues[model].tasks # <<>>
    /\ SizeReady(model) \/ TimeoutReady(model)

\* Slip: the last task of the batch is left in the queue.
Select_OffByOne(model, unit) ==
    LET tasks == queues[model].tasks
        size  == IF SizeReady(model) THEN queues[model].max_batch_size
                                     ELSE Len(tasks)
    IN  /\ Ready(model)
        /\ unit = SubSeq(tasks, 1, size)
        /\ queues' = [queues EXCEPT ![model].tasks = SubSeq(tasks, size, Len(tasks))]
        /\ UNCHANGED elapsed

\* Slip: the batch size is checked and then not respected.
Select_WholeQueue(model, unit) ==
    /\ Ready(model)
    /\ unit = queues[model].tasks
    /\ queues' = [queues EXCEPT ![model].tasks = <<>>]
    /\ UNCHANGED elapsed

\* One unit is the front of one ready queue, max_batch_size tasks at most.
Select(model, unit) ==
    LET tasks == queues[model].tasks
        size  == IF SizeReady(model) THEN queues[model].max_batch_size
                                     ELSE Len(tasks)
    IN  /\ Ready(model)
        /\ unit = SubSeq(tasks, 1, size)
        /\ queues' = [queues EXCEPT ![model].tasks = SubSeq(tasks, size + 1, Len(tasks))]
        /\ elapsed' = {t \in elapsed : \A i \in DOMAIN unit : unit[i] # t}

Holds(task) ==
    \E m \in Models : \E i \in DOMAIN queues[m].tasks : queues[m].tasks[i] = task

\* Slip: found, and not erased.
Revoke_NotErased(task) == Holds(task) /\ UNCHANGED <<queues, elapsed>>

\* Erases the first entry with that id in one of the queues.
Revoke(task) ==
    \E m \in Models : \E i \in DOMAIN queues[m].tasks :
        /\ queues[m].tasks[i] = task
        /\ \A j \in 1 .. i - 1 : queues[m].tasks[j] # task
        /\ queues' = [queues EXCEPT ![m].tasks = RemoveAt(@, i)]
        /\ elapsed' = elapsed \ {task}

\* The sum of the queues' sizes: the number of occupied positions.
PendingTaskCount ==
    Cardinality(UNION {{m} \X (DOMAIN queues[m].tasks) : m \in Models})

\* "window": the time left before some front has waited long enough.
NextReadyIn ==
    CASE \E m \in Models : Ready(m)                  -> "zero"
      [] \A m \in Models : queues[m].tasks = <<>>    -> "day"
      [] OTHER                                       -> "window"

\* The clock: the age of a queued task reaches the window of its queue.
WindowElapses(task) ==
    /\ Holds(task)
    /\ task \notin elapsed
    /\ elapsed' = elapsed \cup {task}
    /\ UNCHANGED queues
=============================================================================
