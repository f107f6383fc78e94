---------------------------- MODULE StrategyFIFO ----------------------------
(***************************************************************************)
(* The first-in-first-out waiting set.  Every operation runs under the     *)
(* strategy's own mutex_, so each is one atomic step.                      *)
(***************************************************************************)
EXTENDS Integers, Sequences, SequencesExt

VARIABLE pending_tasks      \* the deque, front first

Admit(task) == pending_tasks' = Append(pending_tasks, task)

Ready == pending_tasks # <<>>

\* Slip: the front is read and not popped.
Select_NotPopped(unit) ==
    /\ Ready
    /\ unit = <<Head(pending_tasks)>>
    /\ UNCHANGED pending_tasks

\* A dispatch unit of this strategy is always one task: the front.
Select(unit) ==
    /\ Ready
    /\ unit = <<Head(pending_tasks)>>
    /\ pending_tasks' = Tail(pending_tasks)

Holds(task) == \E i \in DOMAIN pending_tasks : pending_tasks[i] = task

\* Erases the first entry with that id.
Revoke(task) ==
    \E i \in DOMAIN pending_tasks :
        /\ pending_tasks[i] = task
        /\ \A j \in 1 .. i - 1 : pending_tasks[j] # task
        /\ pending_tasks' = RemoveAt(pending_tasks, i)

PendingTaskCount == Len(pending_tasks)

\* "zero": a unit is ready now.  "day": the 24 hours of an empty queue.
NextReadyIn == IF Ready THEN "zero" ELSE "day"
=============================================================================
