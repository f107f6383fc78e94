---------------------------- MODULE MCScheduler -----------------------------
(***************************************************************************)
(* Small instances of the scheduler for TLC.                               *)
(***************************************************************************)
EXTENDS SchedulerProperties, TLC

CONSTANTS t1, t2, t3, m1, m2, w1, w2, c1, c2


OneModel == [t \in Tasks |-> m1]

\* As a configuration file makes it: FIFO, and no task ever dropped.
FileConf == [m \in Models |-> ConfFromFile(1)]

\* Batches of two, and no limit on the queue.
BatchConf == [m \in Models |-> [schedule_strategy |-> "MaxThroughput", max_batch_size |-> 2,
                                max_queue_size |-> 0, drop_if_queue_full |-> FALSE]]

\* The same, where a queue that holds one task or more refuses another.
DropConf == [m \in Models |-> [BatchConf[m] EXCEPT !.max_queue_size = 1,
                                                   !.drop_if_queue_full = TRUE]]

WorkerSymmetry == Permutations(Workers)

\* t1 is the task that is canceled, the others are alike.
OthersSymmetry == Permutations(Tasks \ {t1})
=============================================================================
