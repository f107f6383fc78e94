--------------------------- MODULE InternalModels ---------------------------
(***************************************************************************)
(* The plain data every component exchanges: operation states, scheduling  *)
(* strategies, the part of a model's configuration the scheduler reads,    *)
(* and the operation record the clients poll.                              *)
(***************************************************************************)
EXTENDS Integers

OperationState ==
    {"PENDING", "ONGOING", "CANCEL_REQUESTED", "CANCELED", "SUCCESS", "FAILURE"}

\* The states cancelTask (and the HTTP layer above it) treats as over.
Finished == {"CANCELED", "SUCCESS", "FAILURE"}

ScheduleStrategy == {"FIFO", "Priority", "MaxThroughput"}

\* The fields of ModelConf that take part in scheduling.
ModelConf ==
    [schedule_strategy  : ScheduleStrategy,
     max_batch_size     : Nat,
     max_queue_size     : Nat,
     drop_if_queue_full : BOOLEAN]

\* What from_json makes of a configuration file.  It reads max_batch_size and
\* none of the three other fields, which keep the defaults of the struct.
ConfFromFile(max_batch_size) ==
    [schedule_strategy  |-> "FIFO",
     max_batch_size     |-> max_batch_size,
     max_queue_size     |-> 128,
     drop_if_queue_full |-> FALSE]

\* An entry of the operation repository.  Of the message only what it says of
\* a cancellation is kept: "before" and "during" stand for "request canceled
\* before execution" and "request canceled during execution".
Message == {"none", "before", "during"}

OperationInfo == [state : OperationState, message : Message]

Op(state, message) == [state |-> state, message |-> message]

\* The repository holds no entry of that id.
Absent == [state |-> "ABSENT", message |-> "none"]
=============================================================================
