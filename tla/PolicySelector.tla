--------------------------- MODULE PolicySelector ---------------------------
(***************************************************************************)
(* DefaultPolicySelector: which strategy a new request is routed to.       *)
(***************************************************************************)
EXTENDS InternalModels

\* selectStrategy for a model whose configuration is known.
SelectStrategy(conf, inflight_task_count, worker_count) ==
    CASE /\ conf.schedule_strategy = "MaxThroughput"
         /\ conf.max_batch_size > 1
         /\ inflight_task_count < worker_count    -> "MaxThroughput"
      [] conf.schedule_strategy = "Priority"      -> "Priority"
      [] OTHER                                    -> "FIFO"

\* Scheduler::strategy: no Priority strategy is ever installed, so the lookup
\* falls back to the FIFO one.
OwnerOf(kind) == IF kind = "MaxThroughput" THEN "MaxThroughput" ELSE "FIFO"
=============================================================================
