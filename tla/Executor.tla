------------------------------ MODULE Executor ------------------------------
(***************************************************************************)
(* What a thread pool promises: units accepted before the stop are started *)
(* in the order they were accepted, each once, and finished; none is       *)
(* accepted afterwards; the stop returns, and not before all are finished. *)
(***************************************************************************)
EXTENDS Sequences

CONSTANT Units

VARIABLES
    accepted,       \* the units enqueue answered true for
    queue,          \* those that have not been started
    running,        \* those that are being run
    stopping,       \* stop has been called
    stopped         \* stop has returned

executorVars == <<accepted, queue, running, stopping, stopped>>

Init ==
    /\ accepted = {} /\ queue = <<>> /\ running = {}
    /\ stopping = FALSE /\ stopped = FALSE

Accept(u) ==
    /\ ~ stopping /\ u \notin accepted
    /\ accepted' = accepted \cup {u}
    /\ queue' = Append(queue, u)
    /\ UNCHANGED <<running, stopping, stopped>>

Start ==
    /\ queue # <<>>
    /\ queue' = Tail(queue)
    /\ running' = running \cup {Head(queue)}
    /\ UNCHANGED <<accepted, stopping, stopped>>

Finish(u) ==
    /\ u \in running
    /\ running' = running \ {u}
    /\ UNCHANGED <<accepted, queue, stopping, stopped>>

Stop ==
    /\ stopping' = TRUE
    /\ UNCHANGED <<accepted, queue, running, stopped>>

StopReturns ==
    /\ stopping /\ queue = <<>> /\ running = {}
    /\ stopped' = TRUE
    /\ UNCHANGED <<accepted, queue, running, stopping>>

Next ==
    \/ \E u \in Units : Accept(u) \/ Finish(u)
    \/ Start \/ Stop \/ StopReturns

Fairness ==
    /\ WF_executorVars(Start)
    /\ \A u \in Units : WF_executorVars(Finish(u))
    /\ WF_executorVars(StopReturns)

Spec == Init /\ [][Next]_executorVars /\ Fairness
=============================================================================
