---------------------------- MODULE MCBatchWindow ---------------------------
(***************************************************************************)
(* Three tasks, two of them of one model; two ticks to the millisecond; a  *)
(* model that is loaded again with another window and batch size.          *)
(***************************************************************************)
EXTENDS BatchWindow, TLC

CONSTANTS t1, t2, t3, m1, m2

MCModelOf == t1 :> m1 @@ t2 :> m1 @@ t3 :> m2

MCConfs == {[max_batch_size |-> 3, batch_timeout_ms |-> 2],
            [max_batch_size |-> 2, batch_timeout_ms |-> 0]}

\* t1 and t2 are of one model.
Twins == Permutations({t1, t2})
=============================================================================
