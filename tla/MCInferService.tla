--------------------------- MODULE MCInferService ---------------------------
(***************************************************************************)
(* Three submissions, two of which may share an id, and one canceler.      *)
(* Nothing tells one submission from another before it has an id, nor one  *)
(* id from another: both sets are symmetric.                               *)
(***************************************************************************)
EXTENDS InferService, TLC

CONSTANTS t1, t2, t3, i1, i2, i3, c1

Symmetry == Permutations(Tasks) \cup Permutations(Ids)
=============================================================================
