--------------------------- MODULE MCModelManager ---------------------------
(***************************************************************************)
(* Three models: a's file changes between two versions, and the file of b  *)
(* carries the name of c, or b's own.                                      *)
(***************************************************************************)
EXTENDS ModelManager, TLC

CONSTANTS a, b, c, a1, a2, b1, bAsC, c1, w1, w2

MCNameIn == [conf \in Confs |-> CASE conf \in {a1, a2}   -> a
                                  [] conf = b1           -> b
                                  [] conf \in {bAsC, c1} -> c]

MCFileOf == [n \in Names |-> CASE n = a -> {a1, a2} [] n = b -> {b1, bAsC} [] n = c -> {c1}]
=============================================================================
