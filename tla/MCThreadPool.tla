---------------------------- MODULE MCThreadPool ----------------------------
(***************************************************************************)
(* Three workers and four units: more units than workers, and more workers *)
(* than a notify_one wakes.                                                *)
(***************************************************************************)
EXTENDS ThreadPool

CONSTANTS w1, w2, w3, u1, u2, u3, u4
=============================================================================
