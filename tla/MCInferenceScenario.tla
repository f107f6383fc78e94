------------------------ MODULE MCInferenceScenario -------------------------
(***************************************************************************)
(* Two scenarios, one with an operation updater and one without.           *)
(***************************************************************************)
EXTENDS InferenceScenario

CONSTANTS t1, t2
=============================================================================
