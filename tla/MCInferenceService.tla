------------------------ MODULE MCInferenceService -------------------------
(* InferenceService for TLC.                                               *)
EXTENDS InferenceService
=============================================================================
