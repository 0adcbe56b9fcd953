-------------------------- MODULE MCInferenceService --------------------------
(* Small instances of the inference service.                                 *)
EXTENDS InferenceService, TLC

ClientSymmetry == Permutations(Clients) \cup Permutations(Conns)
=============================================================================
