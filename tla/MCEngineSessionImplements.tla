--------------------- MODULE MCEngineSessionImplements ---------------------
(* Finite instance of EngineSessionImplements for TLC. *)
EXTENDS EngineSessionImplements, TLC

CONSTANTS w1, v1

OneView == v1 :> w1

Interchangeable == Permutations(Analyses) \cup Permutations(Requests)
============================================================================
