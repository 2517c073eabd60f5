-------------------------- MODULE MCEngineSession --------------------------
(* Finite instances of EngineSession for TLC. *)
EXTENDS EngineSession, TLC

CONSTANTS w1, w2, v1, v2

\* Both language views of one repository.
SharedWorkspace == v1 :> w1 @@ v2 :> w1

OneView == v1 :> w1

Interchangeable == Permutations(Analyses) \cup Permutations(Requests)
============================================================================
