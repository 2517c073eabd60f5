---------------------------- MODULE MCWorkbench ----------------------------
(* A project of interchangeable languages. *)
EXTENDS Workbench, TLC

OneProject == [v \in Views |-> "project"]
Interchangeable == Permutations(Activations) \cup Permutations(Symbols) \cup Permutations(Views)
=============================================================================
