-------------------------- MODULE MCUnfinishedRuns --------------------------
(* The model-checked instances of UnfinishedRuns.                          *)
EXTENDS UnfinishedRuns, TLC

(* Runs and connections are interchangeable.                               *)
Symmetry == Permutations(Run) \cup Permutations(Conn)
=============================================================================
