----------------------------- MODULE MCResources -----------------------------
(* The model-checked instances of Resources.                               *)
EXTENDS Resources, TLC

(* Clients and names are interchangeable.                                  *)
Symmetry == Permutations(Client) \cup Permutations(Name)
==============================================================================
