-------------------------- MODULE MCConnectionModels --------------------------
(* One value and two secrets: enough to change a field and change it back,  *)
(* and to roll a secret back.  The secrets are interchangeable.             *)
EXTENDS ConnectionModels, TLC

Symmetry == Permutations(Secret)
=============================================================================
