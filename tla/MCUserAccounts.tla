--------------------------- MODULE MCUserAccounts ---------------------------
(* The model-checked instance of UserAccounts.                             *)
EXTENDS UserAccounts, TLC

(* Clients are interchangeable.                                            *)
Symmetry == Permutations(Client)

(* Characters with neighbours on both sides, at the ends and across a gap, *)
(* as between the digits and the letters.                                  *)
MCChar == {48, 49, 50, 51, 65, 66}

(* One that can be generated, and one that must not be: it decreases.      *)
MCPassword == {<<48, 50, 49, 51>>, <<65, 51, 50, 49>>}
=============================================================================
