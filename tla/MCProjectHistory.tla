-------------------------- MODULE MCProjectHistory --------------------------
(* Instances of ProjectHistory for TLC. *)
EXTENDS ProjectHistory, TLC

\* The workers are alike.
Exchange == Permutations(Workers)
=============================================================================
