----------------------------- MODULE MCAdoption -----------------------------
(***************************************************************************)
(* Adoption for TLC: two tasks on three generations of a channel.          *)
(***************************************************************************)
EXTENDS Adoption, TLC

MCSymmetry == Permutations(Callers) \cup Permutations(Tasks) \cup Permutations(Versions)
=============================================================================
