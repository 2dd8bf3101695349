----------------------------- MODULE MCTaskLoop -----------------------------
(***************************************************************************)
(* TaskLoop for TLC: two callers, two message ids and two versions.        *)
(***************************************************************************)
EXTENDS TaskLoop, TLC

MCSymmetry == Permutations(Callers) \cup Permutations(Ids) \cup Permutations(Texts) \cup Permutations(Versions)
=============================================================================
