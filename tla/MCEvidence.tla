----------------------------- MODULE MCEvidence -----------------------------
(***************************************************************************)
(* Evidence for TLC.                                                       *)
(***************************************************************************)
EXTENDS Evidence
=============================================================================
