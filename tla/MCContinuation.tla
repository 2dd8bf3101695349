--------------------------- MODULE MCContinuation ---------------------------
(***************************************************************************)
(* Continuations for TLC.  Three drivers compete for one message with two  *)
(* possible turns.                                                         *)
(***************************************************************************)
EXTENDS Continuation, TLC

\* Drivers, turns and messages are interchangeable.
MCSymmetry == Permutations(Drivers) \cup Permutations(Turns) \cup Permutations(Messages)
=============================================================================
