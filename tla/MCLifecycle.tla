----------------------------- MODULE MCLifecycle -----------------------------
(***************************************************************************)
(* The chat lifecycle for TLC: a successor, a project and a rename, with   *)
(* two natives left to create; or successors only, with three.             *)
(***************************************************************************)
EXTENDS Lifecycle, TLC

Intent(kind, key, terms) == [kind |-> kind, key |-> key, terms |-> terms]
MCRequests ==
  {Intent("CHAT", "handoff", "a"), Intent("PROJECT", "name", "a"),
   Intent("RENAME", "name", "a")}

\* Successors of two handoffs, one of them also asked for under other terms.
MCHandoffs ==
  {Intent("CHAT", "handoff", "a"), Intent("CHAT", "handoff", "b"),
   Intent("CHAT", "other", "a")}

\* Processes, and natives yet to be created, are interchangeable.
MCNewNatives == Permutations(Natives \ {Peer, Predecessor})
MCSymmetry == Permutations(Callers) \cup MCNewNatives
=============================================================================
