----------------------------- MODULE MCHandover -----------------------------
(***************************************************************************)
(* Handover for TLC.                                                       *)
(***************************************************************************)
EXTENDS Handover, TLC

CONSTANTS p1, p2, t1, t2

\* The first task was sent from the executor's page, the second from outside.
MCOrigin == t1 :> 1 @@ t2 :> 0
Symmetry == Permutations(Callers)
=============================================================================
