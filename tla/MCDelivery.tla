------------------------------ MODULE MCDelivery ------------------------------
(***************************************************************************)
(* The delivery root for TLC: two callers, two messages, a chat with three *)
(* inputs of which any may be somebody else's.                             *)
(***************************************************************************)
EXTENDS Delivery
=============================================================================
