----------------------------- MODULE AtMostOnce -----------------------------
(***************************************************************************)
(* What the foreground relay promises about one project connection, with   *)
(* no journal, lock, crash or host in sight.  A message is new, then open  *)
(* (its fate is unknown to the relay), then delivered.  One message at a   *)
(* time is open; an open message enters the peer chat at most once; only a *)
(* message that entered the chat is ever delivered, and only a delivered   *)
(* one is ever reported as received to a caller.                           *)
(***************************************************************************)
CONSTANTS Messages,  \* message ids of the connection
          Records    \* native ids of the inputs of the peer chat

VARIABLES phase,   \* per message: new, open or delivered
          inputs,  \* per message: the native inputs the relay made for it
          told     \* messages some caller was told are received

vars == <<phase, inputs, told>>

TypeOK ==
  /\ phase \in [Messages -> {"new", "open", "delivered"}]
  /\ inputs \in [Messages -> SUBSET Records]
  /\ told \subseteq Messages

\* A connection may start from a journal with earlier deliveries in it.
Init ==
  /\ TypeOK
  /\ \A m, n \in Messages : phase[m] = "open" /\ phase[n] = "open" => m = n
  /\ \A m \in Messages :
       /\ phase[m] = "new" => inputs[m] = {}
       /\ phase[m] = "delivered" => inputs[m] # {}
       /\ \A r, s \in inputs[m] : r = s
  /\ told = {}

\* The relay takes a message on: nothing else is open.
Open(m) ==
  /\ phase[m] = "new"
  /\ \A n \in Messages : phase[n] # "open"
  /\ phase' = [phase EXCEPT ![m] = "open"]
  /\ UNCHANGED <<inputs, told>>

\* The message enters the peer chat, once.
Enter(m, r) ==
  /\ phase[m] = "open"
  /\ inputs[m] = {}
  /\ inputs' = [inputs EXCEPT ![m] = {r}]
  /\ UNCHANGED <<phase, told>>

\* The relay establishes that the message was received.
Confirm(m) ==
  /\ phase[m] = "open"
  /\ inputs[m] # {}
  /\ phase' = [phase EXCEPT ![m] = "delivered"]
  /\ \/ told' = told \cup {m}
     \/ told' = told
  /\ UNCHANGED inputs

\* A repeated call for a delivered message is answered from the record.
Answer(m) ==
  /\ phase[m] = "delivered"
  /\ told' = told \cup {m}
  /\ UNCHANGED <<phase, inputs>>

Next == \E m \in Messages :
  \/ Open(m)
  \/ \E r \in Records : Enter(m, r)
  \/ Confirm(m)
  \/ Answer(m)

Spec == Init /\ [][Next]_vars
=============================================================================
