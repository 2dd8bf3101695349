----------------------------- MODULE SourceRead -----------------------------
(***************************************************************************)
(* What a source adapter promises about one read, with no path, handle or  *)
(* writer in sight.  `held` grows by the contents the authorised entry has *)
(* while the answer is being settled; the answer is one of those, whole,   *)
(* or an error, and it is given once.                                      *)
(***************************************************************************)
CONSTANTS Contents,  \* contents of an entry
          Errors,    \* error codes
          None       \* nothing disclosed

VARIABLES held,    \* contents the entry has had since the last byte was read
          answer,  \* "none" so far, "ok", or an error
          text     \* what is disclosed with the answer

vars == <<held, answer, text>>

TypeOK ==
  /\ held \subseteq Contents
  /\ answer \in Errors \cup {"none", "ok"}
  /\ text \in Contents \cup {None}

Init == held = {} /\ answer = "none" /\ text = None

\* The entry is seen with further contents.
Observe ==
  /\ answer = "none"
  /\ held' \in SUBSET Contents
  /\ held \subseteq held'
  /\ UNCHANGED <<answer, text>>

Return ==
  /\ answer = "none"
  /\ answer' = "ok"
  /\ text' \in held
  /\ UNCHANGED held

Refuse ==
  /\ answer = "none"
  /\ held' \in SUBSET Contents
  /\ held \subseteq held'
  /\ answer' \in Errors
  /\ UNCHANGED text

Next == Observe \/ Return \/ Refuse

Spec == Init /\ [][Next]_vars
=============================================================================
