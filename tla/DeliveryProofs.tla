---------------------------- MODULE DeliveryProofs ----------------------------
(***************************************************************************)
(* Proofs about one delivery root, for any callers, messages, texts,       *)
(* connections, native records and journal bound.                          *)
(***************************************************************************)
EXTENDS Delivery, TLAPS

-----------------------------------------------------------------------------
(* The inductive invariant                                                 *)

\* Only the owner of the lock is inside a call.
LockOwner == \A i \in Callers : call[i].stage # "idle" => lock = i

\* The outbox names exactly the open message, and there is at most one.
OutboxIsOpen ==
  /\ \A m \in Messages : m \in journal.outbox <=> seen[m].status \in Unsettled
  /\ \A m, n \in journal.outbox : m = n

Entered(m) == \E r \in Records : host[r].writer = m

\* What is journalled about a message agrees with what the chat holds.
Evidence ==
  \A m \in Messages :
    /\ seen[m].status = "ABSENT" => ~Entered(m) /\ seen[m] = Absent
    /\ seen[m].status = "ACKED" \/ seen[m].known => Entered(m)
    /\ seen[m].native # None => /\ host[seen[m].native].writer # None
                                /\ host[seen[m].native].text = seen[m].text
                                /\ seen[m].status = "ACKED" =>
                                     seen[m].native \in View(journal.conn)

\* Reads show inputs, and an id without a writer is unused.
ChatIsSound ==
  /\ \A r \in visible : host[r].writer # None
  /\ \A r \in Records : host[r].writer = None => host[r] = NoInput

\* What a running call relies on at each stage.
RunningCall(i) == call[i].stage # "idle" =>
  /\ call[i].msg \in Messages /\ call[i].text \in Texts /\ call[i].conn \in Connections
  /\ journal.outbox = {call[i].msg}
  /\ journal.conn = call[i].conn
  /\ seen[call[i].msg].text = call[i].text
  /\ ~torn
  /\ call[i].stage \notin {"submitted", "failing"} => seen[call[i].msg].status = "IN_FLIGHT"
  /\ call[i].stage \in {"intent", "checked"} =>
       ~Entered(call[i].msg) /\ seen[call[i].msg].native = None
  /\ call[i].stage \in {"sent", "polling", "found", "submitted"} => Entered(call[i].msg)
  /\ call[i].stage \in {"found", "submitted"} =>
       /\ call[i].native \in Records
       /\ host[call[i].native].writer # None
       /\ host[call[i].native].text = call[i].text
       /\ \A n \in Messages \ {call[i].msg} : seen[n].native # call[i].native
  /\ call[i].stage = "submitted" => seen[call[i].msg].native = call[i].native
  /\ call[i].stage \in {"checked", "sent", "polling"} =>
       \A n \in Messages \ {call[i].msg} :
         seen[n].native # None => seen[n].native \in call[i].baseline

CallsAreSound == \A i \in Callers : RunningCall(i)

\* A journal without an identity is empty; an old one names no native input.
ConnIsSound ==
  /\ journal.conn = None => \A m \in Messages : seen[m].status = "ABSENT"
  /\ journal.conn = Legacy => \A m \in Messages : seen[m].native = None

\* What the journal and the chat know, whoever is calling.
Stored ==
  /\ OutboxIsOpen /\ Evidence /\ ChatIsSound /\ ConnIsSound
  /\ AtMostOneInput /\ SettledWasReceived /\ OneInputSettlesOneMessage
  /\ AnswersAreBacked /\ OneRoute

IInv == TypeOK /\ Stored /\ LockOwner /\ CallsAreSound

-----------------------------------------------------------------------------
(* Types                                                                   *)

LEMMA NewRecordIsFree ==
  ASSUME FreeRecords # {}
  PROVE  NewRecord \in Records /\ host[NewRecord] = NoInput
BY DEF FreeRecords, NewRecord

LEMMA AbsentIsEntry == Absent \in Entry
BY DEF Absent, Entry, Statuses, Unsettled

LEMMA InitType == Init => TypeOK
<1> SUFFICES ASSUME Init PROVE TypeOK
  OBVIOUS
<1> USE DeliveryAssumption
<1>1. FreshJournal \in Journal
  BY AbsentIsEntry DEF FreshJournal, Journal
<1>2. ASSUME NEW m \in Messages, NEW t \in Texts, NEW s \in {"ACKED", "UNCERTAIN"}
      PROVE  LegacyJournal(m, t, s) \in Journal
  <2> DEFINE e == [Absent EXCEPT !.status = s, !.text = t]
  <2>1. e \in Entry
    BY DEF Absent, Entry, Statuses, Unsettled
  <2>2. [FreshJournal.seen EXCEPT ![m] = e] \in [Messages -> Entry]
    BY <2>1, AbsentIsEntry DEF FreshJournal
  <2> HIDE DEF e
  <2>3. QED
    BY <2>2 DEF LegacyJournal, Journal, e
<1>3. journal \in Journal
  BY <1>1, <1>2 DEF Init
<1>4. host \in [Records -> Input]
  BY DEF Init, Input, NoInput
<1>5. call \in [Callers -> Call]
  BY DEF Init, Idle, Call, Stages
<1>6. QED
  BY <1>3, <1>4, <1>5 DEF Init, TypeOK

LEMMA LeaveType ==
  ASSUME TypeOK, NEW i \in Callers, Leave(i)
  PROVE  call' \in [Callers -> Call] /\ lock' \in Callers \cup {None}
BY DEF TypeOK, Leave, Idle, Call, Stages

LEMMA SealType ==
  ASSUME TypeOK, NEW j \in Journal, Seal(j) \/ Tear(j) \/ Refuse(j)
  PROVE  journal' \in Journal /\ torn' \in BOOLEAN
BY DEF TypeOK, Seal, Tear, Refuse

LEMMA TakeInputType ==
  ASSUME TypeOK, NEW w \in Messages \cup {Foreign}, NEW t \in Texts,
         NEW c \in Connections, TakeInput(w, t, c)
  PROVE  host' \in [Records -> Input] /\ NewRecord \in Records
BY NewRecordIsFree DEF TypeOK, TakeInput, Input

\* An edit of one entry of the journal.
LEMMA EditedJournal ==
  ASSUME TypeOK, NEW m \in Messages, NEW e \in Entry
  PROVE  LET j == [journal EXCEPT !.seen[m] = e]
         IN  /\ j \in Journal
             /\ j.conn = journal.conn /\ j.outbox = journal.outbox
             /\ j.seen[m] = e
             /\ \A n \in Messages \ {m} : j.seen[n] = seen[n]
BY DEF TypeOK, Journal, seen

LEMMA SettledJournal ==
  ASSUME TypeOK, NEW m \in Messages
  PROVE  LET j == Settled(journal, m)
         IN  /\ j \in Journal
             /\ j.conn = journal.conn /\ j.outbox = {}
             /\ j.seen[m] = [seen[m] EXCEPT !.status = "ACKED"]
             /\ \A n \in Messages \ {m} : j.seen[n] = seen[n]
<1> DEFINE e == [seen[m] EXCEPT !.status = "ACKED"]
<1>1. e \in Entry
  BY DEF TypeOK, Journal, Entry, Statuses, seen
<1>2. Settled(journal, m) = [[journal EXCEPT !.seen[m] = e] EXCEPT !.outbox = {}]
  <2>1. journal \in Journal /\ e = [journal.seen[m] EXCEPT !.status = "ACKED"]
    BY DEF TypeOK, seen
  <2> HIDE DEF e
  <2>2. Settled(journal, m) =
          [[journal EXCEPT !.seen[m].status = "ACKED"] EXCEPT !.outbox = {}]
    BY DEF Settled
  <2>3. [journal EXCEPT !.seen[m].status = "ACKED"] = [journal EXCEPT !.seen[m] = e]
    BY <2>1
  <2>4. QED
    BY <2>2, <2>3
<1> DEFINE k == [journal EXCEPT !.seen[m] = e]
<1>3. /\ k \in Journal /\ k.conn = journal.conn /\ k.seen[m] = e
      /\ \A n \in Messages \ {m} : k.seen[n] = seen[n]
  BY <1>1, EditedJournal
<1> HIDE DEF k
<1>4. QED
  BY <1>2, <1>3 DEF Journal, k

LEMMA IntendedJournal ==
  ASSUME TypeOK, NEW m \in Messages, NEW t \in Texts, NEW c \in Connections
  PROVE  LET j == WithIntent(m, t, c)
         IN  /\ j \in Journal
             /\ j.conn = c /\ j.outbox = {m}
             /\ j.seen[m].status = "IN_FLIGHT" /\ j.seen[m].text = t
             /\ ~j.seen[m].known /\ j.seen[m].native = None
             /\ \A n \in Messages \ {m} : j.seen[n] = seen[n]
<1> DEFINE e == [Absent EXCEPT !.status = "IN_FLIGHT", !.text = t]
<1>1. /\ e \in Entry /\ e.status = "IN_FLIGHT" /\ e.text = t
      /\ ~e.known /\ e.native = None
  BY DEF Absent, Entry, Statuses, Unsettled
<1>2. WithIntent(m, t, c) = [conn |-> c, seen |-> [seen EXCEPT ![m] = e], outbox |-> {m}]
  BY DEF WithIntent
<1> HIDE DEF e
<1>3. QED
  BY <1>1, <1>2 DEF TypeOK, Journal, seen
-----------------------------------------------------------------------------
(* What each kind of step leaves of the stored knowledge                   *)

LEMMA StoredUnchanged ==
  ASSUME Stored, UNCHANGED <<journal, host, visible, told>>
  PROVE  Stored'
BY DEF Stored, OutboxIsOpen, Evidence, Entered, ChatIsSound, ConnIsSound, AtMostOneInput,
       InputsOf, SettledWasReceived, OneInputSettlesOneMessage, AnswersAreBacked, OneRoute,
       View, seen

\* New evidence about an open message: it stays open.
LEMMA StoredNoted ==
  ASSUME TypeOK, Stored, TypeOK',
         NEW m \in Messages, NEW e \in Entry,
         seen[m].status \in Unsettled, e.status \in Unsettled,
         e.text = seen[m].text,
         e.known => Entered(m),
         e.native # None =>
           /\ journal.conn # Legacy
           /\ host[e.native].writer # None /\ host[e.native].text = e.text
           /\ \A n \in Messages \ {m} : seen[n].native # e.native,
         journal' = [journal EXCEPT !.seen[m] = e],
         UNCHANGED <<host, visible, told>>
  PROVE  Stored'
<1>1. /\ journal'.conn = journal.conn /\ journal'.outbox = journal.outbox
      /\ seen'[m] = e
      /\ \A n \in Messages \ {m} : seen'[n] = seen[n]
  BY EditedJournal DEF seen
<1>2. OutboxIsOpen'
  BY <1>1 DEF Stored, OutboxIsOpen
<1>3. e.status \notin {"ABSENT", "ACKED"} /\ seen[m].status \notin {"ABSENT", "ACKED"}
  BY DEF Unsettled
<1>4. Evidence'
  BY <1>1, <1>3 DEF Stored, Evidence, Entered, View
<1>5. ChatIsSound' /\ AtMostOneInput' /\ OneRoute'
  BY <1>1 DEF Stored, ChatIsSound, AtMostOneInput, InputsOf, OneRoute
<1>6. ConnIsSound'
  BY <1>1, <1>3 DEF Stored, ConnIsSound
<1>7. SettledWasReceived' /\ AnswersAreBacked'
  BY <1>1, <1>3 DEF Stored, SettledWasReceived, AnswersAreBacked, TypeOK
<1>8. OneInputSettlesOneMessage'
  BY <1>1 DEF Stored, OneInputSettlesOneMessage
<1>9. QED
  BY <1>2, <1>4, <1>5, <1>6, <1>7, <1>8 DEF Stored

\* The open message is settled on an input that a read of the chat shows.
LEMMA StoredSettled ==
  ASSUME TypeOK, Stored,
         NEW m \in Messages,
         journal.outbox = {m}, seen[m].status \in Unsettled,
         Entered(m), seen[m].native # None,
         seen[m].native \in View(journal.conn),
         journal' = Settled(journal, m),
         told \subseteq told', told' \subseteq told \cup {<<m, seen[m].text>>},
         UNCHANGED <<host, visible>>
  PROVE  Stored'
<1>1. /\ journal'.conn = journal.conn /\ journal'.outbox = {}
      /\ \A n \in Messages \ {m} : seen'[n] = seen[n]
  BY SettledJournal DEF seen
<1>2. seen[m] \in Entry
  BY DEF TypeOK, Journal, seen
<1>3. /\ seen'[m].status = "ACKED" /\ seen'[m].text = seen[m].text
      /\ seen'[m].known = seen[m].known /\ seen'[m].native = seen[m].native
  <2>1. seen'[m] = [seen[m] EXCEPT !.status = "ACKED"]
    BY SettledJournal DEF seen
  <2>2. QED
    BY <2>1, <1>2 DEF Entry
<1>4. seen[m].status \notin {"ABSENT", "ACKED"} /\ "ACKED" \notin Unsettled
  BY DEF Unsettled
<1>5. OutboxIsOpen'
  BY <1>1, <1>3, <1>4 DEF Stored, OutboxIsOpen
<1>6. Evidence'
  BY <1>1, <1>3, <1>4 DEF Stored, Evidence, Entered, View
<1>7. ChatIsSound' /\ AtMostOneInput' /\ OneRoute'
  BY <1>1 DEF Stored, ChatIsSound, AtMostOneInput, InputsOf, OneRoute
<1>8. ConnIsSound'
  BY <1>1, <1>3, <1>4 DEF Stored, ConnIsSound
<1>9. SettledWasReceived'
  <2>1. seen[m].native \in visible /\ host[seen[m].native].text = seen[m].text
    BY DEF View, Stored, Evidence
  <2>2. QED
    BY <1>1, <1>3, <2>1 DEF Stored, SettledWasReceived
<1>10. AnswersAreBacked'
  <2> SUFFICES ASSUME NEW p \in told'
               PROVE  seen'[p[1]].status = "ACKED" /\ seen'[p[1]].text = p[2]
    BY DEF AnswersAreBacked
  <2>1. CASE p \in told
    BY <2>1, <1>1, <1>4 DEF Stored, AnswersAreBacked, TypeOK
  <2>2. CASE p = <<m, seen[m].text>>
    BY <2>2, <1>3
  <2>3. QED
    BY <2>1, <2>2
<1>11. OneInputSettlesOneMessage'
  BY <1>1, <1>3 DEF Stored, OneInputSettlesOneMessage
<1>12. QED
  BY <1>5, <1>6, <1>7, <1>8, <1>9, <1>10, <1>11 DEF Stored

\* A fresh intent is persisted.
LEMMA StoredIntended ==
  ASSUME TypeOK, Stored,
         NEW m \in Messages, NEW t \in Texts, NEW c \in Connections, MayBegin(m, c),
         journal' = WithIntent(m, t, c), UNCHANGED <<host, visible, told>>
  PROVE  Stored'
<1> USE DeliveryAssumption
<1>1. /\ journal'.conn = c /\ journal'.outbox = {m}
      /\ seen'[m].status = "IN_FLIGHT" /\ seen'[m].text = t
      /\ ~seen'[m].known /\ seen'[m].native = None
      /\ \A n \in Messages \ {m} : seen'[n] = seen[n]
  BY IntendedJournal DEF seen
<1>2. seen[m].status = "ABSENT" /\ journal.outbox = {} /\ journal.conn \in {None, c}
  BY DEF MayBegin
<1>3. OutboxIsOpen'
  BY <1>1, <1>2 DEF Stored, OutboxIsOpen, Unsettled
<1>4. Evidence'
  <2> SUFFICES ASSUME NEW n \in Messages
               PROVE  (/\ seen[n].status = "ABSENT" => ~Entered(n) /\ seen[n] = Absent
                       /\ seen[n].status = "ACKED" \/ seen[n].known => Entered(n)
                       /\ seen[n].native # None =>
                            /\ host[seen[n].native].writer # None
                            /\ host[seen[n].native].text = seen[n].text
                            /\ seen[n].status = "ACKED" =>
                                 seen[n].native \in View(journal.conn))'
    BY DEF Evidence
  <2>1. CASE n = m
    BY <2>1, <1>1
  <2>2. CASE n # m /\ journal.conn = c
    BY <2>2, <1>1 DEF Stored, Evidence, Entered, View
  <2>3. CASE n # m /\ journal.conn = None
    BY <2>3, <1>1 DEF Stored, Evidence, Entered, ConnIsSound, Absent
  <2>4. QED
    BY <2>1, <2>2, <2>3, <1>2
<1>5. ChatIsSound' /\ AtMostOneInput'
  BY DEF Stored, ChatIsSound, AtMostOneInput, InputsOf
<1>6. OneRoute'
  <2>1. ASSUME NEW r \in Records, host[r].writer \in Messages
        PROVE  host[r].chat = c
    BY <2>1, <1>2 DEF Stored, OneRoute, ConnIsSound, Evidence, Entered
  <2>2. QED
    BY <2>1, <1>1 DEF OneRoute
<1>7. ConnIsSound'
  BY <1>1 DEF ConnIsSound
<1>8. SettledWasReceived' /\ AnswersAreBacked'
  BY <1>1, <1>2 DEF Stored, SettledWasReceived, AnswersAreBacked, TypeOK
<1>9. OneInputSettlesOneMessage'
  BY <1>1 DEF Stored, OneInputSettlesOneMessage
<1>10. QED
  BY <1>3, <1>4, <1>5, <1>6, <1>7, <1>8, <1>9 DEF Stored

\* The chat takes an input of the relay, or of somebody else.
LEMMA StoredEntered ==
  ASSUME TypeOK, Stored, TypeOK',
         NEW w \in Messages \cup {Foreign}, NEW t \in Texts, NEW c \in Connections,
         TakeInput(w, t, c),
         w \in Messages => /\ ~Entered(w) /\ journal.conn = c
                           /\ seen[w].status \in Unsettled,
         UNCHANGED <<journal, visible, told>>
  PROVE  /\ Stored'
         /\ NewRecord \in Records /\ host[NewRecord] = NoInput /\ NewRecord \notin visible
         /\ host'[NewRecord] = [writer |-> w, text |-> t, chat |-> c]
         /\ \A r \in Records \ {NewRecord} : host'[r] = host[r]
         /\ \A m \in Messages : Entered(m)' <=> (Entered(m) \/ m = w)
<1> USE DeliveryAssumption
<1> DEFINE a == NewRecord
<1>1. a \in Records /\ host[a] = NoInput
  BY NewRecordIsFree DEF TakeInput
<1>2. host'[a] = [writer |-> w, text |-> t, chat |-> c]
  BY <1>1 DEF TakeInput, TypeOK
<1>3. \A r \in Records \ {a} : host'[r] = host[r]
  BY <1>1 DEF TakeInput, TypeOK
<1>4. host[a].writer = None /\ w # None /\ None \notin Messages
  BY <1>1 DEF NoInput
<1> HIDE DEF a
<1>5. a \notin visible
  BY <1>1, <1>4 DEF Stored, ChatIsSound
<1>6. \A m \in Messages : Entered(m)' <=> (Entered(m) \/ m = w)
  BY <1>1, <1>2, <1>3, <1>4 DEF Entered
<1>7. seen' = seen /\ \A m \in Messages : seen[m].native \in Records \cup {None}
  BY DEF seen, TypeOK, Journal, Entry
<1>8. \A m \in Messages : seen[m].native # None => seen[m].native # a
  BY <1>4 DEF Stored, Evidence
<1>9. \A x \in Connections \cup {None, Legacy} : View(x)' = View(x)
  BY <1>3, <1>5 DEF View, TypeOK
<1>10. journal.conn \in Connections \cup {None, Legacy}
  BY DEF TypeOK, Journal
<1>11. Evidence'
  BY <1>3, <1>6, <1>7, <1>8, <1>9, <1>10 DEF Stored, Evidence, Unsettled
<1>12. ChatIsSound'
  BY <1>2, <1>3, <1>4, <1>5 DEF Stored, ChatIsSound, TypeOK
<1>13. AtMostOneInput'
  BY <1>2, <1>3, <1>4, <1>6 DEF Stored, AtMostOneInput, InputsOf, Entered
<1>14. OneRoute'
  BY <1>2, <1>3 DEF Stored, OneRoute
<1>15. SettledWasReceived'
  BY <1>3, <1>5, <1>7 DEF Stored, SettledWasReceived, TypeOK
<1>16. OutboxIsOpen' /\ ConnIsSound' /\ AnswersAreBacked' /\ OneInputSettlesOneMessage'
  BY <1>7 DEF Stored, OutboxIsOpen, ConnIsSound, AnswersAreBacked, OneInputSettlesOneMessage
<1>17. QED
  BY <1>1, <1>2, <1>3, <1>5, <1>6, <1>11, <1>12, <1>13, <1>14, <1>15, <1>16 DEF Stored, a
-----------------------------------------------------------------------------
(* Callers                                                                 *)

LEMMA Sole ==
  ASSUME LockOwner, NEW i \in Callers, call[i].stage # "idle"
  PROVE  lock = i /\ \A k \in Callers \ {i} : call[k].stage = "idle"
BY DEF LockOwner

LEMMA Quiet ==
  ASSUME LockOwner, lock = None
  PROVE  \A k \in Callers : call[k].stage = "idle"
BY DeliveryAssumption DEF LockOwner

\* One caller is running after the step.
LEMMA Ran ==
  ASSUME TypeOK, NEW i \in Callers,
         \A k \in Callers \ {i} : call[k].stage = "idle",
         NEW d, call' = [call EXCEPT ![i] = d],
         lock' = i, RunningCall(i)'
  PROVE  LockOwner' /\ CallsAreSound'
<1>1. \A k \in Callers \ {i} : call'[k].stage = "idle"
  BY DEF TypeOK
<1>2. \A k \in Callers : RunningCall(k)'
  BY <1>1 DEF RunningCall
<1>3. QED
  BY <1>1, <1>2 DEF LockOwner, CallsAreSound

\* The one that was running has left.
LEMMA Left ==
  ASSUME TypeOK, NEW i \in Callers,
         \A k \in Callers \ {i} : call[k].stage = "idle",
         Leave(i)
  PROVE  LockOwner' /\ CallsAreSound'
<1>1. \A k \in Callers : call'[k].stage = "idle"
  BY DEF TypeOK, Leave, Idle
<1>2. QED
  BY <1>1 DEF LockOwner, CallsAreSound, RunningCall

\* Nobody was running and nobody started.
LEMMA NobodyRan ==
  ASSUME LockOwner, lock = None, UNCHANGED <<call, lock>>
  PROVE  LockOwner' /\ CallsAreSound'
BY Quiet DEF LockOwner, CallsAreSound, RunningCall

LEMMA CallTypes ==
  ASSUME TypeOK, NEW i \in Callers
  PROVE  call[i] \in Call
BY DEF TypeOK

-----------------------------------------------------------------------------
(* Each action preserves the invariant                                     *)

LEMMA BeginInv ==
  ASSUME IInv, NEW i \in Callers, NEW m \in Messages, NEW t \in Texts,
         NEW c \in Connections, Begin(i, m, t, c)
  PROVE  IInv'
<1> USE DeliveryAssumption
<1> DEFINE j == WithIntent(m, t, c)
           d == [Idle EXCEPT !.stage = "intent", !.msg = m, !.text = t, !.conn = c]
<1>1. j \in Journal /\ j.conn = c /\ j.outbox = {m} /\ j.seen[m].status = "IN_FLIGHT"
      /\ j.seen[m].text = t /\ j.seen[m].native = None
  BY IntendedJournal DEF IInv
<1>2. d \in Call /\ d.stage = "intent" /\ d.msg = m /\ d.text = t /\ d.conn = c
  BY DEF Idle, Call, Stages
<1>3. lock = None /\ ~torn /\ MayBegin(m, c) /\ UNCHANGED <<host, visible, told>>
  BY DEF Begin
<1>4. CASE Seal(j) /\ lock' = i /\ call' = [call EXCEPT ![i] = d]
  <2> HIDE DEF d
  <2>1. journal' = j /\ torn' = torn
    BY <1>4 DEF Seal
  <2>2. call' \in [Callers -> Call] /\ call'[i] = d
    BY <1>2, <1>4 DEF IInv, TypeOK
  <2>3. TypeOK'
    BY <2>1, <2>2, <1>1, <1>3, <1>4 DEF IInv, TypeOK
  <2>4. Stored'
    BY <1>3, <2>1, StoredIntended DEF IInv
  <2>5. ~Entered(m)'
    BY <1>3 DEF IInv, Stored, Evidence, Entered, MayBegin
  <2>6. RunningCall(i)'
    BY <1>1, <1>2, <1>3, <2>1, <2>2, <2>5 DEF RunningCall, seen
  <2>7. \A k \in Callers : call[k].stage = "idle"
    BY <1>3, Quiet DEF IInv
  <2>8. LockOwner' /\ CallsAreSound'
    BY <1>4, <2>6, <2>7, Ran DEF IInv
  <2>9. QED
    BY <2>3, <2>4, <2>8 DEF IInv
<1>5. CASE Tear(j) /\ UNCHANGED <<lock, call>>
  <2>1. TypeOK' /\ Stored'
    BY <1>3, <1>5, StoredUnchanged DEF IInv, TypeOK, Tear
  <2>2. LockOwner' /\ CallsAreSound'
    BY <1>3, <1>5, NobodyRan DEF IInv
  <2>3. QED
    BY <2>1, <2>2 DEF IInv
<1>6. QED
  BY <1>4, <1>5 DEF Begin

LEMMA AnswerDuplicateInv ==
  ASSUME IInv, NEW i \in Callers, NEW m \in Messages, NEW t \in Texts,
         NEW c \in Connections, AnswerDuplicate(i, m, t, c)
  PROVE  IInv'
<1>1. TypeOK'
  BY DEF IInv, TypeOK, AnswerDuplicate
<1>2. LockOwner' /\ CallsAreSound'
  BY NobodyRan DEF IInv, AnswerDuplicate
<1>3. AnswersAreBacked'
  BY DEF IInv, Stored, AnswersAreBacked, AnswerDuplicate, seen
<1>4. Stored'
  BY <1>3 DEF IInv, AnswerDuplicate, Stored, OutboxIsOpen, Evidence, Entered, ChatIsSound,
     ConnIsSound, AtMostOneInput, InputsOf, SettledWasReceived, OneInputSettlesOneMessage,
     OneRoute, View, seen
<1>5. QED
  BY <1>1, <1>2, <1>4 DEF IInv

LEMMA TakeBaselineInv ==
  ASSUME IInv, NEW i \in Callers, TakeBaseline(i)
  PROVE  IInv'
<1> DEFINE d == [call[i] EXCEPT !.stage = "checked", !.baseline = View(call[i].conn)]
<1>1. call[i] \in Call /\ call[i].stage = "intent"
  BY CallTypes DEF IInv, TakeBaseline
<1>2. /\ d \in Call /\ d.stage = "checked" /\ d.baseline = View(call[i].conn)
      /\ d.msg = call[i].msg /\ d.text = call[i].text /\ d.conn = call[i].conn
  BY <1>1 DEF Call, Stages, View, IInv, TypeOK
<1>3. call' = [call EXCEPT ![i] = d]
  BY DEF TakeBaseline
<1>4. UNCHANGED <<journal, torn, lock, host, visible, told>>
  BY DEF TakeBaseline
<1> HIDE DEF d
<1>5. call' \in [Callers -> Call] /\ call'[i] = d
  BY <1>2, <1>3 DEF IInv, TypeOK
<1>6. TypeOK' /\ Stored'
  BY <1>4, <1>5, StoredUnchanged DEF IInv, TypeOK
<1>7. RunningCall(i)
  BY DEF IInv, CallsAreSound
<1>8. \A n \in Messages \ {call[i].msg} :
        seen[n].native # None => seen[n].native \in View(call[i].conn)
  <2> SUFFICES ASSUME NEW n \in Messages \ {call[i].msg}, seen[n].native # None
               PROVE  seen[n].native \in View(journal.conn)
    BY <1>1, <1>7 DEF RunningCall
  <2>1. seen[n].status \notin Unsettled
    BY <1>1, <1>7 DEF RunningCall, IInv, Stored, OutboxIsOpen
  <2>2. seen[n].status # "ABSENT"
    BY DEF IInv, Stored, Evidence, Absent
  <2>3. seen[n].status = "ACKED"
    BY <2>1, <2>2 DEF IInv, TypeOK, Journal, Entry, Statuses, seen
  <2>4. QED
    BY <2>3 DEF IInv, Stored, Evidence
<1>9. RunningCall(i)'
  BY <1>1, <1>2, <1>4, <1>5, <1>7, <1>8 DEF RunningCall, Entered, seen
<1>10. LockOwner' /\ CallsAreSound'
  BY <1>1, <1>3, <1>4, <1>9, Sole, Ran DEF IInv
<1>11. QED
  BY <1>6, <1>10 DEF IInv

\* The three ways a submission is answered share the chat's part.
LEMMA SubmitInv ==
  ASSUME IInv, NEW i \in Callers, call[i].stage = "checked",
         TakeInput(call[i].msg, call[i].text, call[i].conn),
         NEW s \in {"sent", "found", "failing"}, NEW n \in {call[i].native, NewRecord},
         s = "found" => n = NewRecord,
         call' = [call EXCEPT ![i].stage = s, ![i].native = n],
         UNCHANGED <<journal, torn, lock, visible, told>>
  PROVE  IInv'
<1> USE DeliveryAssumption
<1> DEFINE d == [call[i] EXCEPT !.stage = s, !.native = n]
<1>1. RunningCall(i) /\ call[i] \in Call
  BY CallTypes DEF IInv, CallsAreSound
<1>m. PICK m \in Messages : m = call[i].msg
  BY <1>1 DEF RunningCall
<1>2. /\ call[i].text \in Texts /\ call[i].conn \in Connections
      /\ seen[m].status = "IN_FLIGHT" /\ ~Entered(m) /\ journal.conn = call[i].conn
  BY <1>1, <1>m DEF RunningCall
<1>3. host' \in [Records -> Input] /\ NewRecord \in Records
  BY <1>m, <1>2, TakeInputType DEF IInv
<1>4. d \in Call
  BY <1>1, <1>3 DEF Call, Stages
<1>5. d.stage = s /\ d.native = n /\ d.msg = m
      /\ d.text = call[i].text /\ d.conn = call[i].conn /\ d.baseline = call[i].baseline
  BY <1>1, <1>m DEF Call
<1>6. call' = [call EXCEPT ![i] = d]
  OBVIOUS
<1> HIDE DEF d
<1>7. call' \in [Callers -> Call] /\ call'[i] = d
  BY <1>4, <1>6 DEF IInv, TypeOK
<1>8. TypeOK'
  BY <1>3, <1>7 DEF IInv, TypeOK
<1>9. /\ Stored'
      /\ host[NewRecord] = NoInput
      /\ host'[NewRecord] = [writer |-> m, text |-> call[i].text, chat |-> call[i].conn]
      /\ Entered(m)'
  <2>1. /\ seen[m].status \in Unsettled /\ m \in Messages \cup {Foreign}
        /\ TakeInput(m, call[i].text, call[i].conn)
        /\ UNCHANGED <<journal, visible, told>>
    BY <1>m, <1>2 DEF Unsettled
  <2>2. /\ Stored'
        /\ host[NewRecord] = NoInput
        /\ host'[NewRecord] = [writer |-> m, text |-> call[i].text, chat |-> call[i].conn]
        /\ \A x \in Messages : Entered(x)' <=> (Entered(x) \/ x = m)
    BY <1>2, <1>8, <2>1, StoredEntered DEF IInv
  <2>3. QED
    BY <1>2, <2>2
<1>10. \A x \in Messages : seen[x].native # NewRecord
  <2>1. host[NewRecord].writer = None
    BY <1>9 DEF NoInput
  <2>2. QED
    BY <2>1, <1>3 DEF IInv, Stored, Evidence
<1>11. host'[NewRecord].writer # None /\ host'[NewRecord].text = call[i].text
  BY <1>2, <1>9
<1>12. RunningCall(i)'
  <2>1. /\ call'[i].stage = s /\ call'[i].native = n /\ call'[i].msg = m
        /\ call'[i].text = call[i].text /\ call'[i].conn = call[i].conn
        /\ call'[i].baseline = call[i].baseline
    BY <1>5, <1>7
  <2>2. /\ journal.outbox = {m} /\ seen[m].text = call[i].text /\ ~torn
        /\ seen' = seen /\ journal' = journal /\ torn' = torn
        /\ \A x \in Messages \ {m} : seen[x].native # None => seen[x].native \in call[i].baseline
    BY <1>1, <1>m DEF RunningCall, seen
  <2>3. Entered(call[i].msg)'
    BY <2>1, <1>9 DEF Entered
  <2>4. call'[i].stage = "found" =>
          /\ call'[i].native \in Records
          /\ host'[call'[i].native].writer # None
          /\ host'[call'[i].native].text = call'[i].text
          /\ \A x \in Messages \ {m} : seen'[x].native # call'[i].native
    <3>1. SUFFICES ASSUME s = "found"
                   PROVE  /\ n \in Records /\ host'[n].writer # None
                          /\ host'[n].text = call[i].text
                          /\ \A x \in Messages \ {m} : seen[x].native # n
      BY <2>1, <2>2
    <3>2. n = NewRecord
      BY <3>1
    <3>3. QED
      BY <3>2, <1>3, <1>10, <1>11
  <2>5. /\ call'[i].msg \in Messages /\ call'[i].text \in Texts
        /\ call'[i].conn \in Connections
        /\ journal'.outbox = {call'[i].msg} /\ journal'.conn = call'[i].conn
        /\ seen'[call'[i].msg].text = call'[i].text
        /\ seen'[call'[i].msg].status = "IN_FLIGHT" /\ ~torn'
    <3>1. ~torn' /\ seen'[m].text = call[i].text /\ journal'.outbox = {m}
      BY <2>2
    <3>2. seen'[m].status = "IN_FLIGHT" /\ journal'.conn = call[i].conn
      BY <1>2, <2>2
    <3>3. QED
      BY <1>2, <2>1, <3>1, <3>2
  <2>6. call'[i].stage \in {"sent", "found", "failing"}
    BY <2>1
  <2>7. \A x \in Messages \ {call'[i].msg} :
          seen'[x].native # None => seen'[x].native \in call'[i].baseline
    BY <2>1, <2>2
  <2>8. QED
    BY <1>m, <2>1, <2>3, <2>4, <2>5, <2>6, <2>7 DEF RunningCall
<1>13. LockOwner' /\ CallsAreSound'
  BY <1>6, <1>12, Sole, Ran DEF IInv
<1>14. QED
  BY <1>8, <1>9, <1>13 DEF IInv

LEMMA SubmissionsInv ==
  ASSUME IInv, NEW i \in Callers,
         SubmitNative(i) \/ SubmitRpc(i) \/ SubmitUnanswered(i)
  PROVE  IInv'
<1>1. call[i] \in Call
  BY CallTypes DEF IInv
<1>2. CASE SubmitNative(i)
  <2>1. call' = [call EXCEPT ![i].stage = "sent", ![i].native = call[i].native]
    BY <1>1, <1>2 DEF SubmitNative, Call, IInv, TypeOK
  <2>2. QED
    BY <2>1, <1>2, SubmitInv DEF SubmitNative
<1>3. CASE SubmitRpc(i)
  <2>1. call' = [call EXCEPT ![i].stage = "found", ![i].native = NewRecord]
    BY <1>3 DEF SubmitRpc
  <2>2. QED
    BY <2>1, <1>3, SubmitInv DEF SubmitRpc
<1>4. CASE SubmitUnanswered(i)
  <2>1. call' = [call EXCEPT ![i].stage = "failing", ![i].native = call[i].native]
    BY <1>1, <1>4 DEF SubmitUnanswered, Call, IInv, TypeOK
  <2>2. QED
    BY <2>1, <1>4, SubmitInv DEF SubmitUnanswered
<1>5. QED
  BY <1>2, <1>3, <1>4

\* Evidence about the open message is persisted, or the save fails.
LEMMA RecordInv ==
  ASSUME IInv, NEW i \in Callers, NEW m \in Messages, m = call[i].msg,
         NEW e \in Entry, NEW s \in {"polling", "submitted"}, Record(i, e, s),
         e.status \in Unsettled, e.text = seen[m].text,
         \/ /\ call[i].stage = "sent" /\ s = "polling"
            /\ e.status = "IN_FLIGHT" /\ e.native = seen[m].native
         \/ /\ call[i].stage = "found" /\ s = "submitted" /\ e.native = call[i].native
  PROVE  IInv'
<1> USE DeliveryAssumption
<1>1. RunningCall(i) /\ call[i] \in Call
  BY CallTypes DEF IInv, CallsAreSound
<1>2. /\ call[i].text \in Texts /\ journal.conn = call[i].conn /\ journal.conn \in Connections
      /\ journal.outbox = {m} /\ seen[m].status = "IN_FLIGHT" /\ ~torn
      /\ seen[m].text = call[i].text
  BY <1>1 DEF RunningCall
<1>3. Entered(m)
  BY <1>1 DEF RunningCall
<1>4. e.native # None =>
        /\ host[e.native].writer # None /\ host[e.native].text = e.text
        /\ \A n \in Messages \ {m} : seen[n].native # e.native
  <2>1. CASE call[i].stage = "sent" /\ e.native = seen[m].native
    BY <2>1 DEF IInv, Stored, Evidence, OneInputSettlesOneMessage
  <2>2. CASE call[i].stage = "found" /\ e.native = call[i].native
    BY <1>1, <1>2, <2>2 DEF RunningCall
  <2>3. QED
    BY <2>1, <2>2
<1> DEFINE j == [journal EXCEPT !.seen[m] = e]
<1>5. UNCHANGED <<host, visible, told>>
  BY DEF Record
<1>6. \A k \in Callers \ {i} : call[k].stage = "idle"
  BY Sole DEF IInv
<1>7. CASE Seal(j) /\ call' = [call EXCEPT ![i].stage = s] /\ lock' = lock
  <2>1. journal' = j /\ torn' = torn /\ j \in Journal
    BY <1>7, EditedJournal DEF Seal, IInv
  <2>2. /\ call' \in [Callers -> Call]
        /\ call'[i].stage = s /\ call'[i].native = call[i].native /\ call'[i].msg = m
        /\ call'[i].text = call[i].text /\ call'[i].conn = call[i].conn
        /\ call'[i].baseline = call[i].baseline
    BY <1>1, <1>7 DEF IInv, TypeOK, Call, Stages
  <2>3. TypeOK'
    BY <1>5, <1>7, <2>1, <2>2 DEF IInv, TypeOK
  <2>4. seen[m].status \in Unsettled /\ journal.conn # Legacy
    BY <1>2 DEF Unsettled
  <2>5. Stored'
    BY <1>3, <1>4, <1>5, <2>1, <2>3, <2>4, StoredNoted DEF IInv
  <2>6. /\ journal'.conn = journal.conn /\ journal'.outbox = {m} /\ seen'[m] = e
        /\ \A n \in Messages \ {m} : seen'[n] = seen[n]
    BY <1>2, <2>1, EditedJournal DEF IInv, seen
  <2> HIDE DEF j
  <2>7. /\ call'[i].msg \in Messages /\ call'[i].text \in Texts
        /\ call'[i].conn \in Connections
        /\ journal'.outbox = {call'[i].msg} /\ journal'.conn = call'[i].conn
        /\ seen'[call'[i].msg].text = call'[i].text
    BY <1>2, <2>2, <2>6
  <2>8. ~torn'
    BY <1>2, <2>1
  <2>9. Entered(call[i].msg)'
    BY <1>3, <1>5, <2>2 DEF Entered
  <2>10. RunningCall(i)'
    <3>1. CASE s = "polling"
      <4>1. /\ seen'[call'[i].msg].status = "IN_FLIGHT"
            /\ \A n \in Messages \ {call'[i].msg} :
                 seen'[n].native # None => seen'[n].native \in call'[i].baseline
        BY <1>1, <2>2, <2>6, <3>1 DEF RunningCall
      <4>2. QED
        BY <2>2, <2>7, <2>8, <2>9, <3>1, <4>1 DEF RunningCall
    <3>2. CASE s = "submitted"
      <4>1. /\ call'[i].native \in Records
            /\ host'[call'[i].native].writer # None
            /\ host'[call'[i].native].text = call'[i].text
            /\ \A n \in Messages \ {call'[i].msg} : seen'[n].native # call'[i].native
        BY <1>1, <1>5, <2>2, <2>6, <3>2 DEF RunningCall
      <4>2. seen'[call'[i].msg].native = call'[i].native
        BY <2>2, <2>6, <3>2
      <4>3. QED
        BY <2>2, <2>7, <2>8, <2>9, <3>2, <4>1, <4>2 DEF RunningCall
    <3>3. QED
      BY <3>1, <3>2
  <2>11. lock' = i
    BY <1>7, Sole DEF IInv
  <2>12. call' = [call EXCEPT ![i] = [call[i] EXCEPT !.stage = s]]
    BY <1>7
  <2>13. LockOwner' /\ CallsAreSound'
    BY <1>6, <2>10, <2>11, <2>12, Ran DEF IInv
  <2>14. QED
    BY <2>3, <2>5, <2>13 DEF IInv
<1>8. CASE (Tear(j) \/ Refuse(j)) /\ Leave(i)
  <2>1. journal' = journal /\ torn' \in BOOLEAN
    BY <1>8 DEF Tear, Refuse, IInv, TypeOK
  <2>2. TypeOK' /\ Stored'
    BY <1>5, <1>8, <2>1, LeaveType, StoredUnchanged DEF IInv, TypeOK
  <2>3. LockOwner' /\ CallsAreSound'
    BY <1>6, <1>8, Left DEF IInv
  <2>4. QED
    BY <2>2, <2>3 DEF IInv
<1>9. QED
  BY <1>7, <1>8 DEF Record

LEMMA RecordAcceptanceInv ==
  ASSUME IInv, NEW i \in Callers, RecordAcceptance(i)
  PROVE  IInv'
<1>1. call[i].stage = "sent" /\ RunningCall(i)
  BY DEF RecordAcceptance, IInv, CallsAreSound
<1>2. PICK m \in Messages : m = call[i].msg
  BY <1>1 DEF RunningCall
<1>3. seen[m] \in Entry /\ seen[m].status = "IN_FLIGHT"
  BY <1>1, <1>2 DEF RunningCall, IInv, TypeOK, Journal, seen
<1>4. PICK e \in Entry : e = [seen[m] EXCEPT !.known = TRUE]
  BY <1>3 DEF Entry
<1>5. e.status = "IN_FLIGHT" /\ e.text = seen[m].text /\ e.native = seen[m].native
  BY <1>3, <1>4 DEF Entry
<1>6. Record(i, e, "polling")
  BY <1>2, <1>4 DEF RecordAcceptance
<1>7. QED
  BY <1>1, <1>2, <1>5, <1>6, RecordInv DEF Unsettled

LEMMA RecordSubmissionInv ==
  ASSUME IInv, NEW i \in Callers, RecordSubmission(i)
  PROVE  IInv'
<1>1. call[i].stage = "found" /\ RunningCall(i) /\ call[i] \in Call
  BY CallTypes DEF RecordSubmission, IInv, CallsAreSound
<1>2. PICK m \in Messages : m = call[i].msg
  BY <1>1 DEF RunningCall
<1>3. seen[m] \in Entry /\ call[i].native \in Records \cup {None}
  BY <1>1, <1>2 DEF IInv, TypeOK, Journal, seen, Call
<1>4. PICK e \in Entry : e = [seen[m] EXCEPT !.status = "SUBMITTED", !.known = TRUE,
                                !.native = call[i].native]
  BY <1>3 DEF Entry, Statuses, Unsettled
<1>5. e.status = "SUBMITTED" /\ e.text = seen[m].text /\ e.native = call[i].native
  BY <1>3, <1>4 DEF Entry
<1>6. Record(i, e, "submitted")
  BY <1>2, <1>4 DEF RecordSubmission
<1>7. QED
  BY <1>1, <1>2, <1>5, <1>6, RecordInv DEF Unsettled

LEMMA FindNewRecordInv ==
  ASSUME IInv, NEW i \in Callers, FindNewRecord(i)
  PROVE  IInv'
<1> USE DeliveryAssumption
<1>1. call[i].stage = "polling" /\ RunningCall(i) /\ call[i] \in Call
  BY CallTypes DEF FindNewRecord, IInv, CallsAreSound
<1>2. PICK r \in Records :
        /\ {x \in View(call[i].conn) \ call[i].baseline : host[x].text = call[i].text} = {r}
        /\ call' = [call EXCEPT ![i].stage = "found", ![i].native = r]
  BY DEF FindNewRecord
<1>3. r \in visible /\ r \notin call[i].baseline /\ host[r].text = call[i].text
  BY <1>2 DEF View
<1>4. UNCHANGED <<journal, torn, lock, host, visible, told>>
  BY DEF FindNewRecord
<1>5. /\ call' \in [Callers -> Call]
      /\ call'[i].stage = "found" /\ call'[i].native = r /\ call'[i].msg = call[i].msg
      /\ call'[i].text = call[i].text /\ call'[i].conn = call[i].conn
  BY <1>1, <1>2 DEF IInv, TypeOK, Call, Stages
<1>6. TypeOK' /\ Stored'
  BY <1>4, <1>5, StoredUnchanged DEF IInv, TypeOK
<1>7. host[r].writer # None
  BY <1>3 DEF IInv, Stored, ChatIsSound
<1>8. \A n \in Messages \ {call[i].msg} : seen[n].native # r
  BY <1>1, <1>3 DEF RunningCall
<1>9. RunningCall(i)'
  BY <1>1, <1>3, <1>4, <1>5, <1>7, <1>8 DEF RunningCall, Entered, seen
<1>10. call' = [call EXCEPT ![i] = [call[i] EXCEPT !.stage = "found", !.native = r]]
  BY <1>2
<1>11. LockOwner' /\ CallsAreSound'
  BY <1>1, <1>4, <1>9, <1>10, Sole, Ran DEF IInv
<1>12. QED
  BY <1>6, <1>11 DEF IInv

LEMMA FailInv ==
  ASSUME IInv, NEW i \in Callers, Fail(i)
  PROVE  IInv'
<1>1. call[i].stage # "idle" /\ RunningCall(i) /\ call[i] \in Call
  BY CallTypes DEF Fail, IInv, CallsAreSound
<1>2. UNCHANGED <<journal, torn, lock, host, visible, told>>
  BY DEF Fail
<1>3. /\ call' \in [Callers -> Call]
      /\ call'[i].stage = "failing" /\ call'[i].msg = call[i].msg
      /\ call'[i].text = call[i].text /\ call'[i].conn = call[i].conn
  BY <1>1 DEF Fail, IInv, TypeOK, Call, Stages
<1>4. TypeOK' /\ Stored'
  BY <1>2, <1>3, StoredUnchanged DEF IInv, TypeOK
<1>5. RunningCall(i)'
  BY <1>1, <1>2, <1>3 DEF RunningCall, seen
<1>6. call' = [call EXCEPT ![i] = [call[i] EXCEPT !.stage = "failing"]]
  BY DEF Fail
<1>7. LockOwner' /\ CallsAreSound'
  BY <1>1, <1>2, <1>5, <1>6, Sole, Ran DEF IInv
<1>8. QED
  BY <1>4, <1>7 DEF IInv

LEMMA CrashInv ==
  ASSUME IInv, NEW i \in Callers, Crash(i)
  PROVE  IInv'
<1>1. Leave(i) /\ UNCHANGED <<journal, torn, host, visible, told>> /\ call[i].stage # "idle"
  BY DEF Crash
<1>2. TypeOK' /\ Stored'
  BY <1>1, LeaveType, StoredUnchanged DEF IInv, TypeOK
<1>3. LockOwner' /\ CallsAreSound'
  BY <1>1, Sole, Left DEF IInv
<1>4. QED
  BY <1>2, <1>3 DEF IInv

LEMMA CompleteInv ==
  ASSUME IInv, NEW i \in Callers, Complete(i)
  PROVE  IInv'
<1> USE DeliveryAssumption
<1>1. /\ call[i].stage = "submitted" /\ RunningCall(i) /\ Leave(i)
      /\ call[i].native \in View(call[i].conn) /\ UNCHANGED <<host, visible>>
  BY DEF Complete, IInv, CallsAreSound
<1>2. PICK m \in Messages : m = call[i].msg
  BY <1>1 DEF RunningCall
<1>3. /\ Entered(m) /\ seen[m].text = call[i].text /\ call[i].text \in Texts
      /\ seen[m].native = call[i].native /\ seen[m].native \in Records
      /\ journal.outbox = {m} /\ journal.conn = call[i].conn
  BY <1>1, <1>2 DEF RunningCall
<1>4. seen[m].status \in Unsettled
  BY <1>3 DEF IInv, Stored, OutboxIsOpen
<1> DEFINE j == Settled(journal, m)
<1>5. LockOwner' /\ CallsAreSound'
  BY <1>1, Sole, Left DEF IInv
<1>6. call' \in [Callers -> Call] /\ lock' \in Callers \cup {None}
  BY <1>1, LeaveType DEF IInv
<1>7. CASE Seal(j) /\ told' \in {told, told \cup {<<m, seen[m].text>>}}
  <2>1. journal' = j /\ torn' = torn /\ j \in Journal
    BY <1>7, SettledJournal DEF Seal, IInv
  <2>2. TypeOK'
    BY <1>1, <1>3, <1>6, <1>7, <2>1 DEF IInv, TypeOK
  <2>3. told \subseteq told' /\ told' \subseteq told \cup {<<m, seen[m].text>>}
    BY <1>7
  <2>4. seen[m].native # None /\ seen[m].native \in View(journal.conn)
    BY <1>1, <1>3
  <2>5. Stored'
    BY <1>1, <1>3, <1>4, <2>1, <2>3, <2>4, StoredSettled DEF IInv
  <2>6. QED
    BY <2>2, <2>5, <1>5 DEF IInv
<1>8. CASE (Tear(j) \/ Refuse(j)) /\ told' = told
  <2>1. TypeOK' /\ Stored'
    BY <1>1, <1>6, <1>8, StoredUnchanged DEF IInv, TypeOK, Tear, Refuse
  <2>2. QED
    BY <1>5, <2>1 DEF IInv
<1>9. QED
  BY <1>2, <1>3, <1>7, <1>8 DEF Complete

LEMMA RecordUncertainInv ==
  ASSUME IInv, NEW i \in Callers, RecordUncertain(i)
  PROVE  IInv'
<1> USE DeliveryAssumption
<1>1. /\ call[i].stage = "failing" /\ RunningCall(i) /\ Leave(i)
      /\ UNCHANGED <<host, visible, told>>
  BY DEF RecordUncertain, IInv, CallsAreSound
<1>2. PICK m \in Messages : m = call[i].msg
  BY <1>1 DEF RunningCall
<1>3. journal.outbox = {m} /\ seen[m] \in Entry /\ journal.conn \in Connections
  BY <1>1, <1>2 DEF RunningCall, IInv, TypeOK, Journal, seen
<1>4. seen[m].status \in Unsettled
  BY <1>3 DEF IInv, Stored, OutboxIsOpen
<1>5. PICK e \in Entry : e = [seen[m] EXCEPT !.status = "UNCERTAIN"]
  BY <1>3 DEF Entry, Statuses, Unsettled
<1>6. /\ e.status = "UNCERTAIN" /\ e.text = seen[m].text
      /\ e.known = seen[m].known /\ e.native = seen[m].native
  BY <1>3, <1>5 DEF Entry
<1> DEFINE j == [journal EXCEPT !.seen[m] = e]
<1>7. [journal EXCEPT !.seen[m].status = "UNCERTAIN"] = j
  BY <1>5 DEF seen
<1>8. Seal(j) \/ Tear(j)
  BY <1>2, <1>7 DEF RecordUncertain
<1>9. j \in Journal
  BY EditedJournal DEF IInv
<1>10. LockOwner' /\ CallsAreSound'
  BY <1>1, Sole, Left DEF IInv
<1>11. TypeOK'
  BY <1>1, <1>8, <1>9, LeaveType, SealType DEF IInv, TypeOK
<1>12. Stored'
  <2>1. CASE Seal(j)
    <3>1. journal' = j /\ e.status \in Unsettled /\ journal.conn # Legacy
      BY <1>3, <1>6, <2>1 DEF Seal, Unsettled
    <3>2. e.known => Entered(m)
      BY <1>6 DEF IInv, Stored, Evidence
    <3>3. e.native # None =>
            /\ host[e.native].writer # None /\ host[e.native].text = e.text
            /\ \A n \in Messages \ {m} : seen[n].native # e.native
      BY <1>6 DEF IInv, Stored, Evidence, OneInputSettlesOneMessage
    <3>4. QED
      BY <1>1, <1>4, <1>6, <1>11, <3>1, <3>2, <3>3, StoredNoted DEF IInv
  <2>2. CASE Tear(j)
    BY <1>1, <2>2, StoredUnchanged DEF IInv, Tear
  <2>3. QED
    BY <1>8, <2>1, <2>2
<1>13. QED
  BY <1>10, <1>11, <1>12 DEF IInv

LEMMA ReconcileInv ==
  ASSUME IInv, NEW m \in Messages, Reconcile(m)
  PROVE  IInv'
<1> USE DeliveryAssumption
<1> DEFINE j == Settled(journal, m)
<1>1. /\ lock = None /\ UNCHANGED <<lock, call, host, visible, told>>
      /\ seen[m].known /\ seen[m].native \in View(journal.conn)
      /\ seen[m].status \in Unsettled /\ journal.outbox = {m}
      /\ Seal(j) \/ Tear(j)
  BY DEF Reconcile
<1>2. j \in Journal
  BY SettledJournal DEF IInv
<1>3. TypeOK'
  BY <1>1, <1>2, SealType DEF IInv, TypeOK
<1>4. LockOwner' /\ CallsAreSound'
  BY <1>1, NobodyRan DEF IInv
<1>5. Stored'
  <2>1. CASE Seal(j)
    <3>1. journal' = j /\ told \subseteq told'
          /\ told' \subseteq told \cup {<<m, seen[m].text>>}
      BY <1>1, <2>1 DEF Seal
    <3>2. Entered(m)
      BY <1>1 DEF IInv, Stored, Evidence
    <3>3. seen[m].native # None
      BY <1>1 DEF View, IInv, TypeOK
    <3>4. QED
      BY <1>1, <3>1, <3>2, <3>3, StoredSettled DEF IInv
  <2>2. CASE Tear(j)
    BY <1>1, <2>2, StoredUnchanged DEF IInv, Tear
  <2>3. QED
    BY <1>1, <2>1, <2>2
<1>6. QED
  BY <1>3, <1>4, <1>5 DEF IInv

LEMMA MigrateInv ==
  ASSUME IInv, Migrate
  PROVE  IInv'
<1> USE DeliveryAssumption
<1> DEFINE j == [journal EXCEPT !.conn = FirstConnection]
<1>1. /\ lock = None /\ UNCHANGED <<lock, call, host, visible, told>>
      /\ journal.conn = Legacy /\ journal \in Journal
      /\ Seal(j) \/ Tear(j)
  BY DEF Migrate, IInv, TypeOK
<1>2. /\ j \in Journal /\ j.conn = FirstConnection
      /\ j.seen = journal.seen /\ j.outbox = journal.outbox
  BY <1>1 DEF Journal
<1>3. TypeOK'
  BY <1>1, <1>2, SealType DEF IInv, TypeOK
<1>4. LockOwner' /\ CallsAreSound'
  BY <1>1, NobodyRan DEF IInv
<1>5. Stored'
  <2>1. CASE Seal(j)
    <3>1. /\ journal'.conn = FirstConnection /\ FirstConnection \notin {None, Legacy}
          /\ seen' = seen /\ journal'.outbox = journal.outbox
      BY <1>2, <2>1 DEF Seal, seen
    <3>2. \A n \in Messages : seen[n].native = None
      BY <1>1 DEF IInv, Stored, ConnIsSound
    <3>3. Evidence'
      BY <1>1, <3>1, <3>2 DEF IInv, Stored, Evidence, Entered
    <3>4. OneRoute' /\ ConnIsSound'
      BY <1>1, <3>1 DEF IInv, Stored, OneRoute, ConnIsSound
    <3>5. OutboxIsOpen' /\ OneInputSettlesOneMessage' /\ SettledWasReceived'
          /\ AnswersAreBacked'
      BY <1>1, <3>1 DEF IInv, Stored, OutboxIsOpen, OneInputSettlesOneMessage,
         SettledWasReceived, AnswersAreBacked
    <3>6. ChatIsSound' /\ AtMostOneInput'
      BY <1>1 DEF IInv, Stored, ChatIsSound, AtMostOneInput, InputsOf
    <3>7. QED
      BY <3>3, <3>4, <3>5, <3>6 DEF Stored
  <2>2. CASE Tear(j)
    BY <1>1, <2>2, StoredUnchanged DEF IInv, Tear
  <2>3. QED
    BY <1>1, <2>1, <2>2
<1>6. QED
  BY <1>3, <1>4, <1>5 DEF IInv

LEMMA ForeignInputInv ==
  ASSUME IInv, NEW t \in Texts, NEW c \in Connections, ForeignInput(t, c)
  PROVE  IInv'
<1> USE DeliveryAssumption
<1>1. TakeInput(Foreign, t, c) /\ UNCHANGED <<journal, torn, lock, call, visible, told>>
  BY DEF ForeignInput
<1>2. TypeOK'
  BY <1>1, TakeInputType DEF IInv, TypeOK
<1>3. /\ Stored'
      /\ host[NewRecord] = NoInput
      /\ \A r \in Records \ {NewRecord} : host'[r] = host[r]
      /\ \A m \in Messages : Entered(m)' <=> (Entered(m) \/ m = Foreign)
  BY <1>1, <1>2, StoredEntered DEF IInv
<1>4. host[NewRecord].writer = None
  BY <1>3 DEF NoInput
<1>5. ASSUME NEW k \in Callers PROVE RunningCall(k)'
  <2> SUFFICES ASSUME call[k].stage # "idle" PROVE RunningCall(k)'
    BY <1>1 DEF RunningCall
  <2>1. RunningCall(k)
    BY DEF IInv, CallsAreSound
  <2>2. PICK m \in Messages : m = call[k].msg
    BY <2>1 DEF RunningCall
  <2>3. Entered(m)' <=> Entered(m)
    BY <1>3
  <2>4. Entered(call[k].msg)' <=> Entered(call[k].msg)
    BY <1>1, <2>2, <2>3 DEF Entered
  <2>5. call[k].stage \in {"found", "submitted"} =>
          host'[call[k].native] = host[call[k].native]
    BY <1>3, <1>4, <2>1 DEF RunningCall
  <2>6. QED
    BY <1>1, <2>1, <2>4, <2>5 DEF RunningCall, seen
<1>6. LockOwner' /\ CallsAreSound'
  BY <1>1, <1>5 DEF IInv, LockOwner, CallsAreSound
<1>7. QED
  BY <1>2, <1>3, <1>6 DEF IInv

LEMMA AppearInv ==
  ASSUME IInv, NEW r \in Records, Appear(r)
  PROVE  IInv'
<1>1. /\ host[r] # NoInput /\ visible' = visible \cup {r}
      /\ UNCHANGED <<journal, torn, lock, call, host, told>>
  BY DEF Appear
<1>2. TypeOK'
  BY <1>1 DEF IInv, TypeOK
<1>3. Evidence'
  BY <1>1 DEF IInv, Stored, Evidence, Entered, View, seen
<1>4. ChatIsSound'
  BY <1>1 DEF IInv, Stored, ChatIsSound
<1>5. SettledWasReceived'
  BY <1>1 DEF IInv, Stored, SettledWasReceived, seen
<1>6. OutboxIsOpen' /\ ConnIsSound' /\ AtMostOneInput' /\ OneInputSettlesOneMessage'
      /\ AnswersAreBacked' /\ OneRoute'
  BY <1>1 DEF IInv, Stored, OutboxIsOpen, ConnIsSound, AtMostOneInput, InputsOf,
     OneInputSettlesOneMessage, AnswersAreBacked, OneRoute, seen
<1>7. LockOwner' /\ CallsAreSound'
  BY <1>1 DEF IInv, LockOwner, CallsAreSound, RunningCall, Entered, seen
<1>8. QED
  BY <1>2, <1>3, <1>4, <1>5, <1>6, <1>7 DEF IInv, Stored

LEMMA InitInv == Init => IInv
<1> SUFFICES ASSUME Init PROVE IInv
  OBVIOUS
<1> USE DeliveryAssumption
<1>1. TypeOK
  BY InitType
<1>2. LockOwner /\ CallsAreSound
  BY DEF Init, Idle, LockOwner, CallsAreSound, RunningCall
<1>3. told = {}
  BY DEF Init
<1>4. CASE /\ journal = FreshJournal
           /\ host = [r \in Records |-> NoInput] /\ visible = {}
  <2>1. /\ journal.conn = None /\ journal.outbox = {}
        /\ \A m \in Messages : seen[m] = Absent
        /\ \A r \in Records : host[r].writer = None /\ host[r] = NoInput
    BY <1>4 DEF FreshJournal, seen, NoInput
  <2>2. \A m \in Messages : /\ seen[m].status = "ABSENT" /\ ~seen[m].known
                            /\ seen[m].native = None
    BY <2>1 DEF Absent
  <2>3. ~ \E m \in Messages : Entered(m)
    BY <2>1 DEF Entered
  <2>4. Evidence /\ OutboxIsOpen /\ SettledWasReceived /\ OneInputSettlesOneMessage
    BY <2>1, <2>2, <2>3 DEF Evidence, OutboxIsOpen, SettledWasReceived,
       OneInputSettlesOneMessage, Unsettled
  <2>5. ChatIsSound /\ ConnIsSound /\ AtMostOneInput /\ OneRoute /\ AnswersAreBacked
    BY <1>3, <1>4, <2>1, <2>2 DEF ChatIsSound, ConnIsSound, AtMostOneInput, InputsOf,
       OneRoute, AnswersAreBacked
  <2>6. QED
    BY <1>1, <1>2, <2>4, <2>5 DEF IInv, Stored
<1>5. ASSUME NEW m \in Messages, NEW t \in Texts, NEW s \in {"ACKED", "UNCERTAIN"},
             NEW r \in Records,
             journal = LegacyJournal(m, t, s),
             host = [x \in Records |-> IF x = r
                       THEN [writer |-> m, text |-> t, chat |-> FirstConnection]
                       ELSE NoInput],
             visible = IF s = "ACKED" THEN {r} ELSE {}
      PROVE  IInv
  <2> DEFINE e == [Absent EXCEPT !.status = s, !.text = t]
  <2>1. e.status = s /\ e.text = t /\ ~e.known /\ e.native = None
    BY DEF Absent
  <2>2. /\ journal.conn = Legacy /\ journal.outbox = (IF s = "ACKED" THEN {} ELSE {m})
        /\ journal.seen = [FreshJournal.seen EXCEPT ![m] = e]
    BY <1>5 DEF LegacyJournal
  <2> HIDE DEF e
  <2>3. seen[m] = e /\ \A n \in Messages \ {m} : seen[n] = Absent
    BY <2>2 DEF FreshJournal, seen
  <2>4. \A n \in Messages \ {m} : /\ seen[n].status = "ABSENT" /\ ~seen[n].known
                                  /\ seen[n].native = None
    BY <2>3 DEF Absent
  <2>5. /\ host[r].writer = m /\ host[r].text = t /\ host[r].chat = FirstConnection
        /\ \A x \in Records \ {r} : host[x] = NoInput /\ host[x].writer = None
    BY <1>5 DEF NoInput
  <2>6. /\ seen[m].status = s /\ seen[m].text = t
        /\ ~seen[m].known /\ seen[m].native = None
    BY <2>1, <2>3
  <2>7. OutboxIsOpen /\ ConnIsSound /\ OneInputSettlesOneMessage
    BY <2>2, <2>4, <2>6 DEF OutboxIsOpen, ConnIsSound, OneInputSettlesOneMessage, Unsettled
  <2>8. Evidence
    BY <2>3, <2>4, <2>5, <2>6 DEF Evidence, Entered
  <2>9. SettledWasReceived
    BY <1>5, <2>4, <2>5, <2>6 DEF SettledWasReceived
  <2>10. ChatIsSound /\ AtMostOneInput /\ OneRoute /\ AnswersAreBacked
    BY <1>3, <1>5, <2>2, <2>5 DEF ChatIsSound, AtMostOneInput, InputsOf, OneRoute,
       AnswersAreBacked
  <2>11. QED
    BY <1>1, <1>2, <2>7, <2>8, <2>9, <2>10 DEF IInv, Stored
<1>6. QED
  BY <1>4, <1>5 DEF Init

LEMMA StepInv ==
  ASSUME IInv, NEW i \in Callers, Step(i)
  PROVE  IInv'
BY TakeBaselineInv, SubmissionsInv, RecordAcceptanceInv, FindNewRecordInv,
   RecordSubmissionInv, CompleteInv, FailInv, RecordUncertainInv DEF Step

LEMMA NextInv == IInv /\ [Next]_vars => IInv'
<1> SUFFICES ASSUME IInv, [Next]_vars PROVE IInv'
  OBVIOUS
<1>1. CASE UNCHANGED vars
  <2>1. TypeOK' /\ LockOwner' /\ CallsAreSound'
    BY <1>1 DEF vars, IInv, TypeOK, LockOwner, CallsAreSound, RunningCall, Entered, seen
  <2>2. Stored'
    BY <1>1, StoredUnchanged DEF vars, IInv
  <2>3. QED
    BY <2>1, <2>2 DEF IInv
<1>2. ASSUME NEW i \in Callers, NEW m \in Messages, NEW t \in Texts, NEW c \in Connections,
             Begin(i, m, t, c) \/ AnswerDuplicate(i, m, t, c)
      PROVE  IInv'
  BY <1>2, BeginInv, AnswerDuplicateInv
<1>3. ASSUME NEW i \in Callers, Step(i) \/ Crash(i) PROVE IInv'
  BY <1>3, StepInv, CrashInv
<1>4. ASSUME NEW m \in Messages, Reconcile(m) PROVE IInv'
  BY <1>4, ReconcileInv
<1>5. CASE Migrate
  BY <1>5, MigrateInv
<1>6. ASSUME NEW t \in Texts, NEW c \in Connections, ForeignInput(t, c) PROVE IInv'
  BY <1>6, ForeignInputInv
<1>7. ASSUME NEW r \in Records, Appear(r) PROVE IInv'
  BY <1>7, AppearInv
<1>8. QED
  BY <1>1, <1>2, <1>3, <1>4, <1>5, <1>6, <1>7 DEF Next

\* The inductive invariant of a delivery root, for any number of callers,
\* messages and native records and any size limit of the journal.
THEOREM Invariance == Spec => []IInv
<1>1. QED
  BY InitInv, NextInv, PTL DEF Spec
-----------------------------------------------------------------------------
(* The safety properties of a delivery root                                *)

\* Every state of deliver, send, reconcile and migrate is well formed.
THEOREM TypesHold == Spec => []TypeOK
<1>1. IInv => TypeOK
  BY DEF IInv
<1>2. QED
  BY <1>1, Invariance, PTL

\* The relay (deliver, lines 69-96) makes at most one input per message.
THEOREM DeliversAtMostOnce == Spec => []AtMostOneInput
<1>1. IInv => AtMostOneInput
  BY DEF IInv, Stored
<1>2. QED
  BY <1>1, Invariance, PTL

\* What deliver, reconcile or an old journal settles was received by the chat.
THEOREM SettlesOnlyReceived == Spec => []SettledWasReceived
<1>1. IInv => SettledWasReceived
  BY DEF IInv, Stored
<1>2. QED
  BY <1>1, Invariance, PTL

\* The baseline and the exactly-one rule of the native port keep two messages
\* with one text from claiming one input.
THEOREM ClaimsAreExclusive == Spec => []OneInputSettlesOneMessage
<1>1. IInv => OneInputSettlesOneMessage
  BY DEF IInv, Stored
<1>2. QED
  BY <1>1, Invariance, PTL

\* A caller of send is never ahead of the journal.
THEOREM CallersAreToldTheTruth == Spec => []AnswersAreBacked
<1>1. IInv => AnswersAreBacked
  BY DEF IInv, Stored
<1>2. QED
  BY <1>1, Invariance, PTL

\* One delivery root writes to one connection only.
THEOREM RootHasOneRoute == Spec => []OneRoute
<1>1. IInv => OneRoute
  BY DEF IInv, Stored
<1>2. QED
  BY <1>1, Invariance, PTL
-----------------------------------------------------------------------------
(* What a step does to the messages: one effect of the abstract relay      *)

OthersSettled(m) == \A n \in Messages \ {m} : seen[n].status \notin Unsettled
SameReceipts == \A n \in Messages : seen[n].status = "ACKED" => seen'[n] = seen[n]
SameInputs == \A n \in Messages : InputsOf(n)' = InputsOf(n)
SamePhases(S) == \A n \in Messages \ S : Phase(seen'[n]) = Phase(seen[n])

Nothing == SameReceipts /\ SameInputs /\ SamePhases({}) /\ told' = told

Opens(m) ==
  /\ SameReceipts /\ SameInputs /\ SamePhases({m}) /\ told' = told
  /\ seen[m].status = "ABSENT" /\ OthersSettled(m)
  /\ Phase(seen'[m]) = "open"

Enters(m) ==
  /\ SameReceipts /\ SamePhases({}) /\ told' = told
  /\ seen[m].status = "IN_FLIGHT" /\ OthersSettled(m) /\ InputsOf(m) = {}
  /\ \E r \in Records : InputsOf(m)' = {r}
  /\ \A n \in Messages \ {m} : InputsOf(n)' = InputsOf(n)

Confirms(m) ==
  /\ SameReceipts /\ SameInputs /\ SamePhases({m})
  /\ seen[m].status \in Unsettled /\ InputsOf(m) # {}
  /\ Phase(seen'[m]) = "delivered"
  /\ told' = told \/ \E t \in Texts : told' = told \cup {<<m, t>>}

Answers(m) ==
  /\ SameReceipts /\ SameInputs /\ SamePhases({})
  /\ seen[m].status = "ACKED"
  /\ \E t \in Texts : told' = told \cup {<<m, t>>}

Effect == Nothing \/ \E m \in Messages : Opens(m) \/ Enters(m) \/ Confirms(m) \/ Answers(m)

LEMMA NoEffect ==
  ASSUME UNCHANGED <<journal, host, told>>
  PROVE  Nothing
BY DEF Nothing, SameReceipts, SameInputs, SamePhases, InputsOf, seen

LEMMA NotedEffect ==
  ASSUME TypeOK, NEW m \in Messages, NEW e \in Entry,
         seen[m].status \in Unsettled, e.status \in Unsettled,
         journal' = [journal EXCEPT !.seen[m] = e], UNCHANGED <<host, told>>
  PROVE  Nothing
<1>1. seen'[m] = e /\ \A n \in Messages \ {m} : seen'[n] = seen[n]
  BY EditedJournal DEF seen
<1>2. Phase(seen[m]) = "open" /\ Phase(e) = "open" /\ seen[m].status # "ACKED"
  BY DEF Phase, Unsettled
<1>3. SameReceipts /\ SamePhases({})
  BY <1>1, <1>2 DEF SameReceipts, SamePhases
<1>4. SameInputs
  BY DEF SameInputs, InputsOf
<1>5. QED
  BY <1>3, <1>4 DEF Nothing

LEMMA SettledEffect ==
  ASSUME TypeOK, NEW m \in Messages, seen[m].status \in Unsettled, Entered(m),
         journal' = Settled(journal, m), UNCHANGED host,
         told' = told \/ \E t \in Texts : told' = told \cup {<<m, t>>}
  PROVE  Confirms(m)
<1>1. \A n \in Messages \ {m} : seen'[n] = seen[n]
  BY SettledJournal DEF seen
<1>2. seen'[m].status = "ACKED"
  <2>1. seen'[m] = [seen[m] EXCEPT !.status = "ACKED"] /\ seen[m] \in Entry
    BY SettledJournal DEF seen, TypeOK, Journal
  <2>2. QED
    BY <2>1 DEF Entry
<1>3. Phase(seen'[m]) = "delivered"
  BY <1>2 DEF Phase
<1>4. seen[m].status # "ACKED"
  BY DEF Unsettled
<1>5. SameReceipts /\ SamePhases({m})
  BY <1>1, <1>4 DEF SameReceipts, SamePhases
<1>6. SameInputs /\ InputsOf(m) # {}
  BY DEF SameInputs, InputsOf, Entered
<1>7. QED
  BY <1>3, <1>5, <1>6 DEF Confirms

LEMMA OpenIsAlone ==
  ASSUME OutboxIsOpen, NEW m \in Messages, journal.outbox = {m}
  PROVE  seen[m].status \in Unsettled /\ OthersSettled(m)
BY DEF OutboxIsOpen, OthersSettled

LEMMA BeginEffect ==
  ASSUME IInv, NEW i \in Callers, NEW m \in Messages, NEW t \in Texts,
         NEW c \in Connections, Begin(i, m, t, c)
  PROVE  Effect
<1>1. MayBegin(m, c) /\ UNCHANGED <<host, told>>
  BY DEF Begin
<1>2. CASE Seal(WithIntent(m, t, c))
  <2>1. /\ seen'[m].status = "IN_FLIGHT"
        /\ \A n \in Messages \ {m} : seen'[n] = seen[n]
    BY <1>2, IntendedJournal DEF Seal, IInv, seen
  <2>2. Phase(seen'[m]) = "open"
    BY <2>1 DEF Phase
  <2>3. seen[m].status = "ABSENT" /\ OthersSettled(m)
    BY <1>1 DEF MayBegin, IInv, Stored, OutboxIsOpen, OthersSettled
  <2>4. SameReceipts /\ SamePhases({m}) /\ SameInputs
    BY <1>1, <2>1, <2>3 DEF SameReceipts, SamePhases, SameInputs, InputsOf
  <2>5. QED
    BY <1>1, <2>2, <2>3, <2>4 DEF Opens, Effect
<1>3. CASE Tear(WithIntent(m, t, c))
  BY <1>1, <1>3, NoEffect DEF Tear, Effect
<1>4. QED
  BY <1>2, <1>3 DEF Begin

LEMMA AnswerEffect ==
  ASSUME NEW i \in Callers, NEW m \in Messages, NEW t \in Texts,
         NEW c \in Connections, AnswerDuplicate(i, m, t, c)
  PROVE  Effect
<1>1. UNCHANGED <<journal, host>> /\ seen[m].status = "ACKED"
      /\ told' = told \cup {<<m, t>>}
  BY DEF AnswerDuplicate
<1>2. SameReceipts /\ SamePhases({}) /\ SameInputs
  BY <1>1 DEF SameReceipts, SamePhases, SameInputs, InputsOf, seen
<1>3. QED
  BY <1>1, <1>2 DEF Answers, Effect

LEMMA SubmitEffect ==
  ASSUME IInv, NEW i \in Callers,
         SubmitNative(i) \/ SubmitRpc(i) \/ SubmitUnanswered(i)
  PROVE  Effect
<1> USE DeliveryAssumption
<1>1. /\ call[i].stage = "checked" /\ RunningCall(i)
      /\ TakeInput(call[i].msg, call[i].text, call[i].conn)
      /\ UNCHANGED <<journal, told>>
  BY DEF SubmitNative, SubmitRpc, SubmitUnanswered, IInv, CallsAreSound
<1>2. PICK m \in Messages : m = call[i].msg
  BY <1>1 DEF RunningCall
<1>3. /\ seen[m].status = "IN_FLIGHT" /\ ~Entered(m) /\ journal.outbox = {m}
  BY <1>1, <1>2 DEF RunningCall
<1>4. OthersSettled(m)
  BY <1>3, OpenIsAlone DEF IInv, Stored
<1>5. PICK r \in Records : /\ host[r].writer = None /\ host'[r].writer = m
                           /\ \A x \in Records \ {r} : host'[x] = host[x]
  <2>1. NewRecord \in Records /\ host[NewRecord] = NoInput
    BY <1>1, NewRecordIsFree DEF TakeInput
  <2>2. PICK a \in Records : a = NewRecord
    BY <2>1
  <2>3. host' = [host EXCEPT ![a] =
                   [writer |-> m, text |-> call[i].text, chat |-> call[i].conn]]
    BY <1>1, <1>2, <2>2 DEF TakeInput
  <2>4. host[a].writer = None
    BY <2>1, <2>2 DEF NoInput
  <2>5. QED
    BY <2>3, <2>4 DEF IInv, TypeOK
<1>6. InputsOf(m) = {}
  BY <1>3 DEF Entered, InputsOf
<1>7. InputsOf(m)' = {r}
  BY <1>5, <1>6 DEF InputsOf
<1>8. \A n \in Messages \ {m} : InputsOf(n)' = InputsOf(n)
  BY <1>5 DEF InputsOf
<1>9. SameReceipts /\ SamePhases({})
  BY <1>1 DEF SameReceipts, SamePhases, seen
<1>10. Enters(m)
  BY <1>1, <1>3, <1>4, <1>6, <1>7, <1>8, <1>9 DEF Enters
<1>11. QED
  BY <1>10 DEF Effect

LEMMA ForeignEffect ==
  ASSUME IInv, NEW t \in Texts, NEW c \in Connections, ForeignInput(t, c)
  PROVE  Effect
<1> USE DeliveryAssumption
<1>1. TakeInput(Foreign, t, c) /\ UNCHANGED <<journal, told>>
  BY DEF ForeignInput
<1>2. NewRecord \in Records /\ host[NewRecord] = NoInput
  BY <1>1, NewRecordIsFree DEF TakeInput
<1>3. PICK a \in Records : a = NewRecord
  BY <1>2
<1>4. host' = [host EXCEPT ![a] = [writer |-> Foreign, text |-> t, chat |-> c]]
      /\ host[a].writer = None
  BY <1>1, <1>2, <1>3 DEF TakeInput, NoInput
<1>5. \A x \in Records : host'[x].writer = host[x].writer \/ x = a
  BY <1>4 DEF IInv, TypeOK
<1>6. host'[a].writer = Foreign
  BY <1>4 DEF IInv, TypeOK
<1>7. SameInputs
  BY <1>4, <1>5, <1>6 DEF SameInputs, InputsOf
<1>8. SameReceipts /\ SamePhases({})
  BY <1>1 DEF SameReceipts, SamePhases, seen
<1>9. QED
  BY <1>1, <1>7, <1>8 DEF Nothing, Effect

LEMMA CompleteEffect ==
  ASSUME IInv, NEW i \in Callers, Complete(i)
  PROVE  Effect
<1>1. call[i].stage = "submitted" /\ RunningCall(i) /\ UNCHANGED host
  BY DEF Complete, IInv, CallsAreSound
<1>2. PICK m \in Messages : m = call[i].msg
  BY <1>1 DEF RunningCall
<1>3. Entered(m) /\ call[i].text \in Texts /\ journal.outbox = {m}
  BY <1>1, <1>2 DEF RunningCall
<1>4. seen[m].status \in Unsettled
  BY <1>3, OpenIsAlone DEF IInv, Stored
<1>5. CASE Seal(Settled(journal, m)) /\ told' \in {told, told \cup {<<m, call[i].text>>}}
  <2>1. /\ journal' = Settled(journal, m)
        /\ told' = told \/ \E t \in Texts : told' = told \cup {<<m, t>>}
    BY <1>3, <1>5 DEF Seal
  <2>2. Confirms(m)
    BY <1>1, <1>3, <1>4, <2>1, SettledEffect DEF IInv
  <2>3. QED
    BY <2>2 DEF Effect
<1>6. CASE (Tear(Settled(journal, m)) \/ Refuse(Settled(journal, m))) /\ told' = told
  BY <1>1, <1>6, NoEffect DEF Tear, Refuse, Effect
<1>7. QED
  BY <1>2, <1>5, <1>6 DEF Complete

LEMMA RecordEffect ==
  ASSUME IInv, NEW i \in Callers, call[i].stage # "idle",
         NEW m \in Messages, m = call[i].msg, NEW e \in Entry, e.status \in Unsettled,
         LET j == [journal EXCEPT !.seen[m] = e] IN Seal(j) \/ Tear(j) \/ Refuse(j),
         UNCHANGED <<host, visible, told>>
  PROVE  Effect
<1>1. journal.outbox = {m}
  BY DEF IInv, CallsAreSound, RunningCall
<1>2. seen[m].status \in Unsettled
  BY <1>1, OpenIsAlone DEF IInv, Stored
<1>3. CASE Seal([journal EXCEPT !.seen[m] = e])
  BY <1>2, <1>3, NotedEffect DEF Seal, IInv, Effect
<1>4. CASE journal' = journal
  BY <1>4, NoEffect DEF Effect
<1>5. QED
  BY <1>3, <1>4 DEF Tear, Refuse

LEMMA RecordsEffect ==
  ASSUME IInv, NEW i \in Callers,
         RecordAcceptance(i) \/ RecordSubmission(i) \/ RecordUncertain(i)
  PROVE  Effect
<1>1. call[i].stage # "idle" /\ RunningCall(i) /\ call[i] \in Call
  BY CallTypes DEF RecordAcceptance, RecordSubmission, RecordUncertain, IInv, CallsAreSound
<1>2. PICK m \in Messages : m = call[i].msg
  BY <1>1 DEF RunningCall
<1>3. journal.outbox = {m} /\ seen[m] \in Entry /\ call[i].native \in Records \cup {None}
  BY <1>1, <1>2 DEF RunningCall, IInv, TypeOK, Journal, Call, seen
<1>4. seen[m].status \in Unsettled
  BY <1>3, OpenIsAlone DEF IInv, Stored
<1>5. CASE RecordAcceptance(i)
  <2>1. PICK e \in Entry : e = [seen[m] EXCEPT !.known = TRUE]
    BY <1>3 DEF Entry
  <2>2. Record(i, e, "polling") /\ e.status \in Unsettled
    BY <1>2, <1>3, <1>4, <1>5, <2>1 DEF RecordAcceptance, Entry
  <2>3. QED
    BY <1>1, <1>2, <2>2, RecordEffect DEF Record
<1>6. CASE RecordSubmission(i)
  <2>1. PICK e \in Entry : e = [seen[m] EXCEPT !.status = "SUBMITTED", !.known = TRUE,
                                 !.native = call[i].native]
    BY <1>3 DEF Entry, Statuses, Unsettled
  <2>2. Record(i, e, "submitted") /\ e.status \in Unsettled
    BY <1>2, <1>3, <1>6, <2>1 DEF RecordSubmission, Entry, Unsettled
  <2>3. QED
    BY <1>1, <1>2, <2>2, RecordEffect DEF Record
<1>7. CASE RecordUncertain(i)
  <2>1. PICK e \in Entry : e = [seen[m] EXCEPT !.status = "UNCERTAIN"]
    BY <1>3 DEF Entry, Statuses, Unsettled
  <2>2. [journal EXCEPT !.seen[m].status = "UNCERTAIN"] = [journal EXCEPT !.seen[m] = e]
    BY <2>1 DEF seen
  <2>3. e.status \in Unsettled /\ UNCHANGED <<host, visible, told>>
    BY <1>3, <1>7, <2>1 DEF RecordUncertain, Entry, Unsettled
  <2>4. Seal([journal EXCEPT !.seen[m] = e]) \/ Tear([journal EXCEPT !.seen[m] = e])
    BY <1>2, <1>7, <2>2 DEF RecordUncertain
  <2>5. QED
    BY <1>1, <1>2, <2>3, <2>4, RecordEffect
<1>8. QED
  BY <1>5, <1>6, <1>7

LEMMA ReconcileEffect ==
  ASSUME IInv, NEW m \in Messages, Reconcile(m)
  PROVE  Effect
<1>1. /\ UNCHANGED <<host, told>> /\ seen[m].status \in Unsettled /\ Entered(m)
      /\ Seal(Settled(journal, m)) \/ Tear(Settled(journal, m))
  BY DEF Reconcile, IInv, Stored, Evidence
<1>2. CASE Seal(Settled(journal, m))
  BY <1>1, <1>2, SettledEffect DEF Seal, IInv, Effect
<1>3. CASE Tear(Settled(journal, m))
  BY <1>1, <1>3, NoEffect DEF Tear, Effect
<1>4. QED
  BY <1>1, <1>2, <1>3

LEMMA MigrateEffect ==
  ASSUME IInv, Migrate
  PROVE  Effect
<1>1. seen' = seen /\ UNCHANGED <<host, told>>
  BY DEF Migrate, Seal, Tear, seen, IInv, TypeOK, Journal
<1>2. Nothing
  BY <1>1 DEF Nothing, SameReceipts, SameInputs, SamePhases, InputsOf
<1>3. QED
  BY <1>2 DEF Effect

LEMMA NextEffect == IInv /\ [Next]_vars => Effect
<1> SUFFICES ASSUME IInv, [Next]_vars PROVE Effect
  OBVIOUS
<1>1. CASE UNCHANGED <<journal, host, told>>
  BY <1>1, NoEffect DEF Effect
<1>2. ASSUME NEW i \in Callers, NEW m \in Messages, NEW t \in Texts, NEW c \in Connections,
             Begin(i, m, t, c) \/ AnswerDuplicate(i, m, t, c)
      PROVE  Effect
  BY <1>2, BeginEffect, AnswerEffect
<1>3. ASSUME NEW i \in Callers, Step(i)
      PROVE  Effect
  <2>1. CASE TakeBaseline(i) \/ FindNewRecord(i) \/ Fail(i)
    BY <1>1, <2>1 DEF TakeBaseline, FindNewRecord, Fail
  <2>2. QED
    BY <1>3, <2>1, SubmitEffect, RecordsEffect, CompleteEffect DEF Step
<1>4. ASSUME NEW i \in Callers, Crash(i)
      PROVE  Effect
  BY <1>1, <1>4 DEF Crash
<1>5. ASSUME NEW m \in Messages, Reconcile(m) PROVE Effect
  BY <1>5, ReconcileEffect
<1>6. CASE Migrate
  BY <1>6, MigrateEffect
<1>7. ASSUME NEW t \in Texts, NEW c \in Connections, ForeignInput(t, c) PROVE Effect
  BY <1>7, ForeignEffect
<1>8. ASSUME NEW r \in Records, Appear(r) PROVE Effect
  BY <1>1, <1>8 DEF Appear
<1>9. CASE UNCHANGED vars
  BY <1>1, <1>9 DEF vars
<1>10. QED
  BY <1>2, <1>3, <1>4, <1>5, <1>6, <1>7, <1>8, <1>9 DEF Next
-----------------------------------------------------------------------------
(* What a step may never do                                                *)

\* Nothing is submitted while the fate of another message is unknown, nor a
\* message without its own persisted intent (deliver, lines 79-96).
THEOREM SubmitsOnlyInSilence == Spec => SilentWhileUnknown
<1> DEFINE Silent == \A m \in Messages : InputsOf(m)' # InputsOf(m) =>
             /\ seen[m].status = "IN_FLIGHT"
             /\ \A n \in Messages \ {m} : seen[n].status \notin Unsettled
<1>1. IInv /\ [Next]_vars => [Silent]_vars
  <2> SUFFICES ASSUME Effect PROVE Silent
    BY NextEffect
  <2>1. CASE SameInputs
    BY <2>1 DEF SameInputs
  <2>2. ASSUME NEW m \in Messages, Enters(m) PROVE Silent
    BY <2>2 DEF Enters, OthersSettled
  <2>3. QED
    BY <2>1, <2>2 DEF Effect, Nothing, Opens, Confirms, Answers
<1>2. QED
  BY <1>1, Invariance, PTL DEF Spec, SilentWhileUnknown

\* A settled receipt is never changed by any operation on the root.
THEOREM ReceiptsStand == Spec => ReceiptIsFinal
<1> DEFINE Final == \A m \in Messages : seen[m].status = "ACKED" => seen'[m] = seen[m]
<1>1. IInv /\ [Next]_vars => [Final]_vars
  BY NextEffect DEF Effect, Nothing, Opens, Enters, Confirms, Answers, SameReceipts
<1>2. QED
  BY <1>1, Invariance, PTL DEF Spec, ReceiptIsFinal
-----------------------------------------------------------------------------
(* The relay implements its promise                                        *)

LEMMA InitPromise == Init => Promise!Init
<1> SUFFICES ASSUME Init PROVE Promise!Init
  OBVIOUS
<1>1. IInv /\ told = {}
  BY InitInv DEF Init
<1>2. \A m \in Messages : Phase(seen[m]) \in {"new", "open", "delivered"}
  BY DEF Phase
<1>3. \A m \in Messages : InputsOf(m) \in SUBSET Records
  BY DEF InputsOf
<1>4. Promise!TypeOK
  BY <1>1, <1>2, <1>3 DEF Promise!TypeOK
<1>5. \A m \in Messages : /\ Phase(seen[m]) = "new" => seen[m].status = "ABSENT"
                          /\ Phase(seen[m]) = "open" => seen[m].status \in Unsettled
                          /\ Phase(seen[m]) = "delivered" => seen[m].status = "ACKED"
  BY <1>1 DEF Phase, IInv, TypeOK, Journal, Entry, Statuses, seen
<1>6. \A m \in Messages : /\ seen[m].status = "ABSENT" => InputsOf(m) = {}
                          /\ seen[m].status = "ACKED" => InputsOf(m) # {}
                          /\ \A r, s \in InputsOf(m) : r = s
  BY <1>1 DEF IInv, Stored, Evidence, Entered, InputsOf, AtMostOneInput
<1>7. \A m, n \in Messages :
        seen[m].status \in Unsettled /\ seen[n].status \in Unsettled => m = n
  BY <1>1 DEF IInv, Stored, OutboxIsOpen
<1>8. QED
  BY <1>1, <1>4, <1>5, <1>6, <1>7 DEF Promise!Init

LEMMA StepPromise == Effect /\ TypeOK => [Promise!Next]_Promise!vars
<1> SUFFICES ASSUME Effect, TypeOK PROVE [Promise!Next]_Promise!vars
  OBVIOUS
<1> DEFINE phase == [m \in Messages |-> Phase(seen[m])]
           inputs == [m \in Messages |-> InputsOf(m)]
           answered == {p[1] : p \in told}
<1>1. SamePhases({}) => phase' = phase
  BY DEF SamePhases
<1>2. SameInputs => inputs' = inputs
  BY DEF SameInputs
<1>3. ASSUME NEW m \in Messages, SamePhases({m})
      PROVE  phase' = [phase EXCEPT ![m] = Phase(seen'[m])]
  BY <1>3 DEF SamePhases
<1>4. told' = told => answered' = answered
  OBVIOUS
<1>5. ASSUME NEW m \in Messages, \E t \in Texts : told' = told \cup {<<m, t>>}
      PROVE  answered' = answered \cup {m}
  <2>1. PICK t \in Texts : told' = told \cup {<<m, t>>}
    BY <1>5
  <2>2. PICK p : p = <<m, t>>
    OBVIOUS
  <2>3. p[1] = m /\ told' = told \cup {p}
    BY <2>1, <2>2
  <2>4. \A x : x \in answered' <=> x \in answered \/ x = m
    BY <2>3
  <2>5. QED
    BY <2>4
<1>6. \A m \in Messages : phase[m] = Phase(seen[m]) /\ inputs[m] = InputsOf(m)
  OBVIOUS
<1>7. \A m \in Messages :
        /\ seen[m].status = "ABSENT" <=> phase[m] = "new"
        /\ seen[m].status \in Unsettled <=> phase[m] = "open"
        /\ seen[m].status = "ACKED" <=> phase[m] = "delivered"
  BY DEF Phase, TypeOK, Journal, Entry, Statuses, Unsettled, seen
<1> HIDE DEF phase, inputs, answered
<1>8. CASE Nothing
  BY <1>8, <1>1, <1>2, <1>4 DEF Nothing, Promise!vars, phase, inputs, answered
<1>9. ASSUME NEW m \in Messages, Opens(m) PROVE Promise!Open(m)
  <2>1. /\ phase[m] = "new" /\ \A n \in Messages : phase[n] # "open"
        /\ phase' = [phase EXCEPT ![m] = "open"]
        /\ inputs' = inputs /\ answered' = answered
    BY <1>9, <1>2, <1>3, <1>4, <1>7 DEF Opens, OthersSettled, Unsettled
  <2>2. QED
    BY <2>1 DEF Promise!Open, phase, inputs, answered
<1>10. ASSUME NEW m \in Messages, Enters(m)
       PROVE  \E r \in Records : Promise!Enter(m, r)
  <2>1. PICK r \in Records : InputsOf(m)' = {r}
    BY <1>10 DEF Enters
  <2>2. inputs' = [inputs EXCEPT ![m] = {r}]
    BY <1>10, <2>1 DEF Enters, inputs
  <2>3. phase[m] = "open" /\ inputs[m] = {} /\ phase' = phase /\ answered' = answered
    BY <1>10, <1>1, <1>4, <1>6, <1>7 DEF Enters, Unsettled
  <2>4. QED
    BY <2>2, <2>3 DEF Promise!Enter, phase, inputs, answered
<1>11. ASSUME NEW m \in Messages, Confirms(m) PROVE Promise!Confirm(m)
  <2>1. /\ phase[m] = "open" /\ inputs[m] # {}
        /\ phase' = [phase EXCEPT ![m] = "delivered"] /\ inputs' = inputs
        /\ answered' = answered \cup {m} \/ answered' = answered
    BY <1>11, <1>2, <1>3, <1>4, <1>5, <1>6, <1>7 DEF Confirms
  <2>2. QED
    BY <2>1 DEF Promise!Confirm, phase, inputs, answered
<1>12. ASSUME NEW m \in Messages, Answers(m) PROVE Promise!Answer(m)
  <2>1. /\ phase[m] = "delivered" /\ answered' = answered \cup {m}
        /\ phase' = phase /\ inputs' = inputs
    BY <1>12, <1>1, <1>2, <1>5, <1>7 DEF Answers
  <2>2. QED
    BY <2>1 DEF Promise!Answer, phase, inputs, answered
<1>13. QED
  BY <1>8, <1>9, <1>10, <1>11, <1>12 DEF Effect, Promise!Next

\* Journal, lock, crashes, ports, reconciliation and migration together
\* implement the abstract relay of AtMostOnce.
THEOREM RelayKeepsPromise == Spec => KeepsPromise
<1>1. IInv /\ [Next]_vars => [Promise!Next]_Promise!vars
  BY NextEffect, StepPromise DEF IInv
<1>2. QED
  BY <1>1, InitPromise, Invariance, PTL DEF Spec, KeepsPromise, Promise!Spec
=============================================================================
