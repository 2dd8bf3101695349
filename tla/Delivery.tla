------------------------------- MODULE Delivery -------------------------------
(***************************************************************************)
(* One delivery root of the relay: the snapshot journal, the relay lock,   *)
(* the callers that send through PortConnection / OpaqueDelivery, the late *)
(* reconciliation, the legacy migration, and the peer chat they write to.  *)
(*                                                                         *)
(* A caller is one foreground process.  Whatever it does between two       *)
(* effects another process or the chat can see is one step: taking the     *)
(* lock, checking the journal and persisting the intent is Begin, since    *)
(* the lock is non-blocking and held from the first read to the end.       *)
(* A call the code refuses (a typed CandidateError before any effect)      *)
(* leaves every variable as it is, so it is a stuttering step here.        *)
(***************************************************************************)
EXTENDS Naturals, FiniteSets

CONSTANTS
  Callers,          \* foreground processes that share the delivery root
  Messages,         \* message ids
  Texts,            \* exact payloads (equal texts have equal digests)
  Connections,      \* connection identities: endpoint pair with generations
  FirstConnection,  \* the identity whose endpoints are generation 1
  Records,          \* native input ids the peer chats may allocate
  JournalBound,     \* what MAX_BYTES of a snapshot holds, in evidence items
  None,             \* no value
  Legacy,           \* a journal written before connection identities existed
  Foreign           \* the author of chat inputs that are not the relay's

ASSUME DeliveryAssumption ==
  /\ FirstConnection \in Connections
  /\ JournalBound \in Nat
  /\ None \notin Callers \cup Texts \cup Connections \cup Records \cup Messages
  /\ Legacy \notin Connections \cup {None}
  /\ Foreign \notin Messages \cup {None}

VARIABLES
  journal,  \* the state of the last sealed snapshot
  torn,     \* a *.pending snapshot is left over
  lock,     \* who holds flock(relay.lock)
  call,     \* per caller, the local state of its send
  host,     \* per native id, the input of the peer chat
  visible,  \* native ids a read of the peer chat returns
  told      \* <<message, text>> pairs a caller was told are received

vars == <<journal, torn, lock, call, host, visible, told>>

-----------------------------------------------------------------------------
(* Data                                                                    *)

Unsettled == {"IN_FLIGHT", "SUBMITTED", "UNCERTAIN"}
Statuses == Unsettled \cup {"ABSENT", "ACKED"}
Stages == {"idle", "intent", "checked", "sent", "polling", "found",
           "submitted", "failing"}

Entry == [status : Statuses, text : Texts \cup {None},
          known : BOOLEAN, native : Records \cup {None}]
Journal == [conn : Connections \cup {None, Legacy},
            seen : [Messages -> Entry], outbox : SUBSET Messages]
Call == [stage : Stages, msg : Messages \cup {None}, text : Texts \cup {None},
         conn : Connections \cup {None}, baseline : SUBSET Records,
         native : Records \cup {None}]
Input == [writer : Messages \cup {Foreign, None},
          text : Texts \cup {None}, chat : Connections \cup {None}]

Absent == [status |-> "ABSENT", text |-> None, known |-> FALSE, native |-> None]
Idle == [stage |-> "idle", msg |-> None, text |-> None, conn |-> None,
         baseline |-> {}, native |-> None]
NoInput == [writer |-> None, text |-> None, chat |-> None]

seen == journal.seen
InputsOf(m) == {r \in Records : host[r].writer = m}

\* What ChatView returns for one chat.
View(c) == {r \in visible : host[r].chat = c}

-----------------------------------------------------------------------------
(* The snapshot store                                                      *)

\* A snapshot carries the whole event history, so each piece of evidence
\* (intent, acceptance, native id, acknowledgement) makes the next one longer.
Size(j) ==
  LET Has(P(_)) == Cardinality({m \in Messages : P(j.seen[m])})
  IN  Has(LAMBDA e : e.status # "ABSENT") + Has(LAMBDA e : e.known)
      + Has(LAMBDA e : e.native # None) + Has(LAMBDA e : e.status = "ACKED")

\* SnapshotStore.save succeeded: the pending file is sealed by the rename.
Seal(j) == ~torn /\ Size(j) <= JournalBound /\ journal' = j /\ torn' = torn

\* It stopped between creating the pending file and the rename (a crash or an
\* I/O error); from then on every operation on the root is refused.
Tear(j) == ~torn /\ Size(j) <= JournalBound /\ journal' = journal /\ torn' = TRUE

\* It refused the oversized document before writing anything.
Refuse(j) == Size(j) > JournalBound /\ UNCHANGED <<journal, torn>>

\* The call returns or raises: `finally` closes the lock file.
Leave(i) ==
  /\ call' = [call EXCEPT ![i] = Idle]
  /\ lock' = None

-----------------------------------------------------------------------------
(* OpaqueDelivery.deliver, PortConnection.send and the host ports          *)

\* Seeded faults: an uncertain message may be sent again; the connection of the
\* journal is not compared; the outbox is not consulted; a settled message is
\* not recognised as a duplicate.
MayRetryUncertain(m, c) ==
  journal.conn \in {None, c} /\ seen[m].status \in {"ABSENT", "UNCERTAIN"}
MayUseAnyConnection(m, c) ==
  journal.conn # Legacy /\ seen[m].status = "ABSENT" /\ journal.outbox = {}
MayIgnoreOutbox(m, c) ==
  journal.conn \in {None, c} /\ seen[m].status = "ABSENT"
MayRepeatSettled(m, c) ==
  journal.conn \in {None, c} /\ journal.outbox = {}

\* The journal accepts a new message of this connection.
MayBegin(m, c) ==
  /\ journal.conn \in {None, c}
  /\ seen[m].status = "ABSENT"
  /\ journal.outbox = {}

\* Seeded fault: the intent is persisted without its outbox mark.
IntentWithoutOutbox(m, t, c) ==
  [conn |-> c, outbox |-> {},
   seen |-> [seen EXCEPT ![m] = [Absent EXCEPT !.status = "IN_FLIGHT", !.text = t]]]

WithIntent(m, t, c) ==
  [conn |-> c,
   seen |-> [seen EXCEPT ![m] = [Absent EXCEPT !.status = "IN_FLIGHT", !.text = t]],
   outbox |-> {m}]

\* Lock, check the journal, persist the intent: nothing has been sent yet.
Begin(i, m, t, c) ==
  /\ call[i].stage = "idle" /\ lock = None /\ ~torn
  /\ MayBegin(m, c)
  /\ LET j == WithIntent(m, t, c)
     IN  \/ /\ Seal(j)
            /\ lock' = i
            /\ call' = [call EXCEPT ![i] = [Idle EXCEPT !.stage = "intent",
                           !.msg = m, !.text = t, !.conn = c]]
         \/ Tear(j) /\ UNCHANGED <<lock, call>>
  /\ UNCHANGED <<host, visible, told>>

\* Seeded fault: the event digest is not compared before answering.
AnswerAnyText(i, m, t, c) ==
  /\ call[i].stage = "idle" /\ lock = None /\ ~torn
  /\ journal.conn = c
  /\ seen[m].status = "ACKED"
  /\ told' = told \cup {<<m, t>>}
  /\ UNCHANGED <<journal, torn, lock, call, host, visible>>

\* The same message again: the settled receipt is the answer, nothing is sent.
AnswerDuplicate(i, m, t, c) ==
  /\ call[i].stage = "idle" /\ lock = None /\ ~torn
  /\ journal.conn = c
  /\ seen[m].status = "ACKED" /\ seen[m].text = t
  /\ told' = told \cup {<<m, t>>}
  /\ UNCHANGED <<journal, torn, lock, call, host, visible>>

\* Seeded fault: the records already in the chat are not remembered.
TakeNoBaseline(i) ==
  /\ call[i].stage = "intent"
  /\ call' = [call EXCEPT ![i].stage = "checked"]
  /\ UNCHANGED <<journal, torn, lock, host, visible, told>>

\* Read the chat before submitting; a busy chat fails the call instead.
TakeBaseline(i) ==
  /\ call[i].stage = "intent"
  /\ call' = [call EXCEPT ![i].stage = "checked", ![i].baseline = View(call[i].conn)]
  /\ UNCHANGED <<journal, torn, lock, host, visible, told>>

FreeRecords == {r \in Records : host[r] = NoInput}
NewRecord == CHOOSE r \in Records : host[r] = NoInput

\* The peer chat takes an input; a later read will show it.
TakeInput(w, t, c) ==
  /\ FreeRecords # {}
  /\ host' = [host EXCEPT ![NewRecord] = [writer |-> w, text |-> t, chat |-> c]]

\* A native chat accepts the text without naming the input it made.
SubmitNative(i) ==
  /\ call[i].stage = "checked"
  /\ TakeInput(call[i].msg, call[i].text, call[i].conn)
  /\ call' = [call EXCEPT ![i].stage = "sent"]
  /\ UNCHANGED <<journal, torn, lock, visible, told>>

\* A JSON-RPC host names the input in its reply.
SubmitRpc(i) ==
  /\ call[i].stage = "checked"
  /\ TakeInput(call[i].msg, call[i].text, call[i].conn)
  /\ call' = [call EXCEPT ![i].stage = "found", ![i].native = NewRecord]
  /\ UNCHANGED <<journal, torn, lock, visible, told>>

\* The reply is lost, late or malformed, although the chat took the input.
SubmitUnanswered(i) ==
  /\ call[i].stage = "checked"
  /\ TakeInput(call[i].msg, call[i].text, call[i].conn)
  /\ call' = [call EXCEPT ![i].stage = "failing"]
  /\ UNCHANGED <<journal, torn, lock, visible, told>>

\* Persist new evidence about the open message and go on to stage s.  A save
\* that fails raises inside the host callback, and the UNCERTAIN save that
\* follows fails for the same reason (all open statuses have one length).
Record(i, e, s) ==
  LET j == [journal EXCEPT !.seen[call[i].msg] = e]
  IN  /\ \/ /\ Seal(j)
            /\ call' = [call EXCEPT ![i].stage = s]
            /\ lock' = lock
         \/ (Tear(j) \/ Refuse(j)) /\ Leave(i)
      /\ UNCHANGED <<host, visible, told>>

\* record_host_acceptance: accepted, but which input it is is still unknown.
RecordAcceptance(i) ==
  /\ call[i].stage = "sent"
  /\ Record(i, [seen[call[i].msg] EXCEPT !.known = TRUE], "polling")

\* Exactly one new record with this text identifies the submission.
FindNewRecord(i) ==
  /\ call[i].stage = "polling"
  /\ \E r \in Records :
       /\ {x \in View(call[i].conn) \ call[i].baseline : host[x].text = call[i].text} = {r}
       /\ call' = [call EXCEPT ![i].stage = "found", ![i].native = r]
  /\ UNCHANGED <<journal, torn, lock, host, visible, told>>

\* record_submission.
RecordSubmission(i) ==
  /\ call[i].stage = "found"
  /\ Record(i, [seen[call[i].msg] EXCEPT !.status = "SUBMITTED", !.known = TRUE,
                  !.native = call[i].native], "submitted")

\* Seeded fault: a status no other operation knows.
SettledAsDelivered(j, m) == [j EXCEPT !.seen[m].status = "DELIVERED", !.outbox = {}]

Settled(j, m) == [j EXCEPT !.seen[m].status = "ACKED", !.outbox = {}]

\* Seeded fault: a named submission is taken for an observed input.
CompleteOnSubmission(i) ==
  /\ call[i].stage = "submitted"
  /\ LET j == Settled(journal, call[i].msg)
     IN  \/ Seal(j) /\ told' \in {told, told \cup {<<call[i].msg, call[i].text>>}}
         \/ (Tear(j) \/ Refuse(j)) /\ told' = told
  /\ Leave(i)
  /\ UNCHANGED <<host, visible>>

\* The host shows that very input with the exact text: acknowledge and return
\* (or die between the two).
Complete(i) ==
  /\ call[i].stage = "submitted"
  /\ call[i].native \in View(call[i].conn)
  /\ host[call[i].native].text = call[i].text
  /\ LET j == Settled(journal, call[i].msg)
     IN  \/ Seal(j) /\ told' \in {told, told \cup {<<call[i].msg, call[i].text>>}}
         \/ (Tear(j) \/ Refuse(j)) /\ told' = told
  /\ Leave(i)
  /\ UNCHANGED <<host, visible>>

\* Seeded fault: the wait for the new record has no deadline.
FailUnlessPolling(i) ==
  /\ call[i].stage \in {"intent", "checked", "found", "submitted"}
  /\ call' = [call EXCEPT ![i].stage = "failing"]
  /\ UNCHANGED <<journal, torn, lock, host, visible, told>>

\* Any check of the host callback fails, or the 120 s deadline passes: the
\* intent bridge turns the exception into a missing acknowledgement.
Fail(i) ==
  /\ call[i].stage \in {"intent", "checked", "polling", "found", "submitted"}
  /\ call' = [call EXCEPT ![i].stage = "failing"]
  /\ UNCHANGED <<journal, torn, lock, host, visible, told>>

\* The missing acknowledgement is persisted as UNCERTAIN and raised.
RecordUncertain(i) ==
  /\ call[i].stage = "failing"
  /\ LET j == [journal EXCEPT !.seen[call[i].msg].status = "UNCERTAIN"]
     IN  Seal(j) \/ Tear(j)
  /\ Leave(i)
  /\ UNCHANGED <<host, visible, told>>

\* The process dies at any point of a call; the kernel drops its lock.
Crash(i) ==
  /\ call[i].stage # "idle"
  /\ Leave(i)
  /\ UNCHANGED <<journal, torn, host, visible, told>>

-----------------------------------------------------------------------------
(* Late reconciliation and legacy migration                                *)

\* reconcile_observation: the recorded submission was read late, so the
\* unknown is settled without sending anything.
Reconcile(m) ==
  /\ lock = None /\ ~torn
  /\ journal.conn \in Connections
  /\ seen[m].known /\ seen[m].native \in View(journal.conn)
  /\ host[seen[m].native].text = seen[m].text
  /\ seen[m].status \in Unsettled /\ journal.outbox = {m}
  /\ LET j == Settled(journal, m) IN Seal(j) \/ Tear(j)
  /\ UNCHANGED <<lock, call, host, visible, told>>

\* migrate_legacy_state: every old entry is settled and has a receipt of the
\* actual input; only then does the journal get a connection identity.
Migrate ==
  /\ lock = None /\ ~torn
  /\ journal.conn = Legacy /\ journal.outbox = {}
  /\ \E m \in Messages : seen[m].status # "ABSENT"
  /\ \A m \in Messages : seen[m].status \in {"ABSENT", "ACKED"}
  /\ LET j == [journal EXCEPT !.conn = FirstConnection] IN Seal(j) \/ Tear(j)
  /\ UNCHANGED <<lock, call, host, visible, told>>

-----------------------------------------------------------------------------
(* The peer chat                                                           *)

\* Someone else writes into the chat, possibly the very same text.
ForeignInput(t, c) ==
  /\ TakeInput(Foreign, t, c)
  /\ UNCHANGED <<journal, torn, lock, call, visible, told>>

\* An input the chat took shows up in reads.
Appear(r) ==
  /\ host[r] # NoInput /\ r \notin visible
  /\ visible' = visible \cup {r}
  /\ UNCHANGED <<journal, torn, lock, call, host, told>>

-----------------------------------------------------------------------------
FreshJournal ==
  [conn |-> None, seen |-> [m \in Messages |-> Absent], outbox |-> {}]

\* A journal of the old fixed-route relay with one delivery in it.
LegacyJournal(m, t, s) ==
  [conn |-> Legacy,
   seen |-> [FreshJournal.seen EXCEPT ![m] = [Absent EXCEPT !.status = s, !.text = t]],
   outbox |-> IF s = "ACKED" THEN {} ELSE {m}]

Init ==
  /\ torn = FALSE /\ lock = None /\ told = {}
  /\ call = [i \in Callers |-> Idle]
  /\ \/ /\ journal = FreshJournal
        /\ host = [r \in Records |-> NoInput]
        /\ visible = {}
     \/ \E m \in Messages, t \in Texts, s \in {"ACKED", "UNCERTAIN"}, r \in Records :
          /\ journal = LegacyJournal(m, t, s)
          /\ host = [x \in Records |-> IF x = r
                       THEN [writer |-> m, text |-> t, chat |-> FirstConnection]
                       ELSE NoInput]
          /\ visible = IF s = "ACKED" THEN {r} ELSE {}

\* What a running call does on its own.
Step(i) ==
  \/ TakeBaseline(i)
  \/ SubmitNative(i) \/ SubmitRpc(i) \/ SubmitUnanswered(i)
  \/ RecordAcceptance(i) \/ FindNewRecord(i) \/ RecordSubmission(i)
  \/ Complete(i) \/ Fail(i) \/ RecordUncertain(i)

Next ==
  \/ \E i \in Callers :
       \/ \E m \in Messages, t \in Texts, c \in Connections :
            Begin(i, m, t, c) \/ AnswerDuplicate(i, m, t, c)
       \/ Step(i)
       \/ Crash(i)
  \/ \E m \in Messages : Reconcile(m)
  \/ Migrate
  \/ \E t \in Texts, c \in Connections : ForeignInput(t, c)
  \/ \E r \in Records : Appear(r)

Spec == Init /\ [][Next]_vars

\* A live process keeps running, and no wait of a call outlasts its deadline.
FairSpec == Spec /\ \A i \in Callers : WF_vars(Step(i))
-----------------------------------------------------------------------------
(* Properties                                                              *)

\* Shapes of the journal, the callers and the chat.
TypeOK ==
  /\ journal \in Journal
  /\ torn \in BOOLEAN
  /\ lock \in Callers \cup {None}
  /\ call \in [Callers -> Call]
  /\ host \in [Records -> Input]
  /\ visible \subseteq Records
  /\ told \subseteq Messages \X Texts

\* A message enters the peer chat at most once, whatever crashes, lost
\* replies, repeated calls and competing callers do (deliver, lines 69-96).
AtMostOneInput ==
  \A m \in Messages : \A r, s \in InputsOf(m) : r = s

\* A message is settled only if the peer chat shows an input with exactly the
\* journalled text, and that very input when the journal names one.
SettledWasReceived ==
  \A m \in Messages : seen[m].status = "ACKED" =>
    \E r \in visible :
      /\ host[r].text = seen[m].text
      /\ seen[m].native \in {None, r}

\* Two messages with the same text never claim the same native input, even
\* though the chat names no message and others may type the same text.
OneInputSettlesOneMessage ==
  \A m, n \in Messages :
    seen[m].native # None /\ seen[m].native = seen[n].native => m = n

\* While the fate of one message is unknown nothing else is submitted, and a
\* message is submitted only under its own freshly persisted intent.
SilentWhileUnknown ==
  [][\A m \in Messages : InputsOf(m)' # InputsOf(m) =>
       /\ seen[m].status = "IN_FLIGHT"
       /\ \A n \in Messages \ {m} : seen[n].status \notin Unsettled]_vars

\* A settled receipt is never reopened or rewritten by a later call,
\* reconciliation or migration.
ReceiptIsFinal ==
  [][\A m \in Messages : seen[m].status = "ACKED" => seen'[m] = seen[m]]_vars

\* What a caller was told is received is settled in the journal with the very
\* text of that call, in every later state: torn snapshots, crashes and size
\* refusals never leave a caller ahead of the journal.
AnswersAreBacked ==
  \A p \in told : seen[p[1]].status = "ACKED" /\ seen[p[1]].text = p[2]

\* All inputs made from one delivery root go to the chat of the one connection
\* its journal is bound to.
OneRoute ==
  \A r \in Records : host[r].writer \in Messages =>
    host[r].chat = IF journal.conn = Legacy THEN FirstConnection ELSE journal.conn

\* A call never keeps the lock of the root for ever.
LockIsReleased == lock # None ~> lock = None

\* The refinement mapping to the promise of the relay.
Phase(e) == CASE e.status = "ABSENT" -> "new"
              [] e.status = "ACKED" -> "delivered"
              [] OTHER -> "open"

Promise == INSTANCE AtMostOnce WITH
  phase <- [m \in Messages |-> Phase(seen[m])],
  inputs <- [m \in Messages |-> InputsOf(m)],
  told <- {p[1] : p \in told}

\* The relay, with its journal, lock, crashes and hosts, keeps that promise.
KeepsPromise == Promise!Spec
=============================================================================
