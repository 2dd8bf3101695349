------------------------------ MODULE Lifecycle ------------------------------
(***************************************************************************)
(* Creation of projects and successor chats, and renaming of a registered  *)
(* project: ProjectLifecycle with its journal, its processes, the host     *)
(* that creates and the catalogue that shows what exists, later.           *)
(*                                                                         *)
(* The lifecycle lock is taken more than once by a call: to look for an    *)
(* earlier operation of the intent (Choose; PassProject and ChooseRename   *)
(* for a registered project), and again to persist the intent and run it   *)
(* (Submit to Conclude).  In between anything may happen.                  *)
(***************************************************************************)
EXTENDS Naturals, FiniteSets

CONSTANTS
  Callers,      \* foreground processes on one lifecycle root
  Requests,     \* the intents callers come with
  Natives,      \* native ids of projects and chats
  Peer,         \* the registered project that a "RENAME" intent comes with
  Predecessor,  \* the chat a successor is asked for
  OldName,      \* the name Peer has at first
  None          \* no value

Kinds == {"PROJECT", "RENAME", "CHAT"}

\* `key` is what an intent is looked up by (the handoff of a successor, the
\* name of a project), `terms` what must not change (owner trigger, topic).
ASSUME LifecycleAssumption ==
  /\ \A r \in Requests : DOMAIN r = {"kind", "key", "terms"} /\ r.kind \in Kinds
  /\ {Peer, Predecessor} \subseteq Natives /\ Peer # Predecessor
  /\ None \notin Natives \cup Callers \cup Requests
  /\ None \notin {r.key : r \in Requests} \cup {OldName}

VARIABLES
  operations,  \* the journal: spec of an operation -> status and resource
  lock,        \* who holds flock(lifecycle.lock)
  call,        \* per caller, the local state of its call
  maker,       \* per native id, the operation the host made it for
  title,       \* per native id, its name at the host (None: does not exist)
  shown,       \* per native id, the name the catalogue shows
  told,        \* what callers were given: for which intent, and from where
  named,       \* history: <<native id, name>> pairs there have been at the host
  overlapped   \* history: handoffs with two calls under way at once

vars == <<operations, lock, call, maker, title, shown, told, named, overlapped>>

Names == {r.key : r \in Requests} \cup {OldName}
Handoffs == {r.key : r \in {q \in Requests : q.kind = "CHAT"}}

\* The catalogue a successor's intent was written against is part of the
\* intent, and so of the operation id (the digest of the spec).
Specs == [intent : Requests, baseline : SUBSET Natives]
ASSUME NoneIsNoSpec == None \notin Specs
Open == {"SUBMITTING", "UNKNOWN"}
Operation == [status : Open \cup {"APPLIED_VERIFIED"}, resource : Natives \cup {None}]
Given == [intent : Requests, resource : Natives, from : {"journal", "catalogue"}]
Call == [stage : {"idle", "looked", "passed", "chosen", "calling", "answered"},
         intent : Requests \cup {None}, spec : Specs \cup {None},
         seen : SUBSET Natives, answer : Natives \cup {None}]

Idle == [stage |-> "idle", intent |-> None, spec |-> None, seen |-> {}, answer |-> None]

KindOf(n) == IF n = Peer \/ (maker[n] # None /\ maker[n].intent.kind = "PROJECT")
             THEN "PROJECT" ELSE "CHAT"
Exists(n) == title[n] # None

\* What a call for r uses of the catalogue: the chats, or the projects of the name.
Seen(r) ==
  IF r.kind = "CHAT" THEN {n \in Natives : shown[n] # None /\ KindOf(n) = "CHAT"}
  ELSE {n \in Natives : shown[n] = r.key /\ KindOf(n) = "PROJECT"}

Return(i) == call' = [call EXCEPT ![i] = Idle]

\* The caller of i is given n, which the journal or the catalogue has for it.
Tell(i, n, from) ==
  told' = told \cup {[intent |-> call[i].intent, resource |-> n, from |-> from]}
-----------------------------------------------------------------------------
(* create_successor, ensure_project                                        *)

\* A call for this handoff is under way.
Working(i, h) ==
  call[i].stage # "idle" /\ call[i].intent.kind = "CHAT" /\ call[i].intent.key = h

\* A call starts with a fresh catalogue; a registered project must be in it, or
\* the predecessor of a successor.
Look(i, r) ==
  /\ call[i].stage = "idle"
  /\ shown[Peer] # None
  /\ r.kind = "CHAT" => shown[Predecessor] # None
  /\ call' = [call EXCEPT ![i] = [Idle EXCEPT !.stage = "looked", !.intent = r, !.seen = Seen(r)]]
  /\ overlapped' = overlapped \cup
       {h \in Handoffs : /\ r.kind = "CHAT" /\ r.key = h
                         /\ \E j \in Callers \ {i} : Working(j, h)}
  /\ UNCHANGED <<operations, lock, maker, title, shown, told, named>>

\* Operations that already carry this intent.  The seeded fault compares the
\* catalogue as well, so a repeated call does not recognise its own intent.
CandidatesOfThisView(r, seen) ==
  {s \in DOMAIN operations : /\ s.intent.kind = r.kind /\ s.intent.key = r.key
                             /\ s.baseline = seen}
Candidates(r, seen) ==
  {s \in DOMAIN operations : s.intent.kind = r.kind /\ s.intent.key = r.key}

\* The spec of a successor: the one on record if there is one, on the same
\* terms, and a new one otherwise.  More than one is refused for good.
SuccessorSpec(r, seen, s) ==
  LET found == Candidates(r, seen)
  IN  /\ r.kind = "CHAT"
      /\ Cardinality(found) <= 1
      /\ \A f \in found : f.intent = r
      /\ s = IF found = {} THEN [intent |-> r, baseline |-> seen]
             ELSE CHOOSE f \in found : TRUE

\* A project is asked for again under its own operation, or for the first
\* time if the catalogue shows no project of that name.
ProjectSpec(r, seen, s) ==
  /\ r.kind = "PROJECT"
  /\ s = [intent |-> r, baseline |-> {}]
  /\ s \in DOMAIN operations \/ seen = {}

\* A registered project may be one that was created for the same name and
\* trigger: the operation that did comes first.
EarlierProject(r, s) ==
  /\ r.kind = "RENAME" /\ s \in DOMAIN operations
  /\ s = [intent |-> [r EXCEPT !.kind = "PROJECT"], baseline |-> {}]

\* It is renamed under the operation on record, or for the first time if the
\* catalogue shows another name.
RenameSpec(r, seen, s) ==
  /\ r.kind = "RENAME"
  /\ s = [intent |-> r, baseline |-> {}]
  /\ s \in DOMAIN operations \/ Peer \notin seen

Chosen(i, s) == call' = [call EXCEPT ![i] =
  [Idle EXCEPT !.stage = "chosen", !.intent = call[i].intent, !.spec = s]]

\* Under the lock, which is released at once.
Choose(i) ==
  LET r == call[i].intent  seen == call[i].seen
  IN  /\ call[i].stage = "looked" /\ lock = None
      /\ \E s \in Specs :
           /\ SuccessorSpec(r, seen, s) \/ ProjectSpec(r, seen, s) \/ EarlierProject(r, s)
           /\ Chosen(i, s)
      /\ UNCHANGED <<operations, lock, maker, title, shown, told, named, overlapped>>

\* No operation created the registered project; the lock is released.
PassProject(i) ==
  /\ call[i].stage = "looked" /\ call[i].intent.kind = "RENAME" /\ lock = None
  /\ \A s \in DOMAIN operations : ~EarlierProject(call[i].intent, s)
  /\ call' = [call EXCEPT ![i].stage = "passed"]
  /\ UNCHANGED <<operations, lock, maker, title, shown, told, named, overlapped>>

ChooseRename(i) ==
  /\ call[i].stage = "passed" /\ lock = None
  /\ \E s \in Specs : RenameSpec(call[i].intent, call[i].seen, s) /\ Chosen(i, s)
  /\ UNCHANGED <<operations, lock, maker, title, shown, told, named, overlapped>>

\* Seeded fault: the name the catalogue shows is not looked at.
AnswerAnyName(i) ==
  /\ call[i].stage = "passed" /\ lock = None
  /\ \A s \in DOMAIN operations : s.intent # call[i].intent
  /\ Tell(i, Peer, "catalogue")
  /\ Return(i)
  /\ UNCHANGED <<operations, lock, maker, title, shown, named, overlapped>>

\* A registered project that has the name already, and that no operation was to
\* rename, is given back as it is; the journal learns nothing of it.
AnswerRegistered(i) ==
  /\ call[i].stage = "passed" /\ lock = None
  /\ \A s \in DOMAIN operations : s.intent # call[i].intent
  /\ Peer \in call[i].seen
  /\ Tell(i, Peer, "catalogue")
  /\ Return(i)
  /\ UNCHANGED <<operations, lock, maker, title, shown, named, overlapped>>

\* The call is refused: a busy lock, an ambiguous or changed intent, a name
\* taken, an earlier operation whose outcome is unknown, a drifted resource.
Decline(i) ==
  /\ call[i].stage \in {"looked", "passed", "chosen"}
  /\ Return(i)
  /\ UNCHANGED <<operations, lock, maker, title, shown, told, named, overlapped>>
-----------------------------------------------------------------------------
(* _create                                                                 *)

\* Seeded fault: an operation with an unknown outcome is submitted again.
MaySubmitUnproved(s) ==
  s \in DOMAIN operations => operations[s].status = "UNKNOWN"
MaySubmit(s) == s \notin DOMAIN operations

\* The intent is persisted before the host is asked.
Submit(i) ==
  LET s == call[i].spec
  IN  /\ call[i].stage = "chosen" /\ lock = None
      /\ MaySubmit(s)
      /\ operations' = [t \in DOMAIN operations \cup {s} |->
                          IF t = s THEN [status |-> "SUBMITTING", resource |-> None]
                          ELSE operations[t]]
      /\ lock' = i
      /\ call' = [call EXCEPT ![i].stage = "calling"]
      /\ UNCHANGED <<maker, title, shown, told, named, overlapped>>

\* An applied operation is answered from the journal if its resource is still
\* in the catalogue: a project under its recorded name, a chat in its project.
AnswerApplied(i) ==
  LET s == call[i].spec  n == operations[s].resource
  IN  /\ call[i].stage = "chosen" /\ lock = None
      /\ s \in DOMAIN operations /\ operations[s].status = "APPLIED_VERIFIED"
      /\ shown[n] # None /\ (s.intent.kind # "CHAT" => shown[n] = s.intent.key)
      /\ Tell(i, n, "journal")
      /\ Return(i)
      /\ UNCHANGED <<operations, lock, maker, title, shown, named, overlapped>>

\* The host takes a creation on as native id n.  Its answer may be lost.
HostCreates(i, n) ==
  /\ call[i].stage = "calling" /\ call[i].spec.intent.kind # "RENAME"
  /\ ~Exists(n)
  /\ maker' = [maker EXCEPT ![n] = call[i].spec]
  /\ title' = [title EXCEPT ![n] = call[i].spec.intent.key]
  /\ named' = named \cup {<<n, call[i].spec.intent.key>>}
  /\ \E a \in {n, None} : call' = [call EXCEPT ![i].stage = "answered", ![i].answer = a]
  /\ UNCHANGED <<operations, lock, shown, told, overlapped>>

HostRenames(i) ==
  /\ call[i].stage = "calling" /\ call[i].spec.intent.kind = "RENAME"
  /\ title' = [title EXCEPT ![Peer] = call[i].spec.intent.key]
  /\ named' = named \cup {<<Peer, call[i].spec.intent.key>>}
  /\ \E a \in {Peer, None} : call' = [call EXCEPT ![i].stage = "answered", ![i].answer = a]
  /\ UNCHANGED <<operations, lock, maker, shown, told, overlapped>>

\* The host does nothing: it fails, or hands back a chat that exists already.
HostReuses(i) ==
  /\ call[i].stage = "calling"
  /\ \E a \in {n \in Natives : Exists(n) /\ KindOf(n) = "CHAT"
                                /\ call[i].spec.intent.kind = "CHAT"} \cup {None} :
       call' = [call EXCEPT ![i].stage = "answered", ![i].answer = a]
  /\ UNCHANGED <<operations, lock, maker, title, shown, told, named, overlapped>>

\* The proof must name a resource the catalogue shows by now: a project with
\* the desired name, a chat the catalogue of the intent did not have.
\* The seeded fault leaves the catalogue of the intent out.
ProvedByReadback(s, n) ==
  /\ n # None /\ shown[n] # None
  /\ s.intent.kind \in {"PROJECT", "RENAME"} => shown[n] = s.intent.key
Proved(s, n) == ProvedByReadback(s, n) /\ n \notin s.baseline

Record(s, status, n) == [operations EXCEPT ![s] = [status |-> status, resource |-> n]]

\* Seeded faults: the resource is not proved; the caller is given the resource
\* of an operation that is left in doubt.
ConcludeUnproved(i) ==
  LET n == call[i].answer
  IN  /\ call[i].stage = "answered"
      /\ operations' = Record(call[i].spec, "APPLIED_VERIFIED", n)
      /\ Tell(i, n, "journal")
      /\ lock' = None /\ Return(i)
      /\ UNCHANGED <<maker, title, shown, named, overlapped>>
DoubtAndAnswer(i) ==
  /\ call[i].stage = "answered" /\ call[i].answer # None
  /\ operations' = Record(call[i].spec, "UNKNOWN", None)
  /\ Tell(i, call[i].answer, "journal")
  /\ lock' = None /\ Return(i)
  /\ UNCHANGED <<maker, title, shown, named, overlapped>>

\* The resource is recorded, the lock released and the caller given it, unless
\* the save raises after it sealed the snapshot.
Conclude(i) ==
  LET s == call[i].spec  n == call[i].answer
  IN  /\ call[i].stage = "answered"
      /\ Proved(s, n)
      /\ operations' = Record(s, "APPLIED_VERIFIED", n)
      /\ \/ Tell(i, n, "journal")
         \/ UNCHANGED told
      /\ lock' = None /\ Return(i)
      /\ UNCHANGED <<maker, title, shown, named, overlapped>>

\* Any exception after the intent, an unproved resource included.
Doubt(i) ==
  /\ call[i].stage = "answered"
  /\ operations' = Record(call[i].spec, "UNKNOWN", None)
  /\ lock' = None /\ Return(i)
  /\ UNCHANGED <<maker, title, shown, told, named, overlapped>>
-----------------------------------------------------------------------------
(* reconcile_creation, process death, host and catalogue                   *)

\* What evidence of the original operation can name.
EvidenceOf(s) == IF s.intent.kind = "RENAME" THEN {Peer}
                 ELSE {n \in Natives : maker[n] = s}

\* Seeded fault: the status of the operation is not looked at, and whatever the
\* catalogue shows under the right kind is accepted.
ReconcileAny(s, n) ==
  /\ lock = None /\ s \in DOMAIN operations
  /\ n \in Natives /\ Proved(s, n)
  /\ operations' = Record(s, "APPLIED_VERIFIED", n)
  /\ UNCHANGED <<lock, call, maker, title, shown, told, named, overlapped>>

\* A late proof settles an open operation, outside any call.
Reconcile(s, n) ==
  /\ lock = None
  /\ s \in DOMAIN operations /\ operations[s].status \in Open
  /\ n \in EvidenceOf(s) /\ Proved(s, n)
  /\ operations' = Record(s, "APPLIED_VERIFIED", n)
  /\ UNCHANGED <<lock, call, maker, title, shown, told, named, overlapped>>

\* A process dies, or a save stops it: the kernel drops its lock, the journal
\* keeps the last sealed snapshot.
Crash(i) ==
  /\ call[i].stage # "idle"
  /\ lock' = IF lock = i THEN None ELSE lock
  /\ Return(i)
  /\ UNCHANGED <<operations, maker, title, shown, told, named, overlapped>>

\* Somebody else opens a chat in the project.
ForeignChat(n) ==
  /\ ~Exists(n)
  /\ title' = [title EXCEPT ![n] = OldName]
  /\ named' = named \cup {<<n, OldName>>}
  /\ UNCHANGED <<operations, lock, call, maker, shown, told, overlapped>>

\* Its owner gives the registered project another name by hand.
ForeignRename(name) ==
  /\ title[Peer] # name
  /\ title' = [title EXCEPT ![Peer] = name]
  /\ named' = named \cup {<<Peer, name>>}
  /\ UNCHANGED <<operations, lock, call, maker, shown, told, overlapped>>

\* The catalogue catches up with the host, one entry at a time.
Appear(n) ==
  /\ shown[n] # title[n]
  /\ shown' = [shown EXCEPT ![n] = title[n]]
  /\ UNCHANGED <<operations, lock, call, maker, title, told, named, overlapped>>

Init ==
  /\ operations = [s \in {} |-> None] /\ lock = None
  /\ call = [i \in Callers |-> Idle]
  /\ maker = [n \in Natives |-> None]
  /\ title = [n \in Natives |-> IF n \in {Peer, Predecessor} THEN OldName ELSE None]
  /\ shown = title
  /\ told = {}
  /\ named = {Peer, Predecessor} \X {OldName}
  /\ overlapped = {}

Next ==
  \/ \E i \in Callers :
       \/ \E r \in Requests : Look(i, r)
       \/ Choose(i) \/ PassProject(i) \/ ChooseRename(i) \/ AnswerRegistered(i) \/ Decline(i)
       \/ Submit(i) \/ AnswerApplied(i)
       \/ \E n \in Natives : HostCreates(i, n)
       \/ HostRenames(i) \/ HostReuses(i)
       \/ Conclude(i) \/ Doubt(i) \/ Crash(i)
  \/ \E s \in DOMAIN operations, n \in Natives : Reconcile(s, n)
  \/ \E n \in Natives : ForeignChat(n) \/ Appear(n)
  \/ \E r \in Requests : r.kind = "RENAME" /\ ForeignRename(r.key)

Spec == Init /\ [][Next]_vars
-----------------------------------------------------------------------------
(* Properties                                                              *)

\* Shapes of the journal, the calls, the host and the catalogue.
TypeOK ==
  /\ DOMAIN operations \subseteq Specs
  /\ \A s \in DOMAIN operations : operations[s] \in Operation
  /\ lock \in Callers \cup {None}
  /\ call \in [Callers -> Call]
  /\ maker \in [Natives -> Specs \cup {None}]
  /\ title \in [Natives -> Names \cup {None}]
  /\ shown \in [Natives -> Names \cup {None}]
  /\ told \subseteq Given
  /\ named \subseteq Natives \X Names
  /\ overlapped \subseteq Handoffs

\* One operation makes the host create at most once, over crashes, lost
\* answers, repeated calls and competing processes (_create, lines 151-172).
CreatedAtMostOnce ==
  \A n, o \in Natives : maker[n] # None /\ maker[n] = maker[o] => n = o

\* An applied operation keeps its resource: no later call, exception handler
\* or reconciliation rewrites it, and no operation is ever forgotten.
AppliedIsFinal ==
  [][\A s \in DOMAIN operations :
       /\ s \in DOMAIN operations'
       /\ operations[s].status = "APPLIED_VERIFIED" => operations'[s] = operations[s]]_vars

\* What operation a call may be answered from: its own, or the one that created
\* the registered project it asks for.
Serves(s, r) ==
  \/ s.intent = r
  \/ r.kind = "RENAME" /\ s.intent = [r EXCEPT !.kind = "PROJECT"]

Holds(s, n) ==
  s \in DOMAIN operations /\ operations[s] = [status |-> "APPLIED_VERIFIED", resource |-> n]

\* What a caller is given is true and stays backed: a project has had the name
\* that was asked for at the host, and the journal holds the resource as applied,
\* in every later state, for the intent of the call.  Only the registered project
\* itself may be given from the catalogue (ensure_project, line 226).
AnswersAreTrue ==
  \A a \in told :
    /\ a.intent.kind # "CHAT" => <<a.resource, a.intent.key>> \in named
    /\ IF a.from = "journal"
       THEN \E s \in DOMAIN operations : Serves(s, a.intent) /\ Holds(s, a.resource)
       ELSE a.intent.kind = "RENAME" /\ a.resource = Peer

\* No successor that was given out is a chat of the catalogue its intent was
\* written against, which has the predecessor, whatever the host hands back and
\* however late the proof arrives.
SuccessorIsNew ==
  \A a \in told, s \in DOMAIN operations :
    a.intent.kind = "CHAT" /\ s.intent = a.intent /\ Holds(s, a.resource) =>
      Predecessor \in s.baseline /\ a.resource \notin s.baseline

\* A handoff has one successor chat: a repeated call finds the existing
\* operation (create_successor, lines 242-248).
Successors(h) ==
  {n \in Natives : maker[n] # None /\ maker[n].intent.kind = "CHAT" /\ maker[n].intent.key = h}
OneSuccessor == \A h \in Handoffs : \A n, o \in Successors(h) : n = o

\* What does hold: as long as no two calls for a handoff overlap, it keeps its one
\* successor through lost answers, dead processes, late reconciliation, calls for
\* other intents and a catalogue that has changed since the first call.
OneSuccessorInTurn == \A h \in Handoffs \ overlapped : \A n, o \in Successors(h) : n = o
=============================================================================
