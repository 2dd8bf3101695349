------------------------- MODULE HostRequestProofs --------------------------
(***************************************************************************)
(* Theorems about what the host of the chats is asked for: chats and       *)
(* projects it is to create, and model turns it is to start.               *)
(*                                                                         *)
(* Lifecycle.  The invariant ties the journal to the call that owns the    *)
(* lock, to what the host has made and named and to what callers were      *)
(* told; of a handoff for which no two calls overlap, it also says that    *)
(* the journal has one operation.                                          *)
(*                                                                         *)
(* Continuation.  The argument is about the token.  It exists from the one *)
(* preparation of an event on, and only the driver instance that prepared  *)
(* the event ever has it; every later step of a dispatch needs it.  So an  *)
(* event has one dispatch in all, and what that dispatch did is bounded by *)
(* its stage.                                                              *)
(***************************************************************************)
EXTENDS Lifecycle, Continuation, TLAPS

-----------------------------------------------------------------------------
(* Chats and projects                                                      *)

Applied(s) == s \in DOMAIN operations /\ operations[s].status = "APPLIED_VERIFIED"

\* The intent of a successor was written against a catalogue with its
\* predecessor; what may be applied is none of that catalogue, and a project has
\* had the name that was asked for.
Grounded(s) == s.intent.kind = "CHAT" => Predecessor \in s.baseline
Fits(s, n) ==
  /\ n \in Natives \ s.baseline
  /\ s.intent.kind # "CHAT" => <<n, s.intent.key>> \in named
JournalIsSound == \A s \in DOMAIN operations :
  Grounded(s) /\ (Applied(s) => Fits(s, operations[s].resource))

\* What is made exists and has an operation; the predecessor was not made.
HostIsSound ==
  /\ \A n \in Natives : maker[n] # None => maker[n] \in DOMAIN operations /\ Exists(n)
  /\ Exists(Predecessor) /\ maker[Predecessor] = None

\* The catalogue shows no name that was not borne.
NamesAreSound == \A n \in Natives :
  /\ title[n] # None => <<n, title[n]>> \in named
  /\ shown[n] # None => <<n, shown[n]>> \in named

\* What a call that has looked knows: of a successor the predecessor, of a
\* project who has had its name.
SeenIsSound(c) ==
  /\ c.intent.kind = "CHAT" => Predecessor \in c.seen
  /\ c.intent.kind # "CHAT" => \A n \in c.seen : <<n, c.intent.key>> \in named

\* What a call relies on at each stage.
Sound(i) ==
  LET c == call[i] IN
  /\ c.stage # "idle" => c.intent \in Requests
  /\ c.stage \in {"looked", "passed"} => SeenIsSound(c)
  /\ c.stage = "passed" => c.intent.kind = "RENAME"
  /\ c.stage \in {"chosen", "calling", "answered"} =>
       c.spec \in Specs /\ Serves(c.spec, c.intent) /\ Grounded(c.spec)
  /\ c.stage \in {"calling", "answered"} =>
       lock = i /\ c.spec \in DOMAIN operations /\ operations[c.spec].status = "SUBMITTING"
  /\ c.stage = "calling" => \A n \in Natives : maker[n] # c.spec

\* The spec is of a successor of this handoff.
ForHandoff(s, h) == s.intent.kind = "CHAT" /\ s.intent.key = h

\* While no two calls for a handoff overlap: one call, one operation, and a call
\* that has found none is still right.
InTurn(h) ==
  /\ \A i, j \in Callers : Working(i, h) /\ Working(j, h) => i = j
  /\ \A s, t \in DOMAIN operations : ForHandoff(s, h) /\ ForHandoff(t, h) => s = t
  /\ \A i \in Callers :
       /\ call[i].stage = "chosen" /\ ForHandoff(call[i].spec, h)
       /\ call[i].spec \notin DOMAIN operations
       => \A s \in DOMAIN operations : ~ForHandoff(s, h)
TurnsAreKept == \A h \in Handoffs \ overlapped : InTurn(h)

\* One answer of AnswersAreTrue.
IsTrue(a) ==
  /\ a.intent.kind # "CHAT" => <<a.resource, a.intent.key>> \in named
  /\ IF a.from = "journal"
     THEN \E s \in DOMAIN operations : Serves(s, a.intent) /\ Holds(s, a.resource)
     ELSE a.intent.kind = "RENAME" /\ a.resource = Peer

IInv ==
  /\ TypeOK /\ JournalIsSound /\ HostIsSound /\ NamesAreSound /\ CreatedAtMostOnce
  /\ \A a \in told : IsTrue(a)
  /\ \A i \in Callers : Sound(i)
  /\ TurnsAreKept
-----------------------------------------------------------------------------
LEMMA Constants ==
  /\ None \notin Natives /\ None \notin Callers /\ None \notin Requests /\ None \notin Names
  /\ Peer \in Natives /\ Predecessor \in Natives /\ Peer # Predecessor
  /\ OldName \in Names /\ \A r \in Requests : r.key \in Names /\ r.kind \in Kinds
  /\ \A s \in Specs : s.intent \in Requests /\ s.baseline \subseteq Natives
BY LifecycleAssumption DEF Names, Specs

LEMMA InitSound == Init => IInv
<1> SUFFICES ASSUME Init PROVE IInv
  OBVIOUS
<1>1. \A i \in Callers : call[i] = Idle
  BY DEF Init
<1>2. /\ title \in [Natives -> Names \cup {None}] /\ shown = title
      /\ named = {Peer, Predecessor} \X {OldName}
      /\ \A n \in Natives : title[n] = IF n \in {Peer, Predecessor} THEN OldName ELSE None
  BY Constants DEF Init
<1>3. TypeOK
  <2>1. Idle \in Call
    BY DEF Idle, Call
  <2>2. call \in [Callers -> Call] /\ maker \in [Natives -> Specs \cup {None}]
    BY <2>1 DEF Init
  <2>3. named \subseteq Natives \X Names
    BY <1>2, Constants
  <2>4. QED
    BY <1>2, <2>2, <2>3 DEF Init, TypeOK
<1>4. HostIsSound /\ NamesAreSound
  BY <1>2, Constants DEF Init, HostIsSound, NamesAreSound, Exists
<1>5. JournalIsSound /\ CreatedAtMostOnce /\ \A a \in told : IsTrue(a)
  BY DEF Init, JournalIsSound, CreatedAtMostOnce
<1>6. (\A i \in Callers : Sound(i)) /\ TurnsAreKept
  BY <1>1 DEF Init, Sound, TurnsAreKept, InTurn, Working, Idle
<1>7. QED
  BY <1>3, <1>4, <1>5, <1>6 DEF IInv

\* The operation that serves an intent has its key, and is a successor's if and
\* only if the intent is.
LEMMA ServesWhatIsAsked ==
  ASSUME NEW r \in Requests, NEW s \in Specs, Serves(s, r)
  PROVE  /\ s.intent.key = r.key
         /\ s.intent.kind = "CHAT" \/ r.kind = "CHAT" => s.intent = r
<1>1. CASE s.intent = r
  BY <1>1
<1>2. CASE r.kind = "RENAME" /\ s.intent = [r EXCEPT !.kind = "PROJECT"]
  <2>1. DOMAIN r = {"kind", "key", "terms"}
    BY LifecycleAssumption
  <2>2. s.intent.key = r.key /\ s.intent.kind = "PROJECT"
    BY <1>2, <2>1
  <2>3. QED
    BY <1>2, <2>2
<1>3. QED
  BY <1>1, <1>2 DEF Serves

LEMMA ReturnTypes ==
  ASSUME TypeOK, NEW i \in Callers, Return(i)
  PROVE  /\ call' \in [Callers -> Call] /\ call'[i] = Idle /\ Sound(i)'
         /\ \A j \in Callers \ {i} : call'[j] = call[j]
<1>1. Idle \in Call /\ Idle.stage = "idle"
  BY DEF Idle, Call
<1>2. call'[i] = Idle /\ call' \in [Callers -> Call] /\ \A j \in Callers \ {i} : call'[j] = call[j]
  BY <1>1 DEF TypeOK, Return
<1>3. QED
  BY <1>1, <1>2 DEF Sound

\* What moves while i has the lock, or nobody has, is nothing another call relies on.
LEMMA OthersStay ==
  ASSUME IInv, NEW i \in Callers \cup {None}, \A j \in Callers \ {i} : call'[j] = call[j],
         named \subseteq named',
         lock \in {i, None} \/ UNCHANGED <<operations, lock, maker>>
  PROVE  \A j \in Callers \ {i} : Sound(j)'
<1> TAKE j \in Callers \ {i}
<1>1. Sound(j) /\ call'[j] = call[j]
  BY DEF IInv
<1>2. CASE lock \in {i, None}
  <2>1. call[j].stage \notin {"calling", "answered"}
    BY <1>1, <1>2, Constants DEF Sound
  <2>2. QED
    BY <1>1, <2>1 DEF Sound, SeenIsSound, Grounded, Serves
<1>3. CASE UNCHANGED <<operations, lock, maker>>
  BY <1>1, <1>3 DEF Sound, SeenIsSound, Grounded, Serves
<1>4. QED
  BY <1>2, <1>3

\* A step in turn: no call begins or chooses, and the journal gets no operation.
LEMMA TurnStays ==
  ASSUME IInv, overlapped' = overlapped, DOMAIN operations' = DOMAIN operations,
         \A j \in Callers : call'[j].stage # "idle" =>
           call[j].stage # "idle" /\ call'[j].intent = call[j].intent,
         \A j \in Callers : call'[j].stage = "chosen" =>
           call[j].stage = "chosen" /\ call'[j].spec = call[j].spec
  PROVE  TurnsAreKept'
BY DEF IInv, TurnsAreKept, InTurn, ForHandoff, Working

\* Answers stay true: names are not forgotten, and the operations answers were
\* given from are applied ones.
LEMMA ToldStays ==
  ASSUME IInv, named \subseteq named', \A s \in DOMAIN operations :
           Applied(s) => s \in DOMAIN operations' /\ operations'[s] = operations[s]
  PROVE  \A a \in told : IsTrue(a)'
<1> TAKE a \in told
<1>1. IsTrue(a)
  BY DEF IInv
<1>2. CASE a.from = "journal"
  <2>1. PICK s \in DOMAIN operations : Serves(s, a.intent) /\ Holds(s, a.resource)
    BY <1>1, <1>2 DEF IsTrue
  <2>2. Applied(s) /\ operations[s] = [status |-> "APPLIED_VERIFIED", resource |-> a.resource]
    BY <2>1 DEF Holds, Applied
  <2>3. Serves(s, a.intent)' /\ Holds(s, a.resource)' /\ s \in DOMAIN operations'
    BY <2>1, <2>2 DEF Holds, Serves
  <2>4. QED
    BY <1>1, <1>2, <2>3 DEF IsTrue
<1>3. CASE a.from # "journal"
  BY <1>1, <1>3 DEF IsTrue
<1>4. QED
  BY <1>2, <1>3

\* A step of the calls alone.
LEMMA CallsOnly ==
  ASSUME IInv, UNCHANGED <<operations, lock, maker, title, shown, told, named>>,
         call' \in [Callers -> Call], overlapped' \subseteq Handoffs,
         \A j \in Callers : Sound(j)', TurnsAreKept'
  PROVE  IInv'
<1>1. \A a \in told' : IsTrue(a)'
  BY ToldStays
<1>2. JournalIsSound' /\ HostIsSound' /\ NamesAreSound' /\ CreatedAtMostOnce'
  BY DEF IInv, JournalIsSound, Applied, Fits, Grounded, HostIsSound, Exists, NamesAreSound,
     CreatedAtMostOnce
<1>3. TypeOK'
  BY DEF IInv, TypeOK
<1>4. QED
  BY <1>1, <1>2, <1>3 DEF IInv

\* The step of one call, from c as it was to d as it is.
LEMMA OneCallMoves ==
  ASSUME IInv, NEW i \in Callers, NEW d \in Call, call' = [call EXCEPT ![i] = d]
  PROVE  /\ call' \in [Callers -> Call] /\ call'[i] = d
         /\ \A j \in Callers \ {i} : call'[j] = call[j]
BY DEF IInv, TypeOK

LEMMA LookSound ==
  ASSUME IInv, NEW i \in Callers, NEW r \in Requests, Look(i, r) PROVE IInv'
<1> DEFINE c == [Idle EXCEPT !.stage = "looked", !.intent = r, !.seen = Seen(r)]
<1>1. /\ call[i].stage = "idle" /\ call' = [call EXCEPT ![i] = c]
      /\ UNCHANGED <<operations, lock, maker, title, shown, told, named>>
  BY DEF Look
<1>2. c \in Call /\ c.stage = "looked" /\ c.intent = r /\ c.seen = Seen(r)
  <2>1. Seen(r) \subseteq Natives
    BY DEF Seen
  <2>2. QED
    BY <2>1 DEF Call, Idle
<1> HIDE DEF c
<1>3. /\ call' \in [Callers -> Call] /\ call'[i] = c
      /\ \A j \in Callers \ {i} : call'[j] = call[j]
  BY <1>1, <1>2, OneCallMoves
<1>4. overlapped' \subseteq Handoffs
  BY DEF IInv, TypeOK, Look
<1>5. \A j \in Callers : Sound(j)'
  <2>1. r.kind = "CHAT" => Predecessor \in Seen(r)
    BY Constants DEF Look, Seen, KindOf, IInv, HostIsSound
  <2>2. r.kind # "CHAT" => \A n \in Seen(r) : <<n, r.key>> \in named
    BY Constants DEF Seen, IInv, NamesAreSound
  <2>3. Sound(i)'
    BY <1>1, <1>2, <1>3, <2>1, <2>2 DEF Sound, SeenIsSound
  <2>4. QED
    BY <1>1, <1>3, <2>3, OthersStay
<1>6. TurnsAreKept'
  <2> SUFFICES ASSUME NEW h \in Handoffs, h \notin overlapped' PROVE InTurn(h)'
    BY DEF TurnsAreKept
  <2>1. InTurn(h)
    BY DEF Look, IInv, TurnsAreKept
  <2>2. r.kind = "CHAT" /\ r.key = h => \A j \in Callers \ {i} : ~Working(j, h)
    BY DEF Look
  <2>3. Working(i, h)' => r.kind = "CHAT" /\ r.key = h
    BY <1>2, <1>3 DEF Working
  <2>4. \A j \in Callers \ {i} : Working(j, h)' => Working(j, h)
    BY <1>3 DEF Working
  <2>5. \A j, k \in Callers : Working(j, h)' /\ Working(k, h)' => j = k
    BY <2>1, <2>2, <2>3, <2>4 DEF InTurn
  <2>6. QED
    BY <1>1, <1>2, <1>3, <2>1, <2>5 DEF InTurn, ForHandoff
<1>7. QED
  BY <1>1, <1>3, <1>4, <1>5, <1>6, CallsOnly

\* The spec that is chosen serves the intent and was written against a catalogue
\* with the predecessor; it is on record if one of its handoff is.
LEMMA ChosenIsSound ==
  ASSUME IInv, NEW r \in Requests, NEW seen, NEW s \in Specs,
         r.kind = "CHAT" => Predecessor \in seen,
         \/ SuccessorSpec(r, seen, s) \/ ProjectSpec(r, seen, s)
         \/ EarlierProject(r, s) \/ RenameSpec(r, seen, s)
  PROVE  /\ Serves(s, r) /\ Grounded(s)
         /\ s \in DOMAIN operations \/
              \A h \in Handoffs, t \in DOMAIN operations : ~(ForHandoff(s, h) /\ ForHandoff(t, h))
<1>1. CASE SuccessorSpec(r, seen, s)
  <2> DEFINE found == Candidates(r, seen)
  <2>1. CASE found = {}
    <3>1. s = [intent |-> r, baseline |-> seen] /\ r.kind = "CHAT"
      BY <1>1, <2>1 DEF SuccessorSpec
    <3>2. QED
      BY <2>1, <3>1 DEF Candidates, ForHandoff, Grounded, Serves
  <2>2. CASE found # {}
    <3>1. s \in found /\ s.intent = r
      BY <1>1, <2>2 DEF SuccessorSpec
    <3>2. QED
      BY <3>1 DEF Candidates, IInv, JournalIsSound, Serves
  <2>3. QED
    BY <2>1, <2>2
<1>2. CASE ProjectSpec(r, seen, s) \/ RenameSpec(r, seen, s)
  BY <1>2 DEF ProjectSpec, RenameSpec, Grounded, ForHandoff, Serves
<1>3. CASE EarlierProject(r, s)
  BY <1>3 DEF EarlierProject, Serves, IInv, JournalIsSound
<1>4. QED
  BY <1>1, <1>2, <1>3

\* A call that has chosen.
LEMMA ChosenCall ==
  ASSUME IInv, NEW i \in Callers, NEW s \in Specs, Chosen(i, s),
         call[i].stage \in {"looked", "passed"},
         LET r == call[i].intent IN
           \/ SuccessorSpec(r, call[i].seen, s) \/ ProjectSpec(r, call[i].seen, s)
           \/ EarlierProject(r, s) \/ RenameSpec(r, call[i].seen, s),
         UNCHANGED <<operations, lock, maker, title, shown, told, named, overlapped>>
  PROVE  IInv'
<1> DEFINE r == call[i].intent
           c == [Idle EXCEPT !.stage = "chosen", !.intent = r, !.spec = s]
<1>1. r \in Requests /\ (r.kind = "CHAT" => Predecessor \in call[i].seen)
  BY DEF IInv, Sound, SeenIsSound
<1>2. /\ Serves(s, r) /\ Grounded(s)
      /\ s \in DOMAIN operations \/
           \A h \in Handoffs, t \in DOMAIN operations : ~(ForHandoff(s, h) /\ ForHandoff(t, h))
  BY <1>1, ChosenIsSound
<1>3. c \in Call /\ c.stage = "chosen" /\ c.intent = r /\ c.spec = s
  BY <1>1 DEF Call, Idle
<1>4. call' = [call EXCEPT ![i] = c]
  BY DEF Chosen
<1> HIDE DEF c
<1>5. /\ call' \in [Callers -> Call] /\ call'[i] = c
      /\ \A j \in Callers \ {i} : call'[j] = call[j]
  BY <1>3, <1>4, OneCallMoves
<1>6. \A j \in Callers : Sound(j)'
  <2>1. Sound(i)'
    BY <1>1, <1>2, <1>3, <1>5 DEF Sound, Grounded, Serves
  <2>2. QED
    BY <1>5, <2>1, OthersStay
<1>7. TurnsAreKept'
  <2> SUFFICES ASSUME NEW h \in Handoffs, h \notin overlapped PROVE InTurn(h)'
    BY DEF TurnsAreKept
  <2>1. InTurn(h)
    BY DEF IInv, TurnsAreKept
  <2>2. \A j \in Callers : Working(j, h)' => Working(j, h)
    BY <1>3, <1>5 DEF Working
  <2>3. ASSUME NEW j \in Callers, call'[j].stage = "chosen", ForHandoff(call'[j].spec, h),
               call'[j].spec \notin DOMAIN operations
        PROVE  \A t \in DOMAIN operations : ~ForHandoff(t, h)
    <3>1. CASE j = i
      BY <1>2, <1>3, <1>5, <2>3, <3>1
    <3>2. CASE j # i
      BY <1>5, <2>1, <2>3, <3>2 DEF InTurn
    <3>3. QED
      BY <3>1, <3>2
  <2>4. QED
    BY <2>1, <2>2, <2>3 DEF InTurn, ForHandoff
<1>8. QED
  BY <1>5, <1>6, <1>7, CallsOnly DEF IInv, TypeOK

LEMMA ChooseSound ==
  ASSUME IInv, NEW i \in Callers, Choose(i) \/ ChooseRename(i) PROVE IInv'
<1>1. CASE Choose(i)
  <2>1. PICK s \in Specs :
          /\ \/ SuccessorSpec(call[i].intent, call[i].seen, s)
             \/ ProjectSpec(call[i].intent, call[i].seen, s) \/ EarlierProject(call[i].intent, s)
          /\ Chosen(i, s)
    BY <1>1 DEF Choose
  <2>2. QED
    BY <1>1, <2>1, ChosenCall DEF Choose
<1>2. CASE ChooseRename(i)
  <2>1. PICK s \in Specs : RenameSpec(call[i].intent, call[i].seen, s) /\ Chosen(i, s)
    BY <1>2 DEF ChooseRename
  <2>2. QED
    BY <1>2, <2>1, ChosenCall DEF ChooseRename
<1>3. QED
  BY <1>1, <1>2

LEMMA PassProjectSound ==
  ASSUME IInv, NEW i \in Callers, PassProject(i) PROVE IInv'
<1> DEFINE c == [call[i] EXCEPT !.stage = "passed"]
<1>1. /\ call[i].stage = "looked" /\ call[i].intent.kind = "RENAME" /\ call[i] \in Call
      /\ call' = [call EXCEPT ![i] = c]
      /\ UNCHANGED <<operations, lock, maker, title, shown, told, named, overlapped>>
  BY DEF PassProject, IInv, TypeOK
<1>2. c \in Call /\ c.stage = "passed" /\ c.intent = call[i].intent /\ c.seen = call[i].seen
  BY <1>1 DEF Call
<1> HIDE DEF c
<1>3. /\ call' \in [Callers -> Call] /\ call'[i] = c
      /\ \A j \in Callers \ {i} : call'[j] = call[j]
  BY <1>1, <1>2, OneCallMoves
<1>4. Sound(i)'
  BY <1>1, <1>2, <1>3 DEF IInv, Sound, SeenIsSound
<1>5. \A j \in Callers : Sound(j)'
  BY <1>1, <1>3, <1>4, OthersStay
<1>6. TurnsAreKept'
  BY <1>1, <1>2, <1>3, TurnStays
<1>7. QED
  BY <1>1, <1>3, <1>5, <1>6, CallsOnly DEF IInv, TypeOK

\* A call ends and its caller is given a true answer.
LEMMA GivenSound ==
  ASSUME IInv, NEW i \in Callers, Return(i), NEW a \in Given, IsTrue(a), told' = told \cup {a},
         UNCHANGED <<operations, lock, maker, title, shown, named, overlapped>>
  PROVE  IInv'
<1>1. /\ call' \in [Callers -> Call] /\ call'[i] = Idle /\ Sound(i)'
      /\ \A j \in Callers \ {i} : call'[j] = call[j]
  BY ReturnTypes DEF IInv
<1>2. IsTrue(a)'
  BY DEF IsTrue, Holds, Serves
<1>3. \A b \in told' : IsTrue(b)'
  BY <1>2, ToldStays
<1>4. TypeOK'
  BY <1>1 DEF IInv, TypeOK
<1>5. \A j \in Callers : Sound(j)'
  BY <1>1, OthersStay
<1>6. TurnsAreKept'
  BY <1>1, TurnStays DEF Idle
<1>7. QED
  BY <1>3, <1>4, <1>5, <1>6 DEF IInv, JournalIsSound, HostIsSound, NamesAreSound,
     CreatedAtMostOnce, Applied, Fits, Grounded, Exists

LEMMA AnswerRegisteredSound ==
  ASSUME IInv, NEW i \in Callers, AnswerRegistered(i) PROVE IInv'
<1>1. /\ call[i].intent \in Requests /\ call[i].intent.kind = "RENAME"
      /\ <<Peer, call[i].intent.key>> \in named
  BY DEF AnswerRegistered, IInv, Sound, SeenIsSound
<1>2. PICK a : a = [intent |-> call[i].intent, resource |-> Peer, from |-> "catalogue"]
  OBVIOUS
<1>3. a \in Given /\ IsTrue(a)
  BY <1>1, <1>2, Constants DEF IsTrue, Given
<1>4. Return(i) /\ told' = told \cup {a}
      /\ UNCHANGED <<operations, lock, maker, title, shown, named, overlapped>>
  BY <1>2 DEF AnswerRegistered, Tell
<1>5. QED
  BY <1>3, <1>4, GivenSound

LEMMA DeclineSound ==
  ASSUME IInv, NEW i \in Callers, Decline(i) PROVE IInv'
<1>1. /\ call' \in [Callers -> Call] /\ call'[i] = Idle /\ Sound(i)'
      /\ \A j \in Callers \ {i} : call'[j] = call[j]
  BY ReturnTypes DEF IInv, Decline
<1>2. \A j \in Callers : Sound(j)'
  BY <1>1, OthersStay DEF Decline
<1>3. TurnsAreKept'
  BY <1>1, TurnStays DEF Decline, Idle
<1>4. QED
  BY <1>1, <1>2, <1>3, CallsOnly DEF Decline, IInv, TypeOK

-----------------------------------------------------------------------------
(* The host and its catalogue                                              *)

\* A call is answered: what it goes on relying on is not touched by the host.
LEMMA AnsweredTypes ==
  ASSUME IInv, NEW i \in Callers, call[i].stage = "calling", NEW a \in Natives \cup {None},
         call' = [call EXCEPT ![i].stage = "answered", ![i].answer = a],
         UNCHANGED <<operations, lock>>
  PROVE  /\ call' \in [Callers -> Call] /\ lock = i /\ Sound(i)'
         /\ call'[i].stage = "answered" /\ call'[i].intent = call[i].intent
         /\ \A j \in Callers \ {i} : call'[j] = call[j]
<1>1. Sound(i) /\ call \in [Callers -> Call] /\ call[i] \in Call
  BY DEF IInv, TypeOK
<1> DEFINE c == [call[i] EXCEPT !.stage = "answered", !.answer = a]
<1>2. /\ c \in Call /\ c.stage = "answered" /\ c.intent = call[i].intent
      /\ c.spec = call[i].spec /\ c.seen = call[i].seen
  BY <1>1 DEF Call
<1>3. call' = [call EXCEPT ![i] = c]
  BY <1>1
<1> HIDE DEF c
<1>4. call' \in [Callers -> Call] /\ call'[i] = c /\ \A j \in Callers \ {i} : call'[j] = call[j]
  BY <1>1, <1>2, <1>3
<1>5. lock = i /\ Sound(i)'
  BY <1>1, <1>2, <1>4 DEF Sound, Grounded, Serves
<1>6. QED
  BY <1>2, <1>4, <1>5

\* The host makes or renames one resource for the call that holds the lock.
LEMMA HostMoves ==
  ASSUME IInv, NEW i \in Callers, NEW n \in Natives, NEW a \in Natives \cup {None},
         call[i].stage = "calling", call' = [call EXCEPT ![i].stage = "answered", ![i].answer = a],
         title' = [title EXCEPT ![n] = call[i].spec.intent.key],
         named' = named \cup {<<n, call[i].spec.intent.key>>},
         maker' \in [Natives -> Specs \cup {None}],
         UNCHANGED <<operations, lock, shown, told, overlapped>>
  PROVE  /\ TypeOK' /\ JournalIsSound' /\ NamesAreSound' /\ (\A b \in told' : IsTrue(b)')
         /\ (\A j \in Callers : Sound(j)') /\ TurnsAreKept'
         /\ \A m \in Natives : Exists(m) => Exists(m)'
         /\ Exists(n)'
<1> DEFINE key == call[i].spec.intent.key
<1>1. /\ call' \in [Callers -> Call] /\ lock = i /\ Sound(i)'
      /\ call'[i].stage = "answered" /\ call'[i].intent = call[i].intent
      /\ \A j \in Callers \ {i} : call'[j] = call[j]
  BY AnsweredTypes
<1>2. key \in Names /\ key # None
  BY Constants DEF IInv, Sound
<1> HIDE DEF key
<1>3. /\ title'[n] = key /\ \A m \in Natives \ {n} : title'[m] = title[m]
      /\ title' \in [Natives -> Names \cup {None}]
      /\ named' = named \cup {<<n, key>>}
  BY <1>2 DEF IInv, TypeOK, key
<1>4. TypeOK'
  BY <1>1, <1>2, <1>3 DEF IInv, TypeOK
<1>5. JournalIsSound'
  BY <1>3 DEF IInv, JournalIsSound, Applied, Grounded, Fits
<1>6. NamesAreSound'
  BY <1>3 DEF IInv, NamesAreSound
<1>7. \A b \in told' : IsTrue(b)'
  BY <1>3, ToldStays
<1>8. \A j \in Callers : Sound(j)'
  BY <1>1, <1>3, OthersStay
<1>9. TurnsAreKept'
  BY <1>1, TurnStays
<1>10. (\A m \in Natives : Exists(m) => Exists(m)') /\ Exists(n)'
  BY <1>2, <1>3 DEF Exists
<1>11. QED
  BY <1>4, <1>5, <1>6, <1>7, <1>8, <1>9, <1>10

LEMMA HostCreatesSound ==
  ASSUME IInv, NEW i \in Callers, NEW n \in Natives, HostCreates(i, n) PROVE IInv'
<1> DEFINE s == call[i].spec
<1>1. PICK a \in {n, None} : call' = [call EXCEPT ![i].stage = "answered", ![i].answer = a]
  BY DEF HostCreates
<1>2. /\ s \in Specs /\ s \in DOMAIN operations /\ s # None
      /\ \A m \in Natives : maker[m] # s
  BY NoneIsNoSpec DEF HostCreates, IInv, Sound
<1>3. ~Exists(n) /\ maker' = [maker EXCEPT ![n] = s] /\ UNCHANGED operations
  BY DEF HostCreates
<1>4. /\ maker' \in [Natives -> Specs \cup {None}] /\ maker'[n] = s
      /\ \A m \in Natives \ {n} : maker'[m] = maker[m]
  BY <1>2, <1>3 DEF IInv, TypeOK
<1>5. /\ TypeOK' /\ JournalIsSound' /\ NamesAreSound' /\ (\A b \in told' : IsTrue(b)')
      /\ (\A j \in Callers : Sound(j)') /\ TurnsAreKept'
      /\ \A m \in Natives : Exists(m) => Exists(m)'
      /\ Exists(n)'
  BY <1>1, <1>4, HostMoves DEF HostCreates
<1> HIDE DEF s
<1>6. HostIsSound'
  <2>1. n # Predecessor
    BY <1>3 DEF IInv, HostIsSound
  <2>2. QED
    BY <1>2, <1>3, <1>4, <1>5, <2>1, Constants DEF IInv, HostIsSound
<1>7. CreatedAtMostOnce'
  BY <1>2, <1>4 DEF IInv, CreatedAtMostOnce
<1>8. QED
  BY <1>5, <1>6, <1>7 DEF IInv

LEMMA HostRenamesSound ==
  ASSUME IInv, NEW i \in Callers, HostRenames(i) PROVE IInv'
<1>1. PICK a \in {Peer, None} : call' = [call EXCEPT ![i].stage = "answered", ![i].answer = a]
  BY DEF HostRenames
<1>2. /\ TypeOK' /\ JournalIsSound' /\ NamesAreSound' /\ (\A b \in told' : IsTrue(b)')
      /\ (\A j \in Callers : Sound(j)') /\ TurnsAreKept'
      /\ \A m \in Natives : Exists(m) => Exists(m)'
  <2>1. maker' = maker /\ maker \in [Natives -> Specs \cup {None}]
    BY DEF HostRenames, IInv, TypeOK
  <2>2. QED
    BY <1>1, <2>1, HostMoves, Constants DEF HostRenames
<1>3. HostIsSound' /\ CreatedAtMostOnce'
  BY <1>2, Constants DEF HostRenames, IInv, HostIsSound, CreatedAtMostOnce
<1>4. QED
  BY <1>2, <1>3 DEF IInv

LEMMA HostReusesSound ==
  ASSUME IInv, NEW i \in Callers, HostReuses(i) PROVE IInv'
<1>1. PICK a \in Natives \cup {None} :
        call' = [call EXCEPT ![i].stage = "answered", ![i].answer = a]
  BY DEF HostReuses
<1>2. /\ call' \in [Callers -> Call] /\ lock = i /\ Sound(i)'
      /\ call'[i].stage = "answered" /\ call'[i].intent = call[i].intent
      /\ \A j \in Callers \ {i} : call'[j] = call[j]
  BY <1>1, AnsweredTypes DEF HostReuses
<1>3. \A j \in Callers : Sound(j)'
  BY <1>2, OthersStay DEF HostReuses
<1>4. TurnsAreKept'
  BY <1>2, TurnStays DEF HostReuses
<1>5. QED
  BY <1>2, <1>3, <1>4, CallsOnly DEF HostReuses, IInv, TypeOK

\* Somebody else names a chat or the registered project.
LEMMA ForeignSound ==
  ASSUME IInv, NEW n \in Natives, NEW name \in Names,
         title' = [title EXCEPT ![n] = name], named' = named \cup {<<n, name>>},
         UNCHANGED <<operations, lock, call, maker, shown, told, overlapped>>
  PROVE  IInv'
<1>1. \A j \in Callers : Sound(j)'
  BY DEF IInv, Sound, SeenIsSound, Grounded, Serves
<1>2. TurnsAreKept'
  BY TurnStays
<1>3. /\ title'[n] = name /\ name # None /\ \A m \in Natives \ {n} : title'[m] = title[m]
      /\ title' \in [Natives -> Names \cup {None}]
  BY Constants DEF IInv, TypeOK
<1>4. TypeOK'
  BY <1>3 DEF IInv, TypeOK
<1>5. HostIsSound' /\ NamesAreSound'
  BY <1>3, Constants DEF IInv, HostIsSound, NamesAreSound, Exists
<1>6. \A a \in told' : IsTrue(a)'
  BY ToldStays
<1>7. JournalIsSound' /\ CreatedAtMostOnce'
  BY DEF IInv, JournalIsSound, Applied, Grounded, Fits, CreatedAtMostOnce
<1>8. QED
  BY <1>1, <1>2, <1>4, <1>5, <1>6, <1>7 DEF IInv

LEMMA AppearSound ==
  ASSUME IInv, NEW n \in Natives, Appear(n) PROVE IInv'
<1>1. /\ UNCHANGED <<operations, lock, call, maker, title, told, named, overlapped>>
      /\ shown' = [shown EXCEPT ![n] = title[n]]
  BY DEF Appear
<1>2. \A j \in Callers : Sound(j)'
  BY <1>1 DEF IInv, Sound, SeenIsSound, Grounded, Serves
<1>3. TurnsAreKept'
  BY <1>1, TurnStays
<1>4. TypeOK' /\ HostIsSound' /\ NamesAreSound'
  BY <1>1 DEF IInv, TypeOK, HostIsSound, NamesAreSound, Exists
<1>5. \A a \in told' : IsTrue(a)'
  BY <1>1, ToldStays
<1>6. QED
  BY <1>1, <1>2, <1>3, <1>4, <1>5 DEF IInv, JournalIsSound, Applied, Grounded, Fits,
     CreatedAtMostOnce

LEMMA OutsideSound ==
  ASSUME IInv,
         \/ \E n \in Natives : ForeignChat(n) \/ Appear(n)
         \/ \E r \in Requests : ForeignRename(r.key)
  PROVE  IInv'
<1>1. CASE \E n \in Natives : ForeignChat(n)
  BY <1>1, ForeignSound, Constants DEF ForeignChat
<1>2. CASE \E n \in Natives : Appear(n)
  BY <1>2, AppearSound
<1>3. CASE \E r \in Requests : ForeignRename(r.key)
  BY <1>3, ForeignSound, Constants DEF ForeignRename
<1>4. QED
  BY <1>1, <1>2, <1>3

-----------------------------------------------------------------------------
(* The journal                                                             *)

\* What is proved to the journal fits the operation.
LEMMA ProvedFits ==
  ASSUME IInv, NEW s \in Specs, NEW n \in Natives, Proved(s, n) PROVE Fits(s, n)
BY Constants DEF Proved, ProvedByReadback, Fits, Kinds, IInv, NamesAreSound

\* An operation that is not applied is settled or left in doubt.
LEMMA RecordTypes ==
  ASSUME IInv, NEW s \in DOMAIN operations, ~Applied(s), UNCHANGED named,
         NEW status \in {"UNKNOWN", "APPLIED_VERIFIED"}, NEW n \in Natives \cup {None},
         status = "APPLIED_VERIFIED" => Fits(s, n),
         operations' = Record(s, status, n)
  PROVE  /\ DOMAIN operations' = DOMAIN operations /\ JournalIsSound'
         /\ operations'[s] = [status |-> status, resource |-> n]
         /\ \A t \in DOMAIN operations : operations'[t] \in Operation
         /\ \A t \in DOMAIN operations \ {s} : operations'[t] = operations[t]
         /\ \A a \in told : IsTrue(a)'
<1>1. /\ DOMAIN operations' = DOMAIN operations
      /\ operations'[s] = [status |-> status, resource |-> n]
      /\ \A t \in DOMAIN operations \ {s} : operations'[t] = operations[t]
  BY DEF Record
<1>2. [status |-> status, resource |-> n] \in Operation
  BY DEF Operation, Open
<1>3. JournalIsSound'
  <2> SUFFICES ASSUME NEW t \in DOMAIN operations
               PROVE  Grounded(t)' /\ (Applied(t)' => Fits(t, operations[t].resource)')
    BY <1>1 DEF JournalIsSound
  <2>1. Grounded(t) /\ (Applied(t) => Fits(t, operations[t].resource))
    BY DEF IInv, JournalIsSound
  <2>2. CASE t = s
    BY <1>1, <2>1, <2>2 DEF Applied, Grounded, Fits
  <2>3. CASE t # s
    BY <1>1, <2>1, <2>3 DEF Applied, Grounded, Fits
  <2>4. QED
    BY <2>2, <2>3
<1>4. \A a \in told : IsTrue(a)'
  <2>1. \A t \in DOMAIN operations : Applied(t) =>
          t \in DOMAIN operations' /\ operations'[t] = operations[t]
    BY <1>1
  <2>2. named \subseteq named'
    OBVIOUS
  <2>3. QED
    BY <2>1, <2>2, ToldStays
<1>5. QED
  BY <1>1, <1>2, <1>3, <1>4 DEF IInv, TypeOK

LEMMA SubmitSound ==
  ASSUME IInv, NEW i \in Callers, Submit(i) PROVE IInv'
<1> DEFINE s == call[i].spec
<1>1. /\ call[i].stage = "chosen" /\ lock = None /\ s \notin DOMAIN operations
      /\ operations' = [t \in DOMAIN operations \cup {s} |->
                          IF t = s THEN [status |-> "SUBMITTING", resource |-> None]
                          ELSE operations[t]]
      /\ lock' = i /\ call' = [call EXCEPT ![i].stage = "calling"]
      /\ UNCHANGED <<maker, title, shown, told, named, overlapped>>
  BY DEF Submit, MaySubmit
<1>2. s \in Specs /\ Grounded(s) /\ call[i].intent \in Requests /\ Serves(s, call[i].intent)
  BY <1>1 DEF IInv, Sound
<1>3. /\ call'[i] \in Call /\ call'[i].stage = "calling" /\ call'[i].spec = s
      /\ call'[i].intent = call[i].intent
      /\ call' \in [Callers -> Call] /\ \A j \in Callers \ {i} : call'[j] = call[j]
  BY <1>1 DEF IInv, TypeOK, Call
<1> HIDE DEF s
<1>4. /\ DOMAIN operations' = DOMAIN operations \cup {s}
      /\ operations'[s] = [status |-> "SUBMITTING", resource |-> None]
      /\ \A t \in DOMAIN operations : operations'[t] = operations[t]
  BY <1>1
<1>5. TypeOK'
  <2>1. [status |-> "SUBMITTING", resource |-> None] \in Operation
    BY DEF Operation, Open
  <2>2. QED
    BY <1>1, <1>2, <1>3, <1>4, <2>1 DEF IInv, TypeOK
<1>6. JournalIsSound' /\ HostIsSound' /\ NamesAreSound' /\ CreatedAtMostOnce'
  BY <1>1, <1>2, <1>4 DEF IInv, JournalIsSound, HostIsSound, NamesAreSound, CreatedAtMostOnce,
     Applied, Grounded, Fits, Exists
<1>7. \A a \in told' : IsTrue(a)'
  BY <1>1, <1>4, ToldStays
<1>8. \A j \in Callers : Sound(j)'
  <2>1. \A n \in Natives : maker[n] # s
    <3>1. s # None
      BY <1>2, NoneIsNoSpec
    <3>2. QED
      BY <1>1, <3>1 DEF IInv, HostIsSound
  <2>2. Sound(i)'
    BY <1>1, <1>2, <1>3, <1>4, <2>1 DEF Sound, Grounded, Serves
  <2>3. QED
    BY <1>1, <1>3, <2>2, OthersStay
<1>9. TurnsAreKept'
  <2> SUFFICES ASSUME NEW h \in Handoffs, h \notin overlapped PROVE InTurn(h)'
    BY <1>1 DEF TurnsAreKept
  <2>1. InTurn(h)
    BY DEF IInv, TurnsAreKept
  <2>2. \A j \in Callers : Working(j, h)' => Working(j, h)
    BY <1>1, <1>3 DEF Working
  <2>3. ForHandoff(s, h) => Working(i, h) /\ \A t \in DOMAIN operations : ~ForHandoff(t, h)
    BY <1>1, <1>2, <2>1, ServesWhatIsAsked DEF InTurn, ForHandoff, Working, s
  <2>4. \A t, u \in DOMAIN operations' : ForHandoff(t, h) /\ ForHandoff(u, h) => t = u
    BY <1>4, <2>1, <2>3 DEF InTurn
  <2>5. ASSUME NEW j \in Callers, call'[j].stage = "chosen", ForHandoff(call'[j].spec, h),
               call'[j].spec \notin DOMAIN operations'
        PROVE  \A t \in DOMAIN operations' : ~ForHandoff(t, h)
    <3>1. j # i /\ call'[j] = call[j]
      BY <1>3, <2>5
    <3>2. Working(j, h)
      BY <2>5, <3>1, ServesWhatIsAsked DEF IInv, Sound, ForHandoff, Working
    <3>3. ~ForHandoff(s, h)
      BY <2>1, <2>3, <3>1, <3>2 DEF InTurn
    <3>4. QED
      BY <1>4, <2>1, <2>5, <3>1, <3>3 DEF InTurn
  <2>6. QED
    BY <2>1, <2>2, <2>4, <2>5 DEF InTurn, ForHandoff
<1>10. QED
  BY <1>5, <1>6, <1>7, <1>8, <1>9 DEF IInv

LEMMA AnswerAppliedSound ==
  ASSUME IInv, NEW i \in Callers, AnswerApplied(i) PROVE IInv'
<1> DEFINE s == call[i].spec
           r == call[i].intent
<1>1. s \in DOMAIN operations /\ Applied(s) /\ s \in Specs /\ r \in Requests /\ Serves(s, r)
  BY DEF AnswerApplied, Applied, IInv, Sound
<1>2. s.intent.key = r.key /\ (s.intent.kind = "CHAT" \/ r.kind = "CHAT" => s.intent = r)
  BY <1>1, ServesWhatIsAsked
<1>3. Fits(s, operations[s].resource)
  BY <1>1 DEF IInv, JournalIsSound
<1>4. Holds(s, operations[s].resource)
  BY <1>1 DEF Holds, Applied, IInv, TypeOK, Operation
<1>5. PICK a : a = [intent |-> r, resource |-> operations[s].resource, from |-> "journal"]
  OBVIOUS
<1>6. a \in Given /\ IsTrue(a)
  BY <1>1, <1>2, <1>3, <1>4, <1>5 DEF IsTrue, Fits, Given
<1>7. Return(i) /\ told' = told \cup {a}
      /\ UNCHANGED <<operations, lock, maker, title, shown, named, overlapped>>
  BY <1>5 DEF AnswerApplied, Tell
<1>8. QED
  BY <1>6, <1>7, GivenSound

\* The call that holds the lock records what became of its operation.
LEMMA OutcomeSound ==
  ASSUME IInv, NEW i \in Callers, call[i].stage = "answered", NEW status, NEW n,
         status \in {"UNKNOWN", "APPLIED_VERIFIED"}, n \in Natives \cup {None},
         status = "APPLIED_VERIFIED" => Proved(call[i].spec, n),
         operations' = Record(call[i].spec, status, n),
         told' = told \/ (status = "APPLIED_VERIFIED" /\ Tell(i, n, "journal")),
         lock' = None, Return(i), UNCHANGED <<maker, title, shown, named, overlapped>>
  PROVE  IInv'
<1> DEFINE s == call[i].spec
           r == call[i].intent
<1>1. /\ lock = i /\ s \in DOMAIN operations /\ ~Applied(s)
      /\ s \in Specs /\ r \in Requests /\ Serves(s, r)
  BY DEF IInv, Sound, Applied
<1>2. s.intent.key = r.key /\ (s.intent.kind = "CHAT" \/ r.kind = "CHAT" => s.intent = r)
  BY <1>1, ServesWhatIsAsked
<1>3. status = "APPLIED_VERIFIED" => n \in Natives /\ Fits(s, n)
  <2>1. status = "APPLIED_VERIFIED" => n \in Natives
    BY DEF Proved, ProvedByReadback
  <2>2. QED
    BY <1>1, <2>1, ProvedFits
<1>4. /\ DOMAIN operations' = DOMAIN operations /\ JournalIsSound'
      /\ operations'[s] = [status |-> status, resource |-> n]
      /\ \A t \in DOMAIN operations : operations'[t] \in Operation
      /\ \A t \in DOMAIN operations \ {s} : operations'[t] = operations[t]
      /\ \A b \in told : IsTrue(b)'
  BY <1>1, <1>3, RecordTypes
<1>5. /\ call' \in [Callers -> Call] /\ call'[i] = Idle /\ Sound(i)'
      /\ \A j \in Callers \ {i} : call'[j] = call[j]
  BY ReturnTypes DEF IInv
<1>6. PICK a : a = [intent |-> r, resource |-> n, from |-> "journal"]
  OBVIOUS
<1>7. /\ told' = told \/ (status = "APPLIED_VERIFIED" /\ told' = told \cup {a})
      /\ status = "APPLIED_VERIFIED" => a \in Given /\ IsTrue(a)'
  <2>1. told' = told \/ (status = "APPLIED_VERIFIED" /\ told' = told \cup {a})
    BY <1>6 DEF Tell
  <2> SUFFICES ASSUME status = "APPLIED_VERIFIED" PROVE a \in Given /\ IsTrue(a)'
    BY <2>1
  <2>2. a \in Given
    BY <1>1, <1>3, <1>6 DEF Given
  <2>3. PICK t \in DOMAIN operations' : t = s
    BY <1>1, <1>4
  <2>4. Serves(t, a.intent)' /\ Holds(t, a.resource)'
    BY <1>1, <1>4, <1>6, <2>3 DEF Serves, Holds
  <2>5. a.intent.kind # "CHAT" => <<a.resource, a.intent.key>> \in named'
    BY <1>2, <1>3, <1>6 DEF Fits
  <2>6. QED
    BY <1>6, <2>2, <2>4, <2>5 DEF IsTrue
<1> HIDE DEF s, r
<1>8. \A b \in told' : IsTrue(b)'
  BY <1>4, <1>6, <1>7
<1>9. TypeOK'
  BY <1>1, <1>4, <1>5, <1>6, <1>7 DEF IInv, TypeOK
<1>10. \A j \in Callers : Sound(j)'
  BY <1>1, <1>5, OthersStay
<1>11. TurnsAreKept'
  BY <1>4, <1>5, TurnStays DEF Idle
<1>12. QED
  BY <1>4, <1>8, <1>9, <1>10, <1>11 DEF IInv, HostIsSound, NamesAreSound, CreatedAtMostOnce, Exists

LEMMA ConcludeSound ==
  ASSUME IInv, NEW i \in Callers, Conclude(i) PROVE IInv'
<1>1. call[i].answer \in Natives \cup {None}
  BY DEF IInv, TypeOK, Call
<1>2. /\ call[i].stage = "answered" /\ Proved(call[i].spec, call[i].answer)
      /\ operations' = Record(call[i].spec, "APPLIED_VERIFIED", call[i].answer)
      /\ told' = told \/ Tell(i, call[i].answer, "journal")
      /\ lock' = None /\ Return(i) /\ UNCHANGED <<maker, title, shown, named, overlapped>>
  BY DEF Conclude
<1>3. QED
  BY <1>1, <1>2, OutcomeSound

LEMMA DoubtSound ==
  ASSUME IInv, NEW i \in Callers, Doubt(i) PROVE IInv'
<1>1. /\ call[i].stage = "answered" /\ operations' = Record(call[i].spec, "UNKNOWN", None)
      /\ lock' = None /\ Return(i) /\ told' = told
      /\ UNCHANGED <<maker, title, shown, named, overlapped>>
  BY DEF Doubt
<1>2. QED
  BY <1>1, OutcomeSound

LEMMA ReconcileSound ==
  ASSUME IInv, NEW s \in DOMAIN operations, NEW n \in Natives, Reconcile(s, n) PROVE IInv'
<1>1. /\ lock = None /\ ~Applied(s) /\ Proved(s, n)
      /\ operations' = Record(s, "APPLIED_VERIFIED", n)
      /\ UNCHANGED <<lock, call, maker, title, shown, told, named, overlapped>>
  BY DEF Reconcile, Applied, Open
<1>2. Fits(s, n)
  BY <1>1, ProvedFits DEF IInv, TypeOK
<1>3. /\ DOMAIN operations' = DOMAIN operations /\ JournalIsSound'
      /\ \A t \in DOMAIN operations : operations'[t] \in Operation
      /\ \A t \in DOMAIN operations \ {s} : operations'[t] = operations[t]
      /\ \A a \in told : IsTrue(a)'
  BY <1>1, <1>2, RecordTypes
<1>4. TypeOK'
  BY <1>1, <1>3 DEF IInv, TypeOK
<1>5. \A j \in Callers : Sound(j)'
  <2>1. \A j \in Callers \ {None} : Sound(j)'
    BY <1>1, OthersStay
  <2>2. QED
    BY <2>1, Constants
<1>6. TurnsAreKept'
  BY <1>1, <1>3, TurnStays
<1>7. QED
  BY <1>1, <1>3, <1>4, <1>5, <1>6 DEF IInv, HostIsSound, NamesAreSound, CreatedAtMostOnce, Exists

LEMMA CrashSound ==
  ASSUME IInv, NEW i \in Callers, Crash(i) PROVE IInv'
<1>1. /\ call' \in [Callers -> Call] /\ call'[i] = Idle /\ Sound(i)'
      /\ \A j \in Callers \ {i} : call'[j] = call[j]
  BY ReturnTypes DEF IInv, Crash
<1>2. \A j \in Callers : Sound(j)'
  BY <1>1, OthersStay DEF Crash
<1>3. TurnsAreKept'
  BY <1>1, TurnStays DEF Idle, Crash
<1>4. TypeOK'
  BY <1>1 DEF IInv, TypeOK, Crash
<1>5. \A a \in told' : IsTrue(a)'
  BY ToldStays DEF Crash
<1>6. QED
  BY <1>2, <1>3, <1>4, <1>5 DEF IInv, Crash, JournalIsSound, Applied, Grounded, Fits,
     HostIsSound, NamesAreSound, CreatedAtMostOnce, Exists

-----------------------------------------------------------------------------
(* Theorems                                                                *)

LEMMA NextSound == IInv /\ [Next]_vars => IInv'
<1> SUFFICES ASSUME IInv, [Next]_vars PROVE IInv'
  OBVIOUS
<1>1. CASE UNCHANGED vars
  <2>1. UNCHANGED <<operations, lock, maker, title, shown, told, named, overlapped, call>>
    BY <1>1 DEF vars
  <2>2. \A j \in Callers : Sound(j)'
    BY <2>1 DEF IInv, Sound, SeenIsSound, Grounded, Serves
  <2>3. TurnsAreKept'
    BY <2>1, TurnStays
  <2>4. QED
    BY <2>1, <2>2, <2>3, CallsOnly DEF IInv, TypeOK
<1>2. ASSUME NEW i \in Callers,
             \/ \E r \in Requests : Look(i, r)
             \/ Choose(i) \/ PassProject(i) \/ ChooseRename(i) \/ AnswerRegistered(i) \/ Decline(i)
             \/ Submit(i) \/ AnswerApplied(i)
             \/ \E n \in Natives : HostCreates(i, n)
             \/ HostRenames(i) \/ HostReuses(i)
             \/ Conclude(i) \/ Doubt(i) \/ Crash(i)
      PROVE  IInv'
  BY <1>2, LookSound, ChooseSound, PassProjectSound, AnswerRegisteredSound, DeclineSound,
     SubmitSound, AnswerAppliedSound, HostCreatesSound, HostRenamesSound, HostReusesSound,
     ConcludeSound, DoubtSound, CrashSound
<1>3. CASE \E s \in DOMAIN operations, n \in Natives : Reconcile(s, n)
  BY <1>3, ReconcileSound
<1>4. CASE \/ \E n \in Natives : ForeignChat(n) \/ Appear(n)
           \/ \E r \in Requests : r.kind = "RENAME" /\ ForeignRename(r.key)
  BY <1>4, OutsideSound
<1>5. QED
  BY <1>1, <1>2, <1>3, <1>4 DEF Next

\* In every reachable state the journal, the host, the running calls and what
\* callers were told fit together.
THEOREM LifecycleInvariant == Spec => []IInv
BY InitSound, NextSound, PTL DEF Spec

\* The journal, the calls, the host and the catalogue keep their shapes.
THEOREM LifecycleTypes == Spec => []TypeOK
<1>1. IInv => TypeOK
  BY DEF IInv
<1>2. QED
  BY <1>1, LifecycleInvariant, PTL

\* One operation makes the host create at most once (_create).
THEOREM NothingIsMadeTwice == Spec => []CreatedAtMostOnce
<1>1. IInv => CreatedAtMostOnce
  BY DEF IInv
<1>2. QED
  BY <1>1, LifecycleInvariant, PTL

\* What a caller is given has had the name it asked for and is held by the journal
\* for its intent, in every later state; only the registered project may come from
\* the catalogue alone (_create, ensure_project).
THEOREM AnswersStayTrue == Spec => []AnswersAreTrue
<1>1. IInv => AnswersAreTrue
  BY DEF IInv, AnswersAreTrue, IsTrue
<1>2. QED
  BY <1>1, LifecycleInvariant, PTL

\* No successor that was given out is a chat of the catalogue its intent was
\* written against, and that catalogue had the predecessor (_proof_resource).
THEOREM SuccessorsAreNew == Spec => []SuccessorIsNew
<1>1. IInv => SuccessorIsNew
  <2> SUFFICES ASSUME IInv, NEW a \in told, NEW s \in DOMAIN operations,
                      a.intent.kind = "CHAT", s.intent = a.intent, Holds(s, a.resource)
               PROVE  Predecessor \in s.baseline /\ a.resource \notin s.baseline
    BY DEF SuccessorIsNew
  <2>1. Applied(s) /\ operations[s].resource = a.resource
    BY DEF Holds, Applied
  <2>2. QED
    BY <2>1 DEF IInv, JournalIsSound, Grounded, Fits
<1>2. QED
  BY <1>1, LifecycleInvariant, PTL

\* As long as no two calls for it overlap, a handoff has one successor, whatever
\* overlaps for other handoffs (create_successor).
THEOREM OneSuccessorPerHandoff == Spec => []OneSuccessorInTurn
<1>1. IInv => OneSuccessorInTurn
  <2> SUFFICES ASSUME IInv, NEW h \in Handoffs, h \notin overlapped,
                      NEW n \in Successors(h), NEW o \in Successors(h)
               PROVE  n = o
    BY DEF OneSuccessorInTurn
  <2>1. /\ maker[n] \in DOMAIN operations /\ maker[o] \in DOMAIN operations
        /\ ForHandoff(maker[n], h) /\ ForHandoff(maker[o], h)
        /\ n \in Natives /\ o \in Natives /\ maker[n] # None
    BY DEF IInv, HostIsSound, Successors, ForHandoff
  <2>2. maker[n] = maker[o]
    BY <2>1 DEF IInv, TurnsAreKept, InTurn
  <2>3. QED
    BY <2>1, <2>2 DEF IInv, CreatedAtMostOnce
<1>2. QED
  BY <1>1, LifecycleInvariant, PTL

\* What was applied stays as it was applied, and nothing is forgotten (_create,
\* reconcile_creation).
THEOREM AppliedStays == Spec => AppliedIsFinal
<1>1. ASSUME IInv, [Next]_vars, NEW s \in DOMAIN operations
      PROVE  s \in DOMAIN operations' /\ (Applied(s) => operations'[s] = operations[s])
  <2>1. CASE UNCHANGED operations
    BY <2>1
  <2>2. CASE \E i \in Callers : Submit(i)
    BY <2>2 DEF Submit, MaySubmit
  <2>3. CASE \E i \in Callers : Conclude(i) \/ Doubt(i)
    <3>1. PICK i \in Callers : Conclude(i) \/ Doubt(i)
      BY <2>3
    <3>2. ~Applied(call[i].spec)
      BY <1>1, <3>1 DEF IInv, Sound, Applied, Conclude, Doubt
    <3>3. QED
      BY <3>1, <3>2 DEF Conclude, Doubt, Record
  <2>4. CASE \E t \in DOMAIN operations, n \in Natives : Reconcile(t, n)
    BY <2>4 DEF Reconcile, Record, Applied, Open
  <2>5. QED
    BY <1>1, <2>1, <2>2, <2>3, <2>4 DEF Next, vars, Look, Choose, PassProject, ChooseRename,
       AnswerRegistered, Decline, AnswerApplied, HostCreates, HostRenames, HostReuses, Crash,
       ForeignChat, ForeignRename, Appear
<1>2. IInv /\ [Next]_vars => [\A s \in DOMAIN operations :
       /\ s \in DOMAIN operations'
       /\ operations[s].status = "APPLIED_VERIFIED" => operations'[s] = operations[s]]_vars
  BY <1>1 DEF Applied
<1>3. QED
  BY <1>2, LifecycleInvariant, PTL DEF Spec, AppliedIsFinal

-----------------------------------------------------------------------------
(* Model turns                                                             *)

\* What holds of one dispatch: a dispatch past its preparation has the token,
\* and its stage says whether the host was asked and what it answered.
Dispatched(d, m) ==
  /\ m \in token[d] => event[m].holder = d
  /\ flow[d][m] \in {"prepared", "waking", "accepted", "refused"} => m \in token[d]
  /\ flow[d][m] = "prepared" => wakes[m] = 0
  /\ flow[d][m] = "waking" => wakes[m] = 1
  /\ flow[d][m] = "accepted" => wakes[m] = 1 /\ m \in agreed
  /\ sighted[d][m] # Nil => <<m, sighted[d][m]>> \in ran

\* What holds of one event in the journal.
Recorded(m) ==
  /\ event[m].holder = Nil <=> event[m].state \in {"ABSENT", "PENDING"}
  /\ event[m].holder = Nil => wakes[m] = 0
  /\ event[m].holder # Nil => m \in acked
  /\ wakes[m] \in {0, 1}
  /\ m \in agreed => wakes[m] = 1
  /\ event[m].state = "DISPATCH_ACCEPTED" => wakes[m] = 1 /\ m \in agreed
  /\ event[m].state = "CONSUMED" => <<m, event[m].turn>> \in ran

QueueInv ==
  /\ QueueTypeOK
  /\ \A d \in Drivers, m \in Messages : Dispatched(d, m)
  /\ \A m \in Messages : Recorded(m)

\* A token has one holder.
LEMMA OneHolder ==
  ASSUME QueueInv, NEW d \in Drivers, NEW e \in Drivers, NEW m \in Messages,
         m \in token[d], m \in token[e]
  PROVE  d = e
<1>1. Dispatched(d, m) /\ Dispatched(e, m)
  BY DEF QueueInv
<1> QED
  BY <1>1 DEF Dispatched

\* The invariant holds of an empty queue with fresh drivers.
LEMMA QueueInitSound == QueueInit => QueueInv
<1> SUFFICES ASSUME QueueInit PROVE QueueInv
  OBVIOUS
<1>1. QueueTypeOK
  BY DEF QueueInit, QueueTypeOK, NoEvent, Event, States, Prepared, Stages
<1>2. ASSUME NEW d \in Drivers, NEW m \in Messages PROVE Dispatched(d, m)
  BY DEF QueueInit, Dispatched
<1>3. ASSUME NEW m \in Messages PROVE Recorded(m)
  BY DEF QueueInit, Recorded, NoEvent
<1> QED
  BY <1>1, <1>2, <1>3 DEF QueueInv

\* Each step of a driver or of the world keeps the invariant.
LEMMA DispatchSound ==
  ASSUME QueueInv, NEW d \in Drivers, NEW m \in Messages, Dispatch(d, m) PROVE QueueInv'
<1> USE DEF Dispatch, Set, store, host
<1>1. QueueTypeOK'
  BY DEF QueueInv, QueueTypeOK, Stages
<1>2. ASSUME NEW e \in Drivers, NEW n \in Messages PROVE Dispatched(e, n)'
  BY DEF QueueInv, QueueTypeOK, Dispatched
<1>3. ASSUME NEW n \in Messages PROVE Recorded(n)'
  BY DEF QueueInv, Recorded
<1> QED
  BY <1>1, <1>2, <1>3 DEF QueueInv

LEMMA PrepareSound ==
  ASSUME QueueInv, NEW d \in Drivers, NEW m \in Messages, Prepare(d, m) PROVE QueueInv'
<1> USE DEF Prepare, MayPrepare, Set, host
<1>1. QueueTypeOK'
  <2>1. event' \in [Messages -> Event]
    BY DEF QueueInv, QueueTypeOK, Event, States, Prepared
  <2>2. PICK s \in {"prepared", "done"} : flow' = [flow EXCEPT ![d][m] = s]
    OBVIOUS
  <2>3. flow' \in [Drivers -> [Messages -> Stages]]
    BY <2>2 DEF QueueInv, QueueTypeOK, Stages
  <2>4. token' \in {token, [token EXCEPT ![d] = @ \cup {m}]}
    OBVIOUS
  <2>5. token' \in [Drivers -> SUBSET Messages]
    BY <2>4 DEF QueueInv, QueueTypeOK
  <2> QED
    BY <2>1, <2>3, <2>5 DEF QueueInv, QueueTypeOK
<1>2. event[m].holder = Nil /\ wakes[m] = 0
  BY DEF QueueInv, Recorded
<1>3. ASSUME NEW e \in Drivers, NEW n \in Messages PROVE Dispatched(e, n)'
  <2>1. Dispatched(e, n) /\ Dispatched(e, m)
    BY DEF QueueInv
  <2>2. m \notin token[e]
    BY <1>2, <2>1, ContinuationAssumption DEF Dispatched
  <2> QED
    BY <1>2, <2>1, <2>2 DEF QueueInv, QueueTypeOK, Dispatched
<1>4. ASSUME NEW n \in Messages PROVE Recorded(n)'
  BY <1>2, ContinuationAssumption DEF QueueInv, QueueTypeOK, Recorded
<1> QED
  BY <1>1, <1>3, <1>4 DEF QueueInv

LEMMA PrepareFailsSound ==
  ASSUME QueueInv, NEW d \in Drivers, NEW m \in Messages, PrepareFails(d, m) PROVE QueueInv'
<1> USE DEF PrepareFails, Set, store, host
<1>1. QueueTypeOK'
  BY DEF QueueInv, QueueTypeOK, Stages
<1>2. ASSUME NEW e \in Drivers, NEW n \in Messages PROVE Dispatched(e, n)'
  BY DEF QueueInv, QueueTypeOK, Dispatched
<1>3. ASSUME NEW n \in Messages PROVE Recorded(n)'
  BY DEF QueueInv, QueueTypeOK, Recorded
<1> QED
  BY <1>1, <1>2, <1>3 DEF QueueInv

LEMMA SkipSound ==
  ASSUME QueueInv, NEW d \in Drivers, NEW m \in Messages, Skip(d, m) PROVE QueueInv'
<1> USE DEF Skip, Set, store, host
<1>1. QueueTypeOK'
  BY DEF QueueInv, QueueTypeOK, Stages
<1>2. ASSUME NEW e \in Drivers, NEW n \in Messages PROVE Dispatched(e, n)'
  BY DEF QueueInv, QueueTypeOK, Dispatched
<1>3. ASSUME NEW n \in Messages PROVE Recorded(n)'
  BY DEF QueueInv, QueueTypeOK, Recorded
<1> QED
  BY <1>1, <1>2, <1>3 DEF QueueInv

LEMMA WakeSound ==
  ASSUME QueueInv, NEW d \in Drivers, NEW m \in Messages, Wake(d, m) PROVE QueueInv'
<1> USE DEF Wake, Set, store
<1>1. QueueTypeOK'
  BY DEF QueueInv, QueueTypeOK, Stages
<1>2. m \in token[d] /\ event[m].holder = d /\ wakes[m] = 0 /\ wakes'[m] = 1
  <2>1. Dispatched(d, m) /\ wakes'[m] = wakes[m] + 1
    BY DEF QueueInv, QueueTypeOK
  <2> QED
    BY <2>1 DEF Dispatched
<1>3. ASSUME NEW e \in Drivers, NEW n \in Messages PROVE Dispatched(e, n)'
  <2>1. Dispatched(e, n) /\ wakes' \in [Messages -> Nat] /\ flow' \in [Drivers -> [Messages -> Stages]]
    BY <1>1 DEF QueueInv, QueueTypeOK
  <2>2. CASE n # m
    BY <2>1, <2>2 DEF QueueInv, QueueTypeOK, Dispatched
  <2>3. CASE n = m /\ e # d
    <3>1. m \notin token[e]
      BY <1>2, <2>3, OneHolder
    <3> QED
      BY <2>1, <2>3, <3>1 DEF QueueInv, QueueTypeOK, Dispatched
  <2>4. CASE n = m /\ e = d
    BY <1>2, <2>1, <2>4 DEF QueueInv, QueueTypeOK, Dispatched
  <2> QED
    BY <2>2, <2>3, <2>4
<1>4. ASSUME NEW n \in Messages PROVE Recorded(n)'
  <2>1. Recorded(n) /\ (n # m => wakes'[n] = wakes[n])
    BY DEF QueueInv, QueueTypeOK
  <2> QED
    BY <1>2, <2>1, ContinuationAssumption DEF Recorded
<1> QED
  BY <1>1, <1>3, <1>4 DEF QueueInv

LEMMA AnswerSound ==
  ASSUME QueueInv, NEW d \in Drivers, NEW m \in Messages, Answer(d, m) PROVE QueueInv'
<1> USE DEF Answer, Set, store
<1>1. QueueTypeOK'
  BY DEF QueueInv, QueueTypeOK, Stages
<1>2. ASSUME NEW e \in Drivers, NEW n \in Messages PROVE Dispatched(e, n)'
  <2>1. Dispatched(e, n) /\ (e # d \/ n # m => flow'[e][n] = flow[e][n])
    BY DEF QueueInv, QueueTypeOK
  <2>2. flow[d][m] = "waking" /\ flow'[d][m] \in {"accepted", "refused"}
    BY DEF QueueInv, QueueTypeOK
  <2>3. flow'[d][m] = "accepted" => m \in agreed'
    BY DEF QueueInv, QueueTypeOK
  <2> QED
    BY <2>1, <2>2, <2>3 DEF Dispatched
<1>3. ASSUME NEW n \in Messages PROVE Recorded(n)'
  <2>1. Recorded(n) /\ Dispatched(d, m)
    BY DEF QueueInv
  <2>2. wakes[m] = 1
    BY <2>1 DEF Dispatched
  <2> QED
    BY <2>1, <2>2 DEF Recorded
<1> QED
  BY <1>1, <1>2, <1>3 DEF QueueInv

LEMMA FinishSound ==
  ASSUME QueueInv, NEW d \in Drivers, NEW m \in Messages, Finish(d, m) PROVE QueueInv'
<1> USE DEF Finish, host
<1>1. PICK s \in {event[m].state, Outcome(event[m].state, flow[d][m] = "accepted")} :
        event' = [event EXCEPT ![m] = [event[m] EXCEPT !.state = s]]
  BY DEF QueueInv, QueueTypeOK, Event
<1> DEFINE e == [event[m] EXCEPT !.state = s]
<1>2. /\ Dispatched(d, m) /\ m \in token[d]
      /\ Recorded(m) /\ event[m] \in Event
  BY DEF QueueInv, QueueTypeOK, Dispatched
<1>3. /\ e \in Event /\ e.holder = event[m].holder /\ e.turn = event[m].turn /\ e.state = s
      /\ event[m].holder # Nil
  BY <1>2, ContinuationAssumption DEF Event, Outcome, Dispatched, States, Prepared
<1>4. /\ s \notin {"ABSENT", "PENDING"}
      /\ s = "CONSUMED" => event[m].state = "CONSUMED"
      /\ s = "DISPATCH_ACCEPTED" => wakes[m] = 1 /\ m \in agreed
  BY <1>2, <1>3, ContinuationAssumption DEF Outcome, Prepared, Recorded, Dispatched
<1> HIDE DEF e
<1>5. event' = [event EXCEPT ![m] = e]
  BY <1>1 DEF e
<1>6. event'[m] = e /\ \A n \in Messages \ {m} : event'[n] = event[n]
  BY <1>5 DEF QueueInv, QueueTypeOK
<1>7. QueueTypeOK'
  BY <1>3, <1>5 DEF QueueInv, QueueTypeOK, Stages, Set
<1>8. ASSUME NEW f \in Drivers, NEW n \in Messages PROVE Dispatched(f, n)'
  <2>1. Dispatched(f, n) /\ (f # d \/ n # m => flow'[f][n] = flow[f][n])
    BY DEF QueueInv, QueueTypeOK, Set
  <2>2. flow'[d][m] = "done" /\ event'[n].holder = event[n].holder
    BY <1>3, <1>6 DEF QueueInv, QueueTypeOK, Set
  <2> QED
    BY <2>1, <2>2 DEF Dispatched
<1>9. ASSUME NEW n \in Messages PROVE Recorded(n)'
  <2>1. Recorded(n)
    BY DEF QueueInv
  <2>2. CASE n = m
    BY <1>2, <1>3, <1>4, <1>6, <2>2 DEF Recorded
  <2>3. CASE n # m
    BY <1>6, <2>1, <2>3 DEF Recorded
  <2> QED
    BY <2>2, <2>3
<1> QED
  BY <1>7, <1>8, <1>9 DEF QueueInv

LEMMA ObserveSound ==
  ASSUME QueueInv, NEW d \in Drivers, NEW m \in Messages, NEW t \in Turns, Observe(d, m, t) PROVE QueueInv'
<1> USE DEF Observe, store, host
<1>1. QueueTypeOK'
  BY DEF QueueInv, QueueTypeOK, Stages
<1>2. ASSUME NEW e \in Drivers, NEW n \in Messages PROVE Dispatched(e, n)'
  <2>1. Dispatched(e, n) /\ (e # d \/ n # m => sighted'[e][n] = sighted[e][n])
    BY DEF QueueInv, QueueTypeOK
  <2>2. <<m, sighted'[d][m]>> \in ran
    BY DEF QueueInv, QueueTypeOK
  <2> QED
    BY <2>1, <2>2 DEF Dispatched
<1>3. ASSUME NEW n \in Messages PROVE Recorded(n)'
  BY DEF QueueInv, QueueTypeOK, Recorded
<1> QED
  BY <1>1, <1>2, <1>3 DEF QueueInv

LEMMA ConsumeSound ==
  ASSUME QueueInv, NEW d \in Drivers, NEW m \in Messages, Consume(d, m) PROVE QueueInv'
<1> USE DEF Consume, host
<1>1. QueueTypeOK /\ Dispatched(d, m) /\ Recorded(m) /\ event[m] \in Event
  BY DEF QueueInv, QueueTypeOK
<1>2. ASSUME NEW e \in Drivers, NEW n \in Messages
      PROVE  /\ Dispatched(e, n)
             /\ sighted'[e][n] # Nil => sighted'[e][n] = sighted[e][n]
             /\ flow' = flow /\ token' = token /\ wakes' = wakes
             /\ agreed' = agreed /\ ran' = ran
  <2>1. sighted'[e][n] = IF e = d /\ n = m THEN Nil ELSE sighted[e][n]
    BY DEF QueueInv, QueueTypeOK
  <2> QED
    BY <2>1 DEF QueueInv
<1>3. sighted' \in [Drivers -> [Messages -> Turns \cup {Nil}]]
  BY DEF QueueInv, QueueTypeOK
<1>4. CASE event' = event
  <2>1. QueueTypeOK'
    BY <1>1, <1>3, <1>4 DEF QueueTypeOK
  <2>2. ASSUME NEW e \in Drivers, NEW n \in Messages PROVE Dispatched(e, n)'
    BY <1>2, <1>4 DEF Dispatched
  <2>3. ASSUME NEW n \in Messages PROVE Recorded(n)'
    BY <1>4 DEF QueueInv, Recorded
  <2> QED
    BY <2>1, <2>2, <2>3 DEF QueueInv
<1>5. CASE MayConsume(d, m)
           /\ event' = [event EXCEPT ![m].state = "CONSUMED", ![m].turn = sighted[d][m]]
  <2> DEFINE c == [event[m] EXCEPT !.state = "CONSUMED", !.turn = sighted[d][m]]
  <2>1. sighted[d][m] \in Turns /\ <<m, sighted[d][m]>> \in ran
    BY <1>1 DEF QueueTypeOK, Dispatched
  <2>2. /\ c \in Event /\ c.state = "CONSUMED" /\ c.turn = sighted[d][m]
        /\ c.holder = event[m].holder /\ event[m].holder # Nil
    BY <1>1, <1>5, <2>1, ContinuationAssumption DEF Event, States, MayConsume
  <2>3. event' = [event EXCEPT ![m] = c]
    BY <1>1, <1>5 DEF QueueTypeOK, Event
  <2> HIDE DEF c
  <2>4. event'[m] = c /\ \A n \in Messages \ {m} : event'[n] = event[n]
    BY <1>1, <2>3 DEF QueueTypeOK
  <2>5. QueueTypeOK'
    BY <1>1, <1>3, <2>2, <2>3 DEF QueueTypeOK
  <2>6. ASSUME NEW e \in Drivers, NEW n \in Messages PROVE Dispatched(e, n)'
    <3>1. event'[n].holder = event[n].holder
      BY <2>2, <2>4
    <3> QED
      BY <1>2, <3>1 DEF Dispatched
  <2>7. ASSUME NEW n \in Messages PROVE Recorded(n)'
    <3>1. Recorded(n)
      BY DEF QueueInv
    <3>2. CASE n = m
      BY <1>1, <2>1, <2>2, <2>4, <3>2 DEF Recorded
    <3>3. CASE n # m
      BY <2>4, <3>1, <3>3 DEF Recorded
    <3> QED
      BY <3>2, <3>3
  <2> QED
    BY <2>5, <2>6, <2>7 DEF QueueInv
<1> QED
  BY <1>4, <1>5

LEMMA StopSound ==
  ASSUME QueueInv, NEW d \in Drivers, Stop(d) PROVE QueueInv'
<1> USE DEF Stop, store, host
<1>1. QueueTypeOK'
  BY DEF QueueInv, QueueTypeOK, Stages
<1>2. ASSUME NEW e \in Drivers, NEW n \in Messages PROVE Dispatched(e, n)'
  BY DEF QueueInv, QueueTypeOK, Dispatched
<1>3. ASSUME NEW n \in Messages PROVE Recorded(n)'
  BY DEF QueueInv, QueueTypeOK, Recorded
<1> QED
  BY <1>1, <1>2, <1>3 DEF QueueInv

LEMMA RestartSound ==
  ASSUME QueueInv, NEW d \in Drivers, Restart(d) PROVE QueueInv'
<1> USE DEF Restart, store, host
<1>1. QueueTypeOK'
  BY DEF QueueInv, QueueTypeOK, Stages
<1>2. ASSUME NEW e \in Drivers, NEW n \in Messages PROVE Dispatched(e, n)'
  BY DEF QueueInv, QueueTypeOK, Dispatched
<1>3. ASSUME NEW n \in Messages PROVE Recorded(n)'
  BY DEF QueueInv, QueueTypeOK, Recorded
<1> QED
  BY <1>1, <1>2, <1>3 DEF QueueInv

LEMMA ReceiveSound ==
  ASSUME QueueInv, NEW m \in Messages, Receive(m) PROVE QueueInv'
<1> USE DEF Receive, host
<1>1. QueueTypeOK'
  BY DEF QueueInv, QueueTypeOK, Stages
<1>2. ASSUME NEW e \in Drivers, NEW n \in Messages PROVE Dispatched(e, n)'
  BY DEF QueueInv, QueueTypeOK, Dispatched
<1>3. ASSUME NEW n \in Messages PROVE Recorded(n)'
  BY DEF QueueInv, QueueTypeOK, Recorded
<1> QED
  BY <1>1, <1>2, <1>3 DEF QueueInv

LEMMA EnqueueSound ==
  ASSUME QueueInv, NEW m \in Messages, Enqueue(m) PROVE QueueInv'
<1> USE DEF Enqueue, host, Event, States, Prepared
<1>1. QueueTypeOK'
  BY DEF QueueInv, QueueTypeOK, Stages
<1>2. ASSUME NEW e \in Drivers, NEW n \in Messages PROVE Dispatched(e, n)'
  BY DEF QueueInv, QueueTypeOK, Dispatched
<1>3. ASSUME NEW n \in Messages PROVE Recorded(n)'
  BY DEF QueueInv, QueueTypeOK, Recorded
<1> QED
  BY <1>1, <1>2, <1>3 DEF QueueInv

LEMMA ExpireSound ==
  ASSUME QueueInv, NEW m \in Messages, Expire(m) PROVE QueueInv'
<1> USE DEF Expire, host
<1>1. QueueTypeOK'
  BY DEF QueueInv, QueueTypeOK, Stages
<1>2. ASSUME NEW e \in Drivers, NEW n \in Messages PROVE Dispatched(e, n)'
  BY DEF QueueInv, QueueTypeOK, Dispatched
<1>3. ASSUME NEW n \in Messages PROVE Recorded(n)'
  BY DEF QueueInv, QueueTypeOK, Recorded
<1> QED
  BY <1>1, <1>2, <1>3 DEF QueueInv

LEMMA RunSound ==
  ASSUME QueueInv, NEW m \in Messages, NEW t \in Turns, Run(m, t) PROVE QueueInv'
<1> USE DEF Run, store
<1>1. QueueTypeOK'
  BY DEF QueueInv, QueueTypeOK, Stages
<1>2. ASSUME NEW e \in Drivers, NEW n \in Messages PROVE Dispatched(e, n)'
  BY DEF QueueInv, QueueTypeOK, Dispatched
<1>3. ASSUME NEW n \in Messages PROVE Recorded(n)'
  BY DEF QueueInv, QueueTypeOK, Recorded
<1> QED
  BY <1>1, <1>2, <1>3 DEF QueueInv

LEMMA ReportSound ==
  ASSUME QueueInv, NEW m \in Messages, NEW a \in BOOLEAN, Report(m, a) PROVE QueueInv'
<1> USE DEF Report, host
<1> DEFINE s == Outcome(event[m].state, a)
           e == [event[m] EXCEPT !.state = s]
<1>1. Recorded(m) /\ event[m] \in Event
  BY DEF QueueInv, QueueTypeOK
<1>2. /\ s \in Prepared
      /\ s = "DISPATCH_ACCEPTED" => wakes[m] = 1 /\ m \in agreed
  BY <1>1 DEF Outcome, Prepared, Recorded
<1>3. event' = [event EXCEPT ![m] = e]
  BY DEF QueueInv, QueueTypeOK, Event
<1>4. e \in Event /\ e.holder = event[m].holder /\ e.turn = event[m].turn /\ e.state = s
  BY <1>1, <1>2 DEF Event, States
<1> HIDE DEF e
<1>5. event'[m] = e /\ \A n \in Messages \ {m} : event'[n] = event[n]
  BY <1>3 DEF QueueInv, QueueTypeOK
<1>6. QueueTypeOK'
  BY <1>3, <1>4 DEF QueueInv, QueueTypeOK
<1>7. ASSUME NEW d \in Drivers, NEW n \in Messages PROVE Dispatched(d, n)'
  <2>1. Dispatched(d, n) /\ event'[n].holder = event[n].holder
    BY <1>4, <1>5 DEF QueueInv
  <2> QED
    BY <2>1 DEF Dispatched
<1>8. ASSUME NEW n \in Messages PROVE Recorded(n)'
  <2>1. Recorded(n)
    BY DEF QueueInv
  <2>2. CASE n = m
    BY <1>1, <1>2, <1>4, <1>5, <2>2 DEF Recorded, Prepared
  <2>3. CASE n # m
    BY <1>5, <2>1, <2>3 DEF Recorded
  <2> QED
    BY <2>2, <2>3
<1> QED
  BY <1>6, <1>7, <1>8 DEF QueueInv

\* No step leaves the invariant.
LEMMA QueueStepSound == QueueInv /\ [QueueNext]_queueVars => QueueInv'
<1> SUFFICES ASSUME QueueInv, [QueueNext]_queueVars PROVE QueueInv'
  OBVIOUS
<1>1. CASE UNCHANGED queueVars
  BY <1>1 DEF QueueInv, QueueTypeOK, Dispatched, Recorded, queueVars
<1>2. ASSUME NEW d \in Drivers, NEW m \in Messages,
             \/ Dispatch(d, m) \/ Prepare(d, m) \/ PrepareFails(d, m)
             \/ Skip(d, m) \/ Wake(d, m) \/ Answer(d, m) \/ Finish(d, m)
             \/ \E t \in Turns : Observe(d, m, t)
             \/ Consume(d, m)
      PROVE  QueueInv'
  BY <1>2, DispatchSound, PrepareSound, PrepareFailsSound, SkipSound, WakeSound,
     AnswerSound, FinishSound, ObserveSound, ConsumeSound
<1>3. ASSUME NEW d \in Drivers, Stop(d) \/ Restart(d) PROVE QueueInv'
  BY <1>3, StopSound, RestartSound
<1>4. ASSUME NEW m \in Messages, Receive(m) \/ Enqueue(m) \/ Expire(m) PROVE QueueInv'
  BY <1>4, ReceiveSound, EnqueueSound, ExpireSound
<1>5. ASSUME NEW m \in Messages, NEW t \in Turns, Run(m, t) PROVE QueueInv'
  BY <1>5, RunSound
<1>6. ASSUME NEW m \in Messages, NEW a \in BOOLEAN, Report(m, a) PROVE QueueInv'
  BY <1>6, ReportSound
<1> QED
  BY <1>1, <1>2, <1>3, <1>4, <1>5, <1>6 DEF QueueNext

\* Every reachable state satisfies the invariant about tokens and events.
THEOREM TokenInvariant == QueueSpec => []QueueInv
<1> QED
  BY QueueInitSound, QueueStepSound, PTL DEF QueueSpec

\* Every reachable state is well typed.
THEOREM QueueTypes == QueueSpec => []QueueTypeOK
<1>1. QueueInv => QueueTypeOK
  BY DEF QueueInv
<1> QED
  BY <1>1, TokenInvariant, PTL

\* The host is asked to wake the model at most once per message, and never
\* before the journal holds the preparation, for any number of drivers,
\* restarts and lost answers.
THEOREM WakesAtMostOnce == QueueSpec => []WokenAtMostOnce
<1>1. QueueInv => WokenAtMostOnce
  <2> SUFFICES ASSUME QueueInv, NEW m \in Messages
               PROVE  wakes[m] <= 1 /\ (wakes[m] = 1 => event[m].state \in Prepared \cup {"CONSUMED"})
    BY DEF WokenAtMostOnce
  <2>1. Recorded(m) /\ event[m] \in Event
    BY DEF QueueInv, QueueTypeOK
  <2>2. event[m].state \in States
    BY <2>1 DEF Event
  <2> QED
    BY <2>1, <2>2 DEF Recorded, States
<1> QED
  BY <1>1, TokenInvariant, PTL

\* A consumed event names a model turn that ran on its received message.
THEOREM ConsumesOnlyTurns == QueueSpec => []ConsumedWasRun
<1>1. QueueInv => ConsumedWasRun
  <2> SUFFICES ASSUME QueueInv, NEW m \in Messages, event[m].state = "CONSUMED"
               PROVE  m \in acked /\ <<m, event[m].turn>> \in ran
    BY DEF ConsumedWasRun
  <2>1. Recorded(m)
    BY DEF QueueInv
  <2> QED
    BY <2>1 DEF Recorded
<1> QED
  BY <1>1, TokenInvariant, PTL

\* A dispatch recorded as accepted was agreed to by the host.
THEOREM AcceptsOnlyAgreement == QueueSpec => []AcceptedWasAgreed
<1>1. QueueInv => AcceptedWasAgreed
  BY DEF QueueInv, Recorded, AcceptedWasAgreed
<1> QED
  BY <1>1, TokenInvariant, PTL

\* The only steps that touch an event past its preparation.
LEMMA EventChanges ==
  ASSUME QueueTypeOK, [QueueNext]_queueVars, NEW m \in Messages, event[m].state \in {"DELIVERY_UNKNOWN", "CONSUMED"}
  PROVE  \/ event'[m] = event[m]
         \/ event[m].state = "DELIVERY_UNKNOWN" /\ event'[m].state = "CONSUMED"
<1>1. CASE \E d \in Drivers, n \in Messages : Prepare(d, n)
  BY <1>1 DEF Prepare, MayPrepare, QueueTypeOK
<1>2. CASE \E d \in Drivers, n \in Messages : Finish(d, n)
  <2>1. PICK d \in Drivers, n \in Messages : Finish(d, n)
    BY <1>2
  <2>2. CASE event' = event
    BY <2>2
  <2>3. CASE event' = [event EXCEPT ![n].state = Outcome(@, flow[d][n] = "accepted")]
    <3>1. CASE n = m
      <4>1. Outcome(event[m].state, flow[d][m] = "accepted") = event[m].state
        BY DEF Outcome, Prepared
      <4> QED
        BY <2>3, <3>1, <4>1 DEF QueueTypeOK, Event
    <3>2. CASE n # m
      BY <2>3, <3>2 DEF QueueTypeOK
    <3> QED
      BY <3>1, <3>2
  <2> QED
    BY <2>1, <2>2, <2>3 DEF Finish
<1>3. CASE \E d \in Drivers, n \in Messages : Consume(d, n)
  <2>1. PICK d \in Drivers, n \in Messages : Consume(d, n)
    BY <1>3
  <2>2. CASE event' = event
    BY <2>2
  <2>3. CASE MayConsume(d, n)
             /\ event' = [event EXCEPT ![n].state = "CONSUMED", ![n].turn = sighted[d][n]]
    BY <2>3 DEF MayConsume, Prepared, QueueTypeOK, Event
  <2> QED
    BY <2>1, <2>2, <2>3 DEF Consume
<1>4. CASE \E n \in Messages : Enqueue(n)
  BY <1>4 DEF Enqueue, QueueTypeOK
<1>5. CASE event' = event
  BY <1>5
<1>6. CASE \E n \in Messages, a \in BOOLEAN : Report(n, a)
  <2>1. PICK n \in Messages, a \in BOOLEAN : Report(n, a)
    BY <1>6
  <2>2. n = m => Outcome(event[m].state, a) = event[m].state
    BY DEF Outcome, Prepared
  <2> QED
    BY <2>1, <2>2 DEF Report, QueueTypeOK, Event
<1>7. \/ event' = event
      \/ \E n \in Messages, a \in BOOLEAN : Report(n, a)
      \/ \E d \in Drivers, n \in Messages : Prepare(d, n) \/ Finish(d, n) \/ Consume(d, n)
      \/ \E n \in Messages : Enqueue(n)
  BY DEF QueueNext, queueVars, Dispatch, PrepareFails, Skip, Wake, Answer, Observe, Stop, Restart,
         Receive, Expire, Run, store
<1> QED
  BY <1>1, <1>2, <1>3, <1>4, <1>5, <1>6, <1>7

\* An unknown outcome ends only with an observed turn.
THEOREM UnknownEndsWithTurn == QueueSpec => UnknownStays
<1>1. QueueTypeOK /\ [QueueNext]_queueVars =>
        [\A m \in Messages : event[m].state = "DELIVERY_UNKNOWN" =>
           event'[m].state \in {"DELIVERY_UNKNOWN", "CONSUMED"}]_queueVars
  BY EventChanges
<1> QED
  BY <1>1, QueueTypes, PTL DEF QueueSpec, UnknownStays

\* A consumed event never changes again.
THEOREM ConsumptionIsFinal == QueueSpec => ConsumedStays
<1>1. QueueTypeOK /\ [QueueNext]_queueVars =>
        [\A m \in Messages : event[m].state = "CONSUMED" => event'[m] = event[m]]_queueVars
  BY EventChanges
<1> QED
  BY <1>1, QueueTypes, PTL DEF QueueSpec, ConsumedStays
=============================================================================
