---------------------------- MODULE TaskLoopProofs ----------------------------
(***************************************************************************)
(* Theorems about one task on one route.  The invariant ties together the  *)
(* call that is running, the receipt its delivery root keeps, the input    *)
(* the chat took and what the task remembers of its result.                *)
(***************************************************************************)
EXTENDS TaskLoop, TLAPS

\* The delivery root of the task.
Home == {"executor", "reviewer", origin}
ReturnStatuses == {"RETURN_PREPARED", "RETURN_INPUT_OBSERVED"}

\* The input of a message as a receipt or a call names it.
Took(kind, id, text) ==
  \E r \in received : r.kind = kind /\ r.id = id /\ r.text = text

\* What a running call relies on at each stage.
Running(i) == LET c == call[i]  e == journal[Home][c.id] IN
  c.stage # "idle" =>
    /\ lock = i /\ entry # None /\ Binding(c.kind) # None
    /\ c.kind = "return" => /\ c.id \in Ids /\ c.id = entry.id /\ c.text = entry.text
                           /\ entry.status \in ReturnStatuses
    /\ c.stage = "open" => ~\E r \in received : r.id = c.id
    /\ c.stage \in {"open", "submitted"} => e = [event |-> Event(c.kind, c.text), settled |-> FALSE]
    /\ c.stage \in {"submitted", "acked"} => Took(c.kind, c.id, c.text)

\* An input has a receipt that names it, it was the first of its id, and as a
\* result it is the one the task remembers.
Backed(r) ==
  /\ entry # None /\ ~r.again /\ Binding(r.kind) # None /\ r.chat = Target(r.kind)
  /\ journal[Home][r.id] # None /\ journal[Home][r.id].event = Event(r.kind, r.text)
  /\ r.kind = "return" => /\ entry.id # None /\ r.id = entry.id /\ r.text = entry.text
                         /\ r.version = entry.artifact

\* A settled receipt has an input, and one receipt at most is open.
RootIsSound ==
  /\ \A m \in AllIds : journal[Home][m] # None /\ journal[Home][m].settled =>
       \E r \in received : r.id = m
  /\ \A m, n \in AllIds : Unsettled(Home, m) /\ Unsettled(Home, n) => m = n
  /\ \A k \in Keys \ {Home}, m \in AllIds : journal[k][m] = None

\* What the status of the task says about its review and its result.
TaskIsSound == entry # None =>
  /\ entry.id # None <=> entry.status \in ReturnStatuses
  /\ entry.status \in ReturnStatuses \cup {"REVIEW_ACCEPTED"} =>
       entry.review = [version |-> entry.artifact, pass |-> TRUE]
  /\ entry.status = "REVIEW_PENDING" => entry.artifact \in Versions
  /\ entry.status = "RETURN_INPUT_OBSERVED" =>
       Took("return", entry.id, entry.text)

IInv ==
  /\ TypeOK /\ RootIsSound /\ TaskIsSound
  /\ \A i \in Callers : Running(i)
  /\ \A r \in received : Backed(r)
-----------------------------------------------------------------------------
(* Facts about events and receipts                                         *)

\* Two messages that are really sent have the same event only if they are the
\* same kind of message with the same text.
LEMMA EventNames ==
  ASSUME NEW kind \in Kinds, NEW other \in Kinds, NEW x, NEW y,
         Binding(kind) # None, Binding(other) # None,
         Event(kind, x) = Event(other, y)
  PROVE  kind = other /\ x = y
<1>1. /\ Binding(kind) = Binding(other) /\ Target(kind) = Target(other) /\ x = y
  BY DEF Event
<1>2. origin = "executor" => kind = "review" /\ other = "review"
  BY DEF Binding, Kinds
<1>3. kind = "review" /\ other # "review" => origin = "executor"
  BY <1>1 DEF Binding
<1>4. kind # "review" /\ other = "review" => origin = "executor"
  BY <1>1 DEF Binding
<1> QED
  BY <1>1, <1>2, <1>3, <1>4 DEF Target, Kinds

LEMMA ReceiptTyped ==
  ASSUME TypeOK, NEW kind \in Kinds, NEW x \in Texts \cup {Request}, NEW b \in BOOLEAN
  PROVE  [event |-> Event(kind, x), settled |-> b] \in Receipt
<1>1. origin \in Chats
  BY TaskLoopAssumption DEF TypeOK, Chats
<1>2. Binding(kind) \in (Chats \X Chats) \cup {None}
  BY <1>1 DEF Binding, Chats
<1>3. Target(kind) \in Chats
  BY <1>1 DEF Target, Chats, Kinds
<1> QED
  BY <1>2, <1>3 DEF Event, Receipt

LEMMA HomeIsKey == TypeOK => Home \in Keys /\ (\A b : Key(b) = Home)
BY TaskLoopAssumption DEF TypeOK, Home, Keys, Chats, Key

\* While the lock is free no call runs.
LEMMA FreeIsQuiet ==
  ASSUME IInv, lock = None, NEW i \in Callers
  PROVE  call[i].stage = "idle"
BY TaskLoopAssumption DEF IInv, Running

\* No result has been sent before the task fixes its id.
LEMMA NoEarlyResult ==
  ASSUME IInv, entry # None, entry.status \notin ReturnStatuses
  PROVE  \A r \in received : r.kind # "return"
BY DEF IInv, TaskIsSound, Backed

-----------------------------------------------------------------------------
(* Initially, and steps of the task                                        *)

LEMMA InitSound == Init => IInv
<1> SUFFICES ASSUME Init PROVE IInv
  OBVIOUS
<1>1. TypeOK
  BY DEF Init, TypeOK, Idle, Call, Kinds, AllIds
<1>2. Home \in Keys
  BY <1>1, HomeIsKey
<1> QED
  BY <1>1, <1>2 DEF Init, IInv, RootIsSound, TaskIsSound, Running, Backed, Idle, Unsettled

\* A change of the task while no call runs and no result is out.
LEMMA QuietTask ==
  ASSUME IInv, lock = None, UNCHANGED <<origin, roots, received, lock, call>>,
         entry' \in Entry, TaskIsSound', received # {} => entry' # None,
         \A r \in received : r.kind # "return"
  PROVE  IInv'
<1>1. TypeOK'
  BY DEF IInv, TypeOK, roots
<1>2. RootIsSound'
  BY DEF IInv, RootIsSound, Home, Unsettled, roots
<1>3. ASSUME NEW i \in Callers PROVE Running(i)'
  BY <1>3, FreeIsQuiet DEF Running
<1>4. ASSUME NEW r \in received' PROVE Backed(r)'
  BY <1>4 DEF IInv, Backed, Binding, Target, Event, Home, roots
<1> QED
  BY <1>1, <1>2, <1>3, <1>4 DEF IInv

LEMMA PrepareSound == ASSUME IInv, Prepare PROVE IInv'
<1>1. entry' = Planned /\ Planned \in Entry /\ Planned # None
  BY NoneIsNoRecord DEF Prepare, Put, Planned, Entry, Statuses
<1>2. received = {}
  BY DEF Prepare, IInv, Backed
<1>3. TaskIsSound'
  BY <1>1 DEF TaskIsSound, Planned, ReturnStatuses
<1> QED
  BY <1>1, <1>2, <1>3, QuietTask DEF Prepare

LEMMA SetArtifactSound ==
  ASSUME IInv, NEW v \in Versions, SetArtifact(v) PROVE IInv'
<1>1. entry \in Entry /\ entry.status \notin ReturnStatuses /\ entry.id = None
  BY DEF SetArtifact, IInv, TypeOK, TaskIsSound, ReturnStatuses
<1>2. /\ entry' \in Entry /\ entry'.status = "REVIEW_PENDING"
      /\ entry'.artifact = v /\ entry'.id = None
  BY <1>1 DEF SetArtifact, Put, Entry, Statuses
<1>3. TaskIsSound' /\ entry' # None
  BY <1>2, NoneIsNoRecord DEF TaskIsSound, ReturnStatuses
<1>4. \A r \in received : r.kind # "return"
  BY <1>1, NoEarlyResult DEF SetArtifact
<1> QED
  BY <1>2, <1>3, <1>4, QuietTask DEF SetArtifact

LEMMA ObserveReviewSound ==
  ASSUME IInv, NEW pass \in BOOLEAN, ObserveReview(pass) PROVE IInv'
<1>1. /\ entry \in Entry /\ entry.status = "REVIEW_PENDING" /\ entry.id = None
      /\ entry.artifact \in Versions
  BY DEF ObserveReview, IInv, TypeOK, TaskIsSound, ReturnStatuses
<1>2. /\ entry' \in Entry /\ entry'.id = None
      /\ entry'.status = IF pass THEN "REVIEW_ACCEPTED" ELSE "REWORK_REQUIRED"
      /\ entry'.review = [version |-> entry'.artifact, pass |-> pass]
  BY <1>1 DEF ObserveReview, Put, Entry, Statuses
<1>3. TaskIsSound' /\ entry' # None
  BY <1>2, NoneIsNoRecord DEF TaskIsSound, ReturnStatuses
<1>4. \A r \in received : r.kind # "return"
  BY <1>1, NoEarlyResult DEF ObserveReview, ReturnStatuses
<1> QED
  BY <1>2, <1>3, <1>4, QuietTask DEF ObserveReview

-----------------------------------------------------------------------------
(* Sending                                                                 *)

\* The lock has one owner, so one call runs at a time.
LEMMA OneRunner ==
  ASSUME IInv, NEW i \in Callers, NEW j \in Callers, call[i].stage # "idle", i # j
  PROVE  call[j].stage = "idle" /\ lock = i
BY DEF IInv, Running

\* A call starts and nothing else changes.
LEMMA TakeSound ==
  ASSUME IInv, NEW i \in Callers, NEW kind \in Kinds \ {"return"}, NEW id \in AllIds,
         NEW x \in Texts \cup {Request}, Binding(kind) # None,
         Take(i, kind, id, x), UNCHANGED <<store, roots, received>>
  PROVE  IInv'
<1> USE DEF store, roots
<1>1. TypeOK'
  BY DEF IInv, TypeOK, Take, Call
<1>2. RootIsSound' /\ TaskIsSound'
  BY DEF IInv, RootIsSound, TaskIsSound, Home, Unsettled, Took
<1>3. ASSUME NEW j \in Callers PROVE Running(j)'
  <2>1. call \in [Callers -> Call] /\ lock = None /\ entry # None
    BY DEF IInv, TypeOK, Take
  <2>2. CASE j = i
    BY <2>1, <2>2 DEF Running, Take, Binding
  <2>3. CASE j # i
    BY <2>1, <2>3, FreeIsQuiet DEF Running, Take
  <2> QED
    BY <2>2, <2>3
<1>4. ASSUME NEW r \in received' PROVE Backed(r)'
  BY <1>4 DEF IInv, Backed, Binding, Target, Event, Home
<1> QED
  BY <1>1, <1>2, <1>3, <1>4 DEF IInv

LEMMA DispatchGoalSound ==
  ASSUME IInv, NEW i \in Callers, DispatchGoal(i) PROVE IInv'
BY TakeSound DEF DispatchGoal, Kinds, AllIds

LEMMA SendForReviewSound ==
  ASSUME IInv, NEW i \in Callers, NEW m \in AllIds, NEW x \in Texts, SendForReview(i, m, x)
  PROVE  IInv'
<1>1. Binding("review") # None
  BY NoneIsNoRecord DEF Binding, Chats
<1> QED
  BY <1>1, TakeSound DEF SendForReview, Kinds

\* The id and the text of the result, once fixed, are what is sent.
LEMMA ReturnResultSound ==
  ASSUME IInv, NEW i \in Callers, NEW v \in Versions, NEW m \in Ids, NEW x \in Texts,
         ReturnResult(i, v, m, x)
  PROVE  IInv'
<1>1. /\ entry \in Entry /\ lock = None /\ m # None
      /\ entry.id = None <=> entry.status = "REVIEW_ACCEPTED"
      /\ entry.review = [version |-> entry.artifact, pass |-> TRUE]
      /\ entry.id = None \/ (entry.id = m /\ entry.text = x)
  BY TaskLoopAssumption DEF IInv, TypeOK, TaskIsSound, ReturnResult, MayReturn, ReturnStatuses
<1>2. /\ entry' \in Entry /\ entry'.id = m /\ entry'.text = x
      /\ entry'.artifact = entry.artifact /\ entry'.review = entry.review
      /\ entry'.status = IF entry.id = None THEN "RETURN_PREPARED" ELSE entry.status
  BY <1>1 DEF ReturnResult, Put, Entry, Statuses
<1>3. entry' # None /\ entry'.status \in ReturnStatuses
  BY <1>1, <1>2, NoneIsNoRecord DEF ReturnResult, ReturnStatuses
<1>4. UNCHANGED <<origin, conn, journal, received>>
  BY DEF ReturnResult, roots
<1>5. \/ UNCHANGED <<lock, call>>
      \/ /\ Binding("return") # None /\ lock' = i
         /\ call' = [call EXCEPT ![i] = [stage |-> "begin", kind |-> "return", id |-> m, text |-> x]]
  <2>1. IF Binding("return") = None THEN UNCHANGED <<lock, call>> ELSE Take(i, "return", m, x)
    BY DEF ReturnResult
  <2>2. CASE Binding("return") = None
    BY <2>1, <2>2
  <2>3. CASE Binding("return") # None
    BY <2>1, <2>3 DEF Take
  <2> QED
    BY <2>2, <2>3
<1>6. TypeOK'
  <2>1. [stage |-> "begin", kind |-> "return", id |-> m, text |-> x] \in Call
    BY DEF Call, Kinds, AllIds
  <2>2. call' \in [Callers -> Call] /\ lock' \in Callers \cup {None}
    BY <1>1, <1>5, <2>1 DEF IInv, TypeOK
  <2> QED
    BY <1>2, <1>4, <2>2 DEF IInv, TypeOK
<1>7. RootIsSound'
  BY <1>4 DEF IInv, RootIsSound, Home, Unsettled
<1>8. TaskIsSound'
  <2>1. entry'.status = "RETURN_INPUT_OBSERVED" => Took("return", m, x)
    BY <1>1, <1>2 DEF IInv, TaskIsSound, ReturnResult
  <2> QED
    BY <2>1, <1>1, <1>2, <1>3, <1>4 DEF TaskIsSound, ReturnStatuses, Took
<1>9. ASSUME NEW j \in Callers PROVE Running(j)'
  <2>1. call \in [Callers -> Call] /\ call[j].stage = "idle"
    BY <1>1, FreeIsQuiet DEF IInv, TypeOK
  <2>2. call'[j].stage # "idle" =>
          /\ j = i /\ Binding("return") # None /\ lock' = i
          /\ call'[j] = [stage |-> "begin", kind |-> "return", id |-> m, text |-> x]
    BY <1>5, <2>1
  <2> QED
    BY <2>2, <1>2, <1>3, <1>4 DEF Running, Binding
<1>10. ASSUME NEW r \in received' PROVE Backed(r)'
  <2>1. Backed(r) /\ r \in received
    BY <1>10, <1>4 DEF IInv
  <2>2. r.kind = "return" => entry.id # None /\ r.id = m /\ r.text = x
    BY <2>1, <1>1 DEF Backed
  <2> QED
    BY <2>1, <2>2, <1>1, <1>2, <1>3, <1>4 DEF Backed, Binding, Target, Event, Home
<1> QED
  BY <1>6, <1>7, <1>8, <1>9, <1>10 DEF IInv

-----------------------------------------------------------------------------
(* Deliveries                                                              *)

\* A receipt is a record, and no value is none.
LEMMA ReceiptExists ==
  ASSUME TypeOK, NEW kind \in Kinds, NEW x \in Texts \cup {Request}
  PROVE  /\ [event |-> Event(kind, x), settled |-> FALSE] # None
         /\ [event |-> Event(kind, x), settled |-> TRUE] # None
<1>1. [event |-> Event(kind, x), settled |-> FALSE] \in Receipt
  BY ReceiptTyped
<1>2. [event |-> Event(kind, x), settled |-> TRUE] \in Receipt
  BY ReceiptTyped
<1> QED
  BY <1>1, <1>2, NoneIsNoRecord

\* What the stage of a running call implies.
LEMMA RunningCall ==
  ASSUME IInv, NEW i \in Callers, call[i].stage # "idle"
  PROVE  /\ call[i] \in Call /\ call[i].kind \in Kinds /\ call[i].id \in AllIds
         /\ call[i].text \in Texts \cup {Request}
         /\ Running(i) /\ lock = i /\ entry # None /\ Binding(call[i].kind) # None
         /\ Home \in Keys /\ Key(Binding(call[i].kind)) = Home
BY HomeIsKey DEF IInv, TypeOK, Call, Running

\* The root keeps a first receipt for the message.
LEMMA BeginNew ==
  ASSUME IInv, NEW i \in Callers, Begin(i), journal[Home][call[i].id] = None,
         \A m \in AllIds : ~Unsettled(Home, m),
         conn' \in [Keys -> {None} \cup Keys],
         journal' = [journal EXCEPT ![Home][call[i].id] =
                       [event |-> Event(call[i].kind, call[i].text), settled |-> FALSE]],
         call' = [call EXCEPT ![i].stage = "open"]
  PROVE  IInv'
<1>1. UNCHANGED <<origin, entry, received, lock>> /\ call[i].stage = "begin"
  BY DEF Begin, store
<1>2. PICK mine \in Receipt :
        mine = [event |-> Event(call[i].kind, call[i].text), settled |-> FALSE]
  BY <1>1, RunningCall, ReceiptTyped DEF IInv
<1>3. /\ journal' \in [Keys -> [AllIds -> Receipt \cup {None}]]
      /\ journal'[Home][call[i].id] = mine /\ mine # None
      /\ \A m \in AllIds \ {call[i].id} : journal'[Home][m] = journal[Home][m]
      /\ \A k \in Keys \ {Home} : journal'[k] = journal[k]
  <2>1. journal \in [Keys -> [AllIds -> Receipt \cup {None}]]
    BY DEF IInv, TypeOK
  <2>2. Home \in Keys /\ call[i].id \in AllIds
    BY <1>1, RunningCall
  <2>3. journal' = [journal EXCEPT ![Home][call[i].id] = mine]
    BY <1>2
  <2> HIDE <1>2
  <2> QED
    BY <2>1, <2>2, <2>3, NoneIsNoRecord
<1>4. /\ call \in [Callers -> Call] /\ call[i] \in Call /\ call' \in [Callers -> Call]
      /\ call'[i] = [call[i] EXCEPT !.stage = "open"]
      /\ \A j \in Callers \ {i} : call'[j] = call[j]
  BY DEF IInv, TypeOK, Call
<1>5. Home' = Home
  BY <1>1 DEF Home
<1>6. TypeOK'
  BY <1>1, <1>3, <1>4 DEF IInv, TypeOK
<1>7. ~\E r \in received : r.id = call[i].id
  BY DEF IInv, Backed
<1>8. RootIsSound'
  BY <1>1, <1>2, <1>3, <1>5 DEF IInv, RootIsSound, Unsettled
<1>9. TaskIsSound'
  BY <1>1 DEF IInv, TaskIsSound, Took
<1>10. ASSUME NEW j \in Callers PROVE Running(j)'
  <2>1. CASE j # i
    BY <1>1, <1>4, <2>1, OneRunner DEF Running
  <2>2. CASE j = i
    <3>1. /\ call'[i].stage = "open" /\ call'[i].kind = call[i].kind
          /\ call'[i].id = call[i].id /\ call'[i].text = call[i].text
      BY <1>4 DEF Call
    <3>2. Running(i) /\ lock = i /\ entry # None /\ Binding(call[i].kind) # None
      BY <1>1, RunningCall
    <3>3. journal'[Home'][call'[i].id] = [event |-> Event(call[i].kind, call[i].text), settled |-> FALSE]
      BY <1>2, <1>3, <1>5, <3>1
    <3>4. Binding(call[i].kind)' # None
      BY <1>1, <3>1, <3>2 DEF Binding
    <3>5. Event(call[i].kind, call[i].text)' = Event(call[i].kind, call[i].text)
      BY <1>1, <3>1 DEF Event, Binding, Target
    <3> QED
      BY <1>1, <1>7, <2>2, <3>1, <3>2, <3>3, <3>4, <3>5 DEF Running
  <2> QED
    BY <2>1, <2>2
<1>11. ASSUME NEW r \in received' PROVE Backed(r)'
  <2>1. r \in received /\ Backed(r) /\ r.id \in AllIds \ {call[i].id}
    BY <1>1, <1>7, <1>11 DEF IInv, TypeOK, Input
  <2>2. journal'[Home'][r.id] = journal[Home][r.id]
    BY <1>3, <1>5, <2>1
  <2>3. /\ Binding(r.kind)' = Binding(r.kind) /\ Target(r.kind)' = Target(r.kind)
        /\ Event(r.kind, r.text)' = Event(r.kind, r.text)
    BY <1>1 DEF Binding, Event, Target
  <2> QED
    BY <1>1, <2>1, <2>2, <2>3 DEF Backed
<1> QED
  BY <1>6, <1>8, <1>9, <1>10, <1>11 DEF IInv

\* The root answers from a settled receipt, which has an input of that kind.
LEMMA BeginAgain ==
  ASSUME IInv, NEW i \in Callers, Begin(i), UNCHANGED roots,
         journal[Home][call[i].id] # None,
         journal[Home][call[i].id].event = Event(call[i].kind, call[i].text),
         journal[Home][call[i].id].settled,
         call' = [call EXCEPT ![i].stage = "acked"]
  PROVE  IInv'
<1>1. UNCHANGED <<origin, entry, conn, journal, received, lock>> /\ call[i].stage = "begin"
  BY DEF Begin, store, roots
<1>2. call[i].id \in AllIds /\ call[i].kind \in Kinds /\ Binding(call[i].kind) # None
  BY <1>1, RunningCall
<1>3. PICK r \in received : r.id = call[i].id
  BY <1>2 DEF IInv, RootIsSound
<1>4. Event(r.kind, r.text) = Event(call[i].kind, call[i].text) /\ Binding(r.kind) # None /\ r.kind \in Kinds
  BY <1>3 DEF IInv, Backed, TypeOK, Input
<1>5. Took(call[i].kind, call[i].id, call[i].text)
  BY <1>2, <1>3, <1>4, EventNames DEF Took
<1>6. /\ call \in [Callers -> Call] /\ call[i] \in Call /\ call' \in [Callers -> Call]
      /\ call'[i] = [call[i] EXCEPT !.stage = "acked"]
      /\ \A j \in Callers \ {i} : call'[j] = call[j]
  BY DEF IInv, TypeOK, Call
<1>7. TypeOK'
  BY <1>1, <1>6 DEF IInv, TypeOK
<1>8. RootIsSound' /\ TaskIsSound'
  BY <1>1 DEF IInv, RootIsSound, TaskIsSound, Took, Home, Unsettled
<1>9. ASSUME NEW j \in Callers PROVE Running(j)'
  <2>1. CASE j # i
    BY <1>1, <1>6, <2>1, OneRunner DEF Running
  <2>2. CASE j = i
    <3>1. /\ call'[i].stage = "acked" /\ call'[i].kind = call[i].kind
          /\ call'[i].id = call[i].id /\ call'[i].text = call[i].text
      BY <1>6 DEF Call
    <3>2. Running(i) /\ lock = i /\ entry # None /\ Binding(call[i].kind) # None
      BY <1>1, RunningCall
    <3> QED
      BY <1>1, <1>5, <2>2, <3>1, <3>2 DEF Running, Binding, Took
  <2> QED
    BY <2>1, <2>2
<1>10. ASSUME NEW s \in received' PROVE Backed(s)'
  BY <1>1, <1>10 DEF IInv, Backed, Binding, Target, Event, Home
<1> QED
  BY <1>7, <1>8, <1>9, <1>10 DEF IInv

LEMMA BeginSound == ASSUME IInv, NEW i \in Callers, Begin(i) PROVE IInv'
<1> DEFINE mine == [event |-> Event(call[i].kind, call[i].text), settled |-> FALSE]
<1>1. /\ call[i].stage = "begin" /\ Home \in Keys /\ Key(Binding(call[i].kind)) = Home
      /\ call[i].kind \in Kinds
  BY RunningCall DEF Begin
<1>2. \/ /\ journal[Home][call[i].id] = None /\ \A m \in AllIds : ~Unsettled(Home, m)
         /\ conn' = [conn EXCEPT ![Home] = Connection(Binding(call[i].kind))]
         /\ journal' = [journal EXCEPT ![Home][call[i].id] = mine]
         /\ call' = [call EXCEPT ![i].stage = "open"]
      \/ /\ journal[Home][call[i].id] # None
         /\ journal[Home][call[i].id].event = mine.event /\ journal[Home][call[i].id].settled
         /\ call' = [call EXCEPT ![i].stage = "acked"]
         /\ UNCHANGED roots
  BY <1>1 DEF Begin
<1>3. Connection(Binding(call[i].kind)) \in Keys
  <2>1. Binding(call[i].kind) \in {<<"executor", "reviewer">>, <<origin, "executor">>}
    BY <1>1, RunningCall DEF Binding
  <2>2. origin \in Chats
    BY TaskLoopAssumption DEF IInv, TypeOK, Chats
  <2> QED
    BY <2>1, <2>2 DEF Connection, Keys, Chats
<1>4. conn \in [Keys -> {None} \cup Keys]
  BY DEF IInv, TypeOK
<1>5. CASE journal[Home][call[i].id] = None /\ (\A m \in AllIds : ~Unsettled(Home, m))
           /\ conn' = [conn EXCEPT ![Home] = Connection(Binding(call[i].kind))]
           /\ journal' = [journal EXCEPT ![Home][call[i].id] = mine]
           /\ call' = [call EXCEPT ![i].stage = "open"]
  <2>1. conn' = [conn EXCEPT ![Home] = Connection(Binding(call[i].kind))]
    BY <1>5
  <2>2. conn' \in [Keys -> {None} \cup Keys]
    BY <1>3, <1>4, <2>1
  <2> QED
    BY <1>5, <2>2, BeginNew
<1>6. CASE journal[Home][call[i].id] # None /\ journal[Home][call[i].id].event = mine.event
           /\ journal[Home][call[i].id].settled
           /\ call' = [call EXCEPT ![i].stage = "acked"] /\ UNCHANGED roots
  <2>1. mine.event = Event(call[i].kind, call[i].text)
    OBVIOUS
  <2> QED
    BY <1>6, <2>1, BeginAgain
<1> QED
  BY <1>2, <1>5, <1>6

\* The input of a call is the first of its id and has the receipt of the call.
LEMMA SubmitSound == ASSUME IInv, NEW i \in Callers, Submit(i) PROVE IInv'
<1>1. /\ call[i].stage = "open" /\ UNCHANGED <<origin, entry, conn, journal, lock>>
      /\ call' = [call EXCEPT ![i].stage = "submitted"]
  BY DEF Submit, store, roots
<1>2. /\ call[i] \in Call /\ call[i].kind \in Kinds /\ call[i].id \in AllIds
      /\ call[i].text \in Texts \cup {Request} /\ entry # None /\ lock = i
      /\ Binding(call[i].kind) # None
      /\ call[i].kind = "return" => /\ call[i].id \in Ids /\ call[i].id = entry.id
                                   /\ call[i].text = entry.text
                                   /\ entry.status \in ReturnStatuses
      /\ ~\E r \in received : r.id = call[i].id
      /\ journal[Home][call[i].id] = [event |-> Event(call[i].kind, call[i].text), settled |-> FALSE]
  BY <1>1, RunningCall DEF Running
<1>3. PICK new : /\ received' = received \cup {new}
                 /\ new = [kind |-> call[i].kind, id |-> call[i].id, text |-> call[i].text,
                           chat |-> Target(call[i].kind),
                           version |-> IF call[i].kind = "return" THEN entry.artifact ELSE None,
                           again |-> \E r \in received : r.id = call[i].id]
  BY DEF Submit
<1>4. /\ new.kind = call[i].kind /\ new.id = call[i].id /\ new.text = call[i].text
      /\ new.chat = Target(call[i].kind) /\ new.again = FALSE
      /\ new.kind = "return" => new.version = entry.artifact
  BY <1>2, <1>3
<1>5. new \in Input
  <2>1. origin \in Chats /\ entry \in Entry
    BY <1>2, TaskLoopAssumption DEF IInv, TypeOK, Chats
  <2>2. Target(call[i].kind) \in Chats
    BY <1>2, <2>1 DEF Target, Kinds, Chats
  <2>3. entry.artifact \in Versions \cup {None}
    BY <2>1 DEF Entry
  <2> QED
    BY <1>2, <1>3, <2>2, <2>3 DEF Input
<1>6. /\ call \in [Callers -> Call] /\ call' \in [Callers -> Call]
      /\ call'[i].stage = "submitted" /\ call'[i].kind = call[i].kind
      /\ call'[i].id = call[i].id /\ call'[i].text = call[i].text
      /\ \A j \in Callers \ {i} : call'[j] = call[j]
  BY <1>1 DEF IInv, TypeOK, Call
<1>7. TypeOK'
  BY <1>1, <1>3, <1>5, <1>6 DEF IInv, TypeOK
<1>8. Home' = Home
  BY <1>1 DEF Home
<1>9. RootIsSound' /\ TaskIsSound'
  BY <1>1, <1>3, <1>8 DEF IInv, RootIsSound, TaskIsSound, Took, Unsettled
<1>10. ASSUME NEW j \in Callers PROVE Running(j)'
  <2>1. CASE j # i
    BY <1>1, <1>6, <2>1, OneRunner DEF Running
  <2>2. CASE j = i
    <3>1. Binding(call[i].kind)' # None
      BY <1>1, <1>2, <1>6 DEF Binding
    <3>2. Event(call[i].kind, call[i].text)' = Event(call[i].kind, call[i].text)
      BY <1>1, <1>6 DEF Event, Binding, Target
    <3>3. Took(call[i].kind, call[i].id, call[i].text)'
      BY <1>3, <1>4, <1>6 DEF Took
    <3>4. journal'[Home'][call'[i].id] = [event |-> Event(call[i].kind, call[i].text), settled |-> FALSE]
      BY <1>1, <1>2, <1>6, <1>8
    <3> QED
      BY <1>1, <1>2, <1>6, <2>2, <3>1, <3>2, <3>3, <3>4 DEF Running
  <2> QED
    BY <2>1, <2>2
<1>11. ASSUME NEW r \in received' PROVE Backed(r)'
  <2>1. Backed(r)
    <3>1. CASE r \in received
      BY <3>1 DEF IInv
    <3>2. CASE r = new
      <4>1. journal[Home][call[i].id] # None
        BY <1>2, ReceiptExists DEF IInv
      <4>2. journal[Home][call[i].id].event = Event(call[i].kind, call[i].text)
        BY <1>2
      <4>3. call[i].kind = "return" => entry.id # None
        BY <1>2, TaskLoopAssumption
      <4> QED
        BY <1>2, <1>4, <3>2, <4>1, <4>2, <4>3 DEF Backed
    <3> QED
      BY <1>3, <1>11, <3>1, <3>2
  <2> QED
    BY <1>1, <2>1 DEF Backed, Home, Binding, Event, Target
<1> QED
  BY <1>7, <1>9, <1>10, <1>11 DEF IInv

\* Settling the receipt of an input that was taken.
LEMMA SettleSound ==
  ASSUME IInv, NEW id \in AllIds, journal[Home][id] # None,
         \E r \in received : r.id = id,
         Settle(Home, id), UNCHANGED <<origin, entry, conn, received>>
  PROVE  /\ journal' \in [Keys -> [AllIds -> Receipt \cup {None}]]
         /\ RootIsSound' /\ TaskIsSound' /\ \A r \in received' : Backed(r)'
<1>1. journal \in [Keys -> [AllIds -> Receipt \cup {None}]] /\ Home \in Keys
  BY HomeIsKey DEF IInv, TypeOK
<1>2. PICK e \in Receipt : e = [journal[Home][id] EXCEPT !.settled = TRUE]
  <2>1. PICK old \in Receipt : old = journal[Home][id]
    BY <1>1
  <2>2. [old EXCEPT !.settled = TRUE] \in Receipt
    BY <2>1 DEF Receipt
  <2> QED
    BY <2>1, <2>2
<1>3. e.settled = TRUE /\ e.event = journal[Home][id].event /\ e # None
  BY <1>1, <1>2, NoneIsNoRecord DEF Receipt
<1>4. journal' = [journal EXCEPT ![Home][id] = e]
  BY <1>1, <1>2 DEF Settle
<1> HIDE <1>2
<1>5. /\ journal' \in [Keys -> [AllIds -> Receipt \cup {None}]]
      /\ journal'[Home][id] = e
      /\ \A m \in AllIds \ {id} : journal'[Home][m] = journal[Home][m]
      /\ \A k \in Keys \ {Home} : journal'[k] = journal[k]
  BY <1>1, <1>4
<1>6. Home' = Home
  BY DEF Home
<1>7. RootIsSound'
  BY <1>3, <1>5, <1>6 DEF IInv, RootIsSound, Unsettled
<1>8. TaskIsSound'
  BY DEF IInv, TaskIsSound, Took
<1>9. ASSUME NEW r \in received' PROVE Backed(r)'
  <2>1. Backed(r) /\ r.id \in AllIds
    BY <1>9 DEF IInv, TypeOK, Input
  <2>2. journal'[Home][r.id] # None /\ journal'[Home][r.id].event = Event(r.kind, r.text)
    BY <1>3, <1>5, <2>1 DEF Backed
  <2> QED
    BY <1>6, <2>1, <2>2 DEF Backed, Binding, Event, Target
<1> QED
  BY <1>5, <1>7, <1>8, <1>9

LEMMA AcknowledgeSound == ASSUME IInv, NEW i \in Callers, Acknowledge(i) PROVE IInv'
<1>1. /\ call[i].stage = "submitted" /\ UNCHANGED <<origin, entry, conn, received, lock>>
      /\ call' = [call EXCEPT ![i].stage = "acked"]
  BY DEF Acknowledge, store
<1>2. /\ call[i].kind \in Kinds /\ call[i].id \in AllIds
      /\ call[i].text \in Texts \cup {Request} /\ Running(i)
      /\ Took(call[i].kind, call[i].id, call[i].text)
      /\ journal[Home][call[i].id] = [event |-> Event(call[i].kind, call[i].text), settled |-> FALSE]
  BY <1>1, RunningCall DEF Running
<1>3. Settle(Home, call[i].id)
  BY <1>1, RunningCall DEF Acknowledge
<1>4. journal[Home][call[i].id] # None
  BY <1>2, ReceiptExists DEF IInv
<1>5. \E r \in received : r.id = call[i].id
  BY <1>2 DEF Took
<1>6. /\ journal' \in [Keys -> [AllIds -> Receipt \cup {None}]]
      /\ RootIsSound' /\ TaskIsSound' /\ \A r \in received' : Backed(r)'
  BY <1>1, <1>2, <1>3, <1>4, <1>5, SettleSound
<1>7. /\ call \in [Callers -> Call] /\ call' \in [Callers -> Call]
      /\ call'[i].stage = "acked" /\ call'[i].kind = call[i].kind
      /\ call'[i].id = call[i].id /\ call'[i].text = call[i].text
      /\ \A j \in Callers \ {i} : call'[j] = call[j]
  BY <1>1 DEF IInv, TypeOK, Call
<1>8. TypeOK'
  BY <1>1, <1>6, <1>7 DEF IInv, TypeOK
<1>9. ASSUME NEW j \in Callers PROVE Running(j)'
  <2>1. CASE j # i
    BY <1>1, <1>7, <2>1, OneRunner DEF Running
  <2>2. CASE j = i
    <3>1. Binding(call[i].kind)' # None
      BY <1>1, <1>2, <1>7 DEF Running, Binding
    <3>2. Took(call[i].kind, call[i].id, call[i].text)'
      BY <1>1, <1>2, <1>7 DEF Took
    <3> QED
      BY <1>1, <1>2, <1>7, <2>2, <3>1, <3>2 DEF Running
  <2> QED
    BY <2>1, <2>2
<1> QED
  BY <1>6, <1>8, <1>9 DEF IInv

\* The call ends; nothing it relied on is needed any more.
LEMMA ReleaseSound ==
  ASSUME IInv, NEW i \in Callers, call[i].stage # "idle", Release(i)
  PROVE  /\ call' \in [Callers -> Call] /\ lock' = None
         /\ \A j \in Callers : Running(j)'
<1>1. Idle \in Call /\ Idle.stage = "idle"
  BY DEF Idle, Call, Kinds, AllIds
<1>2. /\ call' \in [Callers -> Call] /\ lock' = None
      /\ call'[i] = Idle /\ \A j \in Callers \ {i} : call'[j] = call[j]
  BY <1>1 DEF IInv, TypeOK, Release
<1>3. ASSUME NEW j \in Callers PROVE call'[j].stage = "idle"
  BY <1>1, <1>2, OneRunner
<1> QED
  BY <1>2, <1>3 DEF Running

LEMMA FailSound == ASSUME IInv, NEW i \in Callers, Fail(i) PROVE IInv'
<1>1. UNCHANGED <<origin, entry, conn, journal, received>>
  BY DEF Fail, store, roots
<1>2. /\ call' \in [Callers -> Call] /\ lock' = None /\ \A j \in Callers : Running(j)'
  BY ReleaseSound DEF Fail
<1>3. TypeOK'
  BY <1>1, <1>2 DEF IInv, TypeOK
<1>4. RootIsSound' /\ TaskIsSound'
  BY <1>1 DEF IInv, RootIsSound, TaskIsSound, Home, Unsettled, Took
<1>5. ASSUME NEW r \in received' PROVE Backed(r)'
  BY <1>1, <1>5 DEF IInv, Backed, Binding, Target, Event, Home
<1> QED
  BY <1>2, <1>3, <1>4, <1>5 DEF IInv

LEMMA ConcludeSound == ASSUME IInv, NEW i \in Callers, Conclude(i) PROVE IInv'
<1>1. /\ call[i].stage = "acked" /\ Release(i)
      /\ UNCHANGED <<origin, conn, journal, received>>
  BY DEF Conclude, roots
<1>2. /\ call' \in [Callers -> Call] /\ lock' = None /\ \A j \in Callers : Running(j)'
  BY <1>1, ReleaseSound
<1>3. /\ entry \in Entry /\ call[i].kind \in Kinds
      /\ Took(call[i].kind, call[i].id, call[i].text)
      /\ call[i].kind = "return" => /\ call[i].id = entry.id /\ call[i].text = entry.text
                                   /\ entry.status \in ReturnStatuses
  BY <1>1, RunningCall DEF IInv, TypeOK, Running
<1>4. PICK s \in Statuses :
        /\ entry' = [entry EXCEPT !.status = s]
        /\ \/ s = entry.status
           \/ entry.status = "PLANNED" /\ s = "GOAL_INPUT_OBSERVED"
           \/ call[i].kind = "return" /\ s = "RETURN_INPUT_OBSERVED"
  <2>1. CASE call[i].kind = "goal" /\ entry.status = "PLANNED"
    BY <1>3, <2>1 DEF Conclude, Put, Statuses
  <2>2. CASE call[i].kind = "return"
    BY <1>3, <2>2 DEF Conclude, Put, Statuses
  <2>3. CASE ~(call[i].kind = "goal" /\ entry.status = "PLANNED") /\ call[i].kind # "return"
    BY <1>3, <2>3 DEF Conclude, Put, Entry
  <2> QED
    BY <2>1, <2>2, <2>3
<1>5. /\ entry' \in Entry /\ entry' # None /\ entry'.status = s
      /\ entry'.id = entry.id /\ entry'.text = entry.text
      /\ entry'.artifact = entry.artifact /\ entry'.review = entry.review
  BY <1>3, <1>4, NoneIsNoRecord DEF Entry
<1>6. TypeOK'
  BY <1>1, <1>2, <1>5 DEF IInv, TypeOK
<1>7. RootIsSound'
  BY <1>1 DEF IInv, RootIsSound, Home, Unsettled
<1>8. TaskIsSound'
  <2>1. TaskIsSound /\ entry # None
    BY <1>1, RunningCall DEF IInv
  <2>2. s = "RETURN_INPUT_OBSERVED" => Took("return", entry.id, entry.text)
    BY <1>3, <1>4, <2>1 DEF TaskIsSound
  <2>3. Took("return", entry.id, entry.text)' <=> Took("return", entry.id, entry.text)
    BY <1>1, <1>5 DEF Took
  <2> QED
    BY <1>3, <1>4, <1>5, <2>1, <2>2, <2>3 DEF TaskIsSound, ReturnStatuses
<1>9. ASSUME NEW r \in received' PROVE Backed(r)'
  <2>1. Backed(r)
    BY <1>1, <1>9 DEF IInv
  <2> QED
    BY <1>1, <1>5, <2>1 DEF Backed, Binding, Target, Event, Home
<1> QED
  BY <1>2, <1>6, <1>7, <1>8, <1>9 DEF IInv

LEMMA ReconcileSound ==
  ASSUME IInv, NEW k \in Keys, NEW id \in AllIds, Reconcile(k, id) PROVE IInv'
<1>1. /\ UNCHANGED <<origin, entry, conn, received, lock, call>> /\ Settle(k, id)
      /\ journal[k][id] # None /\ \E r \in received : r.id = id
  BY DEF Reconcile, store
<1>2. k = Home
  BY <1>1 DEF IInv, RootIsSound
<1>3. /\ journal' \in [Keys -> [AllIds -> Receipt \cup {None}]]
      /\ RootIsSound' /\ TaskIsSound' /\ \A r \in received' : Backed(r)'
  BY <1>1, <1>2, SettleSound
<1>4. TypeOK'
  BY <1>1, <1>3 DEF IInv, TypeOK
<1>5. ASSUME NEW j \in Callers PROVE Running(j)'
  <2>1. Running(j) /\ call[j].stage \in {"idle", "begin"}
    BY DEF IInv, Reconcile
  <2> QED
    BY <1>1, <2>1 DEF Running, Binding
<1> QED
  BY <1>3, <1>4, <1>5 DEF IInv

-----------------------------------------------------------------------------
(* Theorems                                                                *)

LEMMA StepSound == IInv /\ [Next]_vars => IInv'
<1> SUFFICES ASSUME IInv, [Next]_vars PROVE IInv'
  OBVIOUS
<1>1. CASE Prepare
  BY <1>1, PrepareSound
<1>2. CASE \E v \in Versions : SetArtifact(v)
  BY <1>2, SetArtifactSound
<1>3. CASE \E pass \in BOOLEAN : ObserveReview(pass)
  BY <1>3, ObserveReviewSound
<1>4. CASE \E i \in Callers, x \in Texts, m \in AllIds : SendForReview(i, m, x)
  BY <1>4, SendForReviewSound
<1>5. CASE \E i \in Callers, x \in Texts, v \in Versions, m \in Ids : ReturnResult(i, v, m, x)
  BY <1>5, ReturnResultSound
<1>6. ASSUME NEW i \in Callers,
             DispatchGoal(i) \/ Begin(i) \/ Submit(i) \/ Acknowledge(i) \/ Conclude(i) \/ Fail(i)
      PROVE  IInv'
  BY <1>6, DispatchGoalSound, BeginSound, SubmitSound, AcknowledgeSound, ConcludeSound, FailSound
<1>7. CASE \E k \in Keys, m \in AllIds : Reconcile(k, m)
  BY <1>7, ReconcileSound
<1>8. CASE UNCHANGED vars
  <2>1. UNCHANGED <<origin, entry, conn, journal, received, lock, call>>
    BY <1>8 DEF vars
  <2>2. TypeOK' /\ RootIsSound' /\ TaskIsSound'
    BY <2>1 DEF IInv, TypeOK, RootIsSound, TaskIsSound, Home, Unsettled, Took
  <2>3. ASSUME NEW i \in Callers PROVE Running(i)'
    BY <2>1 DEF IInv, Running, Home, Took, Event, Binding, Target
  <2>4. ASSUME NEW r \in received' PROVE Backed(r)'
    BY <2>1, <2>4 DEF IInv, Backed, Binding, Target, Event, Home
  <2> QED
    BY <2>2, <2>3, <2>4 DEF IInv
<1> QED
  BY <1>1, <1>2, <1>3, <1>4, <1>5, <1>6, <1>7, <1>8 DEF Next

\* The invariant that ties call, receipt, input and task together holds in
\* every reachable state.
THEOREM TaskInvariant == Spec => []IInv
BY InitSound, StepSound, PTL DEF Spec

\* Every reachable state is well typed.
THEOREM TypesHold == Spec => []TypeOK
<1>1. IInv => TypeOK
  BY DEF IInv
<1> QED
  BY <1>1, TaskInvariant, PTL

\* The chat of origin gets one result, over all callers, failures and repeated
\* calls of return_result.
THEOREM ReturnsOnce == Spec => []OneResult
<1>1. IInv => OneResult
  <2> SUFFICES ASSUME IInv, NEW r \in received, NEW s \in received,
                      r.kind = "return", s.kind = "return"
               PROVE  r = s /\ ~r.again
    BY DEF OneResult
  <2>1. Backed(r) /\ Backed(s) /\ r \in Input /\ s \in Input
    BY DEF IInv, TypeOK
  <2>2. /\ r.id = s.id /\ r.text = s.text /\ r.version = s.version
        /\ r.chat = s.chat /\ r.again = FALSE /\ s.again = FALSE
    BY <2>1 DEF Backed, Input
  <2> QED
    BY <2>1, <2>2 DEF Input
<1> QED
  BY <1>1, TaskInvariant, PTL

\* It is the result of the version the reviewer accepted, which the task keeps.
THEOREM ReturnsAccepted == Spec => []ResultWasAccepted
<1>1. IInv => ResultWasAccepted
  <2> SUFFICES ASSUME IInv, NEW r \in received, r.kind = "return"
               PROVE  /\ entry.artifact = r.version
                      /\ entry.review = [version |-> r.version, pass |-> TRUE]
    BY DEF ResultWasAccepted
  <2>1. Backed(r) /\ TaskIsSound
    BY DEF IInv
  <2> QED
    BY <2>1 DEF Backed, TaskIsSound
<1> QED
  BY <1>1, TaskInvariant, PTL

\* The task says returned only of a result its chat of origin took.
THEOREM SaysReturnedTruly == Spec => []ReturnedIsReceived
<1>1. IInv => ReturnedIsReceived
  BY DEF IInv, TaskIsSound, Took, ReturnedIsReceived
<1> QED
  BY <1>1, TaskInvariant, PTL

\* One message of the task at most has an unknown fate.
THEOREM OpensOne == Spec => []OneOpenDelivery
<1>1. IInv => OneOpenDelivery
  BY DEF IInv, RootIsSound, OneOpenDelivery, Unsettled
<1> QED
  BY <1>1, TaskInvariant, PTL
=============================================================================
