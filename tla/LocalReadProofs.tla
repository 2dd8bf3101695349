--------------------------- MODULE LocalReadProofs ---------------------------
(***************************************************************************)
(* Theorems about the read of the file adapter, for any name spaces, paths *)
(* and contents and any number of steps of the owner.                      *)
(*                                                                         *)
(* Two threads run through the invariant.  While the change time of the    *)
(* file is the one of the first look, what was read is a prefix of its     *)
(* content; and the history knows each name the second walk has passed.    *)
(***************************************************************************)
EXTENDS LocalRead, SequenceTheorems, FiniteSetTheorems, TLAPS

Settling == {"after", "rewalk", "reentry", "decode", "done"}

\* The history begins with the last byte and misses nothing from then on.
HistoryIsSound ==
  /\ reader.stage \notin Settling => seen = {}
  /\ reader.stage \in Settling => Glimpse \subseteq seen
  /\ \A x \in seen : x[2] \in Files => x[3] \in Contents

\* The directories of a walk are the allowed ones; those of the second one
\* were seen under their names.
HandlesAreSound ==
  /\ reader.stage # "idle" => reader.request \in Request
  /\ reader.answer = "none" <=> reader.stage # "done"
  /\ reader.stage = "idle" => reader = Idle
  /\ reader.stage \in {"walk", "rewalk"} => Len(reader.handles) < Len(Walk)
  /\ reader.stage \in {"entry", "open", "before", "read", "after", "reentry"} =>
       Len(reader.handles) = Len(Walk)
  /\ \A i \in 1..Len(reader.handles) : Contained(i, reader.handles[i])
  /\ reader.stage \in {"rewalk", "reentry"} => \A i \in 1..Len(reader.handles) :
       Led(From(reader.handles, i), Walk[i], reader.handles[i])

Prefix(s, t) == Len(s) <= Len(t) /\ \A i \in 1..Len(s) : s[i] = t[i]

\* As long as the file has the change time of the first look, what was read
\* is what it holds.
BytesAreSound ==
  LET file == reader.file  before == reader.before IN
  /\ reader.stage \in {"walk", "entry", "open", "before"} => reader.bytes = <<>>
  /\ reader.stage = "before" => file \in Nodes
  /\ reader.stage \in {"read", "after", "rewalk", "reentry"} =>
       /\ file \in Files /\ before \in Stat /\ before.node = file /\ before.stamp <= stamp[file]
       /\ before.stamp = stamp[file] =>
            IF reader.stage \in {"read", "after"} THEN Prefix(reader.bytes, content[file])
            ELSE reader.bytes = content[file]
  /\ reader.stage = "decode" => reader.bytes \in Held

\* While the owner has done nothing, the walk is the only way along the path,
\* and the file is the one it leads to.
QuietIsSound == changes = 0 =>
  /\ reader.stage \notin {"idle", "decode", "done"} =>
       /\ reader.handles \in Routes(Len(reader.handles))
       /\ \A route \in Routes(Len(Walk)), i \in 1..Len(reader.handles) : route[i] = reader.handles[i]
  /\ reader.stage = "open" =>
       /\ Entry = reader.entry /\ reader.entry \in Files
       /\ Fault(reader.entry, LinksIn(names, reader.entry)) = None
  /\ reader.stage = "before" => Entry = reader.file
  /\ reader.stage \in {"before", "read", "after", "rewalk", "reentry", "decode"} => MayBeRead(reader.file)
  /\ reader.stage \in {"read", "after", "rewalk", "reentry", "decode"} => Fits(reader.file)
  /\ reader.stage \in {"read", "after", "rewalk", "reentry"} => reader.before.stamp = stamp[reader.file]
  /\ reader.stage = "decode" => reader.bytes = content[reader.file]

IInv ==
  /\ TypeOK /\ HistoryIsSound /\ HandlesAreSound /\ BytesAreSound
  /\ QuietIsSound /\ QuietAnswerIsExact
-----------------------------------------------------------------------------
(* The path                                                                *)

LEMMA WalkIsLong == Walk \in Seq(STRING) /\ Len(Walk) \in Nat \ {0} /\ Len(RootPath) \in Nat \ {0}
<1>1. RootPath \in Seq(STRING) /\ Len(RootPath) \in Nat \ {0}
      /\ Parts \in Seq(STRING) /\ Len(Parts) \in Nat \ {0}
  BY LocalReadAssumption, EmptySeq
<1>2. SubSeq(Parts, 1, Len(Parts) - 1) \in Seq(STRING)
  BY <1>1, SubSeqProperties
<1>3. QED
  BY <1>1, <1>2, ConcatProperties DEF Walk

LEMMA KindsAreApart ==
  /\ Dirs \cap Files = {} /\ Link \notin Dirs /\ Link \notin Files /\ None \notin Nodes
  /\ Dirs \subseteq Nodes /\ Files \subseteq Nodes /\ Link \in Nodes
BY LocalReadAssumption DEF Nodes

\* What passes the checks of an entry is a file of the root's device with one name.
LEMMA NoFault ==
  ASSUME NEW node \in Nodes, NEW links, Fault(node, links) = None
  PROVE  node \in Files /\ node \notin Foreign /\ links = 1
BY NoneIsNoError DEF Fault, Nodes, Errors

-----------------------------------------------------------------------------
(* The history                                                             *)

\* What was held stays held.
LEMMA HeldGrows == ASSUME seen \subseteq seen' PROVE Held \subseteq Held'
<1>1. \A dir, name, node : Led(dir, name, node) => Led(dir, name, node)'
  BY DEF Led
<1>2. \A dir : Reached(dir) => Reached(dir)'
  BY <1>1 DEF Reached
<1>3. QED
  BY <1>2 DEF Held

LEMMA GlimpseIsTyped ==
  ASSUME TypeOK
  PROVE  /\ Glimpse \subseteq Places \X Nodes \X (Contents \cup {<<>>})
         /\ \A x \in Glimpse : x[2] \in Files => x[3] \in Contents
BY KindsAreApart DEF TypeOK, Glimpse

LEMMA Seen ==
  ASSUME NEW p \in Places,
         \/ names[p] \in Dirs
         \/ names[p] \in Files /\ Fault(names[p], LinksIn(names, names[p])) = None
  PROVE  \E x \in Glimpse : /\ x[1] = p /\ x[2] = names[p]
                            /\ x[2] \in Files => x[3] = content[x[2]]
<1> DEFINE x == <<p, names[p], IF names[p] \in Files THEN content[names[p]] ELSE <<>> >>
<1>1. x \in Glimpse
  BY DEF Glimpse
<1>2. x[1] = p /\ x[2] = names[p] /\ (x[2] \in Files => x[3] = content[x[2]])
  OBVIOUS
<1>3. QED
  BY <1>1, <1>2

\* A step of the call meets the file system as it is.
LEMMA AdapterHistory ==
  ASSUME IInv, UNCHANGED <<names, content, stamp, changes>>, Record, reader' \in Reader,
         reader.stage \in Settling => reader'.stage \in Settling
  PROVE  /\ TypeOK' /\ HistoryIsSound' /\ seen \subseteq seen' /\ Held \subseteq Held'
         /\ reader.stage \in Settling => seen' = seen
<1>1. Glimpse' = Glimpse
  BY DEF Glimpse, Fault, LinksIn
<1>2. seen' = IF reader'.stage \in Settling THEN seen \cup Glimpse ELSE {}
  BY <1>1 DEF Record, Settling
<1>3. TypeOK'
  BY <1>2, GlimpseIsTyped DEF IInv, TypeOK
<1>4. HistoryIsSound' /\ seen \subseteq seen' /\ (reader.stage \in Settling => seen' = seen)
  BY <1>1, <1>2, GlimpseIsTyped DEF IInv, HistoryIsSound
<1>5. QED
  BY <1>3, <1>4, HeldGrows

-----------------------------------------------------------------------------
(* The answer                                                              *)

\* What is said of the path is about the file system and the request only.
LEMMA SamePath ==
  ASSUME UNCHANGED <<names, content>>
  PROVE  /\ \A k : Routes(k)' = Routes(k)
         /\ \A f : MayBeRead(f)' = MayBeRead(f)
         /\ \A f : Decodes(f)' = Decodes(f)
         /\ NameMissing' = NameMissing
         /\ reader'.request = reader.request => \A f : Fits(f)' = Fits(f)
<1>1. \A dir, name : At(dir, name)' = At(dir, name)
  BY DEF At
<1>2. \A f : LinksIn(names, f)' = LinksIn(names, f)
  BY DEF LinksIn
<1>3. \A k : Routes(k)' = Routes(k)
  BY <1>1 DEF Routes
<1>4. \A f : LeadsTo(f)' = LeadsTo(f)
  BY <1>1, <1>3 DEF LeadsTo
<1>5. NameMissing' = NameMissing
  BY <1>1, <1>3 DEF NameMissing
<1>6. \A f : MayBeRead(f)' = MayBeRead(f)
  BY <1>2, <1>4 DEF MayBeRead
<1>7. QED
  BY <1>3, <1>5, <1>6 DEF Decodes, Fits

LEMMA NoRoute == <<>> \in Routes(0)
<1>1. <<>> \in [1..0 -> Dirs] /\ 1..0 = {}
  OBVIOUS
<1>2. QED
  BY <1>1 DEF Routes

LEMMA LongerRoute ==
  ASSUME NEW route \in Seq(Dirs), NEW dir \in Dirs, route \in Routes(Len(route)),
         At(From(route, Len(route) + 1), Walk[Len(route) + 1]) = dir
  PROVE  Append(route, dir) \in Routes(Len(route) + 1)
<1> DEFINE longer == Append(route, dir)
           k == Len(route) + 1
<1>1. longer \in Seq(Dirs) /\ Len(longer) = k /\ k \in Nat \ {0}
  BY AppendProperties, LenProperties
<1>2. longer[k] = dir /\ \A i \in 1..k - 1 : longer[i] = route[i]
  BY AppendProperties
<1>3. \A i \in 1..k : From(longer, i) = From(route, i)
  BY <1>1, <1>2 DEF From
<1>4. \A i \in 1..k : At(From(longer, i), Walk[i]) = longer[i]
  <2> SUFFICES ASSUME NEW i \in 1..k PROVE At(From(longer, i), Walk[i]) = longer[i]
    OBVIOUS
  <2>1. CASE i = k
    BY <1>2, <1>3, <2>1
  <2>2. CASE i \in 1..k - 1
    BY <1>2, <1>3, <2>2 DEF Routes
  <2>3. QED
    BY <1>1, <2>1, <2>2
<1>5. longer \in [1..k -> Dirs]
  BY <1>1, LenProperties
<1>6. QED
  BY <1>4, <1>5 DEF Routes

LEMMA EndsSound ==
  ASSUME IInv, reader.stage \notin {"idle", "done"}, NEW answer \in Errors \cup {"ok"},
         Ends(answer), UNCHANGED <<names, content, stamp, changes>>, Record,
         changes = 0 => Exact(answer)
  PROVE  IInv'
<1> DEFINE r == [reader EXCEPT !.stage = "done", !.answer = answer]
<1>1. /\ r \in Reader /\ r.stage = "done" /\ r.answer = answer /\ r.request = reader.request
      /\ r.handles = reader.handles /\ r.bytes = reader.bytes
  BY DEF IInv, TypeOK, Reader
<1>2. reader' = r
  BY DEF Ends
<1> HIDE DEF r
<1>3. TypeOK' /\ HistoryIsSound'
  BY <1>1, <1>2, AdapterHistory DEF Settling
<1>4. HandlesAreSound'
  BY <1>1, <1>2 DEF IInv, HandlesAreSound, Errors
<1>5. BytesAreSound' /\ QuietIsSound'
  BY <1>1, <1>2 DEF BytesAreSound, QuietIsSound
<1>6. Exact(answer)' = Exact(answer)
  BY <1>1, <1>2, SamePath DEF Exact, Answers
<1>7. QED
  BY <1>1, <1>2, <1>3, <1>4, <1>5, <1>6 DEF IInv, QuietAnswerIsExact

\* A call that fails says nothing of the path.
LEMMA Unavailable ==
  ASSUME IInv, reader.stage \notin {"idle", "done"}, Ends("source_unavailable"),
         UNCHANGED <<names, content, stamp, changes>>, Record
  PROVE  IInv'
<1>1. Exact("source_unavailable")
  BY DEF Exact
<1>2. QED
  BY <1>1, EndsSound DEF Errors

-----------------------------------------------------------------------------
(* The first walk                                                          *)

LEMMA IdleIsReader == Idle \in Reader
<1>1. <<>> \in Seq(Dirs) /\ <<>> \in Seq(Units)
  OBVIOUS
<1>2. QED
  BY <1>1 DEF Idle, Reader

LEMMA BeginSound ==
  ASSUME IInv, Begin, UNCHANGED <<names, content, stamp, changes>>, Record PROVE IInv'
<1>1. PICK q \in Request :
        /\ reader.stage = "idle"
        /\ reader' = IF Refusal(q) = None
                     THEN [Idle EXCEPT !.stage = "walk", !.request = q]
                     ELSE [Idle EXCEPT !.stage = "done", !.request = q, !.answer = Refusal(q)]
  BY DEF Begin
<1>2. CASE Refusal(q) = None
  <2> DEFINE r == [Idle EXCEPT !.stage = "walk", !.request = q]
  <2>1. /\ r \in Reader /\ r.stage = "walk" /\ r.request = q /\ r.handles = Idle.handles
        /\ r.bytes = Idle.bytes /\ r.answer = Idle.answer
    BY IdleIsReader DEF Reader
  <2>2. reader' = r
    BY <1>1, <1>2
  <2> HIDE DEF r
  <2>3. TypeOK' /\ HistoryIsSound'
    BY <1>1, <2>1, <2>2, AdapterHistory DEF Settling
  <2>4. HandlesAreSound'
    BY <2>1, <2>2, WalkIsLong DEF HandlesAreSound, Idle
  <2>5. BytesAreSound'
    BY <2>1, <2>2 DEF BytesAreSound, Idle
  <2>6. QuietIsSound'
    <3>1. reader'.handles \in Routes(0)'
      <4>1. reader'.handles = <<>>
        BY <2>1, <2>2 DEF Idle
      <4>2. <<>> \in Routes(0)'
        BY NoRoute, SamePath
      <4>3. QED
        BY <4>1, <4>2
    <3>2. Len(reader'.handles) = 0
      BY <2>1, <2>2 DEF Idle
    <3>3. QED
      BY <2>1, <2>2, <3>1, <3>2 DEF QuietIsSound
  <2>7. QED
    BY <2>1, <2>2, <2>3, <2>4, <2>5, <2>6 DEF IInv, QuietAnswerIsExact
<1>3. CASE Refusal(q) # None
  <2> DEFINE r == [Idle EXCEPT !.stage = "done", !.request = q, !.answer = Refusal(q)]
  <2>1. Refusal(q) \in Errors
    BY <1>3 DEF Refusal, Errors
  <2>2. /\ r \in Reader /\ r.stage = "done" /\ r.request = q /\ r.handles = Idle.handles
        /\ r.answer = Refusal(q)
    BY <2>1, IdleIsReader DEF Reader
  <2>3. reader' = r
    BY <1>1, <1>3
  <2> HIDE DEF r
  <2>4. TypeOK' /\ HistoryIsSound'
    BY <1>1, <2>2, <2>3, AdapterHistory DEF Settling
  <2>5. HandlesAreSound'
    BY <2>1, <2>2, <2>3 DEF HandlesAreSound, Errors, Idle
  <2>6. BytesAreSound' /\ QuietIsSound'
    BY <2>2, <2>3 DEF BytesAreSound, QuietIsSound
  <2>7. Refusal(q)' = Refusal(q)
    BY DEF Refusal
  <2>8. QED
    BY <1>3, <2>2, <2>3, <2>4, <2>5, <2>6, <2>7 DEF IInv, QuietAnswerIsExact
<1>4. QED
  BY <1>2, <1>3

\* While the owner has done nothing, the entry is the only node the path leads to.
LEMMA OneWay ==
  ASSUME IInv, changes = 0, reader.stage \in {"entry", "open", "before", "read", "after", "reentry"}
  PROVE  /\ \A f : LeadsTo(f) <=> f = Entry
         /\ \A route \in Routes(Len(Walk)) : At(From(route, Len(Walk) + 1), Name) = Entry
         /\ reader.handles \in Routes(Len(Walk))
<1>1. /\ Len(reader.handles) = Len(Walk) /\ reader.handles \in Routes(Len(Walk))
      /\ \A i \in 1..Len(Walk) : Contained(i, reader.handles[i])
      /\ \A route \in Routes(Len(Walk)) : \A i \in 1..Len(Walk) : route[i] = reader.handles[i]
  BY DEF IInv, QuietIsSound, HandlesAreSound
<1>2. Len(Walk) \in Nat /\ Len(Walk) + 1 \in 1..Len(Walk) + 1
  BY WalkIsLong
<1>3. \A route \in Routes(Len(Walk)) :
        From(route, Len(Walk) + 1) = From(reader.handles, Len(Walk) + 1)
  BY <1>1, <1>2 DEF From
<1>4. QED
  BY <1>1, <1>3 DEF LeadsTo, Entry, Handle

\* The next directory: on the first walk as on the second.
LEMMA OpenDirSound ==
  ASSUME IInv, OpenDir, UNCHANGED <<names, content, stamp, changes>>, Record PROVE IInv'
<1> DEFINE i == Len(reader.handles) + 1
           node == At(Handle, Walk[i])
           stage == IF i < Len(Walk) THEN reader.stage
                    ELSE IF reader.stage = "walk" THEN "entry" ELSE "reentry"
           r == [reader EXCEPT !.handles = Append(@, node), !.stage = stage]
<1>1. /\ reader.stage \in {"walk", "rewalk"} /\ reader \in Reader /\ reader.handles \in Seq(Dirs)
      /\ Len(reader.handles) \in Nat /\ Len(reader.handles) < Len(Walk) /\ Len(Walk) \in Nat
      /\ i \in 1..Len(Walk) /\ i \in Nat
  BY WalkIsLong DEF OpenDir, IInv, TypeOK, Reader, HandlesAreSound
<1>2. changes = 0 =>
        /\ reader.handles \in Routes(i - 1)
        /\ \A route \in Routes(Len(Walk)) : \A j \in 1..i - 1 : route[j] = reader.handles[j]
  BY <1>1 DEF IInv, QuietIsSound
<1>3. changes = 0 => \A route \in Routes(Len(Walk)) : route[i] = node
  <2> SUFFICES ASSUME changes = 0, NEW route \in Routes(Len(Walk)) PROVE route[i] = node
    OBVIOUS
  <2>1. From(route, i) = From(reader.handles, i)
    BY <1>1, <1>2 DEF From
  <2>2. QED
    BY <1>1, <2>1 DEF Routes, Handle
<1>4. CASE node = None
  <2>1. \/ reader.stage = "walk" /\ Ends("not_found")
        \/ Ends("source_unavailable")
    BY <1>1, <1>4 DEF OpenDir
  <2>2. changes = 0 => NameMissing
    BY <1>1, <1>2, <1>4 DEF NameMissing, Handle
  <2>3. changes = 0 => Routes(Len(Walk)) = {}
    BY <1>1, <1>3, <1>4, KindsAreApart DEF Routes
  <2>4. changes = 0 => Exact("not_found") /\ Exact("source_unavailable")
    BY <2>2, <2>3 DEF Exact, Answers, MayBeRead, LeadsTo
  <2>5. QED
    BY <1>1, <2>1, <2>4, EndsSound DEF Errors
<1>5. CASE node # None /\ ~(node \in Dirs /\ Contained(i, node))
  <2>1. Ends("containment_failed")
    BY <1>5 DEF OpenDir, OpensAsDirectory
  <2>2. changes = 0 => ~\E f \in Files : LeadsTo(f)
    BY <1>1, <1>3, <1>5 DEF LeadsTo, Routes
  <2>3. changes = 0 => Exact("containment_failed")
    BY <2>2 DEF Exact, Answers, MayBeRead
  <2>4. QED
    BY <1>1, <2>1, <2>3, EndsSound DEF Errors
<1>6. CASE node \in Dirs /\ Contained(i, node) /\ Ends("source_unavailable")
  BY <1>1, <1>6, Unavailable
<1>7. CASE node \in Dirs /\ Contained(i, node) /\ reader' = r
  <2>1. Append(reader.handles, node) \in Seq(Dirs)
    BY <1>1, <1>7
  <2>2. /\ r \in Reader /\ r.stage = stage /\ r.handles = Append(reader.handles, node)
        /\ r.request = reader.request /\ r.answer = reader.answer /\ r.file = reader.file
        /\ r.before = reader.before /\ r.bytes = reader.bytes
    BY <1>1, <2>1 DEF Reader
  <2>3. /\ Len(r.handles) = i /\ \A j \in 1..i - 1 : r.handles[j] = reader.handles[j]
        /\ r.handles[i] = node
    BY <1>1, <2>2
  <2> HIDE DEF r
  <2>4. /\ \A j \in 1..i : From(r.handles, j) = From(reader.handles, j)
    BY <1>1, <2>3 DEF From
  <2> HIDE DEF stage
  <2>5. /\ reader.stage = "walk" => stage \in {"walk", "entry"}
        /\ reader.stage = "rewalk" => stage \in {"rewalk", "reentry"}
        /\ stage \in {"walk", "rewalk"} => i < Len(Walk)
        /\ stage \in {"entry", "reentry"} => i = Len(Walk)
    BY <1>1 DEF stage
  <2>6. TypeOK' /\ HistoryIsSound' /\ seen \subseteq seen' /\ Held \subseteq Held'
    BY <1>1, <1>7, <2>2, <2>5, AdapterHistory DEF Settling
  <2>7. HandlesAreSound'
    <3>1. \A j \in 1..i : Contained(j, r.handles[j])
      BY <1>1, <1>7, <2>3 DEF IInv, HandlesAreSound
    <3>2. stage \in {"rewalk", "reentry"} => \A j \in 1..i :
            Led(From(reader.handles, j), Walk[j], reader.handles[j])'
      <4> SUFFICES ASSUME stage \in {"rewalk", "reentry"}, NEW j \in 1..i
                   PROVE  \E x \in seen' : x[1] = <<From(r.handles, j), Walk[j]>> /\ x[2] = r.handles[j]
        BY <1>7, <2>3, <2>4 DEF Led, From
      <4>1. CASE j < i
        <5>1. Led(From(reader.handles, j), Walk[j], reader.handles[j])
          BY <1>1, <2>5, <4>1 DEF IInv, HandlesAreSound
        <5>2. QED
          BY <2>3, <2>4, <2>6, <4>1, <5>1 DEF Led
      <4>2. CASE j = i
        <5>1. /\ <<Handle, Walk[i]>> \in Places /\ names[<<Handle, Walk[i]>>] = node
          BY <1>7, KindsAreApart DEF At
        <5>2. \E x \in Glimpse : x[1] = <<Handle, Walk[i]>> /\ x[2] = node
          BY <1>7, <5>1, Seen
        <5>3. Glimpse \subseteq seen
          BY <1>1, <2>5 DEF IInv, HistoryIsSound, Settling
        <5>4. From(r.handles, j) = Handle /\ r.handles[j] = node
          BY <2>3, <2>4, <4>2 DEF Handle
        <5>5. QED
          BY <2>6, <4>2, <5>2, <5>3, <5>4
      <4>3. QED
        BY <4>1, <4>2
    <3>3. QED
      BY <1>1, <1>7, <2>2, <2>3, <2>5, <3>1, <3>2 DEF IInv, HandlesAreSound
  <2>8. BytesAreSound'
    BY <1>1, <1>7, <2>2, <2>5 DEF IInv, BytesAreSound
  <2>9. QuietIsSound'
    <3> SUFFICES ASSUME changes' = 0 PROVE QuietIsSound'
      BY DEF QuietIsSound
    <3>1. r.handles \in Routes(i)
      BY <1>1, <1>2, <1>7, <2>2, LongerRoute DEF Handle
    <3>2. \A route \in Routes(Len(Walk)) : \A j \in 1..i : route[j] = r.handles[j]
      BY <1>1, <1>2, <1>3, <2>3
    <3>3. QED
      BY <1>1, <1>7, <2>2, <2>3, <2>5, <3>1, <3>2, SamePath DEF IInv, QuietIsSound
  <2>10. QED
    BY <1>1, <1>7, <2>2, <2>5, <2>6, <2>7, <2>8, <2>9 DEF IInv, QuietAnswerIsExact
<1>8. QED
  BY <1>1, <1>4, <1>5, <1>6, <1>7 DEF OpenDir, OpensAsDirectory

-----------------------------------------------------------------------------
(* The entry                                                               *)

LEMMA EntryIsTyped ==
  ASSUME TypeOK PROVE Entry \in Nodes \cup {None}
BY DEF Entry, At, TypeOK

LEMMA StatIsTyped ==
  ASSUME TypeOK, NEW f \in Files PROVE StatOf(f) \in Stat
<1>1. {p \in Places : names[p] = f} \subseteq Places /\ IsFiniteSet(Places)
  BY LocalReadAssumption
<1>2. LinksIn(names, f) \in Nat
  BY <1>1, FS_Subset, FS_CardinalityType DEF LinksIn
<1>3. Len(content[f]) \in Nat /\ stamp[f] \in Nat /\ f \in Nodes
  BY LocalReadAssumption, KindsAreApart DEF TypeOK
<1>4. QED
  BY <1>2, <1>3 DEF StatOf, Stat

LEMMA FaultIsError ==
  ASSUME NEW node, NEW links, Fault(node, links) # None
  PROVE  Fault(node, links) \in {"containment_failed", "unsupported_content_type"}
BY DEF Fault

\* What the entry fails to be, no file at the end of the path can be.
LEMMA FaultEnds ==
  ASSUME IInv, reader.stage \in {"entry", "reentry"},
         Fault(Entry, LinksIn(names, Entry)) # None, Ends(Fault(Entry, LinksIn(names, Entry))),
         UNCHANGED <<names, content, stamp, changes>>, Record
  PROVE  IInv'
<1>1. changes = 0 => ~\E f \in Files : MayBeRead(f)
  BY OneWay DEF MayBeRead
<1>2. changes = 0 => Exact(Fault(Entry, LinksIn(names, Entry)))
  BY <1>1, FaultIsError DEF Exact, Answers
<1>3. QED
  BY <1>2, EndsSound, FaultIsError DEF Errors

LEMMA StatEntrySound ==
  ASSUME IInv, StatEntry, UNCHANGED <<names, content, stamp, changes>>, Record PROVE IInv'
<1>1. reader.stage = "entry" /\ reader \in Reader
  BY DEF StatEntry, IInv, TypeOK
<1>2. CASE Entry = None
  <2>1. changes = 0 => NameMissing /\ ~\E f \in Files : MayBeRead(f)
    BY <1>1, <1>2, OneWay, KindsAreApart DEF NameMissing, MayBeRead
  <2>2. changes = 0 => Exact("not_found")
    BY <2>1 DEF Exact, Answers
  <2>3. QED
    BY <1>1, <1>2, <2>2, EndsSound DEF StatEntry, Errors
<1>3. CASE Entry # None /\ Fault(Entry, LinksIn(names, Entry)) # None
  BY <1>1, <1>3, FaultEnds DEF StatEntry
<1>4. CASE Entry # None /\ Fault(Entry, LinksIn(names, Entry)) = None
  <2> DEFINE r == [reader EXCEPT !.stage = "open", !.entry = Entry]
  <2>1. Entry \in Nodes /\ Entry \in Files
    BY <1>4, EntryIsTyped, NoFault DEF IInv
  <2>2. /\ r \in Reader /\ r.stage = "open" /\ r.entry = Entry /\ r.handles = reader.handles
        /\ r.request = reader.request /\ r.answer = reader.answer /\ r.bytes = reader.bytes
    BY <1>1, <2>1 DEF Reader
  <2>3. reader' = r
    BY <1>1, <1>4 DEF StatEntry
  <2> HIDE DEF r
  <2>4. TypeOK' /\ HistoryIsSound'
    BY <1>1, <2>2, <2>3, AdapterHistory DEF Settling
  <2>5. HandlesAreSound' /\ BytesAreSound'
    BY <1>1, <2>2, <2>3 DEF IInv, HandlesAreSound, BytesAreSound
  <2>6. Entry' = Entry /\ LinksIn(names, Entry)' = LinksIn(names, Entry)
    BY <2>2, <2>3 DEF Entry, Handle, At, LinksIn
  <2>7. QuietIsSound'
    BY <1>1, <1>4, <2>1, <2>2, <2>3, <2>6, SamePath DEF IInv, QuietIsSound
  <2>8. QED
    BY <2>2, <2>3, <2>4, <2>5, <2>7 DEF IInv, QuietAnswerIsExact
<1>5. QED
  BY <1>2, <1>3, <1>4

LEMMA OpenFileSound ==
  ASSUME IInv, OpenFile, UNCHANGED <<names, content, stamp, changes>>, Record PROVE IInv'
<1>1. reader.stage = "open" /\ reader \in Reader
  BY DEF OpenFile, IInv, TypeOK
<1>2. changes = 0 => /\ Entry = reader.entry /\ Entry \in Files
                     /\ Fault(Entry, LinksIn(names, Entry)) = None
  BY <1>1 DEF IInv, QuietIsSound
<1>3. CASE Entry = None \/ Entry = Link
  <2>1. changes # 0
    BY <1>2, <1>3, KindsAreApart
  <2>2. Ends("not_found") \/ Ends("containment_failed")
    BY <1>3 DEF OpenFile
  <2>3. QED
    BY <1>1, <2>1, <2>2, EndsSound DEF Errors
<1>4. CASE Entry # None /\ Entry # Link
  <2> DEFINE r == [reader EXCEPT !.stage = "before", !.file = Entry]
  <2>1. /\ r \in Reader /\ r.stage = "before" /\ r.file = Entry /\ r.handles = reader.handles
        /\ r.request = reader.request /\ r.answer = reader.answer /\ r.bytes = reader.bytes
    BY <1>1, EntryIsTyped DEF IInv, Reader
  <2>2. reader' = r
    BY <1>4 DEF OpenFile
  <2> HIDE DEF r
  <2>3. TypeOK' /\ HistoryIsSound'
    BY <1>1, <2>1, <2>2, AdapterHistory DEF Settling
  <2>4. HandlesAreSound' /\ BytesAreSound'
    BY <1>1, <1>4, <2>1, <2>2, EntryIsTyped DEF IInv, HandlesAreSound, BytesAreSound
  <2>5. Entry' = Entry
    BY <2>1, <2>2 DEF Entry, Handle, At
  <2>6. changes = 0 => MayBeRead(Entry)
    BY <1>1, <1>2, OneWay DEF MayBeRead
  <2>7. QuietIsSound'
    BY <1>1, <2>1, <2>2, <2>5, <2>6, SamePath DEF IInv, QuietIsSound
  <2>8. QED
    BY <2>1, <2>2, <2>3, <2>4, <2>7 DEF IInv, QuietAnswerIsExact
<1>5. QED
  BY <1>3, <1>4

-----------------------------------------------------------------------------
(* The bytes                                                               *)

LEMMA StatBeforeSound ==
  ASSUME IInv, StatBefore, UNCHANGED <<names, content, stamp, changes>>, Record PROVE IInv'
<1> DEFINE file == reader.file
           before == StatOf(file)
<1>1. reader.stage = "before" /\ reader \in Reader /\ file \in Nodes
  BY DEF StatBefore, IInv, TypeOK, BytesAreSound
<1>2. before.links = LinksIn(names, file) /\ before.node = file
  BY DEF StatOf
<1>3. changes = 0 => MayBeRead(file) /\ Entry = file
  BY <1>1 DEF IInv, QuietIsSound
<1>4. CASE Fault(file, before.links) # None
  <2>1. changes # 0 /\ Ends(Fault(file, before.links))
    BY <1>2, <1>3, <1>4 DEF StatBefore, MayBeRead
  <2>2. QED
    BY <1>1, <1>4, <2>1, FaultIsError, EndsSound DEF Errors
<1>5. CASE Fault(file, before.links) = None /\ file # reader.entry
  BY <1>1, <1>5, Unavailable DEF StatBefore
<1>6. CASE /\ Fault(file, before.links) = None /\ file = reader.entry
           /\ before.size > reader.request.limit
  <2>1. file \in Files
    BY <1>1, <1>6, NoFault
  <2>2. before.size = Len(content[file])
    BY <2>1 DEF StatOf
  <2>3. before \in Stat /\ reader.request \in Request
    BY <1>1, <2>1, StatIsTyped DEF IInv, HandlesAreSound
  <2>4. ~Fits(file)
    BY <1>6, <2>2, <2>3 DEF Fits, Stat, Request
  <2>5. changes = 0 => Exact("limit_exceeded")
    BY <1>1, <1>3, <2>1, <2>4, OneWay DEF Exact, Answers, MayBeRead
  <2>6. QED
    BY <1>1, <1>6, <2>5, EndsSound DEF StatBefore, Errors
<1>7. CASE /\ Fault(file, before.links) = None /\ file = reader.entry
           /\ ~(before.size > reader.request.limit)
  <2> DEFINE r == [reader EXCEPT !.stage = "read", !.before = before]
  <2>1. file \in Files /\ before \in Stat /\ reader.request \in Request
    BY <1>1, <1>7, NoFault, StatIsTyped DEF IInv, HandlesAreSound
  <2>2. before.size = Len(content[file]) /\ before.stamp = stamp[file]
    BY <2>1 DEF StatOf
  <2>3. Fits(file) /\ stamp[file] \in Nat /\ content[file] \in Seq(Units)
    BY <1>7, <2>1, <2>2, LocalReadAssumption DEF Fits, Stat, Request, IInv, TypeOK
  <2> HIDE DEF before
  <2>4. /\ r \in Reader /\ r.stage = "read" /\ r.file = file /\ r.handles = reader.handles
        /\ r.before = before
        /\ r.request = reader.request /\ r.answer = reader.answer /\ r.bytes = reader.bytes
    BY <1>1, <2>1 DEF Reader
  <2>5. reader' = r
    BY <1>7 DEF StatBefore, before
  <2> HIDE DEF r
  <2>6. TypeOK' /\ HistoryIsSound'
    BY <1>1, <2>4, <2>5, AdapterHistory DEF Settling
  <2>7. HandlesAreSound'
    BY <1>1, <2>4, <2>5 DEF IInv, HandlesAreSound
  <2>8. BytesAreSound'
    <3>1. reader.bytes = <<>>
      BY <1>1 DEF IInv, BytesAreSound
    <3>2. Prefix(<<>>, content[file])
      BY <2>3 DEF Prefix
    <3>3. QED
      BY <1>2, <2>1, <2>2, <2>3, <2>4, <2>5, <3>1, <3>2 DEF BytesAreSound
  <2>9. QuietIsSound'
    BY <1>1, <1>3, <2>2, <2>3, <2>4, <2>5, SamePath DEF IInv, QuietIsSound
  <2>10. QED
    BY <2>4, <2>5, <2>6, <2>7, <2>8, <2>9 DEF IInv, QuietAnswerIsExact
<1>8. QED
  BY <1>4, <1>5, <1>6, <1>7

LEMMA ReadUnitSound ==
  ASSUME IInv, ReadUnit, UNCHANGED <<names, content, stamp, changes>>, Record PROVE IInv'
<1> DEFINE count == Len(reader.bytes)
           file == content[reader.file]
           more == count <= reader.request.limit /\ count < Len(file)
<1>1. /\ reader.stage = "read" /\ reader \in Reader /\ reader.file \in Files
      /\ reader.bytes \in Seq(Units) /\ file \in Seq(Units) /\ count \in Nat
  BY LocalReadAssumption DEF ReadUnit, IInv, TypeOK, Reader, BytesAreSound
<1>2. PICK bytes \in Seq(Units), stage \in {"read", "after"} :
        /\ reader' = [reader EXCEPT !.bytes = bytes, !.stage = stage]
        /\ Prefix(reader.bytes, file) => Prefix(bytes, file)
  <2>1. CASE more
    <3>1. file[count + 1] \in Units
      BY <1>1, <2>1
    <3>2. /\ Append(reader.bytes, file[count + 1]) \in Seq(Units)
          /\ Prefix(reader.bytes, file) => Prefix(Append(reader.bytes, file[count + 1]), file)
      BY <1>1, <2>1, <3>1 DEF Prefix
    <3>3. reader' = [reader EXCEPT !.bytes = Append(reader.bytes, file[count + 1])]
      BY <2>1 DEF ReadUnit
    <3>4. reader' = [reader EXCEPT !.bytes = Append(reader.bytes, file[count + 1]), !.stage = "read"]
      BY <1>1, <3>3 DEF Reader
    <3>5. QED
      BY <3>2, <3>4
  <2>2. CASE ~more
    <3>1. reader' = [reader EXCEPT !.stage = "after"]
      BY <2>2 DEF ReadUnit, Goes
    <3>2. reader' = [reader EXCEPT !.bytes = reader.bytes, !.stage = "after"]
      BY <1>1, <3>1 DEF Reader
    <3>3. QED
      BY <1>1, <3>2
  <2>3. QED
    BY <2>1, <2>2
<1> DEFINE r == [reader EXCEPT !.bytes = bytes, !.stage = stage]
<1>3. /\ r \in Reader /\ r.stage = stage /\ r.file = reader.file /\ r.handles = reader.handles
      /\ r.before = reader.before
      /\ r.request = reader.request /\ r.answer = reader.answer /\ r.bytes = bytes
  BY <1>1 DEF Reader
<1>4. reader' = r
  BY <1>2
<1> HIDE DEF r
<1>5. TypeOK' /\ HistoryIsSound'
  BY <1>1, <1>3, <1>4, AdapterHistory DEF Settling
<1>6. HandlesAreSound'
  BY <1>1, <1>3, <1>4 DEF IInv, HandlesAreSound
<1>7. BytesAreSound'
  BY <1>1, <1>2, <1>3, <1>4 DEF IInv, BytesAreSound
<1>8. QuietIsSound'
  BY <1>1, <1>3, <1>4, SamePath DEF IInv, QuietIsSound
<1>9. QED
  BY <1>3, <1>4, <1>5, <1>6, <1>7, <1>8 DEF IInv, QuietAnswerIsExact

\* What is as long as the whole and begins like it is the whole.
LEMMA WholePrefix ==
  ASSUME NEW s \in Seq(Units), NEW t \in Seq(Units), Prefix(s, t), Len(s) = Len(t)
  PROVE  s = t
BY DEF Prefix

LEMMA StatAfterSound ==
  ASSUME IInv, StatAfter, UNCHANGED <<names, content, stamp, changes>>, Record PROVE IInv'
<1> DEFINE file == reader.file
           after == StatOf(file)
<1>1. /\ reader.stage = "after" /\ reader \in Reader /\ file \in Files /\ reader.handles \in Seq(Dirs)
      /\ reader.bytes \in Seq(Units) /\ content[file] \in Seq(Units) /\ reader.request \in Request
  BY LocalReadAssumption DEF StatAfter, IInv, TypeOK, Reader, BytesAreSound, HandlesAreSound
<1>2. after.size = Len(content[file]) /\ after.stamp = stamp[file]
  BY <1>1 DEF StatOf
<1>3. reader.before.stamp = stamp[file] => Prefix(reader.bytes, content[file])
  BY <1>1 DEF IInv, BytesAreSound
<1>4. CASE Len(reader.bytes) > reader.request.limit
  <2>1. changes = 0 => Len(content[file]) <= reader.request.limit /\ Prefix(reader.bytes, content[file])
    BY <1>1, <1>3 DEF IInv, QuietIsSound, Fits
  <2>2. changes # 0
    BY <1>1, <1>4, <2>1 DEF Prefix, Request
  <2>3. QED
    BY <1>1, <1>4, <2>2, EndsSound DEF StatAfter, Errors
<1>5. CASE /\ ~(Len(reader.bytes) > reader.request.limit)
           /\ ~Stable(reader.before, after) \/ Len(reader.bytes) # after.size
  BY <1>1, <1>5, Unavailable DEF StatAfter
<1>6. CASE /\ ~(Len(reader.bytes) > reader.request.limit)
           /\ Stable(reader.before, after) /\ Len(reader.bytes) = after.size
  <2> DEFINE r == [reader EXCEPT !.stage = "rewalk", !.expected = reader.handles, !.handles = <<>>]
  <2>1. reader.bytes = content[file] /\ reader.before.stamp = stamp[file]
    BY <1>1, <1>2, <1>3, <1>6, WholePrefix DEF Stable
  <2> HIDE DEF after
  <2>2. /\ r \in Reader /\ r.stage = "rewalk" /\ r.file = file /\ r.handles = <<>>
        /\ r.before = reader.before
        /\ r.request = reader.request /\ r.answer = reader.answer /\ r.bytes = reader.bytes
    <3> DEFINE stopped == [reader EXCEPT !.stage = "rewalk"]
               kept == [stopped EXCEPT !.expected = reader.handles]
    <3>1. stopped \in Reader /\ \A k \in DOMAIN reader \ {"stage"} : stopped[k] = reader[k]
      BY <1>1 DEF Reader
    <3>2. kept \in Reader
      BY <1>1, <3>1 DEF Reader
    <3>3. <<>> \in Seq(Dirs)
      OBVIOUS
    <3>4. r = [kept EXCEPT !.handles = <<>>]
      OBVIOUS
    <3> HIDE DEF r
    <3>5. QED
      BY <1>1, <3>2, <3>3, <3>4 DEF Reader
  <2>3. reader' = r
    BY <1>1, <1>6 DEF StatAfter, after
  <2> HIDE DEF r
  <2>4. TypeOK' /\ HistoryIsSound'
    BY <1>1, <2>2, <2>3, AdapterHistory DEF Settling
  <2>5. HandlesAreSound'
    BY <1>1, <2>2, <2>3, WalkIsLong DEF IInv, HandlesAreSound
  <2>6. BytesAreSound'
    BY <1>1, <2>1, <2>2, <2>3 DEF IInv, BytesAreSound
  <2>7. QuietIsSound'
    <3>1. <<>> \in Routes(0)' /\ Len(<<>>) = 0
      BY NoRoute, SamePath
    <3>2. QED
      BY <1>1, <2>2, <2>3, <3>1, SamePath DEF IInv, QuietIsSound
  <2>8. QED
    BY <2>2, <2>3, <2>4, <2>5, <2>6, <2>7 DEF IInv, QuietAnswerIsExact
<1>7. QED
  BY <1>4, <1>5, <1>6

-----------------------------------------------------------------------------
(* The second walk                                                         *)

\* A content at the end of the second walk is one the promise knows.
LEMMA EntryIsHeld ==
  ASSUME IInv, reader.stage = "reentry", Entry # None, Fault(Entry, LinksIn(names, Entry)) = None
  PROVE  content[Entry] \in Held
<1>1. Entry \in Files
  BY EntryIsTyped, NoFault DEF IInv
<1>2. <<Handle, Name>> \in Places /\ names[<<Handle, Name>>] = Entry
  BY DEF Entry, At
<1>3. PICK x \in Glimpse : x[1] = <<Handle, Name>> /\ x[2] = Entry /\ x[3] = content[Entry]
  BY <1>1, <1>2, Seen
<1>4. x \in seen
  BY DEF IInv, HistoryIsSound, Settling
<1>5. Reached(Handle)
  <2> DEFINE route == reader.handles
  <2>1. Len(route) = Len(Walk) /\ route \in [1..Len(Walk) -> Dirs]
    BY LenProperties DEF IInv, TypeOK, Reader, HandlesAreSound
  <2>2. \A i \in 1..Len(Walk) : Contained(i, route[i]) /\ Led(From(route, i), Walk[i], route[i])
    BY <2>1 DEF IInv, HandlesAreSound
  <2>3. Handle = From(route, Len(Walk) + 1)
    BY <2>1 DEF Handle
  <2>4. QED
    BY <2>1, <2>2, <2>3 DEF Reached
<1>6. QED
  BY <1>1, <1>3, <1>4, <1>5 DEF Held

LEMMA StatAgainSound ==
  ASSUME IInv, StatAgain, UNCHANGED <<names, content, stamp, changes>>, Record PROVE IInv'
<1>1. /\ reader.stage = "reentry" /\ reader \in Reader /\ reader.file \in Files
      /\ reader.before.node = reader.file
  BY DEF StatAgain, IInv, TypeOK, BytesAreSound
<1>2. CASE Entry = None \/ Entry \in Dirs
  BY <1>1, <1>2, Unavailable DEF StatAgain
<1>3. CASE ~(Entry = None \/ Entry \in Dirs) /\ Fault(Entry, LinksIn(names, Entry)) # None
  BY <1>1, <1>3, FaultEnds DEF StatAgain
<1>4. CASE /\ ~(Entry = None \/ Entry \in Dirs) /\ Fault(Entry, LinksIn(names, Entry)) = None
           /\ ~Stable(reader.before, StatOf(Entry))
  BY <1>1, <1>4, Unavailable DEF StatAgain
<1>5. CASE /\ ~(Entry = None \/ Entry \in Dirs) /\ Fault(Entry, LinksIn(names, Entry)) = None
           /\ Stable(reader.before, StatOf(Entry))
  <2> DEFINE r == [reader EXCEPT !.stage = "decode"]
  <2>1. Entry \in Files
    BY <1>5, EntryIsTyped, NoFault DEF IInv
  <2>2. Entry = reader.file /\ reader.before.stamp = stamp[reader.file]
    BY <1>1, <1>5, <2>1 DEF Stable, StatOf
  <2>3. reader.bytes = content[reader.file]
    BY <1>1, <2>2 DEF IInv, BytesAreSound
  <2>4. reader.bytes \in Held
    BY <1>1, <1>5, <2>2, <2>3, EntryIsHeld
  <2>5. /\ r \in Reader /\ r.stage = "decode" /\ r.file = reader.file /\ r.handles = reader.handles
        /\ r.request = reader.request /\ r.answer = reader.answer /\ r.bytes = reader.bytes
    BY <1>1 DEF Reader
  <2>6. reader' = r
    BY <1>1, <1>5 DEF StatAgain, Goes
  <2> HIDE DEF r
  <2>7. TypeOK' /\ HistoryIsSound' /\ Held \subseteq Held'
    BY <1>1, <2>5, <2>6, AdapterHistory DEF Settling
  <2>8. HandlesAreSound'
    BY <1>1, <2>5, <2>6 DEF IInv, HandlesAreSound
  <2>9. BytesAreSound'
    <3>1. reader'.bytes \in Held'
      BY <2>4, <2>5, <2>6, <2>7
    <3>2. QED
      BY <2>5, <2>6, <3>1 DEF BytesAreSound
  <2>10. QuietIsSound'
    BY <1>1, <2>3, <2>5, <2>6, SamePath DEF IInv, QuietIsSound
  <2>11. QED
    BY <2>5, <2>6, <2>7, <2>8, <2>9, <2>10 DEF IInv, QuietAnswerIsExact
<1>6. QED
  BY <1>2, <1>3, <1>4, <1>5

LEMMA DecodeSound ==
  ASSUME IInv, Decode, UNCHANGED <<names, content, stamp, changes>>, Record PROVE IInv'
<1>1. reader.stage = "decode"
  BY DEF Decode
<1>2. changes = 0 => Answers(reader.file) /\ reader.file \in Files /\ reader.bytes = content[reader.file]
  BY <1>1 DEF IInv, QuietIsSound, Answers, MayBeRead
<1>3. CASE (\E i \in DOMAIN reader.bytes : reader.bytes[i] \in Undecodable) /\ Ends("unsupported_encoding")
  <2>1. changes = 0 => Exact("unsupported_encoding")
    BY <1>2, <1>3 DEF Exact, Decodes
  <2>2. QED
    BY <1>1, <1>3, <2>1, EndsSound DEF Errors
<1>4. CASE (\A i \in DOMAIN reader.bytes : reader.bytes[i] \notin Undecodable) /\ Ends("ok")
  <2>1. changes = 0 => Exact("ok")
    BY <1>2, <1>4 DEF Exact, Decodes
  <2>2. QED
    BY <1>1, <1>4, <2>1, EndsSound
<1>5. CASE Ends("provenance_unavailable")
  <2>1. Exact("provenance_unavailable")
    BY DEF Exact
  <2>2. QED
    BY <1>1, <1>5, <2>1, EndsSound DEF Errors
<1>6. QED
  BY <1>3, <1>4, <1>5 DEF Decode

-----------------------------------------------------------------------------
(* The owner, and the theorems                                             *)

\* A step of the owner leaves every shape as it was, and gives a file whose
\* content it changes a change time the file never had.
LEMMA OwnerTyped ==
  ASSUME TypeOK, Owner
  PROVE  /\ names' \in [Places -> Nodes \cup {None}] /\ content' \in [Files -> Contents]
         /\ stamp' \in [Files -> Nat] /\ changes' \in 0..MaxChanges /\ changes' # 0
         /\ \A f \in Files : /\ stamp[f] <= stamp'[f]
                             /\ stamp'[f] = stamp[f] => content'[f] = content[f]
         /\ reader' = reader /\ reader.stage # "done"
<1>1. /\ changes' \in 0..MaxChanges /\ changes' # 0 /\ reader' = reader /\ reader.stage # "done"
  BY LocalReadAssumption DEF Owner, TypeOK
<1>2. ASSUME NEW files, stamp' = Touched(files)
      PROVE  /\ stamp' \in [Files -> Nat]
             /\ \A f \in Files : stamp[f] <= stamp'[f] /\ (f \in files => stamp'[f] # stamp[f])
  BY <1>2 DEF Touched, TypeOK
<1>3. CASE \E f \in Files : Write(f)
  <2>1. PICK f \in Files, c \in Contents :
          content' = [content EXCEPT ![f] = c] /\ stamp' = Touched({f}) /\ UNCHANGED names
    BY <1>3 DEF Write
  <2>2. content' \in [Files -> Contents] /\ \A g \in Files \ {f} : content'[g] = content[g]
    BY <2>1 DEF TypeOK
  <2>3. QED
    BY <1>1, <1>2, <2>1, <2>2 DEF TypeOK
<1>4. ASSUME names' \in [Places -> Nodes \cup {None}], content' = content,
             stamp' = stamp \/ \E files : stamp' = Touched(files)
      PROVE  /\ content' \in [Files -> Contents] /\ stamp' \in [Files -> Nat]
             /\ \A f \in Files : /\ stamp[f] <= stamp'[f]
                                 /\ stamp'[f] = stamp[f] => content'[f] = content[f]
  BY <1>2, <1>4 DEF TypeOK
<1>5. CASE \E p, q \in Places : Move(p, q) \/ HardLink(p, q)
  <2>1. PICK p \in Places, q \in Places : Move(p, q) \/ HardLink(p, q)
    BY <1>5
  <2>2. names' \in [Places -> Nodes \cup {None}]
    BY <2>1 DEF Move, HardLink, TypeOK
  <2>3. content' = content /\ \E files : stamp' = Touched(files)
    BY <2>1 DEF Move, HardLink
  <2>4. QED
    BY <1>1, <1>4, <2>2, <2>3
<1>6. CASE \E p \in Places : Symlink(p) \/ Remove(p)
  <2>1. PICK p \in Places : Symlink(p) \/ Remove(p)
    BY <1>6
  <2>2. names' \in [Places -> Nodes \cup {None}]
    BY <2>1, KindsAreApart DEF Symlink, Remove, TypeOK
  <2>3. content' = content /\ (stamp' = stamp \/ \E files : stamp' = Touched(files))
    BY <2>1 DEF Symlink, Remove
  <2>4. QED
    BY <1>1, <1>4, <2>2, <2>3
<1>7. QED
  BY <1>3, <1>5, <1>6 DEF Owner

LEMMA OwnerSound == ASSUME IInv, Owner, Record PROVE IInv'
<1>1. /\ names' \in [Places -> Nodes \cup {None}] /\ content' \in [Files -> Contents]
      /\ stamp' \in [Files -> Nat] /\ changes' \in 0..MaxChanges /\ changes' # 0
      /\ \A f \in Files : /\ stamp[f] <= stamp'[f]
                          /\ stamp'[f] = stamp[f] => content'[f] = content[f]
      /\ reader' = reader /\ reader.stage # "done"
  BY OwnerTyped DEF IInv
<1>2. seen' = IF reader.stage \in Settling THEN seen \cup Glimpse' ELSE {}
  BY <1>1 DEF Record, Settling
<1>3. /\ Glimpse' \subseteq Places \X Nodes \X (Contents \cup {<<>>})
      /\ \A x \in Glimpse' : x[2] \in Files => x[3] \in Contents
  BY <1>1, KindsAreApart DEF Glimpse
<1>4. TypeOK' /\ HistoryIsSound' /\ seen \subseteq seen'
  BY <1>1, <1>2, <1>3 DEF IInv, TypeOK, HistoryIsSound
<1>5. Held \subseteq Held'
  BY <1>4, HeldGrows
<1>6. HandlesAreSound'
  <2>1. \A dir, name, node : Led(dir, name, node) => Led(dir, name, node)'
    BY <1>4 DEF Led
  <2>2. \A route, i : From(route, i)' = From(route, i)
    BY DEF From
  <2>3. QED
    BY <1>1, <2>1, <2>2 DEF IInv, HandlesAreSound
<1>7. BytesAreSound'
  <2>1. /\ reader.stage \in {"read", "after", "rewalk", "reentry"} =>
             /\ reader.file \in Files /\ reader.before \in Stat
             /\ reader.before.stamp <= stamp[reader.file]
    BY DEF IInv, BytesAreSound
  <2>2. /\ reader.stage \in {"read", "after", "rewalk", "reentry"} =>
             /\ reader.before.stamp <= stamp'[reader.file]
             /\ reader.before.stamp = stamp'[reader.file] =>
                  /\ reader.before.stamp = stamp[reader.file]
                  /\ content'[reader.file] = content[reader.file]
    BY <1>1, <2>1 DEF IInv, TypeOK, Stat
  <2>3. QED
    BY <1>1, <1>5, <2>1, <2>2 DEF IInv, BytesAreSound
<1>8. QuietIsSound' /\ QuietAnswerIsExact'
  BY <1>1 DEF QuietIsSound, QuietAnswerIsExact
<1>9. QED
  BY <1>4, <1>6, <1>7, <1>8 DEF IInv

LEMMA InitSound == Init => IInv
<1> SUFFICES ASSUME Init PROVE IInv
  OBVIOUS
<1>1. TypeOK
  BY LocalReadAssumption, IdleIsReader DEF Init, TypeOK
<1>2. HistoryIsSound /\ HandlesAreSound /\ BytesAreSound /\ QuietIsSound /\ QuietAnswerIsExact
  BY DEF Init, Idle, HistoryIsSound, HandlesAreSound, BytesAreSound, QuietIsSound,
         QuietAnswerIsExact, Settling
<1>3. QED
  BY <1>1, <1>2 DEF IInv

LEMMA StutterSound == ASSUME IInv, UNCHANGED vars PROVE IInv'
<1>1. TypeOK' /\ HistoryIsSound'
  <2>1. Glimpse' = Glimpse
    BY DEF vars, Glimpse, Fault, LinksIn
  <2>2. QED
    BY <2>1 DEF vars, IInv, TypeOK, HistoryIsSound
<1>2. Held' = Held /\ \A dir, name, node : Led(dir, name, node)' = Led(dir, name, node)
  BY HeldGrows DEF vars, Held, Reached, Led
<1>3. HandlesAreSound' /\ BytesAreSound'
  BY <1>2 DEF vars, IInv, HandlesAreSound, BytesAreSound
<1>4. Entry' = Entry /\ \A f : LinksIn(names, f)' = LinksIn(names, f)
  BY DEF vars, Entry, Handle, At, LinksIn
<1>5. QuietIsSound'
  BY <1>4, SamePath DEF vars, IInv, QuietIsSound
<1>6. Exact(reader.answer)' = Exact(reader.answer)
  BY SamePath DEF vars, Exact, Answers
<1>7. QuietAnswerIsExact'
  BY <1>6 DEF vars, IInv, QuietAnswerIsExact
<1>8. QED
  BY <1>1, <1>3, <1>5, <1>7 DEF IInv

LEMMA NextSound == IInv /\ [Next]_vars => IInv'
<1> SUFFICES ASSUME IInv, [Next]_vars PROVE IInv'
  OBVIOUS
<1>1. CASE Owner /\ Record
  BY <1>1, OwnerSound
<1>2. CASE Adapter /\ Record
  <2>1. CASE Begin
    BY <1>2, <2>1, BeginSound DEF Adapter
  <2>2. CASE OpenDir
    BY <1>2, <2>2, OpenDirSound DEF Adapter
  <2>3. CASE StatEntry
    BY <1>2, <2>3, StatEntrySound DEF Adapter
  <2>4. CASE OpenFile
    BY <1>2, <2>4, OpenFileSound DEF Adapter
  <2>5. CASE StatBefore
    BY <1>2, <2>5, StatBeforeSound DEF Adapter
  <2>6. CASE ReadUnit
    BY <1>2, <2>6, ReadUnitSound DEF Adapter
  <2>7. CASE StatAfter
    BY <1>2, <2>7, StatAfterSound DEF Adapter
  <2>8. CASE StatAgain
    BY <1>2, <2>8, StatAgainSound DEF Adapter
  <2>9. CASE Decode
    BY <1>2, <2>9, DecodeSound DEF Adapter
  <2>10. CASE CallFails
    BY <1>2, <2>10, Unavailable DEF Adapter, CallFails
  <2>11. QED
    BY <1>2, <2>1, <2>2, <2>3, <2>4, <2>5, <2>6, <2>7, <2>8, <2>9, <2>10 DEF Adapter
<1>3. CASE UNCHANGED vars
  BY <1>3, StutterSound
<1>4. QED
  BY <1>1, <1>2, <1>3 DEF Next

\* Every state of a read has the shape of one, the walk has passed the allowed
\* directories only, and what was read is what the file held as long as its
\* change time is the one of the first look (_read, _walk_directories).
THEOREM LocalReadInvariant == Spec => []IInv
<1>1. Init => IInv
  BY InitSound
<1>2. IInv /\ [Next]_vars => IInv'
  BY NextSound
<1>3. QED
  BY <1>1, <1>2, PTL DEF Spec

\* For any file system and any path, while nobody else acts in it: the answer
\* of a read tells the truth about the path, and only a failing call can hide
\* a file that may be read (execute).
THEOREM QuietAnswersAreExact == Spec => []QuietAnswerIsExact
<1>1. IInv => QuietAnswerIsExact
  BY DEF IInv
<1>2. QED
  BY <1>1, LocalReadInvariant, PTL

-----------------------------------------------------------------------------
(* The promise                                                             *)

\* The reading once over stays over, and only decoding answers with a text.
LEMMA AdapterMoves ==
  ASSUME IInv, Adapter
  PROVE  /\ reader.stage # "done"
         /\ reader.stage \in Settling => reader'.stage \in Settling
         /\ reader'.answer # "ok" \/ (reader.stage = "decode" /\ Ends("ok"))
<1>1. reader \in Reader /\ (reader.answer = "none" <=> reader.stage # "done") /\ "ok" \notin Errors
  BY DEF IInv, TypeOK, HandlesAreSound, Errors
<1>0. \A node, links : Fault(node, links) # None => Fault(node, links) # "ok"
  BY FaultIsError
<1> USE DEF Settling
<1>2. CASE Begin
  BY <1>1, <1>2 DEF Begin, Idle, Refusal
<1>3. CASE OpenDir
  <2>1. DEFINE node == At(Handle, Walk[Len(reader.handles) + 1])
  <2>2. \/ \E answer \in Errors : Ends(answer)
        \/ \E stage : /\ reader' = [reader EXCEPT !.handles = Append(@, node), !.stage = stage]
                      /\ reader.stage = "rewalk" => stage \in {"rewalk", "reentry"}
    BY <1>3 DEF OpenDir, Errors
  <2>3. QED
    BY <1>1, <1>3, <2>2 DEF OpenDir, Reader, Ends
<1>4. CASE StatEntry
  <2>1. \/ \E answer : answer # "ok" /\ Ends(answer)
        \/ reader' = [reader EXCEPT !.stage = "open", !.entry = Entry]
    BY <1>0, <1>4 DEF StatEntry
  <2>2. QED
    BY <1>1, <1>4, <2>1 DEF StatEntry, Reader, Ends
<1>5. CASE OpenFile
  BY <1>1, <1>5 DEF Ends, OpenFile, Reader
<1>6. CASE StatBefore
  <2>1. \/ \E answer : answer # "ok" /\ Ends(answer)
        \/ reader' = [reader EXCEPT !.stage = "read", !.before = StatOf(reader.file)]
    BY <1>0, <1>6 DEF StatBefore
  <2>2. QED
    BY <1>1, <1>6, <2>1 DEF StatBefore, Reader, Ends
<1>7. CASE ReadUnit
  BY <1>1, <1>7 DEF Ends, Goes, ReadUnit, Reader
<1>8. CASE StatAfter
  BY <1>1, <1>8 DEF Ends, StatAfter, Reader
<1>9. CASE StatAgain
  <2>1. \/ \E answer : answer # "ok" /\ Ends(answer)
        \/ reader' = [reader EXCEPT !.stage = "decode"]
    BY <1>0, <1>9 DEF StatAgain, Goes
  <2>2. QED
    BY <1>1, <1>9, <2>1 DEF StatAgain, Reader, Ends
<1>10. CASE Decode
  BY <1>1, <1>10 DEF Ends, Decode, Reader
<1>11. CASE CallFails
  BY <1>1, <1>11 DEF Ends, CallFails, Reader
<1>12. QED
  BY <1>2, <1>3, <1>4, <1>5, <1>6, <1>7, <1>8, <1>9, <1>10, <1>11 DEF Adapter

LEMMA PromiseInit == Init => Promise!Init
BY DEF Init, Idle, Held, Promise!Init

\* Each step of the read or of the owner is one of the promise, or none.
LEMMA PromiseStep ==
  ASSUME IInv, IInv', [Next]_vars PROVE [Promise!Next]_(Promise!vars)
<1> DEFINE text == IF reader.answer = "ok" THEN reader.bytes ELSE None
<1>1. /\ reader.answer = "none" <=> reader.stage # "done"
      /\ reader'.answer = "none" <=> reader'.stage # "done"
      /\ reader'.answer \in Errors \cup {"none", "ok"} /\ "ok" \notin Errors /\ "none" \notin Errors
  BY DEF IInv, HandlesAreSound, TypeOK, Reader, Errors
<1>2. Held' \in SUBSET Contents
  <2>1. \A x \in seen' : x[2] \in Files => x[3] \in Contents
    BY DEF IInv, HistoryIsSound
  <2>2. QED
    BY <2>1 DEF Held
<1>3. CASE Owner /\ Record
  <2>1. reader' = reader /\ reader.stage # "done"
    BY <1>3 DEF Owner
  <2>2. Held \subseteq Held'
    BY <1>3, <2>1, HeldGrows DEF Record, IInv, HistoryIsSound, Settling
  <2>3. Promise!Observe
    BY <1>1, <1>2, <2>1, <2>2 DEF Promise!Observe
  <2>4. QED
    BY <2>3 DEF Promise!Next
<1>4. CASE Adapter /\ Record
  <2>1. /\ reader.stage # "done"
        /\ reader.stage \in Settling => reader'.stage \in Settling
        /\ reader'.answer # "ok" \/ (reader.stage = "decode" /\ Ends("ok"))
    BY <1>4, AdapterMoves
  <2>2. seen \subseteq seen'
    BY <1>4, <2>1 DEF Record, IInv, HistoryIsSound, Settling
  <2>3. Held \subseteq Held'
    BY <2>2, HeldGrows
  <2>4. CASE reader'.answer = "none"
    <3>1. Promise!Observe
      BY <1>1, <1>2, <2>1, <2>3, <2>4 DEF Promise!Observe
    <3>2. QED
      BY <3>1 DEF Promise!Next
  <2>5. CASE reader'.answer \in Errors
    <3>1. Promise!Refuse
      BY <1>1, <1>2, <2>1, <2>3, <2>5 DEF Promise!Refuse
    <3>2. QED
      BY <3>1 DEF Promise!Next
  <2>6. CASE reader'.answer = "ok"
    <3>1. reader.stage = "decode" /\ reader' = [reader EXCEPT !.stage = "done", !.answer = "ok"]
      BY <2>1, <2>6 DEF Ends
    <3>2. reader \in Reader /\ reader.bytes \in Held
      BY <3>1 DEF IInv, TypeOK, BytesAreSound
    <3>3. reader'.bytes = reader.bytes /\ reader'.stage \in Settling /\ reader' \in Reader
      BY <3>1, <3>2 DEF Reader, Settling
    <3>4. Held' = Held
      <4>1. seen' = seen
        BY <1>4, <3>1, <3>3, AdapterHistory DEF Adapter, Settling
      <4>2. \A dir : Reached(dir)' = Reached(dir)
        BY <4>1 DEF Reached, Led
      <4>3. QED
        BY <4>1, <4>2 DEF Held
    <3>5. Promise!Return
      BY <1>1, <2>1, <2>6, <3>2, <3>3, <3>4 DEF Promise!Return
    <3>6. QED
      BY <3>5 DEF Promise!Next
  <2>7. QED
    BY <1>1, <2>4, <2>5, <2>6
<1>5. CASE UNCHANGED vars
  <2>1. Held' = Held
    BY <1>5 DEF vars, Held, Reached, Led
  <2>2. QED
    BY <1>5, <2>1 DEF vars, Promise!vars
<1>6. QED
  BY <1>3, <1>4, <1>5 DEF Next

\* For any file system, path, contents and owner: the bytes handed out are a
\* whole content that the one file at the end of the path had when the reading
\* was over, below the very root the adapter was made for (_read,
\* _revalidate_namespace); every other answer discloses nothing.
THEOREM ReadImplementsPromise == Spec => ReadsOneMoment
<1>1. Init => Promise!Init
  BY PromiseInit
<1>2. IInv /\ IInv' /\ [Next]_vars => [Promise!Next]_(Promise!vars)
  BY PromiseStep
<1>3. QED
  BY <1>1, <1>2, LocalReadInvariant, PTL DEF Spec, ReadsOneMoment, Promise!Spec
=============================================================================
