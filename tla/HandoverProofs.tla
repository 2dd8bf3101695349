---------------------------- MODULE HandoverProofs ----------------------------
(***************************************************************************)
(* Theorems about a handover.  The invariant ties together the four places *)
(* a page occurs in: the registered channel, the operation that made it,   *)
(* the transitions that bring it in, and the record of pages taken off.    *)
(***************************************************************************)
EXTENDS Handover, TLAPS

Transition == [packet : Packet, new : Channel]
Row == [reads : SUBSET Pages, directions : SUBSET Pages, committed : BOOLEAN]
Preparing == {"prepared", "drained", "proved"}
Completing == {"reading", "probing", "probed", "fenced"}
CallRecord ==
  [stage : {"idle"} \cup Preparing \cup Completing, packet : Packet \cup {None},
   affected : SUBSET Ends, transition : Transition \cup {None}, drained : BOOLEAN]

TypeOK ==
  /\ registered \in Channel
  /\ Proposed \subseteq Transition /\ proposals \in [Proposed -> Row]
  /\ DOMAIN operations \subseteq Packet \X Ends
  /\ operations \in [DOMAIN operations -> Pages \cup {None}]
  /\ returns \in [Tasks -> Pages \cup {None}]
  /\ DOMAIN retired \subseteq Pages /\ retired \in [DOMAIN retired -> Tasks]
  /\ pages \in 2..MaxPages /\ fence \in Callers \cup {None}
  /\ call \in [Callers -> CallRecord]

\* The page of a successor, once it is known.
Known(o) == o \in DOMAIN operations /\ operations[o] # None

\* What a call relies on at each stage.
Sound(i) ==
  LET c == call[i] IN
  /\ c.stage \in Preparing => c.packet \in Packet /\ c.packet.old.gen < MaxGen
  /\ c.stage = "proved" => \A e \in c.affected : Known(<<c.packet, e>>)
  /\ c.stage \in Completing =>
       /\ c.transition \in Proposed
       /\ \A e \in Ends : <<c.transition, c.transition.new.page[e]>> \in inputs
  /\ c.stage = "fenced" =>
       fence = i /\ (c.drained => Drained(Old(c.transition)))

FenceIsHeld == fence # None => fence \in Callers /\ At(fence, "fenced")

\* A proposal brings in pages of its packet's successors, has a probe for each
\* direction it names, and is one of the registered channel's only while the
\* lineage it was proposed with holds.
Coherent(x) ==
  /\ Old(x).gen <= registered.gen /\ x.new.gen = Old(x).gen + 1
  /\ \A e \in Ends :
       \/ x.new.page[e] = Old(x).page[e]
       \/ Known(<<x.packet, e>>) /\ x.new.page[e] = operations[<<x.packet, e>>]
  /\ \A e \in Ends : x.new.page[e] \in proposals[x].directions => ProbeOf(x, e) \in probes
  /\ Old(x) = registered => Lineage(x.packet)

\* Each page is of one operation at most, and a page made for a channel that is
\* not replaced yet is neither registered nor was it taken off.
PagesAreSound ==
  /\ \A e \in Ends : registered.page[e] <= pages /\ registered.page[e] \notin DOMAIN retired
  /\ \A p \in DOMAIN retired : p <= pages
  /\ \A o \in DOMAIN operations : operations[o] # None =>
       /\ operations[o] <= pages
       /\ o[1].old.gen >= registered.gen =>
            /\ operations[o] \notin DOMAIN retired
            /\ \A e \in Ends : operations[o] # registered.page[e]
  /\ \A o, q \in DOMAIN operations :
       operations[o] # None /\ operations[o] = operations[q] => o = q

\* A task that took a page off the channel has a return address of its own.
MoversAreRecorded == \A p \in DOMAIN retired : returns[retired[p]] # None

IInv ==
  /\ TypeOK /\ FenceIsHeld /\ PagesAreSound /\ MoversAreRecorded /\ ReturnFollows
  /\ \A i \in Callers : Sound(i)
  /\ \A x \in Proposed : Coherent(x)
-----------------------------------------------------------------------------
\* The first channel is sound: nothing was proposed, made or taken off.
LEMMA InitSound == Init => IInv
<1> SUFFICES ASSUME Init PROVE IInv
  OBVIOUS
<1>1. TypeOK
  <2>1. registered \in Channel /\ pages \in 2..MaxPages
    BY HandoverAssumption DEF Init, Channel, Pages
  <2>2. call \in [Callers -> CallRecord]
    BY DEF Init, CallRecord, Idle
  <2>3. QED
    BY <2>1, <2>2 DEF TypeOK, Init, Proposed
<1>2. PagesAreSound
  BY HandoverAssumption DEF Init, PagesAreSound
<1>3. \A i \in Callers : Sound(i)
  BY DEF Init, Sound, Idle, Preparing, Completing
<1>4. QED
  BY <1>1, <1>2, <1>3
  DEF IInv, Init, FenceIsHeld, MoversAreRecorded, ReturnFollows, Proposed

\* What a channel's pages may be, once the types are known.
LEMMA Numbers ==
  /\ Pages \subseteq Nat /\ None \notin Pages /\ None \notin Callers
  /\ \A c \in Channel : c.gen \in Nat /\ c.gen \in 1..MaxGen /\ c.page \in [Ends -> Pages]
  /\ \A p \in Packet : p.task \in Tasks /\ p.old \in Channel /\ p.origin \in Pages
  /\ \A x \in Transition : x.packet \in Packet /\ x.new \in Channel
BY HandoverAssumption DEF Pages, Channel, Packet, Transition

-----------------------------------------------------------------------------
(* Steps that only a call notices                                          *)

\* If only calls and the fence change, what is left to show is about them.
LEMMA CallsOnly ==
  ASSUME IInv, UNCHANGED <<journal, pages, busy, inputs, probes>>,
         call' \in [Callers -> CallRecord], fence' \in Callers \cup {None},
         FenceIsHeld', \A i \in Callers : Sound(i)'
  PROVE  IInv'
BY DEF IInv, TypeOK, journal, PagesAreSound, MoversAreRecorded, ReturnFollows, Known,
       Coherent, Proposed, Lineage, Old, ProbeOf, Sound

\* What a call relies on is only added to, but for its fence and its drain.
LEMMA SoundStays ==
  ASSUME NEW j \in Callers, Sound(j), call'[j] = call[j],
         Proposed \subseteq Proposed', inputs \subseteq inputs',
         \A o \in DOMAIN operations : Known(o) => Known(o)',
         call[j].stage = "fenced" =>
           fence' = fence /\ (Drained(Old(call[j].transition)) => Drained(Old(call[j].transition))')
  PROVE  Sound(j)'
<1>1. \A o : Known(o) => Known(o)'
  BY DEF Known
<1>2. (Drained(Old(call[j].transition)))' <=> Old(call[j].transition).gen \notin busy'
  BY DEF Drained, Old
<1>3. QED
  BY <1>1 DEF Sound, Drained, Old

\* In particular all calls but the one that moves, if nothing else does.
LEMMA OthersStay ==
  ASSUME IInv, NEW i \in Callers, \A j \in Callers \ {i} : call'[j] = call[j],
         UNCHANGED <<journal, pages, busy, inputs, probes>>,
         \A j \in Callers \ {i} : At(j, "fenced") => fence' = fence
  PROVE  \A j \in Callers \ {i} : Sound(j)'
<1> TAKE j \in Callers \ {i}
<1>1. \A o \in DOMAIN operations : Known(o) => Known(o)'
  BY DEF journal, Known
<1>2. Proposed \subseteq Proposed' /\ inputs \subseteq inputs'
  BY DEF journal, Proposed
<1>3. Drained(Old(call[j].transition)) => Drained(Old(call[j].transition))'
  BY DEF Drained, Old
<1>4. QED
  BY <1>1, <1>2, <1>3, SoundStays DEF IInv, At

LEMMA PrepareSound ==
  ASSUME IInv, NEW i \in Callers, PrepareOnSignal(i) PROVE IInv'
<1>1. PICK t \in Tasks, affected \in Reactions \ {{}} :
        \E origin \in {Origin[t]} \cup ({returns[t]} \ {None}) :
          call' = [call EXCEPT ![i] =
            [Idle EXCEPT !.stage = "prepared", !.affected = affected,
                         !.packet = [task |-> t, old |-> registered, origin |-> origin]]]
  BY DEF PrepareOnSignal
<1>2. PICK origin \in {Origin[t]} \cup ({returns[t]} \ {None}) :
        call' = [call EXCEPT ![i] =
          [Idle EXCEPT !.stage = "prepared", !.affected = affected,
                       !.packet = [task |-> t, old |-> registered, origin |-> origin]]]
  BY <1>1
<1> DEFINE packet == [task |-> t, old |-> registered, origin |-> origin]
<1>3. packet \in Packet /\ packet.old.gen < MaxGen
  BY HandoverAssumption DEF IInv, TypeOK, Packet, Pages, PrepareOnSignal
<1>4. affected \subseteq Ends
  <2>1. PICK ends \in (SUBSET Ends) \ {{}} : \E signals \in [ends -> Signals] :
          \E compact \in BOOLEAN : affected = Affected(signals, compact)
    BY DEF Reactions
  <2>2. \A signals, compact : Affected(signals, compact) \subseteq DOMAIN signals
    BY DEF Affected
  <2>3. QED
    BY <2>1, <2>2
<1>5. call'[i] = [stage |-> "prepared", packet |-> packet, affected |-> affected,
                  transition |-> None, drained |-> FALSE]
      /\ \A j \in Callers \ {i} : call'[j] = call[j]
  BY <1>2 DEF IInv, TypeOK, Idle
<1>6. call' \in [Callers -> CallRecord]
  <2>1. call'[i] \in CallRecord
    BY <1>3, <1>4, <1>5 DEF CallRecord, Preparing
  <2>2. QED
    BY <1>2, <1>5, <2>1 DEF IInv, TypeOK
<1>7. FenceIsHeld'
  BY <1>5 DEF IInv, FenceIsHeld, Sound, PrepareOnSignal, At, host
<1>8. \A j \in Callers : Sound(j)'
  <2>1. Sound(i)'
    BY <1>3, <1>5 DEF Sound, Preparing, Completing
  <2>2. \A j \in Callers \ {i} : Sound(j)'
    BY <1>5, OthersStay DEF PrepareOnSignal, host
  <2>3. QED
    BY <2>1, <2>2
<1>9. QED
  BY <1>6, <1>7, <1>8, CallsOnly DEF IInv, TypeOK, PrepareOnSignal, host

LEMMA DrainSound ==
  ASSUME IInv, NEW i \in Callers, Drain(i) PROVE IInv'
<1>1. call'[i] = [call[i] EXCEPT !.stage = "drained"] /\ call[i].stage = "prepared"
      /\ call' = [call EXCEPT ![i].stage = "drained"]
      /\ \A j \in Callers \ {i} : call'[j] = call[j]
  BY DEF IInv, TypeOK, Drain, Goto, At
<1>2. call' \in [Callers -> CallRecord]
  BY <1>1 DEF IInv, TypeOK, CallRecord, Preparing
<1>3. FenceIsHeld'
  BY <1>1 DEF IInv, FenceIsHeld, Drain, At, host
<1>4. \A j \in Callers : Sound(j)'
  <2>1. Sound(i)'
    BY <1>1 DEF IInv, TypeOK, CallRecord, Sound, Preparing, Completing
  <2>2. \A j \in Callers \ {i} : Sound(j)'
    BY <1>1, OthersStay DEF Drain, host
  <2>3. QED
    BY <2>1, <2>2
<1>5. QED
  BY <1>2, <1>3, <1>4, CallsOnly DEF IInv, TypeOK, Drain, host

LEMMA ProveSound ==
  ASSUME IInv, NEW i \in Callers, Prove(i) PROVE IInv'
<1>1. call'[i] = [call[i] EXCEPT !.stage = "proved"] /\ call[i].stage = "drained"
      /\ call' = [call EXCEPT ![i].stage = "proved"]
      /\ \A j \in Callers \ {i} : call'[j] = call[j]
  BY DEF IInv, TypeOK, Prove, Goto, At
<1>2. call' \in [Callers -> CallRecord]
  BY <1>1 DEF IInv, TypeOK, CallRecord, Preparing
<1>3. FenceIsHeld'
  BY <1>1 DEF IInv, FenceIsHeld, Prove, At, host
<1>4. \A e \in call[i].affected : Known(<<call[i].packet, e>>)
  <2>1. call[i].affected \subseteq Ends
    BY DEF IInv, TypeOK, CallRecord
  <2>2. \A e \in Ends : e \in call[i].affected => Successor(i, e) \in DOMAIN operations
    BY DEF Prove, Missing
  <2>3. QED
    BY <2>1, <2>2 DEF Prove, Successor, Known
<1>5. \A j \in Callers : Sound(j)'
  <2>1. Sound(i)'
    BY <1>1, <1>4 DEF IInv, TypeOK, CallRecord, Sound, Prove, journal, Known, Preparing, Completing
  <2>2. \A j \in Callers \ {i} : Sound(j)'
    BY <1>1, OthersStay DEF Prove, host
  <2>3. QED
    BY <2>1, <2>2
<1>6. QED
  BY <1>2, <1>3, <1>5, CallsOnly DEF IInv, TypeOK, Prove, host

LEMMA CompleteSound ==
  ASSUME IInv, NEW i \in Callers, NEW x \in Proposed, Complete(i, x) PROVE IInv'
<1>1. call'[i] = [stage |-> "reading", packet |-> None, affected |-> {},
                  transition |-> x, drained |-> FALSE]
      /\ \A j \in Callers \ {i} : call'[j] = call[j]
  BY DEF IInv, TypeOK, Complete, Idle
<1>2. call' \in [Callers -> CallRecord]
  <2>1. call'[i] \in CallRecord
    BY <1>1 DEF IInv, TypeOK, CallRecord, Completing
  <2>2. QED
    BY <1>1, <2>1 DEF IInv, TypeOK, Complete
<1>3. FenceIsHeld'
  BY <1>1 DEF IInv, FenceIsHeld, Complete, At, host
<1>4. \A j \in Callers : Sound(j)'
  <2>1. Sound(i)'
    BY <1>1 DEF Sound, Preparing, Completing, Complete, journal, host, Proposed
  <2>2. \A j \in Callers \ {i} : Sound(j)'
    BY <1>1, OthersStay DEF Complete, host
  <2>3. QED
    BY <2>1, <2>2
<1>5. QED
  BY <1>2, <1>3, <1>4, CallsOnly DEF IInv, TypeOK, Complete, host

LEMMA FenceSound ==
  ASSUME IInv, NEW i \in Callers, Fence(i) PROVE IInv'
<1>1. call'[i] = [call[i] EXCEPT !.stage = "fenced", !.drained = Drained(Old(call[i].transition))]
      /\ \A j \in Callers \ {i} : call'[j] = call[j]
  BY DEF IInv, TypeOK, Fence
<1>2. call' \in [Callers -> CallRecord] /\ call'[i].stage = "fenced"
      /\ call'[i].transition = call[i].transition
      /\ call'[i].drained = Drained(Old(call[i].transition))
  <2>1. call[i] \in CallRecord
    BY DEF IInv, TypeOK
  <2>2. call'[i] \in CallRecord
    BY <1>1, <2>1 DEF CallRecord, Completing, Drained
  <2>3. QED
    BY <1>1, <2>1, <2>2 DEF IInv, TypeOK, Fence, CallRecord
<1>3. FenceIsHeld' /\ fence' \in Callers \cup {None}
  BY <1>2 DEF FenceIsHeld, Fence, At
<1>4. \A j \in Callers : Sound(j)'
  <2>1. call[i].transition \in Proposed
        /\ \A e \in Ends : <<call[i].transition, call[i].transition.new.page[e]>> \in inputs
    BY DEF IInv, Sound, Fence, At, Completing
  <2>2. (Drained(Old(call[i].transition)))' <=> Drained(Old(call[i].transition))
    BY <1>2 DEF Drained, Old, Fence
  <2>3. Sound(i)'
    BY <1>2, <2>1, <2>2 DEF Sound, Preparing, Fence, journal, Proposed
  <2>4. \A j \in Callers \ {i} : ~At(j, "fenced")
    BY HandoverAssumption DEF IInv, Sound, At, Fence
  <2>5. QED
    BY <1>1, <2>3, <2>4, OthersStay DEF Fence
<1>5. QED
  BY <1>2, <1>3, <1>4, CallsOnly DEF Fence

LEMMA StopSound ==
  ASSUME IInv, NEW i \in Callers, Stop(i) PROVE IInv'
<1>1. call'[i] = Idle /\ \A j \in Callers \ {i} : call'[j] = call[j]
  BY DEF IInv, TypeOK, Stop, Finish
<1>2. call' \in [Callers -> CallRecord]
  <2>1. Idle \in CallRecord
    BY DEF Idle, CallRecord
  <2>2. QED
    BY <1>1, <2>1 DEF IInv, TypeOK, Stop, Finish
<1>3. FenceIsHeld' /\ fence' \in Callers \cup {None}
  BY <1>1 DEF IInv, TypeOK, FenceIsHeld, Stop, Unfence, At
<1>4. \A j \in Callers : Sound(j)'
  <2>1. Sound(i)'
    BY <1>1 DEF Sound, Idle, Preparing, Completing
  <2>2. \A j \in Callers \ {i} : At(j, "fenced") => fence' = fence
    BY DEF IInv, Sound, At, Stop, Unfence
  <2>3. QED
    BY <1>1, <2>1, <2>2, OthersStay DEF Stop
<1>5. QED
  BY <1>2, <1>3, <1>4, CallsOnly DEF Stop

-----------------------------------------------------------------------------
(* Steps of the host and of the operations                                 *)

LEMMA SendSound ==
  ASSUME IInv, NEW x \in Proposed, NEW e \in Ends, SendPacket(x, e) PROVE IInv'
<1>1. inputs \subseteq inputs' /\ UNCHANGED <<journal, pages, busy, fence, probes, call>>
  BY DEF SendPacket
<1>2. \A j \in Callers : Sound(j)'
  BY <1>1, SoundStays DEF IInv, journal, Known, Proposed, Drained, Old
<1>3. QED
  BY <1>1, <1>2 DEF IInv, TypeOK, journal, FenceIsHeld, At, PagesAreSound, MoversAreRecorded,
                    ReturnFollows, Known, Coherent, Proposed, Lineage, Old, ProbeOf

LEMMA ProbeSound ==
  ASSUME IInv, NEW i \in Callers, NEW e \in Ends, Probe(i, e) PROVE IInv'
<1>1. probes \subseteq probes' /\ UNCHANGED <<journal, pages, busy, fence, inputs, call>>
  BY DEF Probe
<1>2. \A j \in Callers : Sound(j)'
  BY <1>1, SoundStays DEF IInv, journal, Known, Proposed, Drained, Old
<1>3. QED
  BY <1>1, <1>2 DEF IInv, TypeOK, journal, FenceIsHeld, At, PagesAreSound, MoversAreRecorded,
                    ReturnFollows, Known, Coherent, Proposed, Lineage, Old, ProbeOf

\* Business: the fence keeps the drain of its owner true.
LEMMA BusinessSound ==
  ASSUME IInv, UNCHANGED <<journal, pages, fence, inputs, probes, call>>,
         \A g \in busy' : g \in busy
           \/ (fence # None => g # Old(call[fence].transition).gen)
  PROVE  IInv'
<1>1. \A j \in Callers : Sound(j)'
  <2> TAKE j \in Callers
  <2>1. Sound(j)
    BY DEF IInv
  <2>2. call[j].stage = "fenced" => fence = j /\ fence # None
    BY <2>1, HandoverAssumption DEF Sound
  <2>3. call[j].stage = "fenced" /\ Drained(Old(call[j].transition))
          => Old(call[j].transition).gen \notin busy'
    BY <2>2 DEF Drained
  <2>4. Old(call[j].transition)' = Old(call[j].transition)
    BY DEF Old
  <2>5. call[j].stage = "fenced" =>
          fence' = fence
          /\ (Drained(Old(call[j].transition)) => Drained(Old(call[j].transition))')
    BY <2>3, <2>4 DEF Drained
  <2>6. QED
    BY <2>1, <2>5, SoundStays DEF journal, Known, Proposed
<1>2. QED
  BY <1>1 DEF IInv, TypeOK, journal, FenceIsHeld, At, PagesAreSound, MoversAreRecorded,
              ReturnFollows, Known, Coherent, Proposed, Lineage, Old, ProbeOf

LEMMA DeliverSound == ASSUME IInv, Deliver(registered.gen) PROVE IInv'
BY BusinessSound DEF Deliver

LEMMA SettleSound == ASSUME IInv, NEW g \in busy, Settle(g) PROVE IInv'
BY BusinessSound DEF Settle

\* Operations are added and get their page once.
LEMMA OperationsGrow ==
  ASSUME IInv, UNCHANGED <<registered, proposals, returns, retired, busy, fence, inputs, probes, call>>,
         \A o \in DOMAIN operations : Known(o) => Known(o)' /\ operations'[o] = operations[o],
         TypeOK', PagesAreSound'
  PROVE  IInv'
<1>1. \A j \in Callers : Sound(j)'
  BY SoundStays DEF IInv, Proposed, Drained, Old
<1>2. ASSUME NEW x \in Proposed PROVE Coherent(x)'
  <2>1. Coherent(x)
    BY DEF IInv
  <2>2. \A e \in Ends : Known(<<x.packet, e>>) =>
          Known(<<x.packet, e>>)' /\ operations'[<<x.packet, e>>] = operations[<<x.packet, e>>]
    BY DEF Known
  <2>3. QED
    BY <2>1, <2>2 DEF Coherent, Lineage, Old, ProbeOf
<1>3. QED
  BY <1>1, <1>2 DEF IInv, FenceIsHeld, At, MoversAreRecorded, ReturnFollows, Proposed

LEMMA CreateSound ==
  ASSUME IInv, NEW i \in Callers, NEW e \in Ends, CreateSuccessor(i, e) PROVE IInv'
<1> DEFINE o == Successor(i, e)
<1>1. o \in Packet \X Ends /\ o \notin DOMAIN operations
  BY DEF IInv, Sound, CreateSuccessor, At, Preparing, Successor, Missing
<1>2. /\ DOMAIN operations' = DOMAIN operations \cup {o}
      /\ operations'[o] = None
      /\ \A q \in DOMAIN operations : operations'[q] = operations[q]
      /\ operations' = [q \in DOMAIN operations' |-> operations'[q]]
  BY <1>1 DEF CreateSuccessor, Operate
<1> HIDE DEF o
<1>3. UNCHANGED <<registered, proposals, returns, retired, host, call>>
  BY DEF CreateSuccessor
<1>4. TypeOK'
  BY <1>1, <1>2, <1>3 DEF IInv, TypeOK, host, Proposed
<1>5. PagesAreSound'
  BY <1>1, <1>2, <1>3 DEF IInv, PagesAreSound, host
<1>6. \A q \in DOMAIN operations : Known(q) => Known(q)' /\ operations'[q] = operations[q]
  BY <1>2 DEF Known
<1>7. QED
  BY <1>3, <1>4, <1>5, <1>6, OperationsGrow DEF host

LEMMA VerifySound ==
  ASSUME IInv, NEW i \in Callers, NEW e \in Ends, VerifySuccessor(i, e) PROVE IInv'
<1> DEFINE o == Successor(i, e)
<1>1. o \in DOMAIN operations /\ operations[o] = None
  BY DEF VerifySuccessor
<1>2. /\ DOMAIN operations' = DOMAIN operations
      /\ operations'[o] = pages'
      /\ \A q \in DOMAIN operations \ {o} : operations'[q] = operations[q]
      /\ operations' = [q \in DOMAIN operations' |-> operations'[q]]
  BY <1>1 DEF VerifySuccessor, Operate
<1> HIDE DEF o
<1>3. UNCHANGED <<registered, proposals, returns, retired, busy, fence, inputs, probes, call>>
  BY DEF VerifySuccessor
<1>4. pages \in Nat /\ pages' = pages + 1 /\ pages' \in 2..MaxPages /\ pages' \in Pages
  BY HandoverAssumption DEF IInv, TypeOK, VerifySuccessor, Pages
<1>5. TypeOK'
  BY <1>1, <1>2, <1>3, <1>4 DEF IInv, TypeOK, Proposed
<1>6. PagesAreSound'
  <2>1. /\ \A p \in DOMAIN retired : p \in Nat /\ p <= pages
        /\ \A f \in Ends : registered.page[f] \in Nat /\ registered.page[f] <= pages
        /\ \A q \in DOMAIN operations : operations[q] # None =>
             operations[q] \in Nat /\ operations[q] <= pages
    BY Numbers DEF IInv, TypeOK, PagesAreSound
  <2>2. pages' \notin DOMAIN retired /\ (\A f \in Ends : pages' # registered.page[f])
        /\ \A q \in DOMAIN operations : operations[q] # pages'
    BY <1>4, <2>1, HandoverAssumption
  <2>3. \A q \in DOMAIN operations' : operations'[q] # None =>
          /\ operations'[q] <= pages'
          /\ q[1].old.gen >= registered.gen =>
               /\ operations'[q] \notin DOMAIN retired
               /\ \A f \in Ends : operations'[q] # registered.page[f]
    BY <1>2, <1>4, <2>1, <2>2 DEF IInv, PagesAreSound
  <2>4. \A q, r \in DOMAIN operations' :
          operations'[q] # None /\ operations'[q] = operations'[r] => q = r
    BY <1>2, <2>2 DEF IInv, PagesAreSound
  <2>5. /\ \A p \in DOMAIN retired : p <= pages'
        /\ \A f \in Ends : registered.page[f] <= pages' /\ registered.page[f] \notin DOMAIN retired
    BY <1>4, <2>1 DEF IInv, PagesAreSound
  <2>6. registered' = registered /\ retired' = retired
    BY <1>3
  <2>7. QED
    BY <2>3, <2>4, <2>5, <2>6 DEF PagesAreSound
<1>7. \A q \in DOMAIN operations : Known(q) => Known(q)' /\ operations'[q] = operations[q]
  BY <1>1, <1>2 DEF Known
<1>8. QED
  BY <1>3, <1>5, <1>6, <1>7, OperationsGrow

-----------------------------------------------------------------------------
(* Steps of a transition                                                   *)

\* What is recorded for a proposal leaves all others alone.
LEMMA RecordTypes ==
  ASSUME TypeOK, NEW x \in Proposed, NEW page \in Pages,
         \/ proposals' = [proposals EXCEPT ![x].reads = @ \cup {page}]
         \/ proposals' = [proposals EXCEPT ![x].directions = @ \cup {page}]
  PROVE  /\ Proposed' = Proposed /\ proposals' \in [Proposed -> Row]
         /\ \A y \in Proposed \ {x} : proposals'[y] = proposals[y]
<1>1. proposals \in [Proposed -> Row] /\ proposals[x] \in Row
  BY DEF TypeOK
<1>2. proposals'[x] \in Row /\ proposals' = [proposals EXCEPT ![x] = proposals'[x]]
  BY <1>1 DEF Row
<1>3. QED
  BY <1>1, <1>2 DEF Proposed

\* A row is added to by the call of its transition, which may move on.
LEMMA RecordSound ==
  ASSUME IInv, NEW i \in Callers, call[i].stage \in Completing \ {"fenced"},
         NEW e \in Ends, NEW x, x = call[i].transition,
         \/ proposals' = [proposals EXCEPT ![x].reads = @ \cup {x.new.page[e]}]
         \/ /\ proposals' = [proposals EXCEPT ![x].directions = @ \cup {x.new.page[e]}]
            /\ ProbeOf(x, e) \in probes,
         \/ UNCHANGED call
         \/ \E stage \in {"probing", "probed"} : Goto(i, stage),
         UNCHANGED <<registered, operations, returns, retired, host>>
  PROVE  IInv'
<1>1. x \in Proposed /\ x \in Transition /\ x.new.page \in [Ends -> Pages] /\ call[i] \in CallRecord
  BY Numbers DEF IInv, Sound, TypeOK
<1>2. /\ Proposed' = Proposed /\ proposals' \in [Proposed -> Row]
      /\ \A y \in Proposed : \A p \in proposals'[y].directions \ proposals[y].directions :
           y = x /\ p = x.new.page[e] /\ ProbeOf(x, e) \in probes
  <2>1. /\ Proposed' = Proposed /\ proposals' \in [Proposed -> Row]
        /\ \A y \in Proposed \ {x} : proposals'[y] = proposals[y]
    BY <1>1, RecordTypes DEF IInv
  <2>2. proposals \in [Proposed -> Row] /\ proposals[x] \in Row
    BY <1>1 DEF IInv, TypeOK
  <2>3. \A p \in proposals'[x].directions \ proposals[x].directions :
          p = x.new.page[e] /\ ProbeOf(x, e) \in probes
    BY <1>1, <2>2 DEF Row
  <2>4. QED
    BY <2>1, <2>3
<1>3. PICK stage \in {call[i].stage, "probing", "probed"} :
        call'[i] = [call[i] EXCEPT !.stage = stage]
        /\ call' = [call EXCEPT ![i] = [call[i] EXCEPT !.stage = stage]]
  BY <1>1 DEF IInv, TypeOK, Goto, CallRecord
<1>4. call'[i] \in CallRecord /\ call'[i].transition = x
      /\ call'[i].stage \in Completing \ {"fenced"}
      /\ \A j \in Callers \ {i} : call'[j] = call[j]
  BY <1>1, <1>3 DEF IInv, TypeOK, CallRecord, Completing
<1>5. TypeOK'
  BY <1>2, <1>3, <1>4 DEF IInv, TypeOK, host
<1>6. \A j \in Callers : Sound(j)'
  <2>1. Sound(i)'
    BY <1>1, <1>2, <1>4 DEF IInv, Sound, Preparing, Completing, host
  <2>2. \A j \in Callers \ {i} : Sound(j)'
    BY <1>2, <1>4, SoundStays DEF IInv, host, Known, Drained, Old
  <2>3. QED
    BY <2>1, <2>2
<1>7. ASSUME NEW y \in Proposed PROVE Coherent(y)'
  <2>1. Coherent(y)
    BY DEF IInv
  <2>2. \A f \in Ends : y.new.page[f] \in proposals'[y].directions => ProbeOf(y, f) \in probes
    <3> SUFFICES ASSUME NEW f \in Ends, y.new.page[f] \in proposals'[y].directions
                 PROVE  ProbeOf(y, f) \in probes
      OBVIOUS
    <3>1. CASE y.new.page[f] \in proposals[y].directions
      BY <2>1, <3>1 DEF Coherent
    <3>2. CASE y = x /\ y.new.page[f] = x.new.page[e] /\ ProbeOf(x, e) \in probes
      <4>1. ProbeOf(y, f) = ProbeOf(x, e)
        BY <3>2 DEF ProbeOf, Peer, Ends
      <4>2. QED
        BY <3>2, <4>1
    <3>3. QED
      BY <1>2, <3>1, <3>2
  <2>3. QED
    BY <2>1, <2>2 DEF Coherent, Known, Lineage, Old, ProbeOf, host
<1>8. FenceIsHeld'
  BY <1>4 DEF IInv, FenceIsHeld, At, host
<1>9. QED
  BY <1>2, <1>5, <1>6, <1>7, <1>8 DEF IInv, PagesAreSound, MoversAreRecorded, ReturnFollows, host

LEMMA ReadSound ==
  ASSUME IInv, NEW i \in Callers, NEW e \in Ends, ObserveRead(i, e) PROVE IInv'
BY RecordSound DEF ObserveRead, At, Completing

LEMMA DirectionSound ==
  ASSUME IInv, NEW i \in Callers, NEW e \in Ends, ObserveDirection(i, e) PROVE IInv'
BY RecordSound DEF ObserveDirection, At, Completing

LEMMA ProposeSound ==
  ASSUME IInv, NEW i \in Callers, Propose(i) PROVE IInv'
<1> DEFINE packet == call[i].packet
           x == [packet |-> packet, new |-> NewChannel(i)]
<1>1. /\ At(i, "proved") /\ registered = packet.old /\ Lineage(packet)
      /\ proposals' = [y \in Proposed \cup {x} |->
           IF y \in Proposed THEN proposals[y]
           ELSE [reads |-> {}, directions |-> {}, committed |-> FALSE]]
      /\ Finish(i) /\ UNCHANGED <<registered, operations, returns, retired, host>>
  BY DEF Propose, Old
<1>2. /\ packet \in Packet /\ packet.old.gen < MaxGen /\ call[i].affected \subseteq Ends
      /\ \A e \in call[i].affected : Known(<<packet, e>>)
  BY <1>1 DEF IInv, TypeOK, CallRecord, Sound, At, Preparing
<1>3. /\ x.packet = packet /\ x.new.gen = packet.old.gen + 1
      /\ \A e \in Ends :
           \/ x.new.page[e] = packet.old.page[e]
           \/ Known(<<packet, e>>) /\ x.new.page[e] = operations[<<packet, e>>]
  <2>1. x.packet = packet /\ x.new = NewChannel(i)
    OBVIOUS
  <2>2. NewChannel(i).gen = packet.old.gen + 1
    BY DEF NewChannel
  <2>3. \A e \in Ends : NewChannel(i).page[e] =
          IF e \in call[i].affected THEN operations[<<packet, e>>] ELSE packet.old.page[e]
    BY DEF NewChannel, Successor
  <2> HIDE DEF x, packet
  <2>4. QED
    BY <1>2, <2>1, <2>2, <2>3
<1>4. x \in Transition
  <2>1. packet.old \in Channel /\ packet.old.page \in [Ends -> Pages] /\ packet.old.gen + 1 \in 1..MaxGen
    BY <1>2, Numbers, HandoverAssumption
  <2>2. \A e \in call[i].affected : operations[<<packet, e>>] \in Pages
    BY <1>2 DEF IInv, TypeOK, Known
  <2>3. NewChannel(i) \in Channel
    BY <2>1, <2>2 DEF NewChannel, Channel, Successor
  <2>4. QED
    BY <1>2, <2>3 DEF Transition
<1> HIDE DEF x, packet
<1>5. /\ Proposed' = Proposed \cup {x} /\ proposals' \in [Proposed' -> Row]
      /\ \A y \in Proposed : proposals'[y] = proposals[y]
      /\ x \notin Proposed => proposals'[x].directions = {}
  <2>1. Proposed' = Proposed \cup {x}
    BY <1>1 DEF Proposed
  <2>2. [reads |-> {}, directions |-> {}, committed |-> FALSE] \in Row
    BY DEF Row
  <2>3. QED
    BY <1>1, <2>1, <2>2 DEF IInv, TypeOK
<1>6. call'[i] = Idle /\ (\A j \in Callers \ {i} : call'[j] = call[j])
      /\ call' \in [Callers -> CallRecord]
  <2>1. Idle \in CallRecord
    BY DEF Idle, CallRecord
  <2>2. QED
    BY <1>1, <2>1 DEF IInv, TypeOK, Finish
<1>7. TypeOK'
  BY <1>1, <1>4, <1>5, <1>6 DEF IInv, TypeOK, host
<1>8. \A j \in Callers : Sound(j)'
  <2>1. Sound(i)'
    BY <1>6 DEF Sound, Idle, Preparing, Completing
  <2>2. \A j \in Callers \ {i} : Sound(j)'
    BY <1>1, <1>5, <1>6, SoundStays DEF IInv, host, Known, Drained, Old
  <2>3. QED
    BY <2>1, <2>2
<1>9. ASSUME NEW y \in Proposed' PROVE Coherent(y)'
  <2>1. CASE y \in Proposed
    BY <1>1, <1>5, <2>1 DEF IInv, Coherent, Known, Lineage, Old, ProbeOf, host
  <2>2. CASE y = x /\ x \notin Proposed
    <3>1. registered.gen \in Nat
      BY Numbers DEF IInv, TypeOK
    <3>2. QED
      BY <1>1, <1>3, <1>5, <2>2, <3>1 DEF Coherent, Known, Lineage, Old
  <2>3. QED
    BY <1>5, <2>1, <2>2
<1>10. FenceIsHeld'
  BY <1>1, <1>6 DEF IInv, FenceIsHeld, At, host
<1>11. QED
  BY <1>1, <1>7, <1>8, <1>9, <1>10 DEF IInv, PagesAreSound, MoversAreRecorded, ReturnFollows, host

-----------------------------------------------------------------------------
(* The cutover                                                             *)

\* A page that comes in was not taken off before.
LEMMA NewPagesAreFresh ==
  ASSUME IInv, NEW x \in Proposed, registered = Old(x), NEW e \in Ends
  PROVE  x.new.page[e] \in Pages /\ x.new.page[e] <= pages /\ x.new.page[e] \notin DOMAIN retired
<1>1. x \in Transition /\ x.new.page \in [Ends -> Pages] /\ Coherent(x)
  BY Numbers DEF IInv, TypeOK
<1>2. CASE x.new.page[e] = registered.page[e]
  BY <1>1, <1>2 DEF IInv, PagesAreSound
<1>3. CASE Known(<<x.packet, e>>) /\ x.new.page[e] = operations[<<x.packet, e>>]
  <2>1. <<x.packet, e>>[1].old.gen >= registered.gen
    BY <1>1, Numbers DEF IInv, TypeOK, Old
  <2>2. QED
    BY <1>1, <1>3, <2>1 DEF IInv, PagesAreSound, Known
<1>4. QED
  BY <1>1, <1>2, <1>3 DEF Coherent

\* A result of a task that is moved goes to no page the task is moved from, now
\* or before.
LEMMA NewOriginIsFresh ==
  ASSUME IInv, NEW x \in Proposed, registered = Old(x)
  PROVE  /\ NewOrigin(x) \in Pages
         /\ \A e \in Ends : NewOrigin(x) = Old(x).page[e] =>
              \E f \in Ends : NewOrigin(x) = x.new.page[f]
         /\ NewOrigin(x) \in DOMAIN retired => retired[NewOrigin(x)] # x.packet.task
<1> DEFINE follows == {e \in Ends : Old(x).page[e] = x.packet.origin}
<1>1. x \in Transition /\ x.packet \in Packet /\ x.packet.origin \in Pages
      /\ x.packet.task \in Tasks /\ Lineage(x.packet)
  BY Numbers DEF IInv, TypeOK, Coherent
<1>2. CASE follows = {}
  <2>1. NewOrigin(x) = x.packet.origin
    BY <1>2 DEF NewOrigin
  <2>2. x.packet.origin \in DOMAIN retired => retired[x.packet.origin] # x.packet.task
    BY <1>1 DEF Lineage, IInv, MoversAreRecorded, ReturnFollows
  <2>3. QED
    BY <1>1, <1>2, <2>1, <2>2
<1>3. CASE follows # {}
  <2>1. (CHOOSE e \in follows : TRUE) \in Ends
    BY <1>3
  <2>2. NewOrigin(x) = x.new.page[CHOOSE e \in follows : TRUE]
    BY <1>3 DEF NewOrigin
  <2>3. QED
    BY <2>1, <2>2, NewPagesAreFresh
<1>4. QED
  BY <1>2, <1>3

LEMMA CommitSound ==
  ASSUME IInv, NEW i \in Callers, CommitCandidate(i) PROVE IInv'
<1> DEFINE x == call[i].transition
           off == {Old(x).page[e] : e \in Ends} \ {x.new.page[e] : e \in Ends}
           t == x.packet.task
<1>1. /\ At(i, "fenced") /\ registered = Old(x)
      /\ registered' = x.new
      /\ proposals' = [proposals EXCEPT ![x].committed = TRUE]
      /\ returns' = [returns EXCEPT ![t] = NewOrigin(x)]
      /\ retired' = [p \in DOMAIN retired \cup off |-> IF p \in off THEN t ELSE retired[p]]
      /\ Unfence(i) /\ Finish(i)
      /\ UNCHANGED <<operations, pages, busy, inputs, probes>>
  BY DEF CommitCandidate
<1>2. x \in Proposed
  BY <1>1 DEF IInv, Sound, At, Completing
<1> HIDE DEF x
<1>3. /\ x \in Transition /\ t \in Tasks /\ Coherent(x) /\ x.new \in Channel
      /\ registered.gen \in Nat /\ registered'.gen = registered.gen + 1
      /\ \A e \in Ends : registered.page[e] \in Pages
  BY <1>1, <1>2, Numbers DEF IInv, TypeOK, Coherent
<1>4. off \subseteq {registered.page[e] : e \in Ends} /\ off \subseteq Pages
      /\ \A e \in Ends : x.new.page[e] \notin off
  BY <1>1, <1>3
<1>5. \A e \in Ends : x.new.page[e] \in Pages /\ x.new.page[e] <= pages
                     /\ x.new.page[e] \notin DOMAIN retired
  BY <1>1, <1>2, NewPagesAreFresh
<1>6. /\ NewOrigin(x) \in Pages /\ NewOrigin(x) \notin off /\ NewOrigin(x) # None
      /\ NewOrigin(x) \in DOMAIN retired => retired[NewOrigin(x)] # t
  BY <1>1, <1>2, NewOriginIsFresh, Numbers
<1>7. /\ DOMAIN retired' = DOMAIN retired \cup off
      /\ \A p \in off : retired'[p] = t
      /\ \A p \in DOMAIN retired \ off : retired'[p] = retired[p]
  BY <1>1
<1>8. returns'[t] = NewOrigin(x) /\ \A u \in Tasks \ {t} : returns'[u] = returns[u]
  BY <1>1, <1>3 DEF IInv, TypeOK
<1>9. /\ Proposed' = Proposed /\ proposals' \in [Proposed -> Row]
      /\ \A y \in Proposed : proposals'[y].directions = proposals[y].directions
  <2>1. proposals \in [Proposed -> Row] /\ proposals[x] \in Row
    BY <1>2 DEF IInv, TypeOK
  <2>2. proposals' = [proposals EXCEPT ![x] = proposals'[x]] /\ proposals'[x] \in Row
        /\ proposals'[x].directions = proposals[x].directions
    BY <1>1, <1>2, <2>1 DEF Row
  <2>3. QED
    BY <1>2, <2>1, <2>2 DEF Proposed
<1>10. call'[i] = Idle /\ (\A j \in Callers \ {i} : call'[j] = call[j])
       /\ call' \in [Callers -> CallRecord]
  <2>1. Idle \in CallRecord
    BY DEF Idle, CallRecord
  <2>2. QED
    BY <1>1, <2>1 DEF IInv, TypeOK, Finish
<1> HIDE DEF off, t
<1>11. TypeOK'
  <2>1. DOMAIN retired' \subseteq Pages /\ retired' \in [DOMAIN retired' -> Tasks]
    BY <1>1, <1>3, <1>4 DEF IInv, TypeOK
  <2>2. returns' \in [Tasks -> Pages \cup {None}]
    BY <1>1, <1>6 DEF IInv, TypeOK
  <2>3. fence' \in Callers \cup {None}
    BY <1>1 DEF IInv, TypeOK, Unfence
  <2>4. QED
    BY <1>1, <1>3, <1>9, <1>10, <2>1, <2>2, <2>3 DEF IInv, TypeOK
<1>12. FenceIsHeld'
  BY <1>1 DEF IInv, FenceIsHeld, Sound, At, Unfence
<1>13. \A j \in Callers : Sound(j)'
  <2>1. Sound(i)'
    BY <1>10 DEF Sound, Idle, Preparing, Completing
  <2>2. \A j \in Callers \ {i} : call[j].stage # "fenced"
    BY <1>1 DEF IInv, Sound, At
  <2>3. \A j \in Callers \ {i} : Sound(j)'
    BY <1>1, <1>9, <1>10, <2>2, SoundStays DEF IInv, Known
  <2>4. QED
    BY <2>1, <2>3
<1>14. ASSUME NEW y \in Proposed PROVE Coherent(y)'
  <2>1. Coherent(y) /\ Old(y).gen \in Nat
    BY Numbers DEF IInv, TypeOK, Old
  <2>2. Old(y).gen <= registered'.gen /\ Old(y) # registered'
    BY <1>3, <2>1 DEF Coherent
  <2>3. UNCHANGED <<operations, probes>> /\ proposals'[y].directions = proposals[y].directions
    BY <1>1, <1>9
  <2>4. \A e \in Ends : Known(<<y.packet, e>>) => Known(<<y.packet, e>>)'
    BY <2>3 DEF Known
  <2>5. QED
    BY <2>1, <2>2, <2>3, <2>4 DEF Coherent, Old, ProbeOf
<1>15. PagesAreSound'
  <2>1. \A e \in Ends : registered'.page[e] <= pages /\ registered'.page[e] \notin DOMAIN retired'
    BY <1>1, <1>4, <1>5, <1>7
  <2>2. \A p \in DOMAIN retired' : p <= pages
    BY <1>4, <1>7 DEF IInv, PagesAreSound
  <2>3. ASSUME NEW o \in DOMAIN operations, operations[o] # None,
               o[1].old.gen >= registered'.gen
        PROVE  /\ operations[o] \notin DOMAIN retired'
               /\ \A e \in Ends : operations[o] # registered'.page[e]
    <3>1. o[1].old.gen \in Nat /\ o[1].old.gen >= registered.gen /\ o[1].old.gen # registered.gen
      BY <1>3, <2>3, Numbers DEF IInv, TypeOK
    <3>2. /\ operations[o] \notin DOMAIN retired
          /\ \A e \in Ends : operations[o] # registered.page[e]
      BY <2>3, <3>1 DEF IInv, PagesAreSound
    <3>3. \A e \in Ends : Known(<<x.packet, e>>) => operations[o] # operations[<<x.packet, e>>]
      BY <1>1, <2>3, <3>1 DEF IInv, PagesAreSound, Known, Old
    <3>4. \A e \in Ends : operations[o] # x.new.page[e]
      BY <1>1, <1>3, <3>2, <3>3 DEF Coherent
    <3>5. QED
      BY <1>1, <1>4, <1>7, <3>2, <3>4
  <2>4. QED
    BY <1>1, <2>1, <2>2, <2>3 DEF IInv, PagesAreSound
<1>16. MoversAreRecorded'
  BY <1>4, <1>6, <1>7, <1>8 DEF IInv, TypeOK, MoversAreRecorded
<1>17. ReturnFollows'
  BY <1>6, <1>7, <1>8 DEF IInv, ReturnFollows
<1>18. QED
  BY <1>9, <1>11, <1>12, <1>13, <1>14, <1>15, <1>16, <1>17 DEF IInv

-----------------------------------------------------------------------------
(* Theorems                                                                *)

LEMMA NextSound == IInv /\ [Next]_vars => IInv'
<1> SUFFICES ASSUME IInv, [Next]_vars PROVE IInv'
  OBVIOUS
<1>1. CASE UNCHANGED vars
  <2>1. UNCHANGED <<journal, pages, fence, inputs, probes, call>> /\ busy' = busy
    BY <1>1 DEF vars, host
  <2>2. QED
    BY <2>1, BusinessSound
<1>2. ASSUME NEW i \in Callers,
             \/ PrepareOnSignal(i) \/ Drain(i) \/ Prove(i) \/ Propose(i)
             \/ Fence(i) \/ CommitCandidate(i) \/ Stop(i)
             \/ \E x \in Proposed : Complete(i, x)
      PROVE  IInv'
  BY <1>2, PrepareSound, DrainSound, ProveSound, ProposeSound, FenceSound, CommitSound,
     StopSound, CompleteSound
<1>3. ASSUME NEW i \in Callers, NEW e \in Ends,
             \/ CreateSuccessor(i, e) \/ VerifySuccessor(i, e)
             \/ ObserveRead(i, e) \/ Probe(i, e) \/ ObserveDirection(i, e)
      PROVE  IInv'
  BY <1>3, CreateSound, VerifySound, ReadSound, ProbeSound, DirectionSound
<1>4. CASE \E x \in Proposed, e \in Ends : SendPacket(x, e)
  BY <1>4, SendSound
<1>5. CASE Deliver(registered.gen)
  BY <1>5, DeliverSound
<1>6. CASE \E g \in busy : Settle(g)
  BY <1>6, SettleSound
<1>7. QED
  BY <1>1, <1>2, <1>3, <1>4, <1>5, <1>6 DEF Next

\* In every reachable state each page has one origin, each call has what it relies
\* on, and the fence is held by the call that is about to commit.
THEOREM HandoverInvariant == Spec => []IInv
BY InitSound, NextSound, PTL DEF Spec

\* A result never goes back to a page its own task was moved from (propose,
\* commit_candidate).
THEOREM ResultsFollow == Spec => []ReturnFollows
<1>1. IInv => ReturnFollows
  BY DEF IInv
<1>2. QED
  BY <1>1, HandoverInvariant, PTL

\* Only a commit replaces the registered channel.
LEMMA OnlyCommits ==
  ASSUME IInv, Next, registered' # registered
  PROVE  \E i \in Callers : CommitCandidate(i)
BY DEF Next, PrepareOnSignal, Drain, Prove, Propose, Fence, Stop, Complete, CreateSuccessor,
       VerifySuccessor, ObserveRead, Probe, ObserveDirection, SendPacket, Deliver, Settle, journal

\* No channel is replaced with a delivery open on it, or before both new ends have
\* read and answered (complete_candidate, commit_candidate).
THEOREM CutoversAreDrained == Spec => CutoverIsDrained
<1>1. ASSUME IInv, [Next]_vars, registered' # registered
      PROVE  \E x \in Committed' \ Committed :
         /\ registered' = x.new /\ registered = Old(x)
         /\ Drained(registered) /\ Confirmed
         /\ \A e \in Ends : <<x, x.new.page[e]>> \in inputs /\ ProbeOf(x, e) \in probes
  <2>1. PICK i \in Callers : CommitCandidate(i)
    BY <1>1, OnlyCommits DEF vars, journal
  <2> DEFINE x == call[i].transition
  <2>2. /\ At(i, "fenced") /\ x \notin Committed /\ Confirmed
        /\ registered = Old(x) /\ registered' = x.new /\ call[i].drained
        /\ proposals[x].reads = {x.new.page[e] : e \in Ends}
        /\ proposals[x].directions = proposals[x].reads
        /\ proposals' = [proposals EXCEPT ![x].committed = TRUE]
    BY <2>1 DEF CommitCandidate
  <2>3. /\ x \in Proposed /\ Drained(Old(x))
        /\ \A e \in Ends : <<x, x.new.page[e]>> \in inputs
    BY <1>1, <2>2 DEF IInv, Sound, At, Completing
  <2>4. \A e \in Ends : ProbeOf(x, e) \in probes
    BY <1>1, <2>2, <2>3 DEF IInv, Coherent
  <2>5. x \in Committed'
    <3>1. proposals \in [Proposed -> Row] /\ proposals[x] \in Row
      BY <1>1, <2>3 DEF IInv, TypeOK
    <3>2. x \in Proposed' /\ proposals'[x].committed
      BY <2>2, <2>3, <3>1 DEF Row, Proposed
    <3>3. QED
      BY <3>2 DEF Committed
  <2>6. QED
    BY <2>2, <2>3, <2>4, <2>5
<1>2. IInv /\ [Next]_vars => [registered' # registered =>
       \E x \in Committed' \ Committed :
         /\ registered' = x.new /\ registered = Old(x)
         /\ Drained(registered) /\ Confirmed
         /\ \A e \in Ends : <<x, x.new.page[e]>> \in inputs /\ ProbeOf(x, e) \in probes]_vars
  BY <1>1
<1>3. QED
  BY <1>2, HandoverInvariant, PTL DEF Spec, CutoverIsDrained
=============================================================================
