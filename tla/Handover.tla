------------------------------ MODULE Handover ------------------------------
(***************************************************************************)
(* Replacing pages of a project channel (OnlineContinuity).                *)
(*                                                                         *)
(* A host that sees a page run full prepares a successor, has both new     *)
(* ends read the packet, probes both directions and registers the new      *)
(* channel, while the business on the old one goes on.  Each section under *)
(* the journal lock is a step, each message is a step, and between any two *)
(* of them another process may act or this one may stop.  Only the fence   *)
(* of the host keeps business away, and only for the last step.            *)
(*                                                                         *)
(* The channel is one without a business coordinator; Adoption has the     *)
(* other case.  Pages are numbered in the order they come up; page 0 is    *)
(* one outside of the channel.                                             *)
(***************************************************************************)
EXTENDS Naturals

CONSTANTS
  Callers,    \* foreground processes of the host
  Tasks,      \* task ids
  Origin,     \* original_origin of a task: page 0, 1 or 2
  MaxGen,     \* bound: generations of the channel
  MaxPages,   \* bound: pages
  None        \* no value

ASSUME HandoverAssumption ==
  /\ Origin \in [Tasks -> 0..2] /\ MaxGen \in Nat \ {0} /\ MaxPages \in Nat \ {0, 1}
  /\ None \notin Callers \cup Nat

Ends == {"executor", "reviewer"}
Peer(e) == IF e = "executor" THEN "reviewer" ELSE "executor"
Pages == 0..MaxPages
Channel == [gen : 1..MaxGen, page : [Ends -> Pages]]

VARIABLES
  registered,   \* the registered channel
  proposals,    \* transition -> what was recorded of it
  operations,   \* <<packet, end>> -> page of the successor, None while it is only intended
  returns,      \* task -> effective return address of a task that was moved
  retired,      \* history: page -> task whose transition took it off the channel
  pages,        \* number of the last page
  busy,         \* generations with an unsettled business delivery
  fence,        \* caller that holds business off its old channel
  inputs,       \* <<transition, page>>: the packet was observed as an input
  probes,       \* <<transition, source, target>>: a probe was ACKED
  call          \* per caller, the local state of its call

journal == <<registered, proposals, operations, returns, retired>>
host == <<pages, busy, fence, inputs, probes>>
vars == <<journal, host, call>>

\* A packet is of one task, leaves one channel and says where the task's result
\* goes now; a transition is its packet and its new channel.
Packet == [task : Tasks, old : Channel, origin : Pages]
Idle == [stage |-> "idle", packet |-> None, affected |-> {}, transition |-> None,
         drained |-> FALSE]
Proposed == DOMAIN proposals
Committed == {x \in Proposed : proposals[x].committed}
Old(x) == x.packet.old

At(i, stage) == call[i].stage = stage
Goto(i, stage) == call' = [call EXCEPT ![i].stage = stage]
Finish(i) == call' = [call EXCEPT ![i] = Idle]

-----------------------------------------------------------------------------
(* prepare_on_signal                                                       *)

Signals == {"UNKNOWN", "OWNER_HANDOFF", "CONTEXT_LIMIT", "USAGE_LOW", "USAGE_HIGH"}

\* Without a real capacity nothing is guessed.
continuation_action(signal, compact) ==
  CASE signal = "UNKNOWN" -> "SAVE_CHECKPOINT_CONTEXT_UNKNOWN"
    [] signal = "OWNER_HANDOFF" -> "PREPARE_SUCCESSOR"
    [] signal = "USAGE_LOW" -> "CONTINUE_CURRENT"
    [] OTHER -> IF compact THEN "COMPACT_THEN_VERIFY" ELSE "PREPARE_SUCCESSOR"

\* The ends that need a successor, unless one of them compacts first.
Affected(signals, compact) ==
  LET action == [e \in DOMAIN signals |-> continuation_action(signals[e], compact)]
  IN IF \E e \in DOMAIN signals : action[e] = "COMPACT_THEN_VERIFY" THEN {}
     ELSE {e \in DOMAIN signals : action[e] = "PREPARE_SUCCESSOR"}

Reactions ==
  UNION {{Affected(signals, compact) : signals \in [ends -> Signals], compact \in BOOLEAN}
         : ends \in (SUBSET Ends) \ {{}}}

\* A checkpoint of the packet is saved in any case, as an operation that is done
\* and that nothing else reads; a packet that was cut over is answered from the
\* record.  Both leave what is modelled as it is, as does an empty reaction.
PrepareOnSignal(i) ==
  /\ At(i, "idle") /\ registered.gen < MaxGen
  /\ \E t \in Tasks, affected \in Reactions \ {{}} :
       \E origin \in {Origin[t]} \cup ({returns[t]} \ {None}) :
         call' = [call EXCEPT ![i] =
           [Idle EXCEPT !.stage = "prepared", !.affected = affected,
                        !.packet = [task |-> t, old |-> registered, origin |-> origin]]]
  /\ UNCHANGED <<journal, host>>

Confirmed == \A o \in DOMAIN operations : operations[o] # None
Drained(channel) == channel.gen \notin busy

\* No page is made while a delivery of the old channel is open.
Drain(i) ==
  /\ At(i, "prepared")
  /\ Drained(call[i].packet.old) /\ Confirmed
  /\ Goto(i, "drained")
  /\ UNCHANGED <<journal, host>>

Successor(i, e) == <<call[i].packet, e>>
Missing(i) == {e \in call[i].affected : Successor(i, e) \notin DOMAIN operations}
Operate(o, value) ==
  operations' = [p \in DOMAIN operations \cup {o} |-> IF p = o THEN value ELSE operations[p]]

\* create_successor: the intent is saved before the host makes the page, for the
\* executor first.
CreateSuccessor(i, e) ==
  /\ At(i, "drained")
  /\ e \in Missing(i) /\ (e = "reviewer" => "executor" \notin Missing(i))
  /\ Operate(Successor(i, e), None)
  /\ UNCHANGED <<registered, proposals, returns, retired, host, call>>

\* The page is there and verified; a caller that meets the intent of another one
\* verifies it as well.
VerifySuccessor(i, e) ==
  /\ At(i, "drained") /\ e \in call[i].affected
  /\ Successor(i, e) \in DOMAIN operations /\ operations[Successor(i, e)] = None
  /\ pages < MaxPages
  /\ pages' = pages + 1
  /\ Operate(Successor(i, e), pages')
  /\ UNCHANGED <<registered, proposals, returns, retired, busy, fence, inputs, probes, call>>

\* The drain proof that goes with the proposal is taken before its section.
Prove(i) ==
  /\ At(i, "drained") /\ Missing(i) = {}
  /\ \A e \in call[i].affected : operations[Successor(i, e)] # None
  /\ Drained(call[i].packet.old)
  /\ Goto(i, "proved")
  /\ UNCHANGED <<journal, host>>

\* Seeded fault: a task that was moved before is taken to be where it began.
LineageOfOrigin(packet) == packet.origin = Origin[packet.task]

\* The return address of a task that was moved is the one recorded.
Lineage(packet) ==
  LET t == packet.task
  IN IF returns[t] = None THEN packet.origin = Origin[t] ELSE packet.origin = returns[t]

NewChannel(i) ==
  LET old == call[i].packet.old
  IN [gen |-> old.gen + 1,
      page |-> [e \in Ends |-> IF e \in call[i].affected THEN operations[Successor(i, e)]
                               ELSE old.page[e]]]

\* A result that went to a page of the channel goes to its successor.
NewOrigin(x) ==
  LET follows == {e \in Ends : Old(x).page[e] = x.packet.origin}
  IN IF follows = {} THEN x.packet.origin ELSE x.new.page[CHOOSE e \in follows : TRUE]

\* One transition of a channel at a time.
Propose(i) ==
  LET x == [packet |-> call[i].packet, new |-> NewChannel(i)]
  IN /\ At(i, "proved")
     /\ Confirmed /\ registered = Old(x) /\ Lineage(x.packet)
     /\ x \notin Proposed =>
          \A y \in Proposed : Old(y) = Old(x) => y \in Committed
     /\ proposals' = [y \in Proposed \cup {x} |->
          IF y \in Proposed THEN proposals[y]
          ELSE [reads |-> {}, directions |-> {}, committed |-> FALSE]]
     /\ Finish(i)
     /\ UNCHANGED <<registered, operations, returns, retired, host>>

-----------------------------------------------------------------------------
(* send_checkpoint                                                         *)

\* Both ends of the new channel are sent the packet, one after the other, also
\* one that stays.
SendPacket(x, e) ==
  /\ <<x, x.new.page[e]>> \notin inputs
  /\ e = "reviewer" => <<x, x.new.page["executor"]>> \in inputs
  /\ inputs' = inputs \cup {<<x, x.new.page[e]>>}
  /\ UNCHANGED <<journal, pages, busy, fence, probes, call>>

-----------------------------------------------------------------------------
(* complete_candidate                                                      *)

\* The caller brings the reads of all ends, and a model can only have read what was
\* its input; a transition that is committed is answered from the record.
Complete(i, x) ==
  /\ At(i, "idle") /\ x \notin Committed
  /\ \A e \in Ends : <<x, x.new.page[e]>> \in inputs
  /\ call' = [call EXCEPT ![i] = [Idle EXCEPT !.stage = "reading", !.transition = x]]
  /\ UNCHANGED <<journal, host>>

ObserveRead(i, e) ==
  LET x == call[i].transition
  IN /\ At(i, "reading") /\ x \notin Committed
     /\ proposals' = [proposals EXCEPT ![x].reads = @ \cup {x.new.page[e]}]
     /\ IF proposals'[x].reads = {x.new.page[f] : f \in Ends} THEN Goto(i, "probing")
        ELSE UNCHANGED call
     /\ UNCHANGED <<registered, operations, returns, retired, host>>

ProbeOf(x, e) == <<x, x.new.page[e], x.new.page[Peer(e)]>>

\* A probe goes from one new end to the other and has to be ACKED.
Probe(i, e) ==
  LET x == call[i].transition
  IN /\ At(i, "probing") /\ ProbeOf(x, e) \notin probes
     /\ e = "reviewer" => x.new.page["executor"] \in proposals[x].directions
     /\ probes' = probes \cup {ProbeOf(x, e)}
     /\ UNCHANGED <<journal, pages, busy, fence, inputs, call>>

ObserveDirection(i, e) ==
  LET x == call[i].transition
  IN /\ At(i, "probing") /\ x \notin Committed
     /\ ProbeOf(x, e) \in probes
     /\ proposals' = [proposals EXCEPT ![x].directions = @ \cup {x.new.page[e]}]
     /\ IF e = "reviewer" THEN Goto(i, "probed") ELSE UNCHANGED call
     /\ UNCHANGED <<registered, operations, returns, retired, host>>

\* Seeded fault: the last proof of drained deliveries is taken without a fence.
FenceNot(i) ==
  /\ At(i, "probed") /\ fence = None
  /\ call' = [call EXCEPT ![i].stage = "fenced", ![i].drained = Drained(Old(call[i].transition))]
  /\ UNCHANGED <<journal, host>>

\* fenced: the host holds business off the old channel and looks at it.
Fence(i) ==
  /\ At(i, "probed") /\ fence = None
  /\ fence' = i
  /\ call' = [call EXCEPT ![i].stage = "fenced", ![i].drained = Drained(Old(call[i].transition))]
  /\ UNCHANGED <<journal, pages, busy, inputs, probes>>

Unfence(i) == fence' = IF fence = i THEN None ELSE fence

\* commit_candidate: compare and swap of the channel with its return addresses.
CommitCandidate(i) ==
  LET x == call[i].transition
      row == proposals[x]
  IN /\ At(i, "fenced") /\ x \notin Committed
     /\ Confirmed /\ registered = Old(x) /\ call[i].drained
     /\ row.reads = {x.new.page[e] : e \in Ends} /\ row.directions = row.reads
     /\ registered' = x.new
     /\ proposals' = [proposals EXCEPT ![x].committed = TRUE]
     /\ returns' = [returns EXCEPT ![x.packet.task] = NewOrigin(x)]
     /\ LET off == {Old(x).page[e] : e \in Ends} \ {x.new.page[e] : e \in Ends}
        IN retired' = [p \in DOMAIN retired \cup off |->
                         IF p \in off THEN x.packet.task ELSE retired[p]]
     /\ Unfence(i) /\ Finish(i)
     /\ UNCHANGED <<operations, pages, busy, inputs, probes>>

\* A call is refused or has its answer, or its process dies; a fence ends with it.
Stop(i) ==
  /\ ~At(i, "idle")
  /\ Unfence(i) /\ Finish(i)
  /\ UNCHANGED <<journal, pages, busy, inputs, probes>>

-----------------------------------------------------------------------------
\* Business starts on the registered channel and may end on a later one.
Deliver(g) ==
  /\ g \notin busy
  /\ fence # None => g # Old(call[fence].transition).gen
  /\ busy' = busy \cup {g}
  /\ UNCHANGED <<journal, pages, fence, inputs, probes, call>>

Settle(g) ==
  /\ g \in busy
  /\ busy' = busy \ {g}
  /\ UNCHANGED <<journal, pages, fence, inputs, probes, call>>

Init ==
  /\ registered = [gen |-> 1, page |-> [e \in Ends |-> IF e = "executor" THEN 1 ELSE 2]]
  /\ proposals = [x \in {} |-> None] /\ operations = [o \in {} |-> None]
  /\ returns = [t \in Tasks |-> None] /\ retired = [p \in {} |-> None]
  /\ pages = 2 /\ busy = {} /\ fence = None /\ inputs = {} /\ probes = {}
  /\ call = [i \in Callers |-> Idle]

Next ==
  \/ \E i \in Callers :
       \/ PrepareOnSignal(i) \/ Drain(i) \/ Prove(i) \/ Propose(i)
       \/ Fence(i) \/ CommitCandidate(i) \/ Stop(i)
       \/ \E x \in Proposed : Complete(i, x)
       \/ \E e \in Ends :
            \/ CreateSuccessor(i, e) \/ VerifySuccessor(i, e)
            \/ ObserveRead(i, e) \/ Probe(i, e) \/ ObserveDirection(i, e)
  \/ \E x \in Proposed, e \in Ends : SendPacket(x, e)
  \/ Deliver(registered.gen)
  \/ \E g \in busy : Settle(g)

Spec == Init /\ [][Next]_vars

-----------------------------------------------------------------------------
(* Properties                                                              *)

\* When a channel is replaced, no delivery of the old one is open, though any
\* process may have started one since the drain was first proved; both new ends
\* have got the packet, the ends have answered each other in both directions,
\* and no operation on the project is half done, whoever of the callers did what
\* (complete_candidate, commit_candidate).
CutoverIsDrained ==
  [][registered' # registered =>
       \E x \in Committed' \ Committed :
         /\ registered' = x.new /\ registered = Old(x)
         /\ Drained(registered) /\ Confirmed
         /\ \A e \in Ends : <<x, x.new.page[e]>> \in inputs /\ ProbeOf(x, e) \in probes]_vars

\* The result of a task goes to no page that a handover of the same task took
\* off the channel, however often the task was moved (propose: RETURN_LINEAGE_CONFLICT,
\* RETURN_ADDRESS_STILL_POINTS_AT_RETIRED_ENDPOINT).
ReturnFollows ==
  \A t \in Tasks : returns[t] \in DOMAIN retired => retired[returns[t]] # t
=============================================================================
