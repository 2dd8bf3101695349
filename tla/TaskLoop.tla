------------------------------ MODULE TaskLoop ------------------------------
(***************************************************************************)
(* The business loop of one task on one route: goal to the executor,       *)
(* artifact, review, result back to the chat the task came from            *)
(* (TaskCoordinator).  Every message of the task goes through one delivery *)
(* root, which remembers one connection (module Delivery models a root in  *)
(* detail; here a delivery is intent, input, acknowledgement).             *)
(*                                                                         *)
(* The business lock is held by a call from its first look at the task to  *)
(* its end.  Catalogue readings and busy hosts are reasons to fail, which  *)
(* any step of a send may meet.                                            *)
(***************************************************************************)
EXTENDS Naturals

CONSTANTS
  Callers,   \* foreground processes
  Ids,       \* message ids a caller may choose
  Goal,      \* the message id of the goal, made from the route
  Texts,     \* payloads of reviews and results
  Request,   \* the payload of the goal, fixed by the route
  Versions,  \* artifact versions
  Origins,   \* chats the task may come from: executor, reviewer or a third one
  None       \* no value

ASSUME TaskLoopAssumption ==
  /\ Origins \subseteq {"executor", "reviewer", "third"}
  /\ Goal \notin Ids /\ Request \notin Texts
  /\ None \notin Callers \cup Ids \cup Texts \cup Versions

VARIABLES
  origin,    \* the chat the task came from
  entry,     \* business store: the task
  conn,      \* delivery roots: the connection a journal belongs to
  journal,   \* delivery roots: message id -> event and whether it is ACKED
  received,  \* inputs of the chats, as sent for this task
  lock,      \* who holds flock(task.lock)
  call       \* per caller, its send

store == <<origin, entry>>
roots == <<conn, journal>>
vars == <<origin, entry, conn, journal, received, lock, call>>

-----------------------------------------------------------------------------
(* Routes and connections                                                  *)

Chats == {"executor", "reviewer", "third"}
Kinds == {"goal", "review", "return"}
AllIds == Ids \cup {Goal}

\* Route: the two chats a kind of message runs between; goal and result run
\* between origin and executor, and not at all if the executor is the origin.
Binding(kind) ==
  IF kind = "review" THEN <<"executor", "reviewer">>
  ELSE IF origin = "executor" THEN None ELSE <<origin, "executor">>
Target(kind) == CASE kind = "goal" -> "executor"
                  [] kind = "review" -> "reviewer"
                  [] kind = "return" -> origin

\* connection_identity sorts the two endpoints.
Connection(b) == {b[1], b[2]}

\* Seeded fault: one delivery root per connection of the task.
KeyPerConnection(b) == Connection(b)

\* A delivery root is named by the route of the task.
Key(b) == {"executor", "reviewer", origin}
Keys == (SUBSET Chats) \ {{}}

\* Seeded fault: the event leaves out the binding.
EventOfText(kind, text) == [binding |-> None, target |-> Target(kind), text |-> text]

\* event_digest.
Event(kind, text) == [binding |-> Binding(kind), target |-> Target(kind), text |-> text]

Statuses == {"PLANNED", "GOAL_INPUT_OBSERVED", "REVIEW_PENDING", "REVIEW_ACCEPTED",
             "REWORK_REQUIRED", "RETURN_PREPARED", "RETURN_INPUT_OBSERVED"}
Entry == [status : Statuses, artifact : Versions \cup {None},
          review : [version : Versions, pass : BOOLEAN] \cup {None},
          id : Ids \cup {None}, text : Texts \cup {None}]
Planned == [status |-> "PLANNED", artifact |-> None, review |-> None, id |-> None, text |-> None]

\* What a delivery root keeps of a message, and what a chat takes in.
Receipt == [event : [binding : (Chats \X Chats) \cup {None}, target : Chats, text : Texts \cup {Request}],
            settled : BOOLEAN]
Input == [kind : Kinds, id : AllIds, text : Texts \cup {Request}, chat : Chats,
          version : Versions \cup {None}, again : BOOLEAN]

ASSUME NoneIsNoRecord == None \notin Entry \cup Receipt \cup (Chats \X Chats)

Call == [stage : {"idle", "begin", "open", "submitted", "acked"},
         kind : Kinds, id : AllIds, text : Texts \cup {Request}]
Idle == [stage |-> "idle", kind |-> "goal", id |-> Goal, text |-> Request]

Put(new) == entry' = new

-----------------------------------------------------------------------------
(* The task                                                                *)

Prepare ==
  /\ lock = None /\ entry = None
  /\ Put(Planned)
  /\ UNCHANGED <<origin, roots, received, lock, call>>

\* Seeded fault: the artifact may change after its review.
SetArtifactAnyTime(v) ==
  /\ lock = None /\ entry # None
  /\ entry.artifact # v
  /\ Put([entry EXCEPT !.artifact = v, !.review = None, !.status = "REVIEW_PENDING"])
  /\ UNCHANGED <<origin, roots, received, lock, call>>

\* set_artifact: a version is fixed until the reviewer asks for rework.
SetArtifact(v) ==
  /\ lock = None /\ entry # None
  /\ entry.status \in {"PLANNED", "GOAL_INPUT_OBSERVED", "REWORK_REQUIRED"}
  /\ entry.artifact # v
  /\ Put([entry EXCEPT !.artifact = v, !.review = None, !.status = "REVIEW_PENDING"])
  /\ UNCHANGED <<origin, roots, received, lock, call>>

\* Seeded fault: a review is taken in any state of the task.
ObserveReviewAnyTime(pass) ==
  /\ lock = None /\ entry # None
  /\ Put([entry EXCEPT !.review = [version |-> entry.artifact, pass |-> pass],
                       !.status = IF pass THEN "REVIEW_ACCEPTED" ELSE "REWORK_REQUIRED"])
  /\ UNCHANGED <<origin, roots, received, lock, call>>

\* A decision of the reviewer about the current artifact.
ObserveReview(pass) ==
  /\ lock = None /\ entry # None
  /\ entry.status = "REVIEW_PENDING"
  /\ Put([entry EXCEPT !.review = [version |-> entry.artifact, pass |-> pass],
                       !.status = IF pass THEN "REVIEW_ACCEPTED" ELSE "REWORK_REQUIRED"])
  /\ UNCHANGED <<origin, roots, received, lock, call>>

-----------------------------------------------------------------------------
(* Sending                                                                 *)

Take(i, kind, id, text) ==
  /\ lock = None /\ call[i].stage = "idle" /\ entry # None
  /\ lock' = i
  /\ call' = [call EXCEPT ![i] = [stage |-> "begin", kind |-> kind, id |-> id, text |-> text]]

\* dispatch_goal: the bytes of the goal are fixed by the route.
DispatchGoal(i) ==
  /\ Binding("goal") # None
  /\ Take(i, "goal", Goal, Request)
  /\ UNCHANGED <<store, roots, received>>

\* The guarded connection to the reviewer; its message id is the caller's.
SendForReview(i, id, text) ==
  /\ Take(i, "review", id, text)
  /\ UNCHANGED <<store, roots, received>>

\* Seeded fault: the id is chosen anew by every call of return_result.
MayReturnAs(id, text) == TRUE

\* The id and the text of the result are fixed by the first call.
MayReturn(id, text) == entry.id = None \/ (entry.id = id /\ entry.text = text)

\* return_result: the id is saved before the host is called.
ReturnResult(i, v, id, text) ==
  /\ lock = None /\ entry # None /\ call[i].stage = "idle"
  /\ entry.status \in {"REVIEW_ACCEPTED", "RETURN_PREPARED", "RETURN_INPUT_OBSERVED"}
  /\ entry.artifact = v /\ MayReturn(id, text)
  /\ Put([entry EXCEPT !.id = id, !.text = text,
                       !.status = IF entry.id = None THEN "RETURN_PREPARED" ELSE @])
  /\ IF Binding("return") = None THEN UNCHANGED <<lock, call>>
     ELSE Take(i, "return", id, text)
  /\ UNCHANGED <<origin, roots, received>>

Unsettled(k, m) == journal[k][m] # None /\ ~journal[k][m].settled

\* deliver: the root is empty or belongs to this connection; a known event is
\* answered from its receipt, a new one is sealed while nothing is open.
Begin(i) ==
  LET c == call[i]  b == Binding(c.kind)  k == Key(b)
      mine == [event |-> Event(c.kind, c.text), settled |-> FALSE]
      old == journal[k][c.id]
  IN  /\ c.stage = "begin"
      /\ conn[k] \in {None, Connection(b)}
      /\ \/ /\ old = None /\ \A m \in AllIds : ~Unsettled(k, m)
            /\ conn' = [conn EXCEPT ![k] = Connection(b)]
            /\ journal' = [journal EXCEPT ![k][c.id] = mine]
            /\ call' = [call EXCEPT ![i].stage = "open"]
         \/ /\ old # None /\ old.event = mine.event /\ old.settled
            /\ call' = [call EXCEPT ![i].stage = "acked"]
            /\ UNCHANGED roots
      /\ UNCHANGED <<store, received, lock>>

\* The peer chat takes the input, whatever the caller gets to know of it.
Submit(i) ==
  LET c == call[i]
      input == [kind |-> c.kind, id |-> c.id, text |-> c.text, chat |-> Target(c.kind),
                version |-> IF c.kind = "return" THEN entry.artifact ELSE None,
                again |-> \E r \in received : r.id = c.id]
  IN  /\ c.stage = "open"
      /\ received' = received \cup {input}
      /\ call' = [call EXCEPT ![i].stage = "submitted"]
      /\ UNCHANGED <<store, roots, lock>>

Settle(k, id) == journal' = [journal EXCEPT ![k][id].settled = TRUE]

\* The input was observed.
Acknowledge(i) ==
  /\ call[i].stage = "submitted"
  /\ Settle(Key(Binding(call[i].kind)), call[i].id)
  /\ call' = [call EXCEPT ![i].stage = "acked"]
  /\ UNCHANGED <<store, conn, received, lock>>

Release(i) == lock' = None /\ call' = [call EXCEPT ![i] = Idle]

\* The task moves on after the send.
Conclude(i) ==
  LET c == call[i]
      s == CASE c.kind = "goal" /\ entry.status = "PLANNED" -> "GOAL_INPUT_OBSERVED"
             [] c.kind = "return" -> "RETURN_INPUT_OBSERVED"
             [] OTHER -> entry.status
  IN  /\ c.stage = "acked"
      /\ Put([entry EXCEPT !.status = s])
      /\ Release(i)
      /\ UNCHANGED <<origin, roots, received>>

\* A refusal, a lost answer or the death of the process.
Fail(i) ==
  /\ call[i].stage # "idle"
  /\ Release(i)
  /\ UNCHANGED <<store, roots, received>>

\* reconcile_observation: late evidence of the input, while no call is in the
\* root.
Reconcile(k, id) ==
  /\ \A i \in Callers : call[i].stage \in {"idle", "begin"}
  /\ journal[k][id] # None
  /\ \E r \in received : r.id = id
  /\ Settle(k, id)
  /\ UNCHANGED <<store, conn, received, lock, call>>

Init ==
  /\ origin \in Origins /\ entry = None
  /\ conn = [k \in Keys |-> None]
  /\ journal = [k \in Keys |-> [m \in AllIds |-> None]]
  /\ received = {} /\ lock = None
  /\ call = [i \in Callers |-> Idle]

Next ==
  \/ Prepare
  \/ \E v \in Versions : SetArtifact(v)
  \/ \E pass \in BOOLEAN : ObserveReview(pass)
  \/ \E i \in Callers, x \in Texts :
       \/ \E m \in AllIds : SendForReview(i, m, x)
       \/ \E v \in Versions, m \in Ids : ReturnResult(i, v, m, x)
  \/ \E i \in Callers : DispatchGoal(i) \/ Begin(i) \/ Submit(i) \/ Acknowledge(i) \/ Conclude(i) \/ Fail(i)
  \/ \E k \in Keys, m \in AllIds : Reconcile(k, m)

Spec == Init /\ [][Next]_vars
-----------------------------------------------------------------------------
(* Properties                                                              *)

\* Shapes of the task, the delivery roots, the inputs and the calls.
TypeOK ==
  /\ origin \in Origins
  /\ entry \in Entry \cup {None}
  /\ conn \in [Keys -> {None} \cup Keys]
  /\ journal \in [Keys -> [AllIds -> Receipt \cup {None}]]
  /\ received \subseteq Input
  /\ lock \in Callers \cup {None}
  /\ call \in [Callers -> Call]

\* The chat the task came from gets one result, however often return_result is
\* called, interrupted and called again.
OneResult ==
  \A r, s \in received : r.kind = "return" /\ s.kind = "return" => r = s /\ ~r.again

\* What it gets is the result of the version the reviewer accepted, and the
\* task keeps that version and that review.
ResultWasAccepted ==
  \A r \in received : r.kind = "return" =>
    entry.artifact = r.version /\ entry.review = [version |-> r.version, pass |-> TRUE]

\* A result counts as returned only if the chat of origin took it as the
\* result: the receipt of another message with its id and text does not do.
ReturnedIsReceived ==
  entry # None /\ entry.status = "RETURN_INPUT_OBSERVED" =>
    \E r \in received : r.kind = "return" /\ r.id = entry.id /\ r.text = entry.text

\* While the fate of one message of the task is unknown, no other one is sent,
\* on whatever connection (comment at coordinator.py:96).
OneOpenDelivery ==
  \A k, l \in Keys : \A m, n \in AllIds :
    Unsettled(k, m) /\ Unsettled(l, n) => k = l /\ m = n

\* The result of an accepted task can go back to the chat it came from: the
\* delivery root does not belong to a connection that lacks that chat.
ResultHasAWay ==
  entry # None /\ origin # "executor" /\ entry.status \in {"REVIEW_ACCEPTED", "RETURN_PREPARED"} =>
    LET b == Binding("return") IN conn[Key(b)] \in {None, Connection(b)}
=============================================================================
