---------------------------- MODULE Continuation ----------------------------
(***************************************************************************)
(* Waking the AI of a chat once a message for it has been received: the    *)
(* queue of continuation events kept in the delivery journal, and the      *)
(* drivers (one per host session) that spend them.                         *)
(*                                                                         *)
(* An event is dispatched with a one-time token that only the driver which *)
(* prepared it ever holds.  A driver awaits the store and the host between *)
(* its steps, so several dispatches, a stop and a restart interleave.      *)
(* Every store call is one step: it runs under relay.lock.  A store call   *)
(* refused (busy lock, another state) changes nothing in the store.        *)
(***************************************************************************)
EXTENDS Naturals

CONSTANTS
  Drivers,   \* host sessions with a continuation driver
  Messages,  \* messages of the delivery root
  Turns,     \* native ids of model turns
  Nil       \* no value

ASSUME ContinuationAssumption == Nil \notin Drivers \cup Turns

VARIABLES
  acked,    \* messages the journal holds as ACKED
  event,    \* per message, its continuation event in the journal
  expired,  \* messages whose token is past its 120 s
  active,   \* drivers that were not stopped
  flow,     \* per driver and message, where its dispatch stands
  token,    \* per driver, the messages whose token it holds
  sighted,  \* per driver and message, the turn it is about to confirm
  wakes,    \* per message, the wake requests made to the host
  agreed,   \* messages for which the host answered a wake request with true
  ran       \* <<message, turn>>: model turns that consumed the message

queueVars == <<acked, event, expired, active, flow, token, sighted, wakes, agreed, ran>>

Prepared == {"DISPATCH_PREPARED", "DISPATCH_ACCEPTED", "DELIVERY_UNKNOWN"}
States == Prepared \cup {"ABSENT", "PENDING", "CONSUMED"}
Event == [state : States, holder : Drivers \cup {Nil}, turn : Turns \cup {Nil}]
Stages == {"new", "preparing", "prepared", "waking", "accepted", "refused", "done"}

NoEvent == [state |-> "ABSENT", holder |-> Nil, turn |-> Nil]

store == <<acked, event, expired>>
host == <<wakes, agreed, ran>>
-----------------------------------------------------------------------------
(* The journal: Continuations                                              *)

\* enqueue: only for a received message, and only once.
Enqueue(m) ==
  /\ m \in acked /\ event[m].state = "ABSENT"
  /\ event' = [event EXCEPT ![m].state = "PENDING"]
  /\ UNCHANGED <<acked, expired, active, flow, token, sighted, host>>

\* Seeded fault: an event that was prepared but has no outcome is prepared again.
MayPrepareAgain(m) == event[m].state \in {"PENDING", "DISPATCH_PREPARED"}
MayPrepare(m) == event[m].state = "PENDING"

\* Seeded faults: a later acceptance clears an unknown outcome; a refusal gets a
\* state of its own; the outcome of a dispatch is written over a consumption.
OutcomeOfLast(s, accepted) ==
  IF s \in Prepared THEN IF accepted THEN "DISPATCH_ACCEPTED" ELSE "DELIVERY_UNKNOWN"
  ELSE s
OutcomeUnnamed(s, accepted) ==
  IF s \in Prepared THEN IF accepted THEN "DISPATCH_ACCEPTED" ELSE "DISPATCH_REFUSED"
  ELSE s
OutcomeAfterTurn(s, accepted) ==
  IF s = "DELIVERY_UNKNOWN" THEN s
  ELSE IF accepted THEN "DISPATCH_ACCEPTED" ELSE "DELIVERY_UNKNOWN"

\* What finish leaves in the event: a consumed or unknown one stays as it is.
Outcome(s, accepted) ==
  IF s \in Prepared \ {"DELIVERY_UNKNOWN"}
  THEN IF accepted THEN "DISPATCH_ACCEPTED" ELSE "DELIVERY_UNKNOWN"
  ELSE s

\* consume: the token of the event, not yet expired; a first consumption.
MayConsume(d, m) ==
  /\ event[m].holder = d /\ m \in token[d]
  /\ m \notin expired /\ event[m].state \in Prepared

-----------------------------------------------------------------------------
(* The driver                                                              *)

Set(d, m, stage) == flow' = [flow EXCEPT ![d][m] = stage]

\* dispatch: refused when stopped or attempted before.
Dispatch(d, m) ==
  /\ d \in active /\ flow[d][m] = "new"
  /\ Set(d, m, "preparing")
  /\ UNCHANGED <<store, active, token, sighted, host>>

\* host.prepare took effect in the journal; the driver receives the envelope
\* with the token, or the answer is lost and the token with it.
Prepare(d, m) ==
  /\ flow[d][m] = "preparing" /\ m \in acked /\ MayPrepare(m)
  /\ event' = [event EXCEPT ![m] =
                  [state |-> "DISPATCH_PREPARED", holder |-> d, turn |-> Nil]]
  /\ \/ Set(d, m, "prepared") /\ token' = [token EXCEPT ![d] = @ \cup {m}]
     \/ Set(d, m, "done") /\ token' = token
  /\ UNCHANGED <<acked, expired, active, sighted, host>>

\* It was refused, or the envelope is not the one asked for.
PrepareFails(d, m) ==
  /\ flow[d][m] = "preparing"
  /\ Set(d, m, "done")
  /\ UNCHANGED <<store, active, token, sighted, host>>

\* The driver was stopped meanwhile: no wake request, the outcome is reported
\* as not accepted.
Skip(d, m) ==
  /\ flow[d][m] = "prepared" /\ d \notin active
  /\ Set(d, m, "refused")
  /\ UNCHANGED <<store, active, token, sighted, host>>

\* requestContinuation: the host is asked to wake the model.
Wake(d, m) ==
  /\ flow[d][m] = "prepared" /\ d \in active
  /\ wakes' = [wakes EXCEPT ![m] = @ + 1]
  /\ Set(d, m, "waking")
  /\ UNCHANGED <<store, active, token, sighted, agreed, ran>>

\* Seeded fault: an answer that never came counts as acceptance.
AnswerOptimistic(d, m) ==
  /\ flow[d][m] = "waking"
  /\ Set(d, m, "accepted")
  /\ UNCHANGED <<store, active, token, sighted, host>>

\* The host answers true, or anything else, or throws; a driver stopped in the
\* meantime does not count a true answer.
Answer(d, m) ==
  /\ flow[d][m] = "waking"
  /\ \/ /\ agreed' = agreed \cup {m}
        /\ Set(d, m, IF d \in active THEN "accepted" ELSE "refused")
     \/ agreed' = agreed /\ Set(d, m, "refused")
  /\ UNCHANGED <<store, active, token, sighted, wakes, ran>>

\* host.finish takes effect, or is refused and the dispatch throws.
Finish(d, m) ==
  /\ flow[d][m] \in {"accepted", "refused"}
  /\ Set(d, m, "done")
  /\ \/ event' = [event EXCEPT ![m].state = Outcome(@, flow[d][m] = "accepted")]
     \/ event' = event
  /\ UNCHANGED <<acked, expired, active, token, sighted, host>>

\* The host reports an outcome outside the dispatch, as finish lets it: once
\* more, late, or after the session that dispatched is gone.
Report(m, accepted) ==
  /\ event[m].state \in Prepared
  /\ accepted => m \in agreed
  /\ event' = [event EXCEPT ![m].state = Outcome(@, accepted)]
  /\ UNCHANGED <<acked, expired, active, flow, token, sighted, host>>

\* Seeded fault: the driver takes its own wake request for the turn.
ObserveAnything(d, m, t) ==
  /\ m \in token[d] /\ sighted[d][m] = Nil
  /\ sighted' = [sighted EXCEPT ![d][m] = t]
  /\ UNCHANGED <<store, active, flow, token, host>>

\* confirmConsumed: the holder of the token observes a model turn ...
Observe(d, m, t) ==
  /\ m \in token[d] /\ sighted[d][m] = Nil
  /\ <<m, t>> \in ran
  /\ sighted' = [sighted EXCEPT ![d][m] = t]
  /\ UNCHANGED <<store, active, flow, token, host>>

\* ... and spends the token on it; or consume is refused, or answers a replay.
Consume(d, m) ==
  /\ sighted[d][m] # Nil
  /\ sighted' = [sighted EXCEPT ![d][m] = Nil]
  /\ \/ /\ MayConsume(d, m)
        /\ event' = [event EXCEPT ![m].state = "CONSUMED", ![m].turn = sighted[d][m]]
     \/ event' = event
  /\ UNCHANGED <<acked, expired, active, flow, token, host>>

Stop(d) ==
  /\ d \in active
  /\ active' = active \ {d}
  /\ UNCHANGED <<store, flow, token, sighted, host>>

\* A host session ends and a new one gets a new driver: the token, and what
\* was attempted, are gone.
Restart(d) ==
  /\ flow' = [flow EXCEPT ![d] = [m \in Messages |-> "new"]]
  /\ token' = [token EXCEPT ![d] = {}]
  /\ sighted' = [sighted EXCEPT ![d] = [m \in Messages |-> Nil]]
  /\ active' = active \cup {d}
  /\ UNCHANGED <<store, host>>
-----------------------------------------------------------------------------
(* The rest of the world                                                   *)

\* The delivery of a message is settled; a settled receipt stays so.
Receive(m) ==
  /\ m \notin acked
  /\ acked' = acked \cup {m}
  /\ UNCHANGED <<event, expired, active, flow, token, sighted, host>>

Expire(m) ==
  /\ event[m].state \in Prepared /\ m \notin expired
  /\ expired' = expired \cup {m}
  /\ UNCHANGED <<acked, event, active, flow, token, sighted, host>>

\* A model takes a turn on a received message, woken or not.
Run(m, t) ==
  /\ m \in acked
  /\ ran' = ran \cup {<<m, t>>}
  /\ UNCHANGED <<store, active, flow, token, sighted, wakes, agreed>>

QueueInit ==
  /\ acked = {} /\ expired = {}
  /\ event = [m \in Messages |-> NoEvent]
  /\ active = Drivers
  /\ flow = [d \in Drivers |-> [m \in Messages |-> "new"]]
  /\ token = [d \in Drivers |-> {}]
  /\ sighted = [d \in Drivers |-> [m \in Messages |-> Nil]]
  /\ wakes = [m \in Messages |-> 0]
  /\ agreed = {} /\ ran = {}

QueueNext ==
  \/ \E d \in Drivers, m \in Messages :
       \/ Dispatch(d, m) \/ Prepare(d, m) \/ PrepareFails(d, m)
       \/ Skip(d, m) \/ Wake(d, m) \/ Answer(d, m) \/ Finish(d, m)
       \/ \E t \in Turns : Observe(d, m, t)
       \/ Consume(d, m)
  \/ \E d \in Drivers : Stop(d) \/ Restart(d)
  \/ \E m \in Messages : Receive(m) \/ Enqueue(m) \/ Expire(m)
  \/ \E m \in Messages, a \in BOOLEAN : Report(m, a)
  \/ \E m \in Messages, t \in Turns : Run(m, t)

QueueSpec == QueueInit /\ [][QueueNext]_queueVars
-----------------------------------------------------------------------------
(* Properties                                                              *)

\* Shapes of the journal, the drivers and the host.
QueueTypeOK ==
  /\ acked \subseteq Messages /\ expired \subseteq Messages
  /\ event \in [Messages -> Event]
  /\ active \subseteq Drivers
  /\ flow \in [Drivers -> [Messages -> Stages]]
  /\ token \in [Drivers -> SUBSET Messages]
  /\ sighted \in [Drivers -> [Messages -> Turns \cup {Nil}]]
  /\ wakes \in [Messages -> Nat]
  /\ agreed \subseteq Messages /\ ran \subseteq Messages \X Turns

\* Over all drivers, restarts and lost answers, the host is asked at most once
\* to wake the model for a message, and never before the journal says so.
WokenAtMostOnce ==
  \A m \in Messages :
    /\ wakes[m] <= 1
    /\ wakes[m] = 1 => event[m].state \in Prepared \cup {"CONSUMED"}

\* An event counts as consumed only with a model turn that really ran on that
\* received message; asking the host to wake the model is not enough.
ConsumedWasRun ==
  \A m \in Messages : event[m].state = "CONSUMED" =>
    m \in acked /\ <<m, event[m].turn>> \in ran

\* A dispatch counts as accepted only if the host was asked and answered true.
AcceptedWasAgreed ==
  \A m \in Messages : event[m].state = "DISPATCH_ACCEPTED" =>
    wakes[m] = 1 /\ m \in agreed

\* An unknown outcome is cleared by nothing but an observed turn
\* (finish, lines 114-116).
UnknownStays ==
  [][\A m \in Messages : event[m].state = "DELIVERY_UNKNOWN" =>
       event'[m].state \in {"DELIVERY_UNKNOWN", "CONSUMED"}]_queueVars

\* A consumed event keeps the turn that consumed it, whatever a late outcome
\* of the dispatch or a second observation says (finish, lines 108-110;
\* consume, lines 138-142).
ConsumedStays ==
  [][\A m \in Messages : event[m].state = "CONSUMED" => event'[m] = event[m]]_queueVars
=============================================================================
