---------------------------- MODULE AdoptionProofs ----------------------------
(***************************************************************************)
(* Theorems about the move of a task.  The two stores are never changed    *)
(* together; the invariant says what each knows of the other: transitions  *)
(* form one line of channels, a task is never ahead of it, and a task that *)
(* lags behind is frozen under the mark of the next transition.            *)
(***************************************************************************)
EXTENDS Adoption, TLAPS

\* Each channel before the registered one was left by one committed transition;
\* what is not committed leaves the registered one.
LineOfChannels ==
  /\ \A x \in Proposed :
       x.old <= registered /\ x.old < MaxChannel /\ (x \in Committed <=> x.old < registered)
  /\ \A x, y \in Proposed : x.old = y.old => x = y
  /\ \A c \in Channels : c < registered => \E y \in Committed : y.old = c

\* A task knows no channel that was not registered, has left that of the transition
\* it was last resumed with, and is proposed only from where it was.
TasksAreSound ==
  /\ \A t \in Tasks :
       /\ tasks[t].channel <= registered
       /\ tasks[t].status \in Movable => tasks[t].version \in Versions
       /\ tasks[t].last # None => tasks[t].last.old < tasks[t].channel
  /\ \A x \in Proposed :
       tasks[x.task].status # "ABSENT" /\ x.old <= tasks[x.task].channel

\* What a call relies on at each stage.
Sound(i) ==
  LET c == call[i] IN
  /\ c.stage \in Sending \cup {"marked", "failed"} => lock = i
  /\ c.stage \in Sending =>
       /\ c.task \in Tasks /\ ~Frozen(c.task) /\ tasks[c.task].status # "ABSENT"
       /\ c.stage = "return" => tasks[c.task].status = "RETURN_PREPARED"
  /\ c.stage \in {"marked", "failed"} =>
       /\ c.transition \in Proposed /\ tasks[c.transition.task].adoption = c.transition
       /\ c.transition \notin Committed => Checkpoint(c.transition)
  /\ c.stage = "resuming" => c.transition \in Committed

IInv ==
  /\ TypeOK /\ LineOfChannels /\ TasksAreSound /\ ProgressIsKept /\ ReturnedWasReviewed
  /\ \A i \in Callers : Sound(i)
-----------------------------------------------------------------------------
LEMMA InitSound == Init => IInv
<1> SUFFICES ASSUME Init PROVE IInv
  OBVIOUS
<1>1. TypeOK
  <2>1. Absent \in Task /\ Idle \in Call /\ registered \in Channels
    BY AdoptionAssumption DEF Init, Absent, Task, Idle, Call, Statuses, Channels
  <2>2. QED
    BY <2>1 DEF Init, TypeOK, Proposed
<1>2. Proposed = {}
  BY DEF Init, Proposed
<1>3. LineOfChannels
  BY <1>2 DEF Init, LineOfChannels, Channels
<1>4. TasksAreSound
  BY <1>2 DEF Init, TasksAreSound, Absent, Movable
<1>5. ReturnedWasReviewed
  BY DEF Init, ReturnedWasReviewed, Absent
<1>6. \A i \in Callers : Sound(i)
  BY DEF Init, Sound, Idle, Sending
<1>7. QED
  BY <1>1, <1>2, <1>3, <1>4, <1>5, <1>6 DEF IInv, ProgressIsKept

LEMMA Shapes ==
  /\ None \notin Callers /\ None \notin Versions /\ None \notin Transition
  /\ Channels \subseteq Nat
  /\ \A x \in Transition : x.task \in Tasks /\ x.old \in Channels /\ x.old \in Nat
                        /\ x.status \in Statuses /\ x.version \in Versions \cup {None}
  /\ \A e \in Task : /\ e.status \in Statuses /\ e.channel \in Channels /\ e.channel \in Nat
                   /\ e.version \in Versions \cup {None} /\ e.adoption \in Transition \cup {None}
                   /\ e.last \in Transition \cup {None}
BY AdoptionAssumption, NoneIsNoTransition DEF Channels, Transition, Task

\* A task whose transition is committed is frozen until it is resumed.
LEMMA AwaitingIsFrozen ==
  ASSUME IInv, NEW x \in Proposed, Awaiting(x) PROVE Frozen(x.task)
<1>1. x \in Transition /\ tasks[x.task] \in Task /\ tasks[x.task].adoption = x
      /\ tasks[x.task].channel = x.old
  BY Shapes DEF IInv, TypeOK, ProgressIsKept, Awaiting
<1>2. tasks[x.task].last # x
  BY <1>1, Shapes DEF IInv, TasksAreSound
<1>3. QED
  BY <1>1, <1>2, Shapes DEF Frozen

\* What a call relies on is only added to, but for the task it is about.
LEMMA SoundStays ==
  ASSUME NEW j \in Callers, Sound(j), call'[j] = call[j],
         lock' = lock, tasks' = tasks, Proposed \subseteq Proposed',
         \A x \in Proposed : x \in Committed <=> x \in Committed',
         \A r : r \in unsettled' => r \in unsettled
  PROVE  Sound(j)'
<1>1. /\ \A t : Frozen(t)' <=> Frozen(t)
      /\ \A t : Root(t)' = Root(t)
  BY DEF Frozen, Root
<1>2. \A x : Checkpoint(x) => Checkpoint(x)'
  BY <1>1 DEF Checkpoint
<1>3. call[j].stage = "resuming" => call[j].transition \in Committed'
  BY DEF Sound, Committed
<1>4. QED
  BY <1>1, <1>2, <1>3 DEF Sound

\* While i has the lock, or nobody has, other calls rely on little.
LEMMA OthersStay ==
  ASSUME IInv, NEW i \in Callers \cup {None}, lock \in {i, None},
         \A j \in Callers \ {i} : call'[j] = call[j], Committed \subseteq Committed'
  PROVE  \A j \in Callers \ {i} : Sound(j)'
<1> TAKE j \in Callers \ {i}
<1>1. Sound(j) /\ call[j].stage \notin Sending \cup {"marked", "failed"}
  BY Shapes DEF IInv, Sound
<1>2. QED
  BY <1>1 DEF Sound, Sending

\* A step that changes neither store but for deliveries that end.
LEMMA QuietStep ==
  ASSUME IInv, UNCHANGED <<registered, proposals, tasks>>, unsettled' \subseteq unsettled,
         lock' \in Callers \cup {None}, call' \in [Callers -> Call], \A i \in Callers : Sound(i)'
  PROVE  IInv'
<1>1. TypeOK' /\ LineOfChannels' /\ TasksAreSound' /\ ReturnedWasReviewed'
  BY DEF IInv, TypeOK, LineOfChannels, TasksAreSound, ReturnedWasReviewed, Proposed, Committed
<1>2. ProgressIsKept'
  BY DEF IInv, ProgressIsKept, Awaiting, Kept, Root, Proposed, Committed
<1>3. QED
  BY <1>1, <1>2 DEF IInv

\* A step of the business of a task that is not frozen.
LEMMA WorkStep ==
  ASSUME IInv, NEW t \in Tasks, NEW e \in Task, ~Frozen(t), Put(t, e),
         UNCHANGED <<registered, proposals>>,
         e.channel = tasks[t].channel, e.adoption = tasks[t].adoption, e.last = tasks[t].last,
         e.status # "ABSENT", e.status \in Movable => e.version \in Versions,
         e.status \in {"REVIEW_ACCEPTED", "RETURN_PREPARED", "RETURN_INPUT_OBSERVED"} =>
           e.review = [channel |-> e.channel, version |-> e.version],
         unsettled' \subseteq unsettled \cup {Root(t)},
         lock' \in Callers \cup {None}, call' \in [Callers -> Call], \A i \in Callers : Sound(i)'
  PROVE  IInv'
<1>1. tasks \in [Tasks -> Task] /\ tasks' = [tasks EXCEPT ![t] = e] /\ tasks' \in [Tasks -> Task]
      /\ tasks'[t] = e /\ \A u \in Tasks \ {t} : tasks'[u] = tasks[u]
  BY DEF IInv, TypeOK, Put
<1>2. \A x \in Proposed : x \in Transition /\ x.task \in Tasks
  BY Shapes DEF IInv, TypeOK
<1>3. Proposed' = Proposed /\ Committed' = Committed
  BY DEF Proposed, Committed
<1>4. TypeOK'
  <2>1. Root(t) \in Tasks \X Channels
    BY <1>1, Shapes DEF Root
  <2>2. QED
    BY <1>1, <1>3, <2>1 DEF IInv, TypeOK
<1>5. LineOfChannels'
  BY <1>3 DEF IInv, LineOfChannels
<1>6. TasksAreSound'
  BY <1>1, <1>2, <1>3 DEF IInv, TasksAreSound
<1>7. ReturnedWasReviewed'
  BY <1>1 DEF IInv, ReturnedWasReviewed
<1>8. ProgressIsKept'
  <2> SUFFICES ASSUME NEW x \in Proposed, Awaiting(x)'
               PROVE  Kept(x)' /\ tasks'[x.task].adoption = x
    BY <1>3 DEF ProgressIsKept
  <2>1. Awaiting(x)
    BY <1>1, <1>2, <1>3 DEF Awaiting
  <2>2. x.task # t
    BY <2>1, AwaitingIsFrozen
  <2>3. Kept(x) /\ tasks[x.task].adoption = x /\ tasks'[x.task] = tasks[x.task]
    BY <1>1, <1>2, <2>1, <2>2 DEF IInv, ProgressIsKept
  <2>4. <<x.task, tasks[x.task].channel>> \notin unsettled'
    BY <2>2, <2>3 DEF Kept, Root
  <2>5. QED
    BY <2>3, <2>4 DEF Kept, Root
<1>9. QED
  BY <1>4, <1>5, <1>6, <1>7, <1>8 DEF IInv

-----------------------------------------------------------------------------
(* Business                                                                *)

\* Between two calls nobody relies on a task.
LEMMA NobodyMinds ==
  ASSUME IInv, lock = None, UNCHANGED <<lifecycle, call>> PROVE \A j \in Callers : Sound(j)'
<1>1. Committed' = Committed /\ \A j \in Callers \ {None} : call'[j] = call[j]
  BY DEF lifecycle, Committed, Proposed
<1>2. QED
  BY <1>1, OthersStay, Shapes

LEMMA PrepareSound ==
  ASSUME IInv, NEW t \in Tasks, Prepare(t) PROVE IInv'
<1> DEFINE e == [Absent EXCEPT !.status = "PLANNED", !.channel = registered]
<1>1. /\ lock = None /\ tasks[t].status = "ABSENT" /\ tasks' = [tasks EXCEPT ![t] = e]
      /\ UNCHANGED <<registered, proposals, unsettled, lock, call>>
  BY DEF Prepare, Put, lifecycle
<1>2. /\ e.status = "PLANNED" /\ e.channel = registered /\ e.last = None
  BY DEF Absent
<1>3. e \in Task
  BY DEF IInv, TypeOK, Absent, Task, Statuses
<1> HIDE DEF e
<1>4. tasks \in [Tasks -> Task] /\ tasks' \in [Tasks -> Task] /\ tasks'[t] = e
      /\ \A u \in Tasks \ {t} : tasks'[u] = tasks[u]
  BY <1>1, <1>3 DEF IInv, TypeOK
<1>5. Proposed' = Proposed /\ Committed' = Committed
      /\ \A x \in Proposed : x.task \in Tasks /\ x.task # t
  BY <1>1, Shapes DEF Proposed, Committed, IInv, TypeOK, TasksAreSound
<1>6. TypeOK' /\ LineOfChannels'
  BY <1>1, <1>4, <1>5 DEF IInv, TypeOK, LineOfChannels
<1>7. TasksAreSound'
  <2>1. registered \in Nat /\ registered <= registered
    BY Shapes DEF IInv, TypeOK
  <2>2. QED
    BY <1>1, <1>2, <1>4, <1>5, <2>1 DEF IInv, TasksAreSound, Movable
<1>8. ProgressIsKept'
  BY <1>1, <1>4, <1>5 DEF IInv, ProgressIsKept, Awaiting, Kept, Root
<1>9. ReturnedWasReviewed'
  BY <1>2, <1>4 DEF IInv, ReturnedWasReviewed
<1>10. \A j \in Callers : Sound(j)'
  BY <1>1, NobodyMinds DEF lifecycle
<1>11. QED
  BY <1>6, <1>7, <1>8, <1>9, <1>10 DEF IInv

LEMMA SetArtifactSound ==
  ASSUME IInv, NEW t \in Tasks, NEW v \in Versions, SetArtifact(t, v) PROVE IInv'
<1> DEFINE e == [tasks[t] EXCEPT !.version = v, !.review = None, !.status = "REVIEW_PENDING"]
<1>1. e \in Task /\ e.channel = tasks[t].channel /\ e.adoption = tasks[t].adoption
      /\ e.last = tasks[t].last /\ e.status = "REVIEW_PENDING" /\ e.version = v
  BY DEF IInv, TypeOK, Task, Statuses
<1>2. Put(t, e) /\ ~Frozen(t) /\ lock = None /\ UNCHANGED <<lifecycle, unsettled, lock, call>>
  BY DEF SetArtifact, MayWork
<1> HIDE DEF e
<1>3. \A j \in Callers : Sound(j)'
  BY <1>2, NobodyMinds
<1>4. QED
  BY <1>1, <1>2, <1>3, WorkStep DEF lifecycle, IInv, TypeOK

LEMMA ObserveReviewSound ==
  ASSUME IInv, NEW t \in Tasks, NEW pass \in BOOLEAN, ObserveReview(t, pass) PROVE IInv'
<1> DEFINE r == [channel |-> tasks[t].channel, version |-> tasks[t].version]
           status == IF pass THEN "REVIEW_ACCEPTED" ELSE "REWORK_REQUIRED"
           e == [tasks[t] EXCEPT !.review = r, !.status = status]
<1>1. tasks[t] \in Task /\ tasks[t].version \in Versions /\ r \in Review
  BY Shapes DEF ObserveReview, IInv, TypeOK, TasksAreSound, Movable, Review
<1>2. status \in {"REVIEW_ACCEPTED", "REWORK_REQUIRED"}
  OBVIOUS
<1> HIDE DEF r, status
<1>3. e \in Task /\ e.channel = tasks[t].channel /\ e.adoption = tasks[t].adoption
      /\ e.last = tasks[t].last /\ e.status = status /\ e.version = tasks[t].version /\ e.review = r
  BY <1>1, <1>2 DEF Task, Statuses
<1>4. Put(t, e) /\ ~Frozen(t) /\ lock = None /\ UNCHANGED <<lifecycle, unsettled, lock, call>>
  BY DEF ObserveReview, MayWork, r, status
<1> HIDE DEF e
<1>5. \A j \in Callers : Sound(j)'
  BY <1>4, NobodyMinds
<1>6. e.status # "ABSENT" /\ e.review = [channel |-> e.channel, version |-> e.version]
  BY <1>2, <1>3 DEF r
<1>7. QED
  BY <1>1, <1>3, <1>4, <1>5, <1>6, WorkStep DEF lifecycle, IInv, TypeOK

\* A delivery that starts: its call has the lock and a task that is not frozen.
LEMMA StartTypes ==
  ASSUME IInv, NEW i \in Callers, NEW t \in Tasks, NEW kind \in Sending, lock = None,
         Start(i, t, kind), ~Frozen(t), tasks[t].status # "ABSENT", UNCHANGED lifecycle,
         NEW e \in Task, Put(t, e), e.adoption = tasks[t].adoption, e.last = tasks[t].last,
         e.status # "ABSENT", kind = "return" => e.status = "RETURN_PREPARED"
  PROVE  /\ call' \in [Callers -> Call] /\ lock' \in Callers \cup {None}
         /\ unsettled' \subseteq unsettled \cup {Root(t)} /\ \A j \in Callers : Sound(j)'
<1> DEFINE c == [Idle EXCEPT !.stage = kind, !.task = t]
<1>1. c \in Call /\ c.stage = kind /\ c.task = t
  BY DEF Idle, Call, Sending
<1>2. call' = [call EXCEPT ![i] = c] /\ lock' = i /\ unsettled' = unsettled \cup {Root(t)}
  BY DEF Start
<1> HIDE DEF c
<1>3. call' \in [Callers -> Call] /\ call'[i] = c /\ \A j \in Callers \ {i} : call'[j] = call[j]
  BY <1>1, <1>2 DEF IInv, TypeOK
<1>4. tasks'[t] = e
  BY DEF IInv, TypeOK, Put
<1>5. Sound(i)'
  BY <1>1, <1>2, <1>3, <1>4 DEF Sound, Frozen, Sending
<1>6. Committed \subseteq Committed'
  BY DEF lifecycle, Committed, Proposed
<1>7. QED
  BY <1>2, <1>3, <1>5, <1>6, OthersStay

LEMMA StartSound ==
  ASSUME IInv, NEW i \in Callers, NEW t \in Tasks, DispatchGoal(i, t) \/ SendForReview(i, t)
  PROVE  IInv'
<1>1. /\ lock = None /\ ~Frozen(t) /\ tasks[t].status # "ABSENT" /\ tasks' = tasks
      /\ UNCHANGED lifecycle
  BY DEF DispatchGoal, SendForReview, MayWork
<1>2. PICK kind \in {"goal", "review"} : Start(i, t, kind)
  BY DEF DispatchGoal, SendForReview
<1>3. tasks[t] \in Task /\ Put(t, tasks[t])
  BY <1>1 DEF IInv, TypeOK, Put
<1>4. /\ call' \in [Callers -> Call] /\ lock' \in Callers \cup {None}
      /\ unsettled' \subseteq unsettled \cup {Root(t)} /\ \A j \in Callers : Sound(j)'
  BY <1>1, <1>2, <1>3, StartTypes DEF Sending
<1>5. /\ tasks[t].status \in Movable => tasks[t].version \in Versions
      /\ tasks[t].status \in {"REVIEW_ACCEPTED", "RETURN_PREPARED", "RETURN_INPUT_OBSERVED"} =>
           tasks[t].review = [channel |-> tasks[t].channel, version |-> tasks[t].version]
  BY DEF IInv, TasksAreSound, ReturnedWasReviewed
<1>6. QED
  BY <1>1, <1>3, <1>4, <1>5, WorkStep DEF lifecycle

LEMMA ReturnSound ==
  ASSUME IInv, NEW i \in Callers, NEW t \in Tasks, ReturnResult(i, t) PROVE IInv'
<1> DEFINE e == [tasks[t] EXCEPT !.status = "RETURN_PREPARED"]
<1>1. e \in Task /\ e.channel = tasks[t].channel /\ e.adoption = tasks[t].adoption
      /\ e.last = tasks[t].last /\ e.status = "RETURN_PREPARED" /\ e.version = tasks[t].version
      /\ e.review = tasks[t].review
  BY DEF IInv, TypeOK, Task, Statuses
<1>2. /\ lock = None /\ ~Frozen(t) /\ tasks[t].status # "ABSENT" /\ Put(t, e) /\ UNCHANGED lifecycle
      /\ tasks[t].status \in {"REVIEW_ACCEPTED", "RETURN_PREPARED"}
      /\ \/ Start(i, t, "return")
         \/ UNCHANGED <<unsettled, lock, call>>
  BY DEF ReturnResult, MayWork
<1> HIDE DEF e
<1>3. e.review = [channel |-> e.channel, version |-> e.version]
  BY <1>1, <1>2 DEF IInv, ReturnedWasReviewed
<1>4. /\ call' \in [Callers -> Call] /\ lock' \in Callers \cup {None}
      /\ unsettled' \subseteq unsettled \cup {Root(t)} /\ \A j \in Callers : Sound(j)'
  <2>1. CASE Start(i, t, "return")
    BY <1>1, <1>2, <2>1, StartTypes DEF Sending
  <2>2. CASE UNCHANGED <<unsettled, lock, call>>
    BY <1>2, <2>2, NobodyMinds DEF IInv, TypeOK
  <2>3. QED
    BY <1>2, <2>1, <2>2
<1>5. QED
  BY <1>1, <1>2, <1>3, <1>4, WorkStep DEF lifecycle, Movable

\* A call that ends, whatever it was.
LEMMA EndTypes ==
  ASSUME IInv, NEW i \in Callers, call' = [call EXCEPT ![i] = Idle]
  PROVE  /\ call' \in [Callers -> Call] /\ Sound(i)'
         /\ \A j \in Callers \ {i} : call'[j] = call[j]
<1>1. Idle \in Call /\ Idle.stage = "idle"
  BY DEF Idle, Call
<1>2. call' \in [Callers -> Call] /\ call'[i] = Idle /\ \A j \in Callers \ {i} : call'[j] = call[j]
  BY <1>1 DEF IInv, TypeOK
<1>3. QED
  BY <1>1, <1>2 DEF Sound, Sending

LEMMA EndSendSound ==
  ASSUME IInv, NEW i \in Callers, EndSend(i) PROVE IInv'
<1> DEFINE t == call[i].task
           kind == call[i].stage
           status == CASE kind = "goal" /\ tasks[t].status = "PLANNED" -> "GOAL_INPUT_OBSERVED"
                       [] kind = "return" -> "RETURN_INPUT_OBSERVED"
                       [] OTHER -> tasks[t].status
           e == [tasks[t] EXCEPT !.status = status]
<1>1. /\ kind \in Sending /\ unsettled' = unsettled \ {Root(t)} /\ Put(t, e)
      /\ lock' = None /\ call' = [call EXCEPT ![i] = Idle] /\ UNCHANGED lifecycle
  BY DEF EndSend
<1>2. /\ t \in Tasks /\ lock = i /\ ~Frozen(t) /\ tasks[t].status # "ABSENT" /\ tasks[t] \in Task
      /\ kind = "return" => tasks[t].status = "RETURN_PREPARED"
  BY <1>1 DEF IInv, Sound, TypeOK
<1>3. \/ status = tasks[t].status
      \/ status = "GOAL_INPUT_OBSERVED"
      \/ status = "RETURN_INPUT_OBSERVED" /\ tasks[t].status = "RETURN_PREPARED"
  BY <1>2
<1> HIDE DEF status, kind, t
<1>4. e \in Task /\ e.channel = tasks[t].channel /\ e.adoption = tasks[t].adoption
      /\ e.last = tasks[t].last /\ e.status = status /\ e.version = tasks[t].version
      /\ e.review = tasks[t].review
  BY <1>2, <1>3 DEF Task, Statuses
<1> HIDE DEF e
<1>5. /\ e.status # "ABSENT" /\ (e.status \in Movable => e.version \in Versions)
      /\ e.status \in {"REVIEW_ACCEPTED", "RETURN_PREPARED", "RETURN_INPUT_OBSERVED"} =>
           e.review = [channel |-> e.channel, version |-> e.version]
  BY <1>2, <1>3, <1>4 DEF IInv, TasksAreSound, ReturnedWasReviewed, Movable
<1>6. call' \in [Callers -> Call] /\ \A j \in Callers : Sound(j)'
  <2>1. Committed \subseteq Committed'
    BY <1>1 DEF lifecycle, Committed, Proposed
  <2>2. QED
    BY <1>1, <1>2, <2>1, EndTypes, OthersStay
<1>7. QED
  BY <1>1, <1>2, <1>4, <1>5, <1>6, WorkStep DEF lifecycle

LEMMA FailSendSound ==
  ASSUME IInv, NEW i \in Callers, FailSend(i) PROVE IInv'
<1>1. /\ call[i].stage \in Sending /\ unsettled' \subseteq unsettled /\ lock' = None
      /\ call' = [call EXCEPT ![i] = Idle] /\ UNCHANGED <<registered, proposals, tasks>>
  BY DEF FailSend, lifecycle
<1>2. lock = i /\ Committed \subseteq Committed'
  BY <1>1 DEF IInv, Sound, Committed, Proposed
<1>3. QED
  BY <1>1, <1>2, EndTypes, OthersStay, QuietStep

LEMMA ReconcileSound ==
  ASSUME IInv, NEW r \in unsettled, Reconcile(r) PROVE IInv'
<1>1. unsettled' \subseteq unsettled /\ UNCHANGED <<registered, proposals, tasks, lock, call>>
  BY DEF Reconcile, lifecycle
<1>2. \A j \in Callers : Sound(j)'
  BY <1>1, SoundStays DEF IInv, Proposed, Committed
<1>3. QED
  BY <1>1, <1>2, QuietStep DEF IInv, TypeOK

-----------------------------------------------------------------------------
(* Transitions                                                             *)

LEMMA ProposeSound ==
  ASSUME IInv, NEW t \in Tasks, Propose(t) PROVE IInv'
<1> DEFINE x == [task |-> t, old |-> tasks[t].channel,
                 status |-> tasks[t].status, version |-> tasks[t].version]
<1>1. /\ tasks[t].status # "ABSENT" /\ x \notin Proposed /\ MayPropose(x)
      /\ proposals' = [y \in Proposed \cup {x} |->
                         IF y = x THEN [evidence |-> {}, committed |-> FALSE] ELSE proposals[y]]
      /\ UNCHANGED <<registered, tasks, unsettled, lock, call>>
  BY DEF Propose
<1>2. x \in Transition /\ x.task = t /\ x.old = tasks[t].channel
  BY Shapes DEF IInv, TypeOK, Transition
<1> HIDE DEF x
<1>3. /\ Proposed' = Proposed \cup {x} /\ Committed' = Committed
      /\ \A y \in Proposed' : proposals'[y] \in Proposal
  <2>1. [evidence |-> {}, committed |-> FALSE] \in Proposal
    BY DEF Proposal
  <2>2. Proposed' = Proposed \cup {x}
    BY <1>1 DEF Proposed
  <2>3. Committed' = Committed
    BY <1>1, <2>2 DEF Committed
  <2>4. QED
    BY <1>1, <2>1, <2>2, <2>3 DEF IInv, TypeOK
<1>4. /\ x.old = registered /\ x.old < MaxChannel /\ registered \in Nat /\ x \notin Committed
      /\ \A y \in Proposed : y.old # x.old
  BY <1>1, Shapes DEF MayPropose, IInv, TypeOK, LineOfChannels, Committed
<1>5. TypeOK'
  BY <1>1, <1>2, <1>3 DEF IInv, TypeOK
<1>6. LineOfChannels'
  BY <1>1, <1>3, <1>4 DEF IInv, LineOfChannels
<1>7. TasksAreSound'
  <2>1. x.old <= tasks[x.task].channel
    BY <1>2, <1>4
  <2>2. QED
    BY <1>1, <1>2, <1>3, <2>1 DEF IInv, TasksAreSound
<1>8. ProgressIsKept' /\ ReturnedWasReviewed'
  BY <1>1, <1>3, <1>4 DEF IInv, ProgressIsKept, ReturnedWasReviewed, Awaiting, Kept, Root
<1>9. \A j \in Callers : Sound(j)'
  BY <1>1, <1>3, SoundStays DEF IInv
<1>10. QED
  BY <1>5, <1>6, <1>7, <1>8, <1>9 DEF IInv

LEMMA ObserveSound ==
  ASSUME IInv, NEW x \in Proposed, NEW what \in {"reads", "directions"}, Observe(x, what)
  PROVE  IInv'
<1>1. proposals' = [proposals EXCEPT ![x].evidence = @ \cup {what}]
      /\ UNCHANGED <<registered, tasks, unsettled, lock, call>>
  BY DEF Observe
<1>2. /\ Proposed' = Proposed
      /\ \A y \in Proposed : proposals'[y] \in Proposal /\ proposals'[y].committed = proposals[y].committed
  BY <1>1 DEF IInv, TypeOK, Proposed, Proposal
<1>3. Committed' = Committed
  BY <1>2 DEF Committed
<1>4. TypeOK' /\ LineOfChannels' /\ TasksAreSound'
  BY <1>1, <1>2, <1>3 DEF IInv, TypeOK, LineOfChannels, TasksAreSound
<1>5. ProgressIsKept' /\ ReturnedWasReviewed'
  BY <1>1, <1>2, <1>3 DEF IInv, ProgressIsKept, ReturnedWasReviewed, Awaiting, Kept, Root
<1>6. \A j \in Callers : Sound(j)'
  BY <1>1, <1>2, <1>3, SoundStays DEF IInv
<1>7. QED
  BY <1>4, <1>5, <1>6 DEF IInv

-----------------------------------------------------------------------------
(* Cutover and resumption                                                  *)

\* A mark is not put over that of another cutover.
LEMMA MarkSound ==
  ASSUME IInv, NEW i \in Callers, NEW x \in Proposed, Mark(i, x) PROVE IInv'
<1> DEFINE c == [Idle EXCEPT !.stage = "marked", !.transition = x]
           e == [tasks[x.task] EXCEPT !.adoption = x]
<1>1. /\ lock = None /\ lock' = i /\ call' = [call EXCEPT ![i] = c]
      /\ UNCHANGED <<registered, proposals, unsettled>>
      /\ \/ x \in Committed /\ tasks[x.task].adoption = x /\ tasks' = tasks
         \/ x \notin Committed /\ Checkpoint(x) /\ tasks' = [tasks EXCEPT ![x.task] = e]
  BY DEF Mark, Put, lifecycle
<1>2. /\ x \in Transition /\ x.task \in Tasks /\ tasks[x.task] \in Task
      /\ Proposed' = Proposed /\ Committed' = Committed
  BY <1>1, Shapes DEF IInv, TypeOK, Proposed, Committed
<1>3. c \in Call /\ c.stage = "marked" /\ c.transition = x
  BY <1>2 DEF Idle, Call
<1>4. /\ e \in Task /\ e.channel = tasks[x.task].channel /\ e.adoption = x
      /\ e.last = tasks[x.task].last /\ e.status = tasks[x.task].status
      /\ e.version = tasks[x.task].version /\ e.review = tasks[x.task].review
  BY <1>2 DEF Task
<1> HIDE DEF c, e
<1>5. /\ call' \in [Callers -> Call] /\ call'[i] = c
      /\ \A j \in Callers \ {i} : call'[j] = call[j]
  BY <1>1, <1>3 DEF IInv, TypeOK
<1>6. \A j \in Callers \ {i} : Sound(j)'
  BY <1>1, <1>2, <1>5, OthersStay
<1>7. CASE x \in Committed /\ tasks[x.task].adoption = x /\ tasks' = tasks
  <2>1. Sound(i)'
    BY <1>1, <1>2, <1>3, <1>5, <1>7 DEF Sound, Sending
  <2>2. QED
    BY <1>1, <1>5, <1>6, <1>7, <2>1, QuietStep
<1>8. CASE x \notin Committed /\ Checkpoint(x) /\ tasks' = [tasks EXCEPT ![x.task] = e]
  <2>1. /\ tasks' \in [Tasks -> Task] /\ tasks'[x.task] = e
        /\ \A u \in Tasks \ {x.task} : tasks'[u] = tasks[u]
    BY <1>2, <1>4, <1>8 DEF IInv, TypeOK
  <2>2. TypeOK'
    BY <1>1, <1>2, <1>5, <2>1 DEF IInv, TypeOK
  <2>3. LineOfChannels'
    BY <1>1, <1>2 DEF IInv, LineOfChannels
  <2>4. \A y \in Proposed : y.task \in Tasks
    BY Shapes DEF IInv, TypeOK
  <2>5. TasksAreSound'
    BY <1>1, <1>2, <1>4, <2>1, <2>4 DEF IInv, TasksAreSound
  <2>6. ReturnedWasReviewed'
    BY <1>4, <2>1 DEF IInv, ReturnedWasReviewed
  <2>7. ProgressIsKept'
    <3> SUFFICES ASSUME NEW y \in Proposed, Awaiting(y)'
                 PROVE  Kept(y)' /\ tasks'[y.task].adoption = y
      BY <1>2 DEF ProgressIsKept
    <3>1. Awaiting(y)
      BY <1>2, <1>4, <2>1, <2>4 DEF Awaiting
    <3>2. y.task # x.task
      BY <1>8, <3>1 DEF IInv, LineOfChannels, Awaiting, Checkpoint
    <3>3. Kept(y) /\ tasks[y.task].adoption = y /\ tasks'[y.task] = tasks[y.task]
      BY <2>1, <2>4, <3>1, <3>2 DEF IInv, ProgressIsKept
    <3>4. QED
      BY <1>1, <3>3 DEF Kept, Root
  <2>8. Sound(i)'
    <3>1. Checkpoint(x)'
      BY <1>1, <1>4, <1>8, <2>1 DEF Checkpoint, Root
    <3>2. QED
      BY <1>1, <1>2, <1>3, <1>4, <1>5, <2>1, <3>1 DEF Sound, Sending
  <2>9. QED
    BY <1>6, <2>2, <2>3, <2>5, <2>6, <2>7, <2>8 DEF IInv
<1>9. QED
  BY <1>1, <1>7, <1>8

\* What a marked call knows of its transition.
LEMMA MarkedKnows ==
  ASSUME IInv, NEW i \in Callers, call[i].stage \in {"marked", "failed"}
  PROVE  /\ lock = i /\ call[i].transition \in Proposed
         /\ tasks[call[i].transition.task].adoption = call[i].transition
         /\ call[i].transition \notin Committed => Checkpoint(call[i].transition)
BY DEF IInv, Sound

\* The cutover: one more channel of the line, left by a task that is where its
\* packet says.
LEMMA CommitSound ==
  ASSUME IInv, NEW i \in Callers, Commit(i) PROVE IInv'
<1> DEFINE x == call[i].transition
           c == [call[i] EXCEPT !.stage = "failed"]
<1>1. /\ call[i].stage = "marked" /\ x \notin Committed /\ registered = x.old
      /\ proposals' = [proposals EXCEPT ![x].committed = TRUE] /\ registered' = x.old + 1
      /\ \/ lock' = None /\ call' = [call EXCEPT ![i] = Idle]
         \/ lock' = lock /\ call' = [call EXCEPT ![i] = c]
      /\ UNCHANGED <<tasks, unsettled>>
  BY DEF Commit, Cutover, New
<1>2. /\ lock = i /\ x \in Proposed /\ tasks[x.task].adoption = x /\ Checkpoint(x)
  BY <1>1, MarkedKnows
<1>3. c \in Call /\ c.stage = "failed" /\ c.transition = x
  BY DEF IInv, TypeOK, Call
<1> HIDE DEF x, c
<1>4. /\ x \in Transition /\ x.old \in Nat /\ x.old < MaxChannel /\ MaxChannel \in Nat
      /\ registered \in Nat
  BY <1>2, Shapes, AdoptionAssumption DEF IInv, TypeOK, LineOfChannels
<1>5. /\ Proposed' = Proposed /\ Committed' = Committed \cup {x}
      /\ \A y \in Proposed : proposals'[y] \in Proposal
  <2>1. /\ Proposed' = Proposed
        /\ \A y \in Proposed : proposals'[y] \in Proposal
        /\ \A y \in Proposed : proposals'[y].committed <=> (y = x \/ proposals[y].committed)
    BY <1>1, <1>2 DEF IInv, TypeOK, Proposed, Proposal
  <2>2. QED
    BY <1>2, <2>1 DEF Committed
<1>6. /\ call' \in [Callers -> Call] /\ \A j \in Callers \ {i} : call'[j] = call[j]
      /\ lock' \in Callers \cup {None} /\ Sound(i)'
  <2>1. CASE lock' = None /\ call' = [call EXCEPT ![i] = Idle]
    BY <2>1, EndTypes
  <2>2. CASE lock' = lock /\ call' = [call EXCEPT ![i] = c]
    <3>1. call' \in [Callers -> Call] /\ call'[i] = c /\ \A j \in Callers \ {i} : call'[j] = call[j]
      BY <1>3, <2>2 DEF IInv, TypeOK
    <3>2. Sound(i)'
      BY <1>1, <1>2, <1>3, <1>5, <2>2, <3>1 DEF Sound, Sending
    <3>3. QED
      BY <1>2, <2>2, <3>1, <3>2
  <2>3. QED
    BY <1>1, <2>1, <2>2
<1>7. TypeOK'
  <2>1. registered' \in Channels
    BY <1>1, <1>4 DEF Channels
  <2>2. QED
    BY <1>1, <1>5, <1>6, <2>1 DEF IInv, TypeOK
<1>8. LineOfChannels'
  <2>1. \A y \in Proposed : y.old \in Nat
    BY Shapes DEF IInv, TypeOK
  <2>2. \A y \in Proposed : y.old <= registered /\ (y.old = x.old => y = x)
    BY <1>2 DEF IInv, LineOfChannels
  <2>3. \A y \in Proposed : y.old <= registered' /\ (y \in Committed' <=> y.old < registered')
    BY <1>1, <1>4, <1>5, <2>1, <2>2 DEF IInv, LineOfChannels
  <2>4. \A d \in Channels : d < registered' => \E y \in Committed' : y.old = d
    BY <1>1, <1>4, <1>5, Shapes DEF IInv, LineOfChannels
  <2>5. QED
    BY <1>5, <2>3, <2>4 DEF IInv, LineOfChannels
<1>9. TasksAreSound'
  <2>1. \A t \in Tasks : tasks[t].channel \in Nat
    BY Shapes DEF IInv, TypeOK
  <2>2. \A t \in Tasks : tasks[t].channel <= registered'
    BY <1>1, <1>4, <2>1 DEF IInv, TasksAreSound
  <2>3. QED
    BY <1>1, <1>5, <2>2 DEF IInv, TasksAreSound
<1>10. ProgressIsKept'
  <2>1. Kept(x)
    BY <1>2 DEF Checkpoint, Kept, Movable
  <2>2. \A y \in Proposed : Kept(y) => Kept(y)'
    BY <1>1 DEF Kept, Root
  <2>3. QED
    BY <1>1, <1>2, <1>5, <2>1, <2>2 DEF IInv, ProgressIsKept, Awaiting
<1>11. ReturnedWasReviewed'
  BY <1>1 DEF IInv, ReturnedWasReviewed
<1>12. \A j \in Callers \ {i} : Sound(j)'
  BY <1>2, <1>5, <1>6, OthersStay
<1>13. QED
  BY <1>6, <1>7, <1>8, <1>9, <1>10, <1>11, <1>12 DEF IInv

\* Endings of commit_verified that leave both stores as they are.
LEMMA CommitEndsSound ==
  ASSUME IInv, NEW i \in Callers, CommitAgain(i) \/ CommitFails(i) PROVE IInv'
<1> DEFINE c == [call[i] EXCEPT !.stage = "failed"]
<1>1. /\ call[i].stage = "marked" /\ UNCHANGED <<registered, proposals, tasks, unsettled>>
      /\ \/ lock' = None /\ call' = [call EXCEPT ![i] = Idle]
         \/ lock' = lock /\ call' = [call EXCEPT ![i] = c]
  BY DEF CommitAgain, CommitFails, lifecycle
<1>2. c \in Call /\ c.stage = "failed" /\ c.transition = call[i].transition
  BY DEF IInv, TypeOK, Call
<1> HIDE DEF c
<1>3. /\ lock = i /\ Committed' = Committed /\ Proposed' = Proposed
  BY <1>1, MarkedKnows DEF Committed, Proposed
<1>4. /\ call' \in [Callers -> Call] /\ \A j \in Callers \ {i} : call'[j] = call[j]
      /\ lock' \in Callers \cup {None} /\ Sound(i)'
  <2>1. CASE lock' = None /\ call' = [call EXCEPT ![i] = Idle]
    BY <2>1, EndTypes
  <2>2. CASE lock' = lock /\ call' = [call EXCEPT ![i] = c]
    <3>1. call' \in [Callers -> Call] /\ call'[i] = c /\ \A j \in Callers \ {i} : call'[j] = call[j]
      BY <1>2, <2>2 DEF IInv, TypeOK
    <3>2. \A x : Checkpoint(x) => Checkpoint(x)'
      BY <1>1 DEF Checkpoint, Root
    <3>3. Sound(i)'
      BY <1>1, <1>2, <1>3, <2>2, <3>1, <3>2, MarkedKnows DEF Sound, Sending
    <3>4. QED
      BY <1>3, <2>2, <3>1, <3>3
  <2>3. QED
    BY <1>1, <2>1, <2>2
<1>5. \A j \in Callers \ {i} : Sound(j)'
  BY <1>3, <1>4, OthersStay
<1>6. QED
  BY <1>1, <1>4, <1>5, QuietStep

\* A mark is only taken off a task that no cutover waits for.
LEMMA HandleSound ==
  ASSUME IInv, NEW i \in Callers, Handle(i) PROVE IInv'
<1> DEFINE x == call[i].transition
           e == [tasks[x.task] EXCEPT !.adoption = None]
<1>1. /\ call[i].stage = "failed" /\ lock' = None /\ call' = [call EXCEPT ![i] = Idle]
      /\ UNCHANGED <<registered, proposals, unsettled>>
      /\ \/ x \notin Committed /\ tasks' = [tasks EXCEPT ![x.task] = e]
         \/ tasks' = tasks
  BY DEF Handle, MayUnmark, Put, lifecycle
<1>2. lock = i /\ x \in Proposed /\ tasks[x.task].adoption = x
  BY <1>1, MarkedKnows
<1> HIDE DEF x
<1>3. /\ x.task \in Tasks /\ Proposed' = Proposed /\ Committed' = Committed
      /\ \A y \in Proposed : y.task \in Tasks
  BY <1>1, <1>2, Shapes DEF IInv, TypeOK, Proposed, Committed
<1>4. call' \in [Callers -> Call] /\ \A j \in Callers : Sound(j)'
  BY <1>1, <1>2, <1>3, EndTypes, OthersStay
<1>5. CASE tasks' = tasks
  BY <1>1, <1>4, <1>5, QuietStep
<1>6. CASE x \notin Committed /\ tasks' = [tasks EXCEPT ![x.task] = e]
  <2>1. tasks[x.task] \in Task
    BY <1>3 DEF IInv, TypeOK
  <2>2. /\ e \in Task /\ e.channel = tasks[x.task].channel /\ e.last = tasks[x.task].last
        /\ e.status = tasks[x.task].status /\ e.version = tasks[x.task].version
        /\ e.review = tasks[x.task].review
    BY <2>1 DEF Task
  <2> HIDE DEF e
  <2>3. /\ tasks' \in [Tasks -> Task] /\ tasks'[x.task] = e
        /\ \A u \in Tasks \ {x.task} : tasks'[u] = tasks[u]
    BY <1>3, <1>6, <2>2 DEF IInv, TypeOK
  <2>4. TypeOK' /\ LineOfChannels'
    BY <1>1, <1>3, <1>4, <2>3 DEF IInv, TypeOK, LineOfChannels
  <2>5. TasksAreSound'
    BY <1>1, <1>3, <2>2, <2>3 DEF IInv, TasksAreSound
  <2>6. ReturnedWasReviewed'
    BY <2>2, <2>3 DEF IInv, ReturnedWasReviewed
  <2>7. ProgressIsKept'
    <3> SUFFICES ASSUME NEW y \in Proposed, Awaiting(y)'
                 PROVE  Kept(y)' /\ tasks'[y.task].adoption = y
      BY <1>3 DEF ProgressIsKept
    <3>1. Awaiting(y)
      BY <1>3, <2>2, <2>3 DEF Awaiting
    <3>2. y.task # x.task
      BY <1>2, <1>6, <3>1 DEF IInv, ProgressIsKept, Awaiting
    <3>3. Kept(y) /\ tasks[y.task].adoption = y /\ tasks'[y.task] = tasks[y.task]
      BY <1>3, <2>3, <3>1, <3>2 DEF IInv, ProgressIsKept
    <3>4. QED
      BY <1>1, <3>3 DEF Kept, Root
  <2>8. QED
    BY <1>4, <2>4, <2>5, <2>6, <2>7 DEF IInv
<1>7. QED
  BY <1>1, <1>5, <1>6

\* A resumption that starts, or ends without an effect.
LEMMA ResumeReadSound ==
  ASSUME IInv, NEW i \in Callers, NEW x \in Proposed, ResumeRead(i, x) PROVE IInv'
<1> DEFINE c == [Idle EXCEPT !.stage = "resuming", !.transition = x]
<1>1. /\ call[i].stage = "idle" /\ x \in Committed /\ call' = [call EXCEPT ![i] = c]
      /\ UNCHANGED <<registered, proposals, tasks, unsettled, lock>>
  BY DEF ResumeRead, lifecycle
<1>2. c \in Call /\ c.stage = "resuming" /\ c.transition = x
  BY DEF IInv, TypeOK, Idle, Call
<1> HIDE DEF c
<1>3. /\ call' \in [Callers -> Call] /\ call'[i] = c
      /\ \A j \in Callers \ {i} : call'[j] = call[j]
      /\ Proposed' = Proposed /\ Committed' = Committed
  BY <1>1, <1>2 DEF IInv, TypeOK, Proposed, Committed
<1>4. Sound(i)'
  BY <1>1, <1>2, <1>3 DEF Sound, Sending
<1>5. \A j \in Callers \ {i} : Sound(j)'
  BY <1>1, <1>3, SoundStays DEF IInv
<1>6. QED
  BY <1>1, <1>3, <1>4, <1>5, QuietStep DEF IInv, TypeOK

LEMMA ResumeEndsSound ==
  ASSUME IInv, NEW i \in Callers, ResumeEnds(i) PROVE IInv'
<1>1. /\ call' = [call EXCEPT ![i] = Idle]
      /\ UNCHANGED <<registered, proposals, tasks, unsettled, lock>>
  BY DEF ResumeEnds, lifecycle
<1>2. /\ call' \in [Callers -> Call] /\ Sound(i)'
      /\ \A j \in Callers \ {i} : call'[j] = call[j]
  BY <1>1, EndTypes
<1>3. \A j \in Callers \ {i} : Sound(j)'
  BY <1>1, <1>2, SoundStays DEF IInv, Proposed, Committed
<1>4. QED
  BY <1>1, <1>2, <1>3, QuietStep DEF IInv, TypeOK

\* A call that dies in any stage leaves nothing the others rely on.
LEMMA CrashSound ==
  ASSUME IInv, NEW i \in Callers, Crash(i) PROVE IInv'
<1>1. /\ lock' = IF lock = i THEN None ELSE lock
      /\ call' = [call EXCEPT ![i] = Idle]
      /\ UNCHANGED <<registered, proposals, tasks, unsettled>>
  BY DEF Crash, lifecycle
<1>2. /\ call' \in [Callers -> Call] /\ Sound(i)'
      /\ \A j \in Callers \ {i} : call'[j] = call[j]
      /\ Proposed' = Proposed /\ Committed' = Committed
  BY <1>1, EndTypes DEF Proposed, Committed
<1>3. \A j \in Callers \ {i} : Sound(j)'
  <2>1. CASE lock = i
    BY <1>2, <2>1, OthersStay
  <2>2. CASE lock # i
    BY <1>1, <1>2, <2>2, SoundStays DEF IInv
  <2>3. QED
    BY <2>1, <2>2
<1>4. lock' \in Callers \cup {None}
  BY <1>1 DEF IInv, TypeOK
<1>5. QED
  BY <1>1, <1>2, <1>3, <1>4, QuietStep

\* The task goes on along the new channel and waits for nothing more.
LEMMA ResumeApplySound ==
  ASSUME IInv, NEW i \in Callers, ResumeApply(i) PROVE IInv'
<1> DEFINE x == call[i].transition
           status == StatusAfterMove(tasks[x.task].status)
           e == [tasks[x.task] EXCEPT !.channel = New(x), !.last = x, !.review = None,
                                      !.status = status]
<1>1. /\ call[i].stage = "resuming" /\ lock = None /\ Checkpoint(x)
      /\ tasks' = [tasks EXCEPT ![x.task] = e] /\ call' = [call EXCEPT ![i] = Idle]
      /\ UNCHANGED <<registered, proposals, unsettled, lock>>
  BY DEF ResumeApply, Put, lifecycle
<1>2. x \in Committed
  BY <1>1 DEF IInv, Sound
<1> HIDE DEF x
<1>3. /\ x \in Transition /\ x.task \in Tasks /\ tasks[x.task] \in Task
      /\ x.old \in Nat /\ x.old >= 1 /\ x.old < MaxChannel /\ MaxChannel \in Nat
      /\ x.old < registered /\ registered \in Nat
      /\ Proposed' = Proposed /\ Committed' = Committed
      /\ \A y \in Proposed : y.task \in Tasks /\ y.old \in Nat
  BY <1>1, <1>2, Shapes, AdoptionAssumption
     DEF IInv, TypeOK, LineOfChannels, Proposed, Committed, Channels
<1>4. New(x) = x.old + 1 /\ New(x) \in Channels /\ New(x) <= registered
  BY <1>3 DEF New, Channels
<1>5. status \in {"REVIEW_PENDING", "REWORK_REQUIRED"}
  BY DEF StatusAfterMove
<1> HIDE DEF status
<1>6. /\ e \in Task /\ e.channel = New(x) /\ e.last = x /\ e.status = status
      /\ e.version = tasks[x.task].version /\ e.adoption = tasks[x.task].adoption
  BY <1>3, <1>4, <1>5 DEF Task, Statuses
<1> HIDE DEF e
<1>7. /\ tasks' \in [Tasks -> Task] /\ tasks'[x.task] = e
      /\ \A u \in Tasks \ {x.task} : tasks'[u] = tasks[u]
  BY <1>1, <1>3, <1>6 DEF IInv, TypeOK
<1>8. call' \in [Callers -> Call] /\ \A j \in Callers : Sound(j)'
  BY <1>1, <1>3, EndTypes, OthersStay
<1>9. TypeOK' /\ LineOfChannels'
  BY <1>1, <1>3, <1>7, <1>8 DEF IInv, TypeOK, LineOfChannels
<1>10. tasks[x.task].channel = x.old /\ tasks[x.task].status \in Movable
  BY <1>1 DEF Checkpoint
<1>11. TasksAreSound'
  <2>1. /\ e.channel <= registered /\ e.version \in Versions /\ e.last.old < e.channel
        /\ e.status # "ABSENT"
    BY <1>3, <1>4, <1>5, <1>6, <1>10 DEF IInv, TasksAreSound
  <2>2. \A y \in Proposed : y.task = x.task => y.old <= e.channel
    BY <1>3, <1>4, <1>6, <1>10 DEF IInv, TasksAreSound
  <2>3. QED
    BY <1>1, <1>3, <1>7, <2>1, <2>2 DEF IInv, TasksAreSound
<1>12. ReturnedWasReviewed'
  BY <1>5, <1>6, <1>7 DEF IInv, ReturnedWasReviewed
<1>13. ProgressIsKept'
  <2> SUFFICES ASSUME NEW y \in Proposed, Awaiting(y)'
               PROVE  Kept(y)' /\ tasks'[y.task].adoption = y
    BY <1>3 DEF ProgressIsKept
  <2>1. y.task # x.task
    <3>1. y.task = x.task => y.old <= x.old /\ y.old = x.old + 1
      BY <1>4, <1>6, <1>7, <1>10 DEF IInv, TasksAreSound, Awaiting
    <3>2. QED
      BY <1>3, <3>1
  <2>2. Awaiting(y)
    BY <1>3, <1>7, <2>1 DEF Awaiting
  <2>3. Kept(y) /\ tasks[y.task].adoption = y /\ tasks'[y.task] = tasks[y.task]
    BY <1>3, <1>7, <2>1, <2>2 DEF IInv, ProgressIsKept
  <2>4. QED
    BY <1>1, <2>3 DEF Kept, Root
<1>14. QED
  BY <1>8, <1>9, <1>11, <1>12, <1>13 DEF IInv

LEMMA NextSound == IInv /\ [Next]_vars => IInv'
<1> SUFFICES ASSUME IInv, [Next]_vars PROVE IInv'
  OBVIOUS
<1>1. CASE UNCHANGED vars
  <2>1. UNCHANGED <<registered, proposals, tasks, unsettled, lock, call>>
    BY <1>1 DEF vars
  <2>2. \A j \in Callers : Sound(j)'
    BY <2>1, SoundStays DEF IInv, Proposed, Committed
  <2>3. QED
    BY <2>1, <2>2, QuietStep DEF IInv, TypeOK
<1>2. CASE \E t \in Tasks :
             \/ Prepare(t) \/ Propose(t)
             \/ \E v \in Versions : SetArtifact(t, v)
             \/ \E pass \in BOOLEAN : ObserveReview(t, pass)
             \/ \E i \in Callers : DispatchGoal(i, t) \/ SendForReview(i, t) \/ ReturnResult(i, t)
  BY <1>2, PrepareSound, ProposeSound, SetArtifactSound, ObserveReviewSound, StartSound, ReturnSound
<1>3. CASE \E x \in Proposed :
             \/ \E what \in {"reads", "directions"} : Observe(x, what)
             \/ \E i \in Callers : Mark(i, x) \/ ResumeRead(i, x)
  BY <1>3, ObserveSound, MarkSound, ResumeReadSound
<1>4. CASE \E i \in Callers :
             \/ EndSend(i) \/ FailSend(i)
             \/ Commit(i) \/ CommitAgain(i) \/ CommitFails(i) \/ Handle(i)
             \/ ResumeApply(i) \/ ResumeEnds(i) \/ Crash(i)
  BY <1>4, EndSendSound, FailSendSound, CommitSound, CommitEndsSound, HandleSound,
     ResumeApplySound, ResumeEndsSound, CrashSound
<1>5. CASE \E r \in unsettled : Reconcile(r)
  BY <1>5, ReconcileSound
<1>6. QED
  BY <1>1, <1>2, <1>3, <1>4, <1>5 DEF Next

\* Whichever process runs, fails or dies between two steps, the two stores stay
\* in agreement (continuity.py and task_flow.py together).
THEOREM AdoptionInvariant == Spec => []IInv
<1>1. Init => IInv
  BY InitSound
<1>2. IInv /\ [Next]_vars => IInv'
  BY NextSound
<1>3. QED
  BY <1>1, <1>2, PTL DEF Spec

\* Both stores, the open deliveries and the calls keep their shapes.
THEOREM AdoptionTypes == Spec => []TypeOK
<1>1. IInv => TypeOK
  BY DEF IInv
<1>2. QED
  BY <1>1, AdoptionInvariant, PTL

\* Between the cutover and its resumption a task is frozen exactly where its
\* packet says, under the mark of that transition (commit_verified, `entry`).
THEOREM FrozenWhereThePacketSays == Spec => []ProgressIsKept
<1>1. IInv => ProgressIsKept
  BY DEF IInv
<1>2. QED
  BY <1>1, AdoptionInvariant, PTL

\* A result leaves only with a review of that artifact by the reviewer of the
\* channel it leaves on (observe_review, return_result, resume_verified).
THEOREM ResultsAreReviewed == Spec => []ReturnedWasReviewed
<1>1. IInv => ReturnedWasReviewed
  BY DEF IInv
<1>2. QED
  BY <1>1, AdoptionInvariant, PTL

\* No channel is left by two tasks (propose, commit_candidate).
THEOREM ChannelIsLeftOnce == Spec => []OneCutoverPerChannel
<1>1. IInv => OneCutoverPerChannel
  BY DEF IInv, LineOfChannels, OneCutoverPerChannel, Committed
<1>2. QED
  BY <1>1, AdoptionInvariant, PTL

\* A task that was cut over can be resumed, unless the project went on with the
\* transition of another task (resume_verified, commit_candidate).
THEOREM ResumableOrOvertaken == Spec => []ResumableUnlessOvertaken
<1>1. IInv => ResumableUnlessOvertaken
  <2> SUFFICES ASSUME IInv, NEW x \in Proposed, Awaiting(x), registered # New(x)
               PROVE  \E y \in Committed : y.old = New(x) /\ y.task # x.task
    BY DEF ResumableUnlessOvertaken
  <2>1. /\ x.old \in Nat /\ x.old >= 1 /\ x.old < MaxChannel /\ MaxChannel \in Nat
        /\ x.old < registered /\ registered \in Nat
    BY Shapes, AdoptionAssumption DEF IInv, TypeOK, LineOfChannels, Awaiting, Channels
  <2>2. New(x) = x.old + 1 /\ New(x) \in Channels /\ New(x) < registered
    BY <2>1 DEF New, Channels
  <2>3. PICK y \in Committed : y.old = New(x)
    BY <2>2 DEF IInv, LineOfChannels
  <2>4. y.task = x.task => y.old <= x.old
    BY DEF IInv, TasksAreSound, Awaiting, Committed
  <2>5. QED
    BY <2>1, <2>2, <2>3, <2>4
<1>2. QED
  BY <1>1, AdoptionInvariant, PTL

\* A delivery starts on the route of a task that is not frozen.
LEMMA DeliveriesStart ==
  ASSUME IInv, [Next]_vars, NEW r \in unsettled', r \notin unsettled
  PROVE  \E t \in Tasks : ~Frozen(t) /\ r = Root(t)
<1>1. PICK i \in Callers, t \in Tasks : DispatchGoal(i, t) \/ SendForReview(i, t) \/ ReturnResult(i, t)
  BY DEF Next, vars, Prepare, Propose, SetArtifact, ObserveReview, Observe, Mark, ResumeRead, EndSend,
         FailSend, Commit, CommitAgain, CommitFails, Handle, ResumeApply, ResumeEnds, Crash, Reconcile
<1>2. QED
  BY <1>1 DEF DispatchGoal, SendForReview, ReturnResult, MayWork, Start

\* No delivery of a task starts on a channel it was cut over from, as long as it
\* was not resumed, and none afterwards (the frozen routes, `entry`).
THEOREM RetiredStaysSilent == Spec => NoSendToRetired
<1> DEFINE Silent == \A x \in Committed :
                        <<x.task, x.old>> \in unsettled' => <<x.task, x.old>> \in unsettled
<1>1. IInv /\ [Next]_vars => Silent
  <2> SUFFICES ASSUME IInv, [Next]_vars, NEW x \in Committed, <<x.task, x.old>> \in unsettled',
                      <<x.task, x.old>> \notin unsettled
               PROVE  FALSE
    OBVIOUS
  <2>1. PICK t \in Tasks : ~Frozen(t) /\ <<x.task, x.old>> = Root(t)
    BY DeliveriesStart
  <2>2. x \in Proposed /\ x.task = t /\ Awaiting(x)
    BY <2>1 DEF Root, Awaiting, Committed
  <2>3. QED
    BY <2>1, <2>2, AwaitingIsFrozen
<1>2. QED
  BY <1>1, AdoptionInvariant, PTL DEF Spec, NoSendToRetired
=============================================================================
