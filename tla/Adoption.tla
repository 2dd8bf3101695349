------------------------------ MODULE Adoption ------------------------------
(***************************************************************************)
(* Moving a running task to the successor of its channel.                  *)
(*                                                                         *)
(* Two stores take part, each with its own lock.  The lifecycle store      *)
(* holds the registered channel of the project and the proposed            *)
(* transitions (ContinuityManager); the business store holds the tasks     *)
(* (TaskCoordinator).  A transition is committed in the first store; the   *)
(* task is frozen by a mark in the second before that, and thawed by       *)
(* resume_verified afterwards.  No step changes both stores.               *)
(*                                                                         *)
(* Lifecycle sections are single steps.  The business lock is held over    *)
(* several steps by a send and by commit_verified, so it is a variable.    *)
(* Catalogue readings, evidence formats and a busy lifecycle lock are      *)
(* reasons to refuse, which any step may meet.                             *)
(***************************************************************************)
EXTENDS Naturals

CONSTANTS
  Callers,     \* foreground processes
  Tasks,       \* task ids, all with the same coordinator root
  Versions,    \* artifact versions
  MaxChannel,  \* bound: generations of the channel
  None         \* no value

ASSUME AdoptionAssumption ==
  /\ MaxChannel \in Nat \ {0}
  /\ None \notin Callers \cup Tasks \cup Versions

VARIABLES
  registered,  \* lifecycle store: generation of the registered channel
  proposals,   \* lifecycle store: transition -> evidence and status
  tasks,       \* business store
  unsettled,   \* <<task, channel>> roots with a delivery that is not ACKED
  lock,        \* who holds flock(task.lock)
  call         \* per caller, the local state of its call

vars == <<registered, proposals, tasks, unsettled, lock, call>>

Channels == 1..MaxChannel
Statuses == {"ABSENT", "PLANNED", "GOAL_INPUT_OBSERVED", "REVIEW_PENDING",
             "REVIEW_ACCEPTED", "REWORK_REQUIRED", "RETURN_PREPARED",
             "RETURN_INPUT_OBSERVED"}
Movable == {"REVIEW_PENDING", "REVIEW_ACCEPTED", "REWORK_REQUIRED"}

\* A transition is named by its packet: the task with its progress, and the
\* channel it leaves.  Its new channel is the next generation.
Transition == [task : Tasks, old : Channels, status : Statuses, version : Versions \cup {None}]
ASSUME NoneIsNoTransition == None \notin Transition
New(x) == x.old + 1
Proposal == [evidence : SUBSET {"reads", "directions"}, committed : BOOLEAN]

\* `review` is the channel and the artifact version of the recorded review.
Review == [channel : Channels, version : Versions]
Task == [status : Statuses, channel : Channels, version : Versions \cup {None},
         review : Review \cup {None}, adoption : Transition \cup {None},
         last : Transition \cup {None}]
Absent == [status |-> "ABSENT", channel |-> 1, version |-> None, review |-> None,
           adoption |-> None, last |-> None]

Call == [stage : {"idle", "goal", "review", "return", "marked", "failed", "resuming"},
         task : Tasks \cup {None}, transition : Transition \cup {None}]
Idle == [stage |-> "idle", task |-> None, transition |-> None]
Sending == {"goal", "review", "return"}

Proposed == DOMAIN proposals
Committed == {x \in Proposed : proposals[x].committed}
Root(t) == <<t, tasks[t].channel>>

-----------------------------------------------------------------------------
(* TaskCoordinator: the business of a task                                 *)

\* Seeded fault: a task is frozen only once its transition has been resumed
\* before, as if the mark of a first adoption were forgotten.
FrozenAgain(t) ==
  tasks[t].adoption # None /\ tasks[t].last \notin {None, tasks[t].adoption}

\* The adoption mark of a transition the task was not yet resumed with.
Frozen(t) == tasks[t].adoption # None /\ tasks[t].last # tasks[t].adoption

\* `entry`: every operation of a task needs it prepared and not frozen.
MayWork(t) == lock = None /\ tasks[t].status # "ABSENT" /\ ~Frozen(t)

Put(t, new) == tasks' = [tasks EXCEPT ![t] = new]
lifecycle == <<registered, proposals>>

\* prepare: the task is planned on the registered channel.
Prepare(t) ==
  /\ lock = None /\ tasks[t].status = "ABSENT"
  /\ Put(t, [Absent EXCEPT !.status = "PLANNED", !.channel = registered])
  /\ UNCHANGED <<lifecycle, unsettled, lock, call>>

SetArtifact(t, v) ==
  /\ MayWork(t)
  /\ tasks[t].status \in {"PLANNED", "GOAL_INPUT_OBSERVED", "REWORK_REQUIRED"}
  /\ tasks[t].version # v
  /\ Put(t, [tasks[t] EXCEPT !.version = v, !.review = None, !.status = "REVIEW_PENDING"])
  /\ UNCHANGED <<lifecycle, unsettled, lock, call>>

\* observe_review: a decision of the reviewer of the current route about the
\* current artifact.
ObserveReview(t, pass) ==
  /\ MayWork(t) /\ tasks[t].status = "REVIEW_PENDING"
  /\ Put(t, [tasks[t] EXCEPT !.review = [channel |-> tasks[t].channel, version |-> tasks[t].version],
                             !.status = IF pass THEN "REVIEW_ACCEPTED" ELSE "REWORK_REQUIRED"])
  /\ UNCHANGED <<lifecycle, unsettled, lock, call>>

\* A delivery starts on the root of the route; it is refused while another one
\* of that root is open.
Start(i, t, kind) ==
  /\ Root(t) \notin unsettled
  /\ unsettled' = unsettled \cup {Root(t)}
  /\ lock' = i
  /\ call' = [call EXCEPT ![i] = [Idle EXCEPT !.stage = kind, !.task = t]]

\* dispatch_goal: a resumed task does not get its goal a second time.
DispatchGoal(i, t) ==
  /\ call[i].stage = "idle" /\ MayWork(t)
  /\ tasks[t].last = None
  /\ Start(i, t, "goal")
  /\ UNCHANGED <<lifecycle, tasks>>

\* The guarded connection to the reviewer.
SendForReview(i, t) ==
  /\ call[i].stage = "idle" /\ MayWork(t)
  /\ Start(i, t, "review")
  /\ UNCHANGED <<lifecycle, tasks>>

\* return_result fixes the message of the result before it is sent; the send
\* may be refused (host not ready, result answered in place).
ReturnResult(i, t) ==
  /\ call[i].stage = "idle" /\ MayWork(t)
  /\ tasks[t].status \in {"REVIEW_ACCEPTED", "RETURN_PREPARED"}
  /\ Put(t, [tasks[t] EXCEPT !.status = "RETURN_PREPARED"])
  /\ \/ Start(i, t, "return")
     \/ UNCHANGED <<unsettled, lock, call>>
  /\ UNCHANGED lifecycle

\* The peer input was observed: the delivery is ACKED and the task moves on.
EndSend(i) ==
  LET t == call[i].task  kind == call[i].stage
      s == CASE kind = "goal" /\ tasks[t].status = "PLANNED" -> "GOAL_INPUT_OBSERVED"
             [] kind = "return" -> "RETURN_INPUT_OBSERVED"
             [] OTHER -> tasks[t].status
  IN  /\ kind \in Sending
      /\ unsettled' = unsettled \ {Root(t)}
      /\ Put(t, [tasks[t] EXCEPT !.status = s])
      /\ lock' = None /\ call' = [call EXCEPT ![i] = Idle]
      /\ UNCHANGED lifecycle

\* It was not: the delivery stays open, or only its receipt was recorded.
FailSend(i) ==
  /\ call[i].stage \in Sending
  /\ \/ unsettled' = unsettled
     \/ unsettled' = unsettled \ {Root(call[i].task)}
  /\ lock' = None /\ call' = [call EXCEPT ![i] = Idle]
  /\ UNCHANGED <<lifecycle, tasks>>

\* Late evidence settles an open delivery.
Reconcile(r) ==
  /\ r \in unsettled /\ \A i \in Callers : call[i].stage \in Sending => Root(call[i].task) # r
  /\ unsettled' = unsettled \ {r}
  /\ UNCHANGED <<lifecycle, tasks, lock, call>>
-----------------------------------------------------------------------------
(* ContinuityManager: proposing a successor channel                        *)

\* The channel left is the registered one and nobody else is leaving it.
MayPropose(x) ==
  /\ x.old = registered /\ x.old < MaxChannel
  /\ \A y \in Proposed : y.old = x.old => y \in Committed

\* propose: the packet carries the progress of the task as it is now.
Propose(t) ==
  LET x == [task |-> t, old |-> tasks[t].channel,
            status |-> tasks[t].status, version |-> tasks[t].version]
  IN  /\ tasks[t].status # "ABSENT"
      /\ x \notin Proposed /\ MayPropose(x)
      /\ proposals' = [y \in Proposed \cup {x} |->
                         IF y = x THEN [evidence |-> {}, committed |-> FALSE] ELSE proposals[y]]
      /\ UNCHANGED <<registered, tasks, unsettled, lock, call>>

\* observe_read, observe_direction: the reads, and the probes of both
\* directions, of the successor channel are recorded.
Observe(x, what) ==
  /\ x \in Proposed \ Committed
  /\ proposals' = [proposals EXCEPT ![x].evidence = @ \cup {what}]
  /\ UNCHANGED <<registered, tasks, unsettled, lock, call>>
-----------------------------------------------------------------------------
(* commit_verified                                                         *)

\* _check_business_checkpoint: the task is where the packet says, its result is
\* not on its way, and no delivery of its old route is open.
Checkpoint(x) ==
  /\ tasks[x.task].channel = x.old
  /\ tasks[x.task].version = x.version /\ tasks[x.task].status = x.status
  /\ x.status \in Movable
  /\ Root(x.task) \notin unsettled

\* The mark of the adoption is saved before the lifecycle store is touched; a
\* committed transition must have been marked before.
Mark(i, x) ==
  /\ call[i].stage = "idle" /\ lock = None /\ x \in Proposed
  /\ \/ x \in Committed /\ tasks[x.task].adoption = x /\ tasks' = tasks
     \/ /\ x \notin Committed /\ Checkpoint(x)
        /\ Put(x.task, [tasks[x.task] EXCEPT !.adoption = x])
  /\ lock' = i
  /\ call' = [call EXCEPT ![i] = [Idle EXCEPT !.stage = "marked", !.transition = x]]
  /\ UNCHANGED <<lifecycle, unsettled>>

\* Seeded fault: the transition is committed and its channel not registered.
CutoverOneEnd(x) ==
  /\ proposals' = [proposals EXCEPT ![x].committed = TRUE]
  /\ UNCHANGED registered

\* One snapshot registers the new channel and commits the transition.
Cutover(x) ==
  /\ proposals' = [proposals EXCEPT ![x].committed = TRUE]
  /\ registered' = New(x)

\* commit_candidate: compare and swap of the registered channel, with all
\* evidence, and with the old channel drained under the fence of the host.
\* A save that raises after its rename takes the exception path.
Commit(i) ==
  LET x == call[i].transition
  IN  /\ call[i].stage = "marked" /\ x \notin Committed
      /\ registered = x.old
      /\ proposals[x].evidence = {"reads", "directions"}
      /\ \A t \in Tasks : <<t, x.old>> \notin unsettled
      /\ Cutover(x)
      /\ \/ lock' = None /\ call' = [call EXCEPT ![i] = Idle]
         \/ lock' = lock /\ call' = [call EXCEPT ![i].stage = "failed"]
      /\ UNCHANGED <<tasks, unsettled>>

\* It was committed before and the registration still shows it.
CommitAgain(i) ==
  /\ call[i].stage = "marked"
  /\ call[i].transition \in Committed /\ registered = New(call[i].transition)
  /\ lock' = None /\ call' = [call EXCEPT ![i] = Idle]
  /\ UNCHANGED <<lifecycle, tasks, unsettled>>

CommitFails(i) ==
  /\ call[i].stage = "marked"
  /\ call' = [call EXCEPT ![i].stage = "failed"]
  /\ UNCHANGED <<lifecycle, tasks, unsettled, lock>>

\* Seeded fault: the handler takes the mark off without reading the
\* registration again.
UnmarkAlways(x) == TRUE

\* Only a transition that is read back as not committed loses its mark.
MayUnmark(x) == x \notin Committed /\ registered = x.old

\* The exception handler; it leaves the mark if it cannot read the store.
Handle(i) ==
  LET x == call[i].transition
  IN  /\ call[i].stage = "failed"
      /\ \/ MayUnmark(x) /\ Put(x.task, [tasks[x.task] EXCEPT !.adoption = None])
         \/ tasks' = tasks
      /\ lock' = None /\ call' = [call EXCEPT ![i] = Idle]
      /\ UNCHANGED <<lifecycle, unsettled>>
-----------------------------------------------------------------------------
(* resume_verified                                                         *)

\* Under the lifecycle lock, which is released: the transition is committed
\* and the registration still shows its new channel.
ResumeRead(i, x) ==
  /\ call[i].stage = "idle"
  /\ x \in Committed /\ registered = New(x)
  /\ call' = [call EXCEPT ![i] = [Idle EXCEPT !.stage = "resuming", !.transition = x]]
  /\ UNCHANGED <<lifecycle, tasks, unsettled, lock>>

\* Seeded fault: an accepted review survives the move to another reviewer.
StatusAsBefore(s) == s

\* The new reviewer has to look at the artifact again.
StatusAfterMove(s) == IF s = "REWORK_REQUIRED" THEN s ELSE "REVIEW_PENDING"

\* Under the business lock: the task continues on the new channel, once.
ResumeApply(i) ==
  LET x == call[i].transition  t == x.task
  IN  /\ call[i].stage = "resuming" /\ lock = None
      /\ tasks[t].last # x
      /\ Checkpoint(x)
      /\ Put(t, [tasks[t] EXCEPT !.channel = New(x), !.last = x,
                                !.review = None, !.status = StatusAfterMove(@)])
      /\ call' = [call EXCEPT ![i] = Idle]
      /\ UNCHANGED <<lifecycle, unsettled, lock>>

\* It was resumed before, or is refused.
ResumeEnds(i) ==
  /\ call[i].stage = "resuming"
  /\ call' = [call EXCEPT ![i] = Idle]
  /\ UNCHANGED <<lifecycle, tasks, unsettled, lock>>

\* A process dies: the kernel drops its lock, the stores keep what was saved.
Crash(i) ==
  /\ call[i].stage # "idle"
  /\ lock' = IF lock = i THEN None ELSE lock
  /\ call' = [call EXCEPT ![i] = Idle]
  /\ UNCHANGED <<lifecycle, tasks, unsettled>>

Init ==
  /\ registered = 1 /\ proposals = [x \in {} |-> None]
  /\ tasks = [t \in Tasks |-> Absent]
  /\ unsettled = {} /\ lock = None
  /\ call = [i \in Callers |-> Idle]

Next ==
  \/ \E t \in Tasks :
       \/ Prepare(t) \/ Propose(t)
       \/ \E v \in Versions : SetArtifact(t, v)
       \/ \E pass \in BOOLEAN : ObserveReview(t, pass)
       \/ \E i \in Callers : DispatchGoal(i, t) \/ SendForReview(i, t) \/ ReturnResult(i, t)
  \/ \E x \in Proposed :
       \/ \E what \in {"reads", "directions"} : Observe(x, what)
       \/ \E i \in Callers : Mark(i, x) \/ ResumeRead(i, x)
  \/ \E i \in Callers :
       \/ EndSend(i) \/ FailSend(i)
       \/ Commit(i) \/ CommitAgain(i) \/ CommitFails(i) \/ Handle(i)
       \/ ResumeApply(i) \/ ResumeEnds(i) \/ Crash(i)
  \/ \E r \in unsettled : Reconcile(r)

Spec == Init /\ [][Next]_vars
-----------------------------------------------------------------------------
(* Properties                                                              *)

\* Shapes of both stores, the open deliveries and the calls.
TypeOK ==
  /\ registered \in Channels
  /\ Proposed \subseteq Transition
  /\ \A x \in Proposed : proposals[x] \in Proposal
  /\ tasks \in [Tasks -> Task]
  /\ unsettled \subseteq Tasks \X Channels
  /\ lock \in Callers \cup {None}
  /\ call \in [Callers -> Call]

\* A committed transition its task has not been resumed with.
Awaiting(x) == x \in Committed /\ tasks[x.task].channel = x.old

\* The task is where the packet says, its result is not on its way, and no
\* delivery of its old route is open.
Kept(x) ==
  LET e == tasks[x.task]
  IN  /\ e.status = x.status /\ e.version = x.version
      /\ e.status \notin {"RETURN_PREPARED", "RETURN_INPUT_OBSERVED"}
      /\ Root(x.task) \notin unsettled

\* Between cutover and resume the task is frozen exactly where its packet says,
\* whichever process or handler ran in between (lines 54-57, 189-208, 235).
ProgressIsKept == \A x \in Proposed : Awaiting(x) => Kept(x) /\ tasks[x.task].adoption = x

\* No delivery of a task starts on a channel it was cut over from (the frozen
\* routes of commit_verified and resume_verified).
NoSendToRetired ==
  [][\A x \in Committed : <<x.task, x.old>> \in unsettled' => <<x.task, x.old>> \in unsettled]_vars

\* A result leaves only with a review of that artifact by the reviewer of the
\* channel it leaves on.
ReturnedWasReviewed ==
  \A t \in Tasks : tasks[t].status \in {"REVIEW_ACCEPTED", "RETURN_PREPARED", "RETURN_INPUT_OBSERVED"} =>
    tasks[t].review = [channel |-> tasks[t].channel, version |-> tasks[t].version]

\* No channel is left by two tasks at once: of the transitions from a channel
\* one at most was committed, and it names the next generation.
OneCutoverPerChannel ==
  \A x, y \in Committed : x.old = y.old => x = y

\* A process can be killed between the cutover and the resumption of a task;
\* repeated with the same adoption mark, the resumption goes through: the
\* registration still shows the new channel and the task is as it was.
AdoptionIsResumable ==
  \A x \in Proposed : Awaiting(x) => registered = New(x) /\ Kept(x)

\* What does hold: a task whose transition was committed is still resumable, or
\* the registration went on with the transition of another task; neither a
\* commit that stopped half-way nor the task itself takes the channel away.
ResumableUnlessOvertaken ==
  \A x \in Proposed : Awaiting(x) =>
    registered = New(x) \/ \E y \in Committed : y.old = New(x) /\ y.task # x.task
=============================================================================
