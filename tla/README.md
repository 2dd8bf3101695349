# Verification of XINGSHU-Core

This directory holds a TLA+ development of the collaboration runtime and the
context runtime of this repository. Paths below are relative to the repository
root.

## The system

A project is worked on in several AI chats. The runtime carries messages
between chats, keeps the evidence of each delivery, creates and adopts successor
chats, and drives one business loop (dispatch, execute, review, return) across
them. Everything runs in foreground processes that a host or a person starts;
there is no daemon, and every durable fact lives in hash-chained snapshot
directories guarded by `flock`. A second part of the repository, `xingshu_core`,
resolves authoritative project context from files and validates decisions.

| Component | Source | State it keeps | Operations |
|---|---|---|---|
| snapshot store | `src/xingshu_collaboration/state.py` | `snapshot-NNNNNN.json` chain, `*.pending` | `records`, `load`, `save` |
| delivery root | `connections/transport.py`, `connections/ports.py`, `connections/contracts.py` | journal (`seen_events`, `outbox`, connection identity), `relay.lock` | `deliver`, `record_host_acceptance`, `record_submission`, `send` |
| host ports | `connections/native_chat_port.py`, `jsonrpc_port.py`, `codex_app_host.py`, `stdio_host.py` | the baseline and the record of one call | `preflight`, `checkpoint`, `submit`, `observe` |
| reconciliation, migration | `connections/reconcile.py`, `connections/migration.py` | the delivery root | `reconcile_observation`, `migrate_legacy_state` |
| continuation | `connections/continuation.py` and its browser driver | one queue entry per dispatch, a one-time token | enqueue, prepare, finish, consume |
| chat lifecycle | `router/lifecycle.py`, `router/host_lifecycle.py` | operation intents and created ids | `ensure_project`, `create_successor`, `reconcile_creation` |
| continuity | `router/continuity.py`, `router/online_continuity.py` | registrations, proposals, adoptions per channel | `propose`, `observe_read`, `observe_direction`, `commit_candidate`, `effective_return` |
| coordinator | `router/coordinator.py`, `router/contracts.py`, `router/router.py` | task state and artifact of each task | `prepare`, `dispatch_goal`, `set_artifact`, `observe_review`, `return_result`, `commit_verified`, `resume_verified` |
| current chat, catalogue, installation | `router/current_chat.py`, `router/codex_app_catalog.py`, `installation.py`, `cli.py` | read-only views, installation record | discovery, registration, install |
| context runtime | `src/xingshu_core/context_runtime.py`, `runtime_host.py`, `runtime_contracts.py` | none durable; the records and the clock of one call | `resolve_local`, `resolve_registered_context` |
| file adapter | `src/xingshu_core/local_filesystem_adapter.py`, `obsidian_bridge.py` | identity of the root directory | `execute`: one bounded read |
| evidence checks | `src/xingshu_core/authority_validation.py` (P2D), `source_adapter_validation.py` (P2C), `resolve_context_validation.py` (P2E) | none | `validate_reference_authority`, `validate_source_adapter_exchange`, `validate_resolve_context_exchange` |
| record validators | `context_bridge_validation.py`, `validator.py`, `strict_validation.py`, `decisions.py`, `schema_registry.py` | none | pure checks of single records |

### What is hard in it

* Delivery. The chat that takes a message gives no message identity back, may
  answer late or not at all, and other people type into it. The process can die
  between any two effects. The journal is the only memory.
* Snapshot store. A write can stop before its rename, and a document can outgrow
  the size limit in the middle of a protocol.
* Lifecycle, continuity and coordinator each have their own store and lock, and
  one business step often changes two of them.
* Online continuity composes all of them: any number of calls may prepare, read,
  probe and register the same handover, while business goes on.
* The context runtime reads several files that may change while it reads, and its
  clock moves between the permission and the disclosure.
* The file adapter works on names and handles of a live file system. Between any
  two system calls the file, its name or a directory above it may be another one.
* The check of an answer works on incomplete evidence. It has three outcomes and
  nine reasons, and a missing part must not change "true" into "refused".

## Modules

| Module | Models |
|---|---|
| `AtMostOnce` | what a delivery root promises: messages are new, open, delivered; one open at a time; at most one input each |
| `Delivery` | the delivery root: journal, pending file, relay lock, callers, host ports, reconciliation, migration, peer chat |
| `DeliveryProofs` | the inductive invariant and the theorems about `Delivery`, and the refinement of `AtMostOnce` |
| `Lifecycle` | creation of projects and successor chats, renaming, late proof of a creation |
| `Continuation` | the queue of continuation events and the drivers that spend them |
| `HostRequestProofs` | what the host of the chats is asked for: the invariants and the theorems about `Lifecycle` and `Continuation` |
| `Adoption` | moving a running task to the successor of its channel: continuity manager and task coordinator, two stores and two locks |
| `TaskLoop` | the business loop of one task: goal, artifact, review, result, on one delivery root |
| `TaskLoopProofs` | the invariant and the theorems about `TaskLoop` |
| `HandoverProofs` | the invariant and the theorems about `Handover` |
| `AdoptionProofs` | the invariant and the theorems about `Adoption` |
| `LocalReadProofs` | the invariant and the theorems about `LocalRead`, and the refinement of `SourceRead` |
| `ContextHostProofs` | the invariant and the theorems about `ContextHost`, and when each of the three checks passes |
| `EvidenceProofs` | which issues P2D, P2C and P2E find when parts are missing, and the theorems about `Evidence` |
| `Handover` | online continuity: handing a channel over to new pages, with the continuity manager and the handoff transport |
| `SourceRead` | what one read of a source promises: a whole content the entry had, or an error |
| `LocalRead` | the read of the file adapter, system call by system call, and an owner who changes the file system |
| `Authority` | P2D as operators: the issues of a chain of authority |
| `SourceExchange` | P2C as operators: the issues of one exchange with an adapter; extends `Authority` |
| `ResolveEvidence` | P2E as operators: the issues of an answer, given what evidence there is; extends `SourceExchange` |
| `Evidence` | a world of owner, source and resolver around `ResolveEvidence` |
| `ContextHost` | one call of the local host, around `ResolveEvidence` |
| `MC...` | the instance of each of these that TLC checks: symmetry sets, the intents of `Lifecycle`, the name spaces of `LocalRead` |

Definitions called "seeded fault" in the modules are not part of the model.
Each is a plausible bug in the operator it precedes; `PROJECT.json` lists which
property finds it when it takes that operator's place.

In every module a process is a `Callers` or `Drivers` element. What it does
between two effects that another process, the host or a restart can see is one
step. A call that is refused before any effect changes nothing and is a
stuttering step, unless the call has a local state to give up, where the refusal
is an action of its own.

### Delivery

`journal` is the state document of the last sealed snapshot, `torn` the existence
of a `*.pending` file, `lock` the owner of `relay.lock`, `call[i]` the local
variables of one run of `PortConnection.send`, `host` and `visible` the peer
chat (inputs taken, inputs a read returns), `told` what callers were answered.

Checking the journal and sealing the intent (`transport.py:69-93`) is one step,
`Begin`, because the lock is taken without waiting before the journal is read and
is kept until the call ends. After it each effect is its own step: the baseline,
the submission, the acceptance record, the search of the new record, the
submission record, the acknowledgement. `Crash` may come between any two of them.
A save has three outcomes: sealed (`Seal`), stopped before the rename (`Tear`) and
refused because of its size (`Refuse`). `Fail` stands for every check of the host
callback and for the 120 s deadline.

Abstracted: payloads are model values (equal texts have equal digests), a
connection identity is a model value for the endpoint pair with generations, and
the size of a snapshot is the number of facts recorded in it. The code does not
compare sizes in this way; what matters is that each record of evidence makes
the document longer while the statuses of an open entry have equal
length (`IN_FLIGHT`, `SUBMITTED`, `UNCERTAIN`).

### Lifecycle

`operations` is the operation journal of `ProjectLifecycle`, keyed by the spec
whose digest is the operation id. For a successor the spec holds the chats of the
catalogue the caller read (`baseline`), for a project or a rename it does not.
`lock` owns `lifecycle.lock`, `call[i]` is one call. `maker` and `title` are the
host's projects and chats, `shown` is what the catalogue answers; `Appear` lets
it lag behind the host one entry at a time. `told` collects what callers were
given, for which intent, and whether from the journal or from the catalogue.
`named` is a history of the names projects and chats have had at the host,
`overlapped` one of the handoffs for which two calls were under way at once;
`OneSuccessorInTurn` speaks about the other handoffs, each by itself.

A call takes the lock more than once, and anything may happen in between. A
successor and a new project have two sections: `Choose` (look for an operation of the
same intent, `lifecycle.py:239-248` and 202-232) and `Submit` to
`Conclude`/`Doubt` (`_create`). A registered project (`RENAME`) has three: an
operation that created a project of the same name and trigger comes first
(`Choose` with `EarlierProject`, `lifecycle.py:206-211`; `PassProject` if there
is none), then a rename on record or a new one (`ChooseRename`, 212-225), then
`_create`. If the project has the name and no operation was to rename it, it is given back as
it is, without any entry in the journal (`AnswerRegistered`, line 226); this is
the one answer that the journal does not back. The host creates, renames, does nothing or hands
back an existing chat, and its answer may be lost. The owner may rename the
registered project by hand (`ForeignRename`). `Reconcile` is
`reconcile_creation`, `Crash` a process death or a save that raises.

What callers are told is compared with the host and with the journal
(`AnswersAreTrue`), and a successor with the whole catalogue its intent was
written against (`SuccessorIsNew`).

Abstracted: `terms` stands for the owner trigger and the topic, which a repeated
intent must not change; the structure of the evidence is left out, what it can
name (`EvidenceOf`) is not. A catalogue reading is atomic, and of it a call keeps what
it uses (`Seen`): the chats, or the projects of the name it asks for.

### Continuation

`event[m]` is the continuation event in the delivery journal with the holder of
its one-time token, `expired` the tokens past 120 s. Per driver and message,
`flow` is where `dispatch` stands, `token` whether the driver got the envelope,
`sighted` the turn `confirmConsumed` is about to report. `wakes`, `agreed` and
`ran` are the host's side.

Every `await` of `continuation_driver.cjs` ends a step, so two dispatches, a stop
and a restart interleave. `Restart` forgets the token and the set of attempted
messages, as a new host session does. Store calls run under `relay.lock`, so each
is one step, and may also be refused. `Report` is `finish` called by the host
outside a dispatch. Names that `Lifecycle` has as well start with `Queue` here
(`QueueSpec`, `QueueTypeOK`), since one proof module extends both.

### Adoption

Two stores take part. The lifecycle store has the registered channel
(`registered`, a generation) and the proposed transitions (`proposals`); all its
sections (`ContinuityManager.propose`, `observe_*`, `commit_candidate`) are
single steps because nothing else happens while its lock is held. The business store
has the tasks; its lock is held across a whole send and across `commit_verified`,
so it is the variable `lock`. `unsettled` names the delivery roots with an open
message. No action changes both stores.

`Mark`, `Commit`/`CommitAgain`/`CommitFails` and `Handle` are `commit_verified`:
the mark is saved, the lifecycle store is switched, and the exception handler
reads the registration back before it takes the mark off. A save that raises after
its rename makes `Commit` go on to `Handle`. `ResumeRead`
and `ResumeApply` are the two sections of `resume_verified`.

Abstracted: a transition is named by its packet, that is the task with its
progress and the channel it leaves; the new channel is the next generation, so
two successors of one channel have one name. Evidence is the two kinds that
`commit_candidate` asks for. The drain check reads the roots at `Commit`, since
the host promises to keep its fence from the check to the cutover. Sends of all
kinds use one root per task and channel, whatever their connection (`TaskLoop` has
that detail).

### TaskLoop

One task on one route. `origin` is the chat it came from: the executor, the
reviewer or a third chat of the project. `entry` is the task in the business
store, `conn` and `journal` are the delivery roots by name, `received` the inputs
the chats took. A root is named by the route of the task (`coordinator.py:97`), so
goal, review and result share it, and it belongs to the first connection that was
used on it.

A send is `DispatchGoal`, `SendForReview` or `ReturnResult`, then `Begin`,
`Submit`, `Acknowledge`, `Conclude`, with `Fail` at any point. This is the
delivery of module `Delivery` with its effects on other messages only: intent,
input, acknowledgement, late `Reconcile`. `ReturnResult` saves the id and the
text of the result before the send; a result for the executor itself is answered
in place and only reserved.

### Handover

Three operations of `OnlineContinuity` on a channel without a business coordinator
(`Adoption` has the other case). `registered`, `proposals`, `returns` and
`operations` are the journal of the lifecycle; every section under its lock is a
step. `pages` numbers the chats as they are made, `inputs` and `probes` are what the
handoff transport has observed, `busy` the generations with an unsettled business
delivery, `fence` the host's promise. `call[i]` is where a process stands.

`PrepareOnSignal`, `Drain`, `CreateSuccessor`, `VerifySuccessor`, `Prove`, `Propose`
are `prepare_on_signal`; `SendPacket` is one message of `send_checkpoint`;
`Complete`, `ObserveRead`, `Probe`, `ObserveDirection`, `Fence`, `CommitCandidate`
are `complete_candidate`. `Stop` ends a call at any point, as a refusal or a process
death does, and with it its fence.

Abstracted: a message is one step (`Delivery` has its parts, and shows that the
fixed ids of packet and probe are inputs once); the catalogue is never behind;
a packet is its task, its channel and the return address it names. A third read, of an
origin that is no page of the channel, is never required, because the new origin is
then the effective one (`continuity.py:190-195`).

### LocalRead

`names` is the name space (place to node), `content` and `stamp` the files and their
change times, `reader` the local variables of `execute` and `_read`, `seen` a history:
what the places showed since the last byte was read. Each system call is an action;
between any two, `Owner` may write, rename, link, symlink or unlink. A node is its
device and inode. A handle keeps its node.

`Promise` maps `seen` to the contents the entry had in this time, following the path
name by name, below the root the adapter was made for; a directory was reached if there is
a route to it each of whose names was seen to lead to the next directory. `ReadsOneMoment` is the
refinement: what is returned is one of them. The content is in units, of which the
adapter reads one at a time and at most one more than the limit; `CallFails` is a
system call with an error of its own. Clocks and ids of the answer are in `ContextHost`.

### Authority, SourceExchange, ResolveEvidence

A check is the set of issues it finds, and `Decide` ranks them as `finish` does. An
issue is named for the relation that fails, because P2E tells them apart by path. A
part can be there, `Absent`, `Broken` (no object of its contract) or `TooLarge`.
Bytes are the record they are parsed into and a fingerprint is the text it was taken
of, so equality of fingerprints is equality of texts. Only `read` and `stat` of the
operations of an adapter are told apart. Times are numbers.

The order of the code is kept where it shows: P2C ends at a missing part, at an
invalid part and at an issue of the answer itself, before it looks at the exchange.

### Evidence

The owner changes a record, rebinds or reroutes; the source answers; then one answer is
given, honest or not, and `Withhold` takes parts of the evidence away, one at a
time. `True` says, from the world and without the checks, whether the answer
is right, and `Needed` the parts without which an answer of its kind cannot be accepted: all of the
authority, for a result the whole exchange and its event, for a reason of the source
the exchange without its bytes, except where the bytes are the reason.
`AcceptedExactlyWhenTrue` compares verdict, truth and missing parts in both directions.

The world is one reference, one profile, the bindings made of them, and the values listed under
`Shapes`; `TypeOK` says that no history leaves these (a theorem; no run lists it).

### ContextHost

`Load` is `_load_json`, once per record of the owner; `Ask` the request and the gate
of P2D before the read; `Fetch` the read (a `SourceRead`: one text or none); `Reply` what
the adapter makes of it; `Settle` everything after it, with P2C, the gate at
the second moment, and P2E. `records` and `torn` are the files, `now` the clock,
`ever` and `during` the trios of records that were in the files together, ever
and since the first load. No file is read twice, so the owner acts while the
call loads; a later change cannot be seen and would be no different from one after
the call. Three adapters stand behind the call: the local one, the one for Obsidian vaults,
and any other, whose replies may be distorted and which may answer any error.

Two limits meet: `Limits` are those of the requests, `HardBytes` the one the
adapter was configured with; both are constants, and `SourceRequest` asks for the lower of
the two (`context_runtime.py:121`). `Served` has each `INVALID_INPUT` for records that are in force:
another reference, hints, policies this runtime does not serve (94-96), more
than one entry, one with a wildcard (106), one outside of the reference or the binding. `CodesOf` says
which errors an adapter of the host answers, given what it read: for no text,
`NoText` or `source_unavailable`, and `limit_exceeded` without a read if the entry is `Deep`
(`local_filesystem_adapter.py:263-267`); for a text above the limit `limit_exceeded`; for any
text `source_unavailable` if the file changed under the read, and
`provenance_unavailable` if the observation got no id.

`Shapes` lists the values each part of a call can have, as sets; `MarksAreApart` says that
what marks a part as absent or spoiled is none of them.

Assumed: a binding is made by the owner from the records in the files, and a
published record differs from all before it. `Restore` puts an earlier record back, as a
backup would.

## What is checked

| Run | Instance | Shows |
|---|---|---|
| `delivery` | 2 callers, 2 messages, 2 texts, 2 connections, 3 native inputs, a journal bound of 7 facts | all safety properties of a delivery root, that no call keeps the lock, and that the root implements `AtMostOnce` |
| `lifecycle` | 2 callers, one successor, one project, one registered project of the same name, two natives to create | one creation per operation, final records; what callers are told is true and stays backed, a successor was in no catalogue of its intent; a handoff for which no two calls overlap has one successor |
| `successor_race` | 2 callers, three successor intents (two share a handoff) | violated: see the findings |
| `continuation` | 3 drivers, 1 message, 2 turns | a message wakes the model at most once, only an observed turn consumes it |
| `adoption` | 2 callers, 2 tasks, 1 version, 3 generations | progress is frozen between cutover and resumption, no send on a retired channel, a result has a review of its own channel, one cutover per channel; an interrupted adoption can be resumed as long as no other task moved the channel on |
| `stranded_adoption` | the instance of `adoption` | violated with two tasks: see the findings |
| `task_loop` | 2 callers, 2 chosen ids beside the goal's, 2 texts, 2 versions, three origins | one result, of the accepted version, counted as returned only if received; one open message over the whole task |
| `third_chat` | the same | violated: see the findings |
| `local_read` | a path of one directory below the root, five name spaces, two files, four contents, a limit of 2 units, 2 changes | the adapter implements `SourceRead`; without changes its answers are exact |
| `evidence` | every answer, and 3 changes of the owner or parts withheld | an answer is accepted exactly when it is true and no part it needs is missing; a missing part makes no answer accepted, and no true one refused |
| `context_host` | 3 records, 17 requests with limits of 1 and 3, an adapter with a limit of 2, texts of 0 to 3 units, 3 adapters, 3 changes, moments 0 to 2, one step back of the clock | what is disclosed was in force at both moments under records that belonged together, and within both limits; failures name their cause |
| `handover` | 2 callers, 2 tasks, 3 generations, 4 pages | no open delivery at a cutover, both ends have read and answered; results follow the pages their task moved to |

### Bounds, and why they are enough

* Two processes. The locks admit one process at a time; a third would act as one
  of the two before or after its call. `Continuation` gets three drivers because a
  driver's state outlives its call (a token).
* `Delivery`: two messages are needed for one to be open while another is asked
  for, two texts for a changed payload or a collision, two connections for a
  foreign route, three inputs for one of each message and a stranger's. A journal
  bound of 7 is one less than the eight facts two settled messages need, so both
  the room for a full delivery and the refusal at each later save occur.
* `Lifecycle`: two natives beyond the registered ones let one operation create and
  a stranger's chat, or a second operation, compete; `successor_race` has three. The project
  and the rename ask for one name, so that each may find what the other did: 1.2 million states.
* `Adoption`: three generations allow two adoptions in a row, the least for one
  task to overtake another; two tasks with one version keep the run below 300,000
  states.
* `TaskLoop`: two versions and two ids allow rework, and a reused or changed id.
  `received` is a set; a second input of one id is marked `again`.
* `LocalRead`: one change is needed to leave the path and one to come back, so two
  let the owner undo what he did between two system calls. The limit of 2 and contents
  of 1, 2 and 3 units give the exact fit and the overflow; one unit is not UTF-8. The
  name spaces start whole, with a link, with a second link to the file, with a
  directory of another device and with the root moved away.
* `Evidence`: `MaxChanges` bounds changes of the owner and missing parts together.
  Three changes reach a binding that was made anew for a changed reference and outdated
  again; two with one part missing, one with two, and three parts missing of the first
  records are the other ends.
* `ContextHost`: three changes are one more than two, the least to change two records
  between two loads; moments 0 to 2 let a profile be in force, expire between the two
  gates or before the first. Texts of none to three units, a limit
  of 2 in the adapter and of 1 and 3 in the requests: each of the two is the lower one, with texts
  below, at and above it, and one above the adapter's but within the request's. 3.2 million states. When all is loaded, no step and
  no property looks at the files again; the view of `MCContextHost` leaves them out
  from there, which merges only states that cannot be told apart any more.
* `Handover`: three generations let a task be handed over twice, and another task
  in between; four pages are the two of the channel and two successors.
* Counters: only `wakes` in `Continuation` grows, and the property that it is at
  most 1 bounds it. `MaxChannel`,
  `JournalBound`, `MaxChanges`, `MaxTime`, `MaxGen` and `MaxPages` are the named bounds.

Symmetry is used for processes, tasks, versions, ids, texts and natives that no
definition distinguishes, only in runs without liveness (`delivery` uses none).
`CHOOSE` in `Lifecycle` is over a set of at most one element.

`CHECK_DEADLOCK FALSE` stands in every configuration: these systems end. All
messages settled or journal torn, every native created, every generation used up
are legal final states.

### Fairness

Only `LockIsReleased` needs it: `FairSpec` adds weak fairness of `Step(i)`, the
steps a running call takes by itself. It says that a live process keeps running
and that each wait has an end, which the 120 s deadline of the ports provides
(`Fail` is then the enabled step). Nothing is assumed about the host, the chat,
reconciliation or a later call.

Every other property is a safety property and needs none.

## What is proved

TLAPS checks these for all values of the constants that satisfy the named
assumptions of the modules.

`DeliveryProofs`. The inductive invariant is `IInv`. The properties alone are not
inductive, because what may be done to a message depends on where the call that
sends it stands. Its parts are

* `LockOwner`: a caller that is not idle owns the lock, so there is one at most;
* `OutboxIsOpen`: the outbox holds exactly the unsettled messages, one at most;
* `CallsAreSound`: per stage, what the journal says of the message of the call
  (a call before its submission has an `IN_FLIGHT` message without input);
* `Evidence` and `ChatIsSound`: what is recorded of a message is a visible input
  of the chat with its text, and what the chat has of a message belongs to the
  journal;
* `ConnIsSound`: a journal without an identity is empty, and one from before
  identities names no native input.

From it follow `TypeOK`, the five other invariants of the run, the two action
properties, and `RelayKeepsPromise`: `Spec` implements `AtMostOnce!Spec` under
the mapping of `Delivery`, which drops the stages of a call, torn snapshots,
reads of the chat and the inputs of strangers.

`TaskLoopProofs`. The properties speak of inputs the chats took, but what a later
call does depends on the receipt and on the task entry. `IInv` ties the three:
an input has a receipt with its event (`Backed`), a settled receipt has an input
and one receipt is open at most (`RootIsSound`), the status of the task says
which review and which result it has (`TaskIsSound`), and a running call owns the
lock and, per stage, its receipt and its input (`Running`). The step that answers
from a settled receipt rests on `EventNames`: an event determines the kind and
the text of its message, because it contains the binding and the target; with the
text alone (the seeded fault `EventOfText`) a review request could stand for a
result.

`HandoverProofs`. `CutoverIsDrained` needs to know that a call at its commit holds the
fence, and that its drain is still true because business stays away from a fenced
channel (`Sound`, `FenceIsHeld`), and that a direction is recorded only after its probe
(`Coherent`). `ReturnFollows` needs to know where a page comes from: one page is of one
operation, and a page made for a generation that is still to be replaced was never
registered nor taken off (`PagesAreSound`); with the lineage a proposal was made with, still
true as long as its channel is registered (`Coherent`), neither end of the new channel nor
an address outside of it can be a page the task was moved from.

`HostRequestProofs`, `Lifecycle`. `CreatedAtMostOnce` needs to know that a call that is about to ask the
host still holds the lock and that its operation is `SUBMITTING` and has made nothing (`Sound`),
so a repeated call, which finds that operation, never reaches the host. What the journal has as
applied is none of the catalogue its intent was written against, and a project in it has had the
name at the host (`JournalIsSound`, `Fits`); the catalogue shows no name that was never borne
(`NamesAreSound`), which also covers the answer that leaves no trace in the journal: the call that
gives it has seen the project under that name (`SeenIsSound`). Hence `AnswersStayTrue`. A successor's
intent is only written against a catalogue that shows the predecessor, hence `SuccessorIsNew`.
`TurnsAreKept` carries the sequential part, handoff by handoff: until two calls for it overlap, a
handoff has one operation and a call that found none is still right, whatever calls for other
intents do. The finding `successor_race` is what lies beyond it.

`HostRequestProofs`, `Continuation`. The invariant is `QueueInv` (theorem `TokenInvariant`): only the driver instance
that prepared an event can be past `preparing` for it, and the stage of its single
dispatch bounds what was asked of the host (`Dispatched`) and what the journal may
record (`Recorded`). From it follow at-most-once waking, that acceptance was
agreed, that a consumption names a turn that ran, and the two action properties.

`AdoptionProofs`. No step changes both stores, so the invariant says what each may assume of the
other. `LineOfChannels`: every channel before the registered one was left by exactly one
committed transition, and what is not committed leaves the registered one. `TasksAreSound`:
no task is ahead of the registration, each has left the channel of the transition it was last resumed
with, and a transition is proposed only from where its task was. With `ProgressIsKept` a task
whose transition is committed is frozen (`AwaitingIsFrozen`), which keeps sends, reviews,
other marks and the unmarking handler away from it; `Sound` says that a marked call still finds
its task at the checkpoint when it commits. The line of channels also names who overtook a
task that cannot be resumed (`ResumableUnlessOvertaken`).

`LocalReadProofs`. Two threads run through the invariant. As long as the file has the change
time of the first `fstat`, the bytes so far are a prefix of its content, and after the second
`fstat` they are its content (`BytesAreSound`); every write raises the change time, so the
code may compare that alone. The other thread is the history: whatever the owner does, each name
the second walk has passed was seen with the node the handle has (`HandlesAreSound`,
`HistoryIsSound`), hence at the last look the entry was reached from the root by places seen since the
last byte. Together they give `ReadImplementsPromise`: the bytes are one content the entry had, and a step
of the call maps to a step of `SourceRead` or to a stutter. `QuietAnswersAreExact` adds that without
changes the walk is the only way along the path (`QuietIsSound`). One thing the proof showed about the
model itself: the history must keep directories of another device above the root, or a root path
of several names could not be followed through them; the instance TLC explores, with a root path
of one name, could not tell.

`ContextHostProofs`. `FilesAreSound` says what the owner guarantees: each binding was in the files
together with the two records it names. The code reads three files at three times and compares
fingerprints, nothing more; that this is enough is the step `LoadBindingSound`. The binding that was
read names a trio that was in the files together. If nothing was put back, newer records have greater
revisions (`NoNewer`). If that trio was gone before the first load, then its binding and its profile, which
were still found later, were the ones in the files at the first load, and so was the
reference: the trio was there at that moment after all. `GateIsStanding` says that the gate passes exactly if the records are
in force, so its two moments are those of `InForce`; from a pass of the exchange and of the verdict
follow the text, the limit, the entry and the order of times. The converse is the longer half:
`HonestExchange`, `HonestRefusal` and `HonestDisclosure` show that no issue of P2C or P2E arises
from what an adapter of the host answers when no clock was set back, for any text and
record. So `FailuresSayWhy` does not blame the evidence wrongly. `SourceRequestSound` has the
two limits: what is asked of the source is within both and equal to one of them, so that a text above
it is above one of the two (`BlamedSource`), and a text that is disclosed within both
(`ExchangedIsRead`). Nothing is assumed of how they compare. What an
adapter that is not the host's says of limits and sources is its own business. With it came the exception
the run lacked: an empty text is refused as `validation_failure` (`context_runtime.py:183`), and the
instance now has one.

These two invariants were checked with TLC before they were proved, on the instances of the runs (that
of `ContextHost` with two changes and without the view).

`EvidenceProofs`. The verdict is a function of the records, the answer and what is withheld, so the
invariant `IInv` is small: everything has its shape, the binding was made of some earlier records by
`BindingOf` (`BindingIsMade`), and the verdict is the one of the present evidence. The work is in the
operators, and it is done once, for any parts missing:

* `ChainIsFound`, `AuthorityIsFound`: P2D reports a relation of the chain exactly if the relation does not
  hold and both its sides are there, and it reports each missing part as missing, nothing else.
* `ExchangeIsFound`: the same for P2C, along its early ends.
* `RefusalIsSettled`, `FailureIsSettled`, `ResultIsSettled`: what P2E concludes from these for a
  refusal by the authority, a failure of the source and a result. An answer passes
  exactly if it is true and all of `Needed` is there.

Together they give `Judged` in every reachable state (`EvidenceIsJudged`), which is `AcceptedExactlyWhenTrue`
and more: a true answer without entangled reasons is never refused, whatever is missing. With it
`WithholdingLeavesOpen` needs no history at all. The theorems hold for any number of changes and of
missing parts, in any order; the run has three in all.

Two things in the model were put right because the proof did not go through. `ReasonHolds` was a
`CASE` whose guards overlap for `source_unavailable`, which means an arbitrary choice in TLA+ and the
first guard for TLC; it now says which reason comes first, as `FromSource` does in the code.
And two `UNION {...} \cup ...` in `ResolveEvidence`, which the tools group differently, have parentheses.
`AcceptedExactlyWhenTrue` used to speak of complete evidence only; it now names the needed parts.

Only model-checked: `LockIsReleased`, since liveness under fairness is beyond the prover. All invariants and
action properties of the passing runs are theorems.

The assumptions are those of the modules: the values that stand for "none" are
not ordinary values (a name, a spec, a transition, an error, a node), `TaskLoop` says so of its
records and pairs too and `ContextHost` and `Evidence` of every shape a part of the evidence can have (`MarksAreApart`), and
`Authority` that an absent part is not a spoiled one (`MarksDiffer`); there is at
least one text an entry may have; `MaxPayload` admits one item; the limits of `ContextHost` are positive.

## Findings

1. `successor_race`. `create_successor` lets go of the lifecycle lock between
   looking for an operation of the handoff and writing its own, and the operation
   id covers the catalogue that was read. Two processes with different readings
   create two successors for one handoff; every later call is refused as
   ambiguous. The continuity document promises that a repeated call first checks
   existing operations.
2. `stranded_adoption`. After the cutover of task A and before its resumption a
   second task can be prepared on the new channel and moved on. A then keeps its
   adoption mark and can neither be resumed (registration drift) nor committed again nor
   worked on. The coordinator promises recovery under the same mark. Unless it is overtaken,
   an adoption always recovers (`ResumableUnlessOvertaken` of `adoption`).
3. `third_chat`. The delivery root of a task is named by the route alone but
   remembers one connection. A task from a third chat needs two, so after a
   delivered review request its result can no longer be returned.

Observations without a run of their own, each the exception of a property:

* P2E, evidence with a part missing (`Entangled` in `Evidence`). A mismatch of a binding
  that is out of date as well is accepted with all the evidence, but without the
  profile it counts as contradicted and is refused (`resolve_context_validation.py:657`, with
  the comment at 618: missing parts must not erase a contradiction of what is
  there). And a source that is registered as unavailable is a reason of the authority; without
  the reference the same code is taken for a reason of the source, which needs an eligible authority. No
  code is ever supported by an expired or inactive profile.
* Return addresses (`ReturnFollows` in `Handover`). `propose` makes a return address
  follow the pages its own task is moved from. If another task's handover took the
  page off the channel, the address stays on it. `docs/PROJECT_CONVERSATION_CONTINUITY.md`
  line 65 promises an address that is still valid; it does not say for whom.
* Records put back (`DisclosedInForce` in `ContextHost`). The three files are read one
  by one. If the owner puts an earlier record back in between, the trio that was read may have
  been in force together before the call but not during it.

Smaller remark, without a run: `SKILL.md` line 56 names an operation
`TaskCoordinator.resume_adopted`; the code has `resume_verified`.

## What is not modelled

The components table of `PROJECT.json` gives the state of each part.

* The snapshot store by itself. Every caller in the code holds a lock when it saves, so two
  savers never meet; what a single save can do to its caller is in `Delivery`.
* Current chat and mirror. It looks up and creates chats through the operations of
  `Lifecycle` and compares the registration again in its last section. Its own part is the
  comparison of names, paths and scopes of two catalogues.
* The stdio bridge: one request and one answer at a time, with the request's number. A
  lost or late answer of a host is in the ports of `Delivery`.
* Installation and binding: files that are written once, by one person at a time.
* `context_bridge_validation.py`, `validator.py`, `strict_validation.py`: stateless checks of
  single records, whose content is formats, fields and messages.
* Command lines, the encoder of control messages, schemas, prompts, packaging scripts.
* In the evidence checks: parsing of bytes, the limits of copying, and the operations
  `list` and `capabilities` of an adapter.
* In `ContextHost`, errors of the adapter for requests the runtime never makes (another
  operation, scope or root).
* The windowed read of the Codex app host (last turn only) is covered only in that an
  input may stay invisible in `Delivery`.

Hazards that no property covers are listed in `PROJECT.json` with the reason.

## Plan

What would come next, in the order of importance:

1. The current chat branch of `Handover`, with the read of the result's origin as a
   third page and the mirror's registration.
2. `SnapshotStore`: the chain of snapshots and its leftovers; an abstract register it
   implements, for the three outcomes `Delivery` uses.
3. The operations `list` and `stat` of an adapter in `SourceExchange`.

Proof modules stay separate from the modules TLC explores.
