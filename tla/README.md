# A TLA+ model of SEAgent's task pipeline

SEAgent is a dialogue server for planning and executing underwater robot tasks. A
user fills in a task in conversation, the task is validated against the state of
the robots, published as an official file, and dispatched to ROS 2; afterwards the
user may pause, abort or cancel it. The server runs many requests at once on
threads, several server processes may share one result directory, and what is
durable is a handful of JSON files written with rename, link and fsync under file
locks. This directory holds TLA+ modules for the parts of the program where those
facts, or long sequences of turns, decide whether it is right: **the way of a task
from a chat request to the robot**, and **the planning of the draft** on that way.
TLC checks every module on small instances; TLAPS proves the safety properties of
all of them but one for every size.

Paths below are relative to the repository (`src/src/...` is its Python package).

## 1. The system

| Part | State it keeps | Operations | Hard behaviour | What makes it correct |
|---|---|---|---|---|
| Chat requests, session registry (`web/routes/chat.py`, `web/state.py`) | id → manager map under `_sessions_lock`; per-manager `_session_lock` | turn, reset, state query | reset or reload while turns wait; retries that race with the first attempt | a turn works on the registered manager or not at all; no lock cycle |
| Replay cache (`web/chat_request_cache.py`) | recent requests with outcome, bounded in number, age, bytes | get, put | failure after mutation, retry, eviction | a remembered request is not applied twice |
| Streaming (`web/chat_stream.py`) | worker semaphore, progress queue, two events | start, report, deliver | slow or vanishing client, full queue, thread that does not start | capacity is exact; facts only after the commit; no turn waits for its reader |
| Configuration reload (`hot_reload.py`) | the set of live managers | migrate every session | reload between a lost answer and its retry | nothing answered is lost; old confirmations are stale |
| Confirmation token (`session/ui_state_builder.py`) | digest of what is shown | issue, compare | task or evidence changes between summary and confirmation | only what was shown is published |
| Slots and equipment cascade (`slots/`, `handlers/equipment/`, `handlers/extraction/`, `handlers/slot_filling.py`) | slots with provenance, version | transactional turn, cascade of selectors, automatic choice | a level that fails half way, values bound automatically, turns that restate or refuse | one line of the fleet; nothing guessed, nothing the user chose undone |
| Time edits (`temporal/`) | start, end, duration of the draft | ground, shift, derive | a statement, a shift and the model's own proposal for one field | what is held stays, a shift is applied once, what is refused is not done |
| Phase machine, constraint decision (`session/session_state.py`, `handlers/constraint_decision.py`) | phase, violations, acknowledgements, whitelist | judge, acknowledge, refresh, publish gate | telemetry moves a session at any moment | no phase without its evidence; no publication past a constraint |
| Id sequences (`dispatch/storage/id_sequence.py`) | counter file, cache in memory | reserve | failing write, deleted file, several processes, end of the range | an id is handed out once |
| Publication (`handlers/task_commit.py`, `dispatch/task_intent_builder.py`, `atomic_task_storage.py`) | staging and official files, `TaskPublishLock`, pending artifact | confirm, recover | copies of one draft, fsync that fails after the link, crash, power loss | an official file is permanent, "done" is durable |
| History (`session/history_manager.py`, `dialogue_snapshot.py`) | snapshot files | save, open in a new session | stale copies of a session come back to life | a restored session tells the truth |
| Dispatch (`dispatch/task_dispatch.py`, `mcp/ros-mcp/core/bridge_service.py`) | send records, ROS id counter | dispatch | crash around the socket write, failed record writes, two processes | at most once, and evidence that says so |
| Execution control (`handlers/lifecycle/execution_control.py`, `dispatch/execution_state.py`) | control record per intent | pause, abort, cancel, stop | races with dispatch, commands whose delivery is unknown | a withdrawal is true and final |
| Robot state store (`state_info.py`) | state per robot with version | set status, read | several processes, failing replacement, crash | what was told is kept; one version names one state |
| Bridge connection (`bridge_service.py`, `rosbridge_client.py`, `web/routes/mcp.py`) | rosbridge client, gateway, configuration file | start, replace, persist, undo, watch | gateway requests overlapping a file reload, lost links | one live connection; the service keeps the client of its configuration |
| Telemetry tracker (`task_status_tracker.py`) | last status per ROS id | status message | duplicated and late messages | a receipt is evidence of a send |

Routing, extraction, grounding, the recognition of times, knowledge queries, speech
recognition, translation and the browser's rendering are functions of text and
configuration; for the parts above they are a source of arbitrary edits.
`PROJECT.json` lists every part with its files and status.

How the parts interact: a request thread (chat route, or a stream worker) takes the
session lock, checks the registry, and runs the manager's handlers in it. A turn
grounds the message, applies it to a copy of the slots, lets the equipment cascade
and the time edits complete them, commits the copy and judges it against the
constraints. A confirmation takes the publish lock inside the session lock; the edge
into *done* saves the history and dispatches, under the guard of the intent and then
the record lock of the bridge. Telemetry enters by another thread, which changes the
robot state store and then refreshes every live manager under its session lock.
Reload and reset go through the registry. Sessions of one intent (copies opened from
history, in any process) meet only in the files.

## 2. Modules

| Module | Models | Proofs | Abstract specification |
|---|---|---|---|
| `TaskDispatch` | dispatch and execution control of all sessions | `TaskDispatchProofs` | `SendOnce` |
| `TaskPublication` | ids, publication, history | `TaskPublicationProofs` | |
| `ChatSessions` | requests of one session id, reset, reload, telemetry | `ChatSessionsProofs` | |
| `ChatStream` | streamed requests | `ChatStreamProofs` | |
| `RobotState` | the robot state file | `RobotStateProofs` | `VersionedRegister` |
| `BridgeConnection` | the client of the gateway and its replacement | `BridgeConnectionProofs` | |
| `RobotSelection`, `EquipmentCascade`, `TaskDraft` | the fleet; what a turn does to the selectors; the turns of a draft | `TaskDraftProofs` | |
| `ConstraintDecision` | phases, constraints, acknowledgements, the gate | `ConstraintDecisionProofs` | |
| `TimeEdit` | start, end and duration over a turn | none yet | |

`MC…` modules hold the constants for TLC. A proof module EXTENDS the module it is
about; the three modules of the draft EXTEND each other in the order given. The
modules do not share variables: each contains the part of its neighbours that it
depends on (a publication in `ConstraintDecision` is what `TaskPublication` shows in
detail, a turn of `ChatSessions` is one of `TaskDraft`).

### TaskDispatch

*State.* `disk` and `diskFile` are `.mcp_dispatch_records.json` (with its absence and
damage), `known` the processes that remember records while no file exists, `idSeq`
the counter file, `ctl` the control record and `history` the snapshot of each intent,
`archived` the published intents, `bridge` whether a process runs and has a bridge
object, `guard` and `recLock` the two locks, `pc`, `disp` and `last` what a manager
holds (`ros2_dispatch`, `last_control_request`). `robot`, `wire` and `told` are what
left through the socket.

*Actions* follow `dispatch_completed_task` and `BridgeService.dispatch_intent` from
step to step: `DispatchBegin` (guard, control record), `CheckRecord` (the record
that decides), `Gate` (the risk review, a refusal or not), `Reserve` (id and
durable SENDING), `Publish` (the socket: sent, failed before the write, or unknown),
`RecordSent`/`RecordFailed`. `ControlBegin` … `ControlSave` are the control handler
in the same way; `GuardFails` is either of the two when the guard's file or the control
record cannot be read; `Restore` opens history; `Manage` is the administration endpoint;
`Crash`, `Start`, `Damage`, `Repair` are the environment. Every write has three
outcomes: done, failed, and raised although it reached the disk.

*Abstractions.* Which of several control records a session reads, the text of
answers, the schedule time of a task and the risk review's content. The robot side
is the set of ids it received; it may report any of them.

### TaskPublication

*State.* `counter` and `memory` (the id counters on disk and cached by process),
`staged`, `files`, `synced` (what survives a power loss), `pubLock`, `version` of the
robot, `saved` (every snapshot a history file has held, because entries are copied
under other names), `draft`, `pc`, `work` (the locals of a confirmation), `issued`
(history variable).

*Actions.* `FillSlots`, `RefreshConstraints` (telemetry), `Reset`, `OpenHistory`,
`Confirm` → `ReserveTask` → `Recheck` → `CreateStaging` → `GuardVersion` → `Link` →
`Sync` → `SaveHistory`, with the rollback of the handler on each failing step;
`AnswerPending` and `Recover` are further messages to a session whose publication
could not be confirmed. `Crash`, `PowerLoss`, `LoseCounters`, `SetStatus` are the
environment. `Telemetry` says whether telemetry moves phases: it does where pending
artifacts are at stake (`publish_pending`); ids and files do not depend on it, and
the other runs leave it out.

*Abstractions.* One day and one robot; previews of ids and the internal id are left
out; a rejected draft is a reset one; `blocked` stands for `blocked_soft` and
`blocked_hard`; the phase table is the one used without `session_state_v2`.

### ChatSessions

*State.* `registry`, `regLock`, the session `lock`, `draft` and `cache` of each
manager ever made, `ask` and `tok` of each request id, and the threads (`pc`, `job`,
`mgr`). A draft is what a confirmation token binds: edits applied, validation
evidence, done or not. `prompt` says whether everything happens within the time and
byte limits of the caches. `root`, `turns`, `accepted`, `published` are histories.

*Actions.* `Send`, `Resend`, `Start` (clients); `Lookup`, `Find`, `Enter`, `Check`
(the registry and the lock); `Look` (replay, stale confirmation) and `Process` (the
turn, which may fail after it took effect); `Reset`, `Refresh`, `Migrate`.

*Abstractions.* One session id: sessions share only the registry lock. A request id
is used with one text, so the conflict answer does not occur. The reload lock and
the list of further sessions a reload visits are left out: the model lets reloads
overlap, which the code does not. A turn is one step, since it holds the lock.

### ChatStream

*State.* `free` (the semaphore), `worker`, `reader` and `held` (the generator
suspended at a yield), `progress`, `completed`, `left` (the event `disconnected`),
`outcome`, `todo`, `sent`, `reported`.

*Actions.* The worker: `Acquire`, `StartThread`, `Report`, `EndTurn`, `Release`,
`Complete`, `Wake`. The generator: `Hello`, `Test`, `Get`, `Heartbeat`, `Deliver`.
The connection: `Resume` (took the frame) and `Disconnect`, only at a yield or before
the first one, as with Python generators. One `slot` and one `delta` frame stand for
any number. `EndTurn` is the whole turn's end: the turn itself is `ChatSessions`.

### RobotState and VersionedRegister

*State.* `file` (the parsed state file: store version, and version and content of each
robot), `lock` (`.state.yaml.lock`), `pc` and `job` of each client (the file contents
it read and wrote), `seen` (what it was last told), `told` (history). The file
starts with `Initial`, so it may hold robots that have left the fleet.

*Actions.* `Begin` (the lock is granted), `Refuse` (unknown selector, stale expected
version), `Prepare` (next contents and temporary file), `Replace`, `Verify` (read back
and answer), `Restore` (the old bytes, or the removal of a file that did not exist),
`Read`, `Crash`. Each file operation may fail, `Replace` before or after it took effect.
`VersionedRegister` is what readers rely on: a write adds one to one robot's version
and leaves the others alone. A reader sees the file, or the file before the update
that may still be put back (`Visible`), because it waits for the lock.

### BridgeConnection

*State.* `conn` (each rosbridge client: open, lost or closed, gateway, subscriptions,
whether its tracker has started), `svc` (the service's client and configuration),
`file` and `changed` (`ros2_runtime.yaml` and its modification time), `error`, and
`pc`/`job` of the threads that replace the client.

*Actions.* `Start`; `Ask`, `Look`, `Reconnect`, `PersistRead`, `PersistWrite` of a gateway request
(which reads host, port and mode to go back to one by one, so that they may be of two
gateways, and starts over towards the old gateway to undo a switch); `Wake`, `Load`, `Finish` of the watcher; the replacement that both
share: `Connect`, `Subscribe`, `Swap`, `Retire`; `Edit` is the operator,
`LinkLost` the network. Every operation of a replacement may fail.

*Abstractions.* `stop()`, retries of `start()`, the override of the gateway by
`MCP_HOST`, service calls and recorded dynamic messages. Without `stop()` the branch of
`reload_runtime_config` for a service that does not run cannot be reached
(`WatchedServiceRuns`).

### RobotSelection, EquipmentCascade, TaskDraft

`RobotSelection` holds the fleet as a tree of classes, families, variants and units,
and the questions asked of it: what a task and its present parameters leave open
(`Domain`), and which line of the tree a set of selectors names (`Canonical`).
`EquipmentCascade` is what a turn does to the selectors: `HandleEquipmentUpdates` is
the explicit selection (a fence without leave to overwrite, then one level after the
other, dropped as a whole when a level is refused), `AutoCollapse` the automatic choice (reset what it
recomputes, drop what the task no longer admits or what disagrees with a selector above it, fill
in ancestors, bind only candidates). `TaskDraft` is the draft over its turns.

*State.* `task`, `reserved` (the id is not a preview), `slots`, `down` (units out of
use), `said` (history).

*Actions.* `Turn` (one message: the task type, the payload edit evaluated in the state
the turn leads to, values taken back, the transaction, validation, the second
automatic choice), `ReserveId`, `Report`, `NewTask`. A turn is one step because it
works on a copy under the session lock.

*Abstractions.* Names and aliases are resolved; a message is any of the updates in
`Inputs`; two fields stand for the parameters (`depth`, which restricts the robots, and
`start`, which decides whether telemetry counts); errors in the fleet's data, the
confirmation of a conflict, inferring the task from a robot, and the
`session_state_v2` path are left out. The model keeps that the candidates are
computed before stale selectors, and with them a payload, are dropped. A payload is checked
against what the chosen robots list; where they list nothing, any payload is valid
(`Allowed`), and `PayloadCarried` is about robots that list some. An edit of the payload adds,
removes, replaces, sets or clears, and leaves it alone when its operation is none of these.

### ConstraintDecision

*State.* `phase`, `draft`, `blocking`, `counts` (refused attempts), `acks` and
`whitelist` (what was accepted), `val` (last validation), `gate` (a publication between
the two questions of its gate), `pub` (the publication under way), telemetry `sea`/`sver`, `arrived` (the start has come), `settled` (history).

*Actions.* `Turn`, `ClarifyOilfield`, `Ignore` (accept the warnings), `ConfirmBlocked`,
`RefreshExternal`, `PublishUnavailable`, `PublishAvailable`, `PublishCheck`, `PublishOvertaken`,
`PublishWrite`, `PublishFails`, `CancelDraft`; `Report` and `StartArrives` are the
world, which alone moves while a publication is under way: telemetry may come between
the check of availability, the validation and the write. Whether a task is one of now
is decided once, before the gate; a start that arrives after that does not count, in the
code as in `Standing`. In the code a message that confirms in a block goes on to fill
slots; here `ConfirmBlocked` and the `Turn` after it are two steps, so the model also has
the states between them, and the properties hold there too.

*Abstractions.* One constraint of each kind: the robot's depth limit (static, hard), the
notice for a future task, telemetry that warns or forbids, the oilfield linker's two.
Expired telemetry, validation errors, the purpose `runtime_execution`, task and
validation versions and fingerprints are left out.

### TimeEdit

*State.* `times` (start and end of the draft), `turn` (history). One action, `Turn`: a
message is a set of statements (a value; a shift asked for, refused, or only spoken of in a
question, a condition or as past; something to be kept or withdrawn), with one shift of a
field at most, since of two the parser keeps the last; a guess is what the language model proposes beside it; `Heard`, `Grounded`,
`Materialized`, `Range` follow the parser's stages. The definitions were compared with
the parser itself on 155 640 edits: the messages of `time_edit` in both orders of their
clauses, with a shift that is only spoken of worded as a question, as past and as a
condition. There was no difference, with one wording left out: a length that directly
follows a question mark is not read beside a shift, because `temporal_parser.py:924` does
not split clauses there. Spoken ranges, offsets from now ("N小时后"), the corrections at noon and
midnight and the recognition of clocks are left out.

## 3. Runs

Every run explores its instance completely. Bounds are constants and appear only in
guards.

| Run | Instance | Shows |
|---|---|---|
| `dispatch_two_hosts` | 2 sessions in 2 processes, 1 intent, cancel, 2 ids, 1 fault | evidence of every send, true withdrawals, stable ids, refinement of `SendOnce` |
| `dispatch_controls` | 1 session, stop, pause and cancel, missing bridge, 2 faults; fair | what is shown as SENT was sent; the guard is always released |
| `publish_hosts` | 2 sessions in 2 processes, 3 ids, 2 faults; fair | task ids unique; a failure leaves no number; the publish lock is released |
| `publish_copies` | 2 sessions of 1 process with copies of one draft, power loss, lost counters, 2 faults | files permanent, done is durable, no id that was used is reissued |
| `publish_pending` | 2 sessions of 1 process, 2 contents, telemetry, 2 faults | a pending artifact is present and frozen |
| `chat` | 2 threads, 2 request ids sent 3 times, 2 operations, 1 cache entry; fair | replay, reload, confirmation, visibility, no lock cycle |
| `stream` | 2 requests, 1 slot, queue of 1, 2 events; fair | capacity, commit before facts, progress before the outcome, no blocking by readers |
| `robot_state` | 2 clients, 2 robots of the fleet and one that left it, unique and ambiguous names and a key, 4 versions, 2 faults | nothing told is lost; refinement of `VersionedRegister` |
| `bridge` | 1 requester and the watcher, 2 gateways that differ in host and mode (requests switch to one, the operator back to the other), 1 topic, 1 edit, 2 faults; fair | no leaked link, the last good client stays, every request is answered |
| `draft` | 3 classes, 3 families, 4 variants, 5 units, 2 tasks, telemetry of 1 unit | one line, payload carried, forced and kept choices, clean switches |
| `phases` | 1 unit, 2 sites, 2 depths, 1 telemetry update, 2 acknowledgements | ready drafts are clean, the gate holds, nothing is asked twice |
| `time_edit` | instants 0..11, all messages of two statements and some of three, all proposals | held fields stay, shifts are exact, refusals hold, a shift only asked about takes no order back |

Why the bounds are enough for what is claimed. A hazard of these modules involves at
most two actors on one intent, file, manager, client or slot; further ones only
repeat one of the two roles, and the theorems of section 4 remove the bound wherever
they exist. One fault reaches every place where a step can be interrupted, and two
reach a fault during the recovery from another. For an archived task an abort takes
the path of a cancel, so `dispatch_controls` has one of the two. Two ids of a range
show its end and the id after a failure; three show an id lost between two that are
used. `publish_pending` has one process: with two, a counter file that is deleted
is a matter of its own (section 6). One cache entry and two request ids show
eviction, which 128 entries only delay. In `chat` three sends give a first attempt, a
concurrent retry and an unrelated request; two operations give a reset around a
reload. In `stream` a queue of one is full after one event, so both a dropped event
and a dropped wake-up happen. The fleet of `draft` has a task whose whole line is bound
automatically, a family of two variants beside families of one, and a tool that is
built into one variant and fitted to another. In `phases` the limit of refused
attempts is 2 instead of `HARD_REFUSAL_LIMIT` 4, and the robot's own depth limit is met
by no depth: the theorems cover it.

`CHECK_DEADLOCK FALSE` appears in `chat.cfg`, `stream.cfg` and `draft.cfg`: the clients
of the first two send a bounded number of requests and then stop (that no request is
stuck is checked by `RequestsEnd`, `TurnsEnd` and `StreamsEnd`), and a draft is a
sequential object that waits for its next message. `draft.cfg` and `time_edit.cfg` use a
VIEW that hides the history of the last turn, which only the action properties read, in
the step that sets it.

`TypeOK` in each module also carries the shapes that different code agrees on: a
control record restored into a session, an artifact read back from its file, a cache
within its limit.

### Fairness

Only threads that serve an accepted request are fair (`WF` on their steps): Python
threads keep running and writes return or raise. The file locks (`flock`) have no timeout:
a thread that waits for the record lock goes on because the thread that has it is itself
in its send section, which ends, or crashes, which releases it. Waiting for the guard of an intent
is before the fair steps and is not assumed to end. In `BridgeConnection` the connection attempts have a timeout and
nothing blocks the watcher, so the steps of requests and watcher are fair. Clients,
operators, telemetry, faults, restarts and the choice of a client to read a frame are
never fair. Weak fairness is enough for the locks in the checked instances because the
number of competing requests is bounded, or because one session competes.
`GuardReleased` is therefore checked with one session: with unboundedly many requests
of another session a thread could starve at the record lock, which a fair mutex
excludes and the code's locks do not promise. `StreamsEnd` is conditional: it is about a
connection that takes its frames again and again.

## 4. Proofs

Every safety property of the runs but the three of `time_edit` is a theorem, for every
value of the constants that the named assumptions of the modules allow: any sets of
sessions, processes, requests, robots, gateways or tasks, and any bounds.

**TaskDispatchProofs.** `TypeCorrect`, `SendsAtMostOnce`, `EvidenceIsKept`,
`SectionsAreExclusive`, `WithdrawalFinal`, `DispatchRefinesSendOnce`, `ShownSentIsSent`,
`IdNeverChanges`, `IdsAreUnique`, `WithdrawalIsTrue`. At most one send and the evidence
of it are not inductive: that a send is refused when one happened depends on the record
on disk, and that the record still says what the deciding step read depends on the locks.
The invariant `Inv` conjoins `SectionsExclusive` (who is in a section holds its lock; in
the send section the record says SENDING and nothing is out; a dispatch under way
has seen no block), `EvidenceKept` and `AtMostOnce`. `Told` adds that every id that is
known anywhere (record, session, snapshot, robot) was given out by the counter for
that intent, `Display` that what a session or a snapshot shows as sent was sent. Lemmas
split the steps by what they touch: quiet steps, record writes with their three
outcomes, taking and dropping the guard, control writes. `WithdrawalIsTrue` has two
hypotheses, and both are needed: no process serves without a bridge object
(`~Degraded`), and no intent was archived before there were send records (`Legacy = {}`);
see section 6. The refinement maps each step to handing over, withdrawing or a stutter
under `sends <- wire`, `withdrawn <- Withdrawn`.

**TaskPublicationProofs.** `TypeCorrect`, `DoneMeansDurable`, `RollbackIsComplete`,
`PendingIsFiled`, `NoOverwrite`, `WaitingIsFrozen`, `TaskFilesAreUnique`,
`NumbersIssuedOnce`, `ScanPreventsReuse`. History hands out copies of drafts taken at any
time, so each part of the invariant is stated of the live drafts and of every snapshot:
`LockHeld`, `ConfirmHolds` (a confirmation under way keeps the draft it accepted),
`AllDurable`, `AllWaiting`, `AllFiled`. For ids, `Reserved` says that an id a confirmation
holds and has not linked is remembered by the counter or by the memory of its process,
`Counted` that without lost counters each id was issued once. Hypotheses:
`PendingIsFiled` assumes that the power does not fail, which may remove a file that is
not synced; `TaskFilesAreUnique` that the counter file is not lost or all
sessions share a process (`OneSource`); `NumbersIssuedOnce` that it is not lost. Without
them the properties are false of the code.

**ChatSessionsProofs.** `TypeCorrect`, `PublishedIsConfirmed`, `NoEditIsLost`,
`PublishedByRegistered`, `AppliedOnce`. What a turn has looked up stays true until it is
processed because a thread past its check holds the lock of the registered manager
(`Locked`, `Current`) and only such a thread removes or replaces it; `Asked`, `Summary`,
`Unsent`, `Lineage`, `Counted` and `Replayable` tie requests, tokens and the cache to it.

**ChatStreamProofs.** `StreamTypes`, `SlotsAreExact`, `FramesAreInOrder`. The invariant adds where a thread stands to what the events say:
`completed` implies that the turn has ended and its slot was given back, a generator at
its tail has seen `completed`, and the tail's frames are those of the outcome.

**RobotStateProofs.** `ToldIsKept`, `VersionsNameStates`, `StoreRefinesRegister`. The lock
is held by the update under way and by no other (`OneUpdate`); the file is what that
update has read or what it has written (`Copied`); everything told is the reader's view
or an older version of it (`ToldIsPast`).

**BridgeConnectionProofs.** `TypeCorrect`, `NoLinkIsLeaked`, `ServiceKeepsItsClient`,
`WatchedServiceRuns`, `ClientsSuffice`. Clients have no owner in the code; a thread refers to at most one, to
its replacement until the swap and to the replaced one from then on (`Holds`), no client
is referred to twice (`Apart`), and a replacement is connected and subscribed as wanted
before it is installed (`Prepared`). `ClientsSuffice` shows that the model's number of
client names bounds nothing: a thread that connects always finds an unused one.

**TaskDraftProofs.** `TypeCorrect`, `OneLineageHolds`, `PayloadIsCarried`, `ChoiceIsForced`,
`ChoiceIsKept`, `SwitchIsClean`. None of the two invariants is inductive. What is: between
turns every selector is admitted and agrees with those above it (`AllFit`), no selector is
missing above one that stands (`NoGap`), no candidate is left, and the payload is carried
and not empty. A turn does not keep this at every step. The argument is about the automatic
choice, which runs at least twice in a turn: whatever good draft it is given, it leaves every
*explicit* selector admitted and in agreement with those above it (`CollapseSound`); given
such a draft it drops nothing that was told, and all that it leaves fits and is forced
(`CollapseFits`). A selection in the first turn has no leave to overwrite, and a lemma shows
that it contradicts nothing. Two hypotheses, stated in `RobotSelection`: a task lists the
classes of the families it admits (`ListedAgrees`), and no family is without a variant
(`HasVariants`). Both hold in the shipped `task_schemas.yaml` and `robot_fleet.yaml`, and
`MCTaskDraft` assumes them, so that TLC evaluates them on the instance of the run.
`PayloadIsCarried` is about robots that list payloads at all.

**ConstraintDecisionProofs.** `TypeCorrect`, `ReadyDraftsAreClean`, `NoHardPublished`,
`WarningsWereAccepted`, `AcceptedNotAsked`. Several steps weigh the draft without the
oilfield linker; they are sound because they leave the draft as it is and start in a phase
entered with it weighed in full. `GateHolds` says what the gate of a publication under way has found:
what the validator would find, unless telemetry or the start moved since. `TypeOK` gives the
type of every variable.
`WarningsAnswered` ties every warning that is passed over to an acknowledgement, and `AskedOnce` adds
that an acceptance is remembered under every field a violation of its kind names.

All are theorems of `Spec`, the specification without fairness. The last step of each is
temporal and combines the steps above by PTL.

**Only model-checked.** Liveness (`GuardReleased`, `LockReleased`, `RequestsEnd`, `TurnsEnd`,
`StreamsEnd`, `Answered`): fairness and ENABLED are out of the prover's reach.
`KeptStays`, `ShiftIsExact` and `AskedStillDone` of `TimeEdit`: the proofs are still to be
written; `time_edit` enumerates every message and proposal of its instance.

## 5. Not modelled

The reasons are in `PROJECT.json`. In short: text understanding, presentation, the
content of rules and catalogues, and forecasts are data. Of control, the following is
left out: the transition table of `session_state_v2` (behind a flag), the codec of
snapshots, the service calls of the rosbridge client with their table of pending answers,
the watching of configuration files other than `ros2_runtime.yaml`, the operation time
windows, and the table of recent tasks the tracker keeps for display.

## 6. Known disagreements

Behaviour of the code that its documentation, a comment or a message contradicts, met
while modelling. Those with a name are stated in a module but belong to no run; TLC
refutes them under constants that allow the case (an intent in `Legacy`, a process in
`Degraded`, two readings that are warned of).

*Dispatch.*
* `LegacyNeverResent`: a legacy task of unknown delivery is sent after a pause and a
  resume (`docs/execution_dispatch_contract.md:11`; `task_dispatch.py:165`).
* `WithdrawnMeansUnsent`, in a process without a bridge object or for a legacy intent: the
  display state is the only evidence, and a task that was sent can be recorded and
  reported as withdrawn before sending (`execution_control.py:141`).
* `FailedMeansUntold`: a delete command that was transmitted is reported as not sent when
  marking the records raises (`bridge_service.py:663`, `execution_control.py:191`).
* `UnknownIsNotFabricated`: two control requests around a refused dispatch turn "unknown"
  into "cancelled before sending" (`execution_control.py:142`, comment at line 164).

*Publication.*
* `PendingIsRestorable`: telemetry moves a session with a pending artifact out of
  *confirming*, and the snapshot then saved can never be opened
  (`docs/execution_dispatch_contract.md:31`; `dialogue_snapshot.py:162`,
  `constraint_decision.py:945`).
* `PublishedVersionIsCurrent`: `guard_unit_state_version` promises a shared lock until its
  context ends and takes none (`state_info.py:219` and `:254`).
* A power loss may remove the file of a pending artifact, and with the counter file
  deleted while another process holds a reserved, unlinked id this id may be handed out
  twice; a retry after the replay window is applied again. These limits are declared.

*Bridge.*
* `SwitchIsAtomic`: a switch that is answered as failed may stay in force
  (`web/routes/mcp.py:152`).
* `EditsTakeEffect`: an edit during a reload is hidden by the modification time noted at
  its end (`bridge_service.py:452`; `docs/architecture/ros2_runtime_configuration.md:9`).

*Robot state.* An update by an alias that changes the status only may be lost
(`state_info.py:517`); the alias is resolved before the model begins.

*Draft.*
* `PayloadFits`: a chosen robot is to accept only payloads that can be fitted
  (`catalog_resolver.py:590`), the automatic choice also counts built-in ones: in the
  shipped fleet a burial task with a pan-tilt camera at 2000 m binds the special work
  class, which has it built in, and the payload becomes invalid in the next turn. A legal
  payload may also become invalid in a turn that changes the depth, because a robot is
  bound in the middle of the turn, before the new depth counts.
* A robot whose `supported_payloads` are empty takes any payload, unchecked
  (`slot_transaction.py:545`; `catalog_resolver.py:586` says that a list filters). No robot of
  the shipped fleet is without payloads.
* `allowed_robot_classes` is declared to be no hard constraint
  (`config/task_schemas.yaml:12`) and is one in `list_robot_variants`
  (`selection_engine.py`).
* Restating by name a class that was bound automatically counts as a changed parent
  (`equipment_cascade.py`, `_resolve_class_cascade`).

*Phases.*
* `AcksMatchEvidence`: an acknowledgement is filed with a newer snapshot than the
  warning it answers (`constraint_decision.py:971`, INV-06 in the governance baseline).
* The whitelist passes a changed value when any related field has not changed
  (`constraint_decision.py:732`); confirming with missing fields is reachable
  (`dialogue_manager.py:10`); a confirmation in a hard block with only the oilfield's
  violation clears block and counts.

*Time edits.* A length that is withdrawn beside a shift is applied; "持续时间不变" with a
new start and no end writes the start alone; a shift of the end beside a longer duration
resolves silently; a lone end before the start is written; an end shift beside a start
the model invented writes that start; a length said directly after a question mark is lost
beside a shift.

## 7. Plan

1. Proofs: the three action properties of `TimeEdit`, from the cases of `Materialized`.
2. `ConstraintDecision` with acknowledgements by snapshot, so that the condition under
   which `AcksMatchEvidence` holds can be stated and proved.
3. The session pipeline as a composition: the edge into *done* dispatches exactly once.
4. Breadth: the snapshot codec, the rosbridge client's pending calls, operation windows.
