# Formal models of Sulla Desktop

Sulla Desktop is an Electron application for AI assistants with a family of
services around it (Node.js containers over one PostgreSQL database).  This
directory holds TLA+ models of the parts whose correctness depends on
concurrency and failure, TLC configurations that check them on small instances,
and TLAPS proofs of the properties that matter most.  Paths below are relative
to the repository, `src/` in `PROJECT.json`.

## Inventory

| Part | State it keeps | Operations | What is hard |
|---|---|---|---|
| Workflow run lifecycle: `services/sulla-workflows/src/{manager,managerLifecycle,launcher,runner}.ts` | row of `workflow_executions` (status, runner, owner and lease, heartbeat, wait), advisory lock per run, the map `launches`, containers | launch, handshake, lease, heartbeat, checkpoint, suspend, settle, wait scan, resume, stop, archive, reconcile, migrations at start | several managers and containers write one row by compare-and-swap; crash at any statement; handshake and lease timeouts; containers that outlive their launch |
| Run admission: `startRun` in `manager.ts`, `agent/database/models/WorkflowExecutionModel.ts`, `agent/tools/workflow/*` | active rows of a workflow, trigger keys, `maxConcurrentRuns`, `workflows.status` | start, catch-up, admit, supersede, archive, retire | two programs count and insert in one table; checks before the transaction go stale |
| Schedules: `refreshSchedules`, `catchUp` | map `jobs` of armed cron jobs | arm, cancel, fire, catch up | overlapping refreshes across awaits |
| Playbook walker: `packages/workflow-engine/src/WorkflowPlaybook.ts` | playbook state: frontier, completed nodes, outputs, loops | process step, complete sub-agent, merge, route, loop | joins that wait for branches never taken, results out of order |
| Agent invocations: `manager.ts` `/internal/agents`, `services/sulla-agents` | `workflow_agent_runs` binding | bind, start, record, poll | retry after a lost answer must not start a second agent |
| Desktop execution recovery: `WorkflowRecoveryService.ts`, `WorkflowLeaseHeartbeat.ts`, `PlaybookController.ts` | leases of the application's own runs | acquire, renew, recover, suspend all | renewal timeouts, boot recovery of a run that still lives |
| Agent jobs, graphs, chat, abort, approvals | in-memory registries, job rows | | mostly I/O with models and the user |
| Desktop conversation sync: `main/sync/{SullaSyncService,syncQueue,syncCursor,syncMirror,syncDispatcher}.ts`, `main/desktopRelay.ts` | `claude_conversations`, `claude_messages`, `sync_queue`, the cursor `claudeSyncLastSeq`, the set `inFlight` | edit, mirror a turn, enqueue, push, pull, apply, dispatch Claude, sign in and out | a row changes between the read of the queue, the request and the clearing; a page is applied in part; one log is written by phone and desktop |
| Files cloud backup: `services/sulla-files/src/cloudSync/*`, `databaseOperations.ts`, the driver of the application | files and versions, journal, heads, `last_seq`, push cursor, skips, upload session, signed operations | local write, restore, trash, undo, pull, fork, land, stage, open upload, commit, park | devices that commit over each other; lost answers; crash at any statement; local writes during a pull |
| Files service itself, updates | native operation journal, residency, update channel | | retry, replay after a crash |
| Other cloud clients: vault sync, memory sync, runtime projection | queues and cursors of their own | push, pull | the same shape as the two above |
| Relay, vault, accounts, tools, proxies, guest runtime | sessions, secrets | | transport, cryptography, operating system |

`PROJECT.json` lists every part with its status, and under "hazards" the places
where the code is hard to test, each with the property that covers it or the
reason why none does yet.

The parts meet in the database.  A schedule, the API, a parent run or the
application *admits* a run (RunAdmission); the service *launches* it in a
container, which leases, executes, suspends and settles it (RunLifecycle).
The two sync loops share no state with these, nor with each other: DesktopSync
meets the phone, and FilesCloudSync the other devices, in a log that the cloud
keeps.

## Modules

| Module | Models |
|---|---|
| `ExclusiveRun` | what the service promises of one execution: claimed by one worker at a time, parked and claimed again, ended once |
| `RunLifecycle` | one execution with all managers and runner containers |
| `RunLifecycleProofs` | inductive invariant, safety and refinement of RunLifecycle, for every value of its constants |
| `MCRunLifecycle` | instances of RunLifecycle |
| `SlotPool` | what admission promises of one workflow: never more active runs than allowed, a resumed run hands over its slot or keeps it |
| `RunAdmission` | the calls of both programs that start runs of one workflow |
| `RunAdmissionProofs` | inductive invariant, safety and refinement of RunAdmission |
| `MCRunAdmission` | instances of RunAdmission |
| `DesktopSync` | conversation sync of one desktop with the cloud's log |
| `DesktopSyncProofs` | inductive invariant and safety of DesktopSync |
| `DesktopIntentProofs` | the latest edit of the conversation, from the call to the cloud's log |
| `MCDesktopSync` | instances of DesktopSync |
| `SharedLog` | what the cloud copy of a collection promises: a device appends only on top of all there is |
| `FilesCloudSync` | backup of one collection by several devices |
| `FilesCloudSyncProofs` | the invariant of cloud and work in hand, safety and refinement of FilesCloudSync |
| `FilesRestProofs` | the whole inductive invariant, and what a device at rest can lack |
| `MCFilesCloudSync` | the instances of FilesCloudSync |

### RunLifecycle: state and actions

* `row` is the row of `workflow_executions`; `archived` is
  `workflows.status = 'archive'`; `lock` is the advisory lock
  `workflow-launch:<id>`.
* `thread[m]` is manager m's pending promise in `launches`: where
  `launchUnchecked` is, the row it read (`snap`), its container, whether the
  assignment took place.
* `mgr[m]` is the rest of a manager process: handlers on their way to
  `launch()`, the wait scan, rows picked by a reconciliation, containers still to
  be removed, an archive whose second statement is outstanding.
* `proc[r]` is the runner process of container r.

Every SQL statement is one action.  `launch()` and `launchUnchecked()` are
`CallLaunch`, `LockGranted`, `Recheck`, `ReadRun`, `Prepare`, `Assign`,
`StartRunner`, `Handshake`, `HandshakeTimeout`, `Outcome`, `Cleanup`,
`SettleLaunch`, `Release`; `resumeDueRuns` is `DueScan`, `DueLaunch`,
`DueBackoff`; `reconcileAbandonedRuns` is `ReconcileScan` (the SELECT) and
`ReconcileSettle` (the compare-and-swap of one picked row, later); the HTTP
handlers are `Stop`, `Resume`, `Archive`, `Retire`, `StopRunner`, `Unarchive`;
`runner.ts` is `Lease`, `Heartbeat`, `AssertActive`, `Checkpoint`, `Suspend`,
`SettleRun`, `NextIteration`, `Throw`.  `Crash`, `Restart` (with migration 004),
`RunnerCrash`, `LeaseExpires` and `WaitElapses` are the environment.

Time is abstract: a lease is live until `LeaseExpires`, values of `heartbeat_at`
are numbered.  PostgreSQL's `NOW()` has microseconds, and node-postgres returns
milliseconds; `row.micros` says which columns hold a value that no parameter a
manager sends can equal.  Whether it does is a choice at every write, since one
value in a thousand is a whole millisecond.

### RunAdmission: state and actions

A call of `startRun` or `WorkflowExecutionModel.admit` stands for the execution
it would create.  `run[c]` is its row, `call[c]` where the call is and what it
has read (limit, trigger key, run it resumes), `lock` the advisory lock
`workflow-admission:<workflow>`, `retiring` the programs that have archived the
workflow and not yet failed its runs.  `Start`, `AlreadyFired`, `Reconcile`,
`Execute`, `RestartFromCheckpoint` come before the transaction; `Lock`, `Dedupe`,
`Supersede`, `Count`, `Commit` are the transaction (the INSERT is seen with its
COMMIT); `Launch` is the launch or the first lease.  A row that a transaction has
updated stays locked until it ends (`Held`): statements that would end the run
wait.  A stop of a program rolls its transaction back.

### DesktopSync: state and actions

`local[r]` is the row of `claude_conversations` or `claude_messages` (as the
version that last-writer-wins compares), `queue[r]` its row of `sync_queue`,
`cursor` is `claudeSyncLastSeq`, `cloud` the log in which item n has seq n.
`sync` is the `fullSync` in progress with what it has read, `job[j]` a call that
writes rows and queues them, `inFlight` the set of that name in
`syncDispatcher.ts`, `clock` the last time stamp taken here.  `seen`, `answered`
and `dropped` are history: items handled, turns answered, and what a failed or
killed call left behind; so is `lapse`, which says why the latest edit of the
conversation may be neither queued nor in the cloud: the call that made it failed
or died first, or queued it when the cycle under way had its item already.

* `conversation-history:update` and the companion's `conversations.update` are `Edit`; `scribeRelayTurn`
  and `mirrorMessageToClaudeMessages` are `Mirror`.  Each goes on, one statement
  an action, with `WriteConversation`, `WriteMessage`, `EnqueueConversation`,
  `EnqueueMessage` in the order of its source (`After`), or ends early
  (`EnqueueFails`, which the code swallows, and `JobFails`).
* `dispatchClaudeForMessage` is `Dispatch` (called by an apply), `Check`,
  `ClaudeAnswers` or `ClaudeFails`, then the same writes.
* `push` is `FullSync` (the SELECT), `ReadLocal` for each op, `CloudTakes` (the
  worker), `ClearOps` or `PushFails`; `pull` is `PullPage`, `ApplyItem` or
  `ApplyFails` for each item, `SetLastSeq`, `PullEnds`; `SyncThrows` is an
  exception no loop catches.
* `PhonePushes`, `SignOut`, `StartSync` and `Stop` are the environment.

### FilesCloudSync: state and actions

A version is its place in `ver`; `current`, `has`, `known`, `heads`, `lastSeq`,
`cursor`, `skips`, `session` and `op` are, per device, the tables or columns the
declarations name; `journal[d]` has the rows of the local writes, a row's place
being its seq, which cursor and session refer to; `cloud` is the log of
accepted commits; `step` is where the work in `exclusive` or the sender is,
`fresh` says that the last pull is recent.

* `advance` with `CloudPuller` is `Pull` (page, chain and hash checks), then per
  version `KnownVersion`, or `Inspect` (the row is read), `Fork`
  (`forkLocalVersion`) and `Land` (`applyRemoteVersion`), and at the end
  `SaveVerifiedHead`, a statement of its own; `PullFails` may come before any of
  them.  `raced`, `undone` and `relanded` are history.
* `advance` with `CloudPusher` is `Stage`, `StageRefuses` (no manifest can be made
  of the row), `StageFails`, `QueueOperation`, `ContinueUpload`, `DropUpload`.
* `prepare` and `send` are `UploadOpens`, `CommitLands`, `CommitRepeats`,
  `HeadMoved`, then `FinishCommit` or `CommitUnexpected` and `CompleteOperation`;
  `failed` is `SendFails`, `Refused`, `UploadIsGone`.
* `Edit`, `RestoreVersion` (an old version of the file's history, written anew),
  `TrashFile` and `UndoTrash` (a receipt's undo: back to the version before the
  deletion, with a journal row and no new version) are the local writes.  Each is
  one transaction and one step: the triggers of migration 042 update the single row
  of `fuse_tree_state` with every UPDATE of `files` and hold it until the COMMIT, so
  no two writers' journal rows are committed out of order.
* `PullIsDue` and `SkipIsDue` are the passing of time, `Crash` a restart of the
  service.

## Runs

| Run | Shows |
|---|---|
| `run_lifecycle` | one manager, three containers, two requests, a crash: `IInv`, `RunningIsAttended`, `TerminalForever`, `LiveLeaseRespected`, `WaitSurvivesReconciliation` |
| `two_managers` | two server-mode managers share the row: `AtMostOneWorker`, `OwnerIsAssigned`, `ParkedIsReleased` and the refinement of `ExclusiveRun` |
| `liveness` | in desktop mode (`ServerMode = FALSE`), under `Fairness`: a first launch is served or settled in spite of a crash, a timer wait ends |
| `admission` | two service and two desktop calls, one edit or archive, one stop: `LimitRespected`, `NoSpuriousConflict`, `StolenOnlyByHeir`, the refinement of `SlotPool`, and `IInv`, which has the lock given back on every path |
| `desktop_sync` | one conversation with a turn and a reply, two calls at a time, the phone, one fault: `CursorCovers`, `MessageNotLost`, `EditLostOnlyInRace`, `NoTurnForgotten`, and their inductive invariants `IInv` and `IntentInv` |
| `files_sync` | two devices that write, restore, trash and undo, one crash, lost answer or refusal: `HashNeverLies`, `CommittedOnce`, `LostOnlyInRace`, `LagIsExplained`, the refinement of `SharedLog`, `HInv`, and under `Fairness` both devices come to rest (`Settles`) |
| `stranded`, `resume_race`, `dead_owner`, `archived_admission`, `lost_edit`, `relanded_deletion` | what the code does against its own words, see Findings |

Bounds.  Three containers are a first launch, a relaunch after a wait and one
more that a race could start; two are enough to break exclusion, so the
two-manager instance has two.  One heartbeat after the lease is enough to
invalidate a pick; two let one be picked, beaten and picked again.  One crash of
a manager covers every point of its program; a second adds only a crash of the
recovery, which is the same program.  `Suspend` is not taken when no container
would be left to resume the run (a bound in its guard: a run that can be waited
for can be resumed).  In RunAdmission limits 1 and 2 with four calls fill the
pool, refuse, and resume one run twice; one trigger key lets two service calls
race for it.  In DesktopSync a log of two items holds a turn and its reply, or a
turn and an item without handler, in pages of one or two; two calls let an edit
or a second dispatch run into a cycle; time stamps 1 and 2 let the phone be
older, newer or level.  The phone writes messages and the item without
handler (`PhoneRows`); with the conversation as well, whose versions are then newer
than the desktop's, the instance takes half as long again: `MCPhoneEdits.cfg`, which
can be checked by hand (7.4 million states, `IntentInv` and `EditLostOnlyInRace`
hold), and the proofs of both cover it.
`lost_edit` has no phone, and has a log and a clock of three, since its
trace needs a first version, a second that is pushed and a third that is not.
In FilesCloudSync three versions are two edits that conflict and one written
during the pull, or an edit, its successor and a deletion (which its undo, drawing
no version, does not count); three files are two
the users make and one for the new id of a fork (forks are not counted in
`MaxVersions`: `NewId` bounds them); two attempts are the first send and the last
one.  `relanded_deletion` needs a first version, its deletion and its restoration,
one failed pull, and no fork.  Symmetry is used for managers and for calls of one program, in
runs without liveness only.  Deadlock is not checked: a settled run, and calls
that have all been answered, are the end; so is a log that has reached its bound
(DesktopSync), and devices at rest with no version left to write
(FilesCloudSync).

Fairness.  Timers keep firing and statements of a live manager are answered (`WF` of
every manager step), compose's `restart: unless-stopped` brings a manager back (`WF`
of `Restart`), a clock goes on (`WaitElapses`; `LeaseExpires` once the owner no
longer beats).  Nothing is assumed of users, of crashes or of runners: a runner may
work for ever.  `FirstLaunchServed` and `TimerServed` are claims about desktop mode
and say so (`~ServerMode => ...`); the code does not keep them on a server.  A server
that refuses the scopes of a run throws before the `try` of `launchUnchecked`
(`manager.ts:413-416`), settles nothing, and no clause of the reconciliation selects
the run until a restart makes it older than the manager.  A server whose schedule
grant is refused puts the timer off by five minutes at every scan
(`manager.ts:1103-1122`).  With `ServerMode = TRUE` TLC shows both behaviours for the
two formulas without their condition.  In FilesCloudSync the background loop and the
driver arm their next timer whatever a pass did (`WF` of `Advance` and `Send`) and
time passes (`PullIsDue`, `SkipIsDue`).  `Stage` is strongly fair: a retry of a
version that is refused each time is due an hour later at the earliest, and the
passes, ten seconds apart, come to the other candidates in between.  Weak fairness
would let the refused one be due again before every pass.  Nothing is assumed of
users or of failures, which a bound makes finite (undos are finite because each
needs a deletion, a version of its own).  DesktopSync states no liveness: nothing
obliges a user to stay signed in, and a message whose enqueue failed is pushed only
if it is touched again.

Abstractions and assumptions.  One run per instance of RunLifecycle, so the
advisory pool of four connections is never exhausted; database and docker answer
(failures are modelled where the code catches them: creation, start, removal, a
throw in the runner); the clocks of managers and database agree; `docker inspect`
in the reconciliation does not fail; who may call what (auth.ts) is left out.  A
stop of the application is a crash: its graceful `suspendAllRunning` belongs to
ExecutionRecovery below.

DesktopSync has one conversation, whose turns are all routed to this desktop, and
the preference that lets conversations into the queue is on.  The projection into
`conversation_history`, the contractor guard and tool turns are left out.  The
id of an op is represented by the row it stands for: only `clearOps` deletes ops,
so between a read and its clearing a row's op keeps its id.  `LIMIT 500` is above
every instance, and a page's size is the worker's choice.  The worker and the
phone are external: the worker stores pushed items in any order and may fail
after any of them; the phone deletes, and changes replies, only when it has seen
them.

FilesCloudSync keeps one commit for each version, because the batches of recursive
deletes in `push.ts` have no caller.  The head MAC is identified with the seq it
covers, a state hash with the function it hashes.  A minute passes (`PullIsDue`) only
when there is news, since a pull without news changes nothing.  Devices belong to the
account and sign what they send.  Whether the version an undo goes back to names the
one it was restored from is a choice where it may (`UndoTrash`).  The journal row of
a landed version is left out, since the cloud knows that version already and it is
never a candidate.  Folders, renames, moves and copies with their journal rows, paths
(`freePath`), record-locked copies, contents of chunks, enabling and disabling, the
create, escrow, info and delete operations and the restoring of a collection to a
new device are left out.

Steps that merge statements of the code, or leave a detail of one out, where no
property tells the difference: `FilesCloudSync.DropSession` clears the staging
area, drops the operations and saves the session (`service.ts:703-707`, three
statements) at once; `RunLifecycle.ReconcileSettle` has the try-lock, `runnerExists`,
the UPDATE and the unlock (`manager.ts:351-393`) in one step: the lock keeps launches
out meanwhile, a container that is gone does not come back, and the UPDATE compares
the row again; `RunLifecycle.Migrated` drops the
`NOT EXISTS` of migration 004 over the run's events, which `beat = 0` implies;
`RunAdmission.Commit` drops the `ON CONFLICT(execution_id)` branch of `markRunning`
(`WorkflowExecutionModel.ts:85-93`), an execution id being new; and `DesktopSync.Edit`
writes a live or a deleted row, where the code leaves `deleted_at` alone if the patch
does not name it (`conversationHistoryIpc.ts:100-118`).

## Findings

* `dead_owner`: the reconciliation's compare-and-swap on `heartbeat_at` compares
  microseconds with milliseconds and (except for one value in a thousand) never
  settles a run whose runner died with the lease.  For the same reason on
  `resume_at` the retry of a failed resume misses its assignment and fails the run
  (`MCDelayedRetry.cfg`, which can be checked by hand: `DelayedRetryLaunches` fails).
* `stranded`: a manager that stops while it relaunches a run that has run before
  leaves a row that no reconciliation clause selects.  `RunningIsAttended`, which is
  checked and proved, says that without a crash or a request (to resume the run, to
  archive or unarchive its workflow) no such row is left.
* `resume_race`: /resume between a launch's read and its assignment makes the
  launch fail a run that is active.
* `lost_edit`: an edit made while a push is under way is queued under the id that
  the push deletes when it is answered; the later version is neither queued nor in
  the cloud.  `EditLostOnlyInRace`, which is checked and proved, says that there is
  no other way to lose one while no call fails.
* `relanded_deletion`: the deletion of a file that is not here leaves no trace but
  the cloud head; a pull that failed after it and after a later version of the file
  is made again from `last_seq`, applies the deletion over the later version, and
  nothing corrects it afterwards.
* `archived_admission`: both admissions look at the workflow's status before
  their transaction and not inside it.

A race in the files backup is shown by `MCFilesRace.cfg`, which can be checked by
hand: `LocalEditIsKept` fails.  `cloudSync/pull.ts:94-99` says that conflicts keep
both versions, but `applyOne` (`pull.ts:242-275`) reads the row of the local file,
decides whether to fork it, fetches the chunks, and then replaces the current
version whatever it is by then.  A version written in that window is neither
forked nor ever pushed, since only current versions are (`nextPushCandidate`); it
stays in the file's local history.  `LostOnlyInRace`, which is checked and proved,
says that there is no other way to lose one.

The undo of a deletion that has gone to the cloud is never pushed, which
`MCUndone.cfg` shows by hand: `UndoneIsRestored` fails.
`docs/files-sync-namespace-v2.md:25-27` says "Restore appends a fresh version on the
same item, ... names the immutable source in `restoredFromVersionId`", but
`undoDatabaseOperation` (`databaseOperations.ts:417-424`) sets `current_version_id` back
to the version before the deletion.  The cloud knows that version, so
`nextPushCandidate` never selects it (`repository.ts:351`): this device shows the file,
the cloud and the other devices have it deleted, until somebody writes the file again.
For the same sentence `MCRestored.cfg` shows that a version restored from the history
is not backed up (`RestoredIsPushed` fails): `/v1/files/:id/restore` (`app.ts:1996`)
appends a fresh version but does not name its source, and its journal row `restore` is
refused by `namespaceSerializer.ts:38` each time it is staged.  `LagIsExplained`, which
is checked and proved, says that these and `relanded_deletion` are the only ways in
which a device at rest can differ from the heads of the cloud.

A race in the dispatcher is shown by `MCTwoClaudes.cfg`, which can be checked by
hand: `OneClaudePerTurn` fails.  `syncDispatcher.ts:33-34` says that `inFlight`
"prevents duplicate Claude spawns if the same message id is pulled twice before the
reply is written", but `dispatchClaudeForMessage` looks at the set at line 40, awaits
a SELECT, and enters its turn at line 59; `applyRemote` waits for none of it and
calls it for an item that is no newer than the row as well (`syncHandlers.ts:214-219`).
Two items of one turn in a page are given to Claude twice.

## Proofs

`RunLifecycleProofs` proves `Spec => []IInv` and from it `AtMostOneWorker`,
`OwnerIsAssigned`, `ParkedIsReleased`, `RunningIsAttended`, `TerminalForever`,
`LiveLeaseRespected`, `WaitSurvivesReconciliation` and the refinement of
`ExclusiveRun`, for every set of managers and every bound.  Exclusion is not
inductive: `Lease` does not compare `runner_id`, so what keeps a second container
out is that only an unassigned active row is launched, under the lock
(`LaunchIsLocked`, `SnapshotIsFree`), that a container does not run before it has
been assigned (`StartIsAssigned`, `BootIsAssigned`), and that a runner past its
lease owns the row while it is active (`WorkerOwns`).  `PickIsStale` carries the
reconciliation: while a picked row has the heartbeat it was picked with, its lease
has not become live.  `RunningIsAttended` is inductive with `IInv`: only `Assign`
makes a released run that has run before running again, and its thread stays with
the container it assigned, since the handshake accepts no unowned row and a launch
that gives up settles one (`LeaseHasOwner` has its lease cleared).  The proofs rest
on `ManagersAssumption` (0 is no manager) and `BoundsAssumption`.

`RunAdmissionProofs` proves `Spec => []IInv` and from it `LimitRespected`,
`NoSpuriousConflict`, `StolenOnlyByHeir` and the refinement of `SlotPool`, for
every set of calls, keys and limits and any number of edits and stops.  The slot
limit is not inductive: a transaction counts, and inserts later.  Every step but
`Commit` is shown to be quiet (`Quiet`): no row becomes active, a row that is
being taken stays live, and a call that has a row keeps its trigger key.  So what
a transaction has looked up (`KeyIsFree`, `SlotIsFree`, `TakenIsActive`) holds
until its own `Commit`, and `LockIsHeldInside` keeps every other `Commit` out
meanwhile.  Mapped to SlotPool, a quiet step ends the runs that leave `Active`.
The proofs rest on `CallsAssumption` and `LimitsAssumption`.

`DesktopSyncProofs` proves `Spec => []IInv` and from it `CursorCovers`,
`MessageNotLost` and `NoTurnForgotten`, for every set of messages and calls and
every bound.  None of the three is inductive.  `ClearOps` forgets ops, so
`ReadIsCarried` says that a message whose op has been read is in the cloud or
among the items still to be sent, and that no op is cleared unread; `QueuedExists`
that a queued message has a row to be read.  `PageIsSeen` carries the cursor
through a page that may end early.  `SeenIsServed` is `NoTurnForgotten` one step
earlier, when an item has been applied and the cursor is not yet past it, and
`JobsAreShaped` says how far each call has come, so that its end leaves an
answer, a drop or a row in the queue.

`DesktopIntentProofs` proves `Spec => []IntentInv` and from it `EditLostOnlyInRace`,
for the same constants.  The property compares a row with the cloud, and five things
move between them.  `NewerIsForeign`: only the cloud has versions newer than this
desktop's clock, so an edit made here is newer than all its own items.
`CallsArePast`: a call that writes later than it took its time writes an old time,
over a row that may be newer; what it writes is still owed.  `DeletionIsCurrent`: an
upsert is read when it is pushed, but a deletion is pushed with the time it was
queued, which must not be older than the row.  `CarriedIsCurrent`: what the cycle
under way has read is as new as the row, unless an edit was queued too late for it,
so that `ClearOps` may forget the op.  A version that is applied comes from the
cloud, and is its own excuse (`CloudExcuses`).  Most steps leave row, queue and items
alone (`IntentSpared`, `CycleSparesIntent`).

`FilesCloudSyncProofs` proves `Spec => []IInv` and from it `HashNeverLies`,
`CommittedOnce`, `LostOnlyInRace` and the refinement of `SharedLog`, for every set
of devices and files and every bound.  A queued commit is the one of its session
on the exact heads of `last_seq` (`OpIsShaped`, `HeadsCover`), or has been
finished; so one that the worker accepts is on top of everything, and its version
is not in the cloud (`KnownCovers`).  `HeadAt` has one solution, which makes the
hash a function of the log.  A version that lands is another device's, and its
parent was held by its writer and so came from the cloud or from here
(`ParentIsHeld`); what it replaces is known, forked or raced (`LandIsSafe`).
Steps of one device leave the invariant of the others alone.

`FilesRestProofs` proves `Spec => []HInv` and from it `LagIsExplained`.  `HInv` is
`IInv` with `RestInv` of each device.  The property speaks of devices at rest only,
and how they got there is what has to be carried: a version of the cloud that is
here is known exactly when the heads have come to it (`KnownIsPassed`, which needs
that all but the last of its own commits a device has seen); a row on a known
version is on the head, unless the head is this device's own deletion of it, undone,
or a deletion was applied again over a later version (`CurrentIsHead`); a commit
under way, or without an answer, has not been replaced by something the cloud has,
but for what it deletes (`PendingIsCurrent`); cursor and session are rows of the
journal (`JournalIsHeld`); and a version the cloud has not is skipped or has a row
after the cursor and not before the session's (`SkipsCover`), which is why `Stage`
must take the earliest candidate.  An undo may come while the deletion is queued, sent
or committed, so `CurrentIsHead` and `PendingIsCurrent` speak of what a row shows *or
would show if its deletion were undone* (`Shown`).  With no candidate but unsealable
ones, and nothing else parked, only the named exceptions are left.  Most steps are
quiet (`Quiet`): nothing of this moves but session and skips.  Three take over a
commit, the pull and the local writes move a row, and two steps move the session.
The proofs rest on the type and bound assumptions of the modules.

Only model-checked: the liveness properties `FirstLaunchServed`, `TimerServed` and
`Settles` (fairness and ENABLED are out of the prover's reach).

## Not modelled, and the plan

1. `ScheduleJobs`: refreshSchedules/cancelSchedules over `jobs`, overlapping
   refreshes, leadership; property: at most one armed job per production
   schedule node, none for others once refreshes are over.
2. `Playbook`: the walk over small graphs (router, parallel, merge, loop,
   sub-agents) against a reference definition of which nodes run; recursion with
   folds so that lemmas about the frontier can be proved.
3. `AgentInvocation`: binding, start, lost answers and restarts between the two
   services, with the `playbook_state` writes of runner, checkpoint and /resume.
4. `ExecutionRecovery`: leases of the application's runs, renewal timeouts, boot
   recovery, `suspendAllRunning`, over the rows of RunAdmission; one heir per run.
5. Connection failures in `launch()` (the rejected promise that stays in
   `launches`) and the advisory pool, with several runs.
6. The rest of the files backup: folders and renames (a rename of a file that has
   been pushed draws no version and is never pushed, `databaseOperations.ts:168`),
   `markCloudDeleted`, which leaves folder versions and skips behind
   (`repository.ts:267`), and a pull that stops between a fork and its landing and
   forks again.
7. Candidates after that: the operation journal of the files service, the update
   manager, agent jobs, the other cloud clients.

Theorems planned: the recovery lease's exclusion, idempotence of
AgentInvocation, and frontier lemmas of the playbook.  Vault, accounts, relay,
tools, proxies and the guest runtime are left out: cryptography, transport and
operating-system interfaces, whose behaviour is not in their control state.
