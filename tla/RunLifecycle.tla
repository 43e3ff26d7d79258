---------------------------- MODULE RunLifecycle ----------------------------
(***************************************************************************)
(* One execution of a workflow, from its workflow_executions row to the    *)
(* containers that run it: services/sulla-workflows (manager.ts,           *)
(* managerLifecycle.ts, runner.ts, launcher.ts).                           *)
(*                                                                         *)
(* The row is shared by manager processes (HTTP handlers, a launch thread, *)
(* a one-second wait scan and a five-second reconciliation) and by runner  *)
(* containers, one per launch, that hold a sixty-second lease on it.       *)
(* Every SQL statement is one step; what a process does between two        *)
(* statements is visible to nobody and belongs to the step that follows.   *)
(* The playbook (what the run computes) is abstracted away.                *)
(***************************************************************************)
EXTENDS Integers, FiniteSets

CONSTANTS
  Managers,     \* manager processes that share the database
  ServerMode,   \* server managers check scopes and schedule grants
  MaxRunners,   \* bound: containers that may be created
  MaxPicks,     \* bound: rows a manager's reconciliations have picked and not handled
  MaxBeats,     \* bound: heartbeat writes after which none is modelled
  MaxRequests,  \* bound: requests to resume the run, archive or unarchive its workflow
  MaxCrashes    \* bound: manager crashes

ASSUME ManagersAssumption == 0 \notin Managers
ASSUME BoundsAssumption ==
  /\ ServerMode \in BOOLEAN
  /\ MaxRunners \in Nat /\ MaxPicks \in Nat /\ MaxBeats \in Nat
  /\ MaxRequests \in Nat /\ MaxCrashes \in Nat

VARIABLES
  row,       \* the workflow_executions row
  archived,  \* workflows.status = 'archive'
  lock,      \* holder of the advisory lock workflow-launch:<id>, or NoLock
  thread,    \* per manager: the pending launch of this run, if any
  mgr,       \* per manager: everything else its process remembers
  proc,      \* per container: how far its runner process has come
  crashes,   \* manager crashes so far
  requests   \* resume, archive and unarchive requests so far

vars == <<row, archived, lock, thread, mgr, proc, crashes, requests>>

Runners  == 1 .. MaxRunners
NoRunner == 0
NoLock   == 0

ActiveStatus   == {"running", "suspended"}
TerminalStatus == {"completed", "failed"}

(* Rows.  "lease" is lease_expires_at against the clock, "beat" numbers the *)
(* values of heartbeat_at (0 is NULL), "at" the values of resume_at: the   *)
(* one a wait stored or the one a failed resume pushed it back to.  owner  *)
(* stands for owner_id and lease_token, which are always written together. *)
(* A column that SQL's NOW() filled holds microseconds; node-postgres      *)
(* returns it as a Date, which holds milliseconds.  "micros" names the     *)
(* columns (heartbeat_at with lease_expires_at, resume_at) whose value is   *)
(* no whole millisecond, so that no parameter a manager sends equals it.   *)
Reason == {"none", "runner_launch_failed", "runner_handshake_timeout",
           "runner_lease_expired", "manager_restarted_before_launch",
           "manager_restarted_before_handshake", "abandoned_without_live_runner",
           "abandoned_without_live_lease", "user_cancelled", "workflow_archived"}

Row == [status: ActiveStatus \cup TerminalStatus,
        runner: Runners \cup {NoRunner},
        owner:  Runners \cup {NoRunner},
        lease:  {"none", "live", "expired"},
        beat:   Nat,
        ckpt:   BOOLEAN,
        wait:   {"none", "timer", "user-input"},
        at:     {"none", "wait", "later"},
        micros: SUBSET {"heartbeat_at", "resume_at"},
        due:    BOOLEAN,
        why:    Reason]

NewRow == [status |-> "running", runner |-> NoRunner, owner |-> NoRunner,
           lease |-> "none", beat |-> 0, ckpt |-> FALSE, wait |-> "none",
           at |-> "none", micros |-> {}, due |-> FALSE, why |-> "none"]

Active(x)   == x.status \in ActiveStatus
Terminal(x) == x.status \in TerminalStatus
Parked(x)   == x.status = "suspended" /\ x.wait # "none" /\ x.owner = NoRunner

\* The UPDATEs that fail an active run: with and without forgetting the runner.
Cancelled(x, why) ==
  [x EXCEPT !.status = "failed", !.owner = NoRunner, !.lease = "none", !.why = why]
Settled(x, why) == [Cancelled(x, why) EXCEPT !.runner = NoRunner]

\* What NOW() leaves in a column: a whole millisecond, or more.
Fraction(column) == {{}, {column}}

\* What each compare-and-swap compares.
LaunchKey(x) == [status |-> x.status, runner |-> x.runner, owner |-> x.owner,
                 wait |-> x.wait, at |-> x.at]
ReconcileKey(x) == [status |-> x.status, runner |-> x.runner, owner |-> x.owner,
                    beat |-> x.beat, wait |-> x.wait, at |-> x.at, ckpt |-> x.ckpt]

LaunchKeys == [status: ActiveStatus \cup TerminalStatus,
               runner: Runners \cup {NoRunner}, owner: Runners \cup {NoRunner},
               wait: {"none", "timer", "user-input"}, at: {"none", "wait", "later"}]
ReconcileKeys == [status: ActiveStatus \cup TerminalStatus,
                  runner: Runners \cup {NoRunner}, owner: Runners \cup {NoRunner},
                  beat: Nat, wait: {"none", "timer", "user-input"},
                  at: {"none", "wait", "later"}, ckpt: BOOLEAN]
Picks == [key: ReconcileKeys, expired: BOOLEAN]

ThreadPC == {"idle", "queued", "recheck", "read", "prepare", "assign", "start",
             "shake", "outcome", "cleanup", "settle", "done"}
ProcPC   == {"none", "created", "boot", "loop", "step", "save", "fail", "gone"}
Working  == {"loop", "step", "save", "fail"}   \* passed the lease, not yet gone
Alive(r) == proc[r] \in Working \cup {"boot"}

IdleThread == [pc |-> "idle", snap |-> LaunchKey(NewRow), run |-> NoRunner,
               assigned |-> FALSE, ok |-> FALSE]
Thread == [pc: ThreadPC, snap: LaunchKeys, run: Runners \cup {NoRunner},
           assigned: BOOLEAN, ok: BOOLEAN]

(* mgr[m]: "old": the run started before this process did; "calls":        *)
(* handlers that have committed their row and not yet called launch();     *)
(* "due": the wait scan; "kills": containers still to be removed; "rec":   *)
(* rows picked by a reconciliation and not yet handled; "retiring": the    *)
(* workflow was archived and its runs not yet failed.                      *)
FreshMgr == [up |-> TRUE, old |-> FALSE, leader |-> FALSE, calls |-> 0,
             due |-> "idle", kills |-> {}, rec |-> {}, retiring |-> FALSE]
Mgr == [up: BOOLEAN, old: BOOLEAN, leader: BOOLEAN, calls: Nat,
        due: {"idle", "picked", "waiting", "failed"}, kills: SUBSET Runners,
        rec: SUBSET Picks, retiring: BOOLEAN]

TypeOK ==
  /\ row \in Row
  /\ archived \in BOOLEAN
  /\ lock \in Managers \cup {NoLock}
  /\ thread \in [Managers -> Thread]
  /\ mgr \in [Managers -> Mgr]
  /\ proc \in [Runners -> ProcPC]
  /\ crashes \in Nat /\ requests \in Nat

\* startRun has inserted the row in manager m and is about to call launch().
Init ==
  \E m \in Managers, l \in Managers :
    /\ row = NewRow
    /\ archived = FALSE
    /\ lock = NoLock
    /\ thread = [x \in Managers |-> IdleThread]
    /\ mgr = [x \in Managers |-> [FreshMgr EXCEPT !.calls = IF x = m THEN 1 ELSE 0,
                                                  !.leader = (x = l)]]
    /\ proc = [r \in Runners |-> "none"]
    /\ crashes = 0 /\ requests = 0

-----------------------------------------------------------------------------
(* The launch thread of a manager: launch() and launchUnchecked().          *)

\* Mutant: the advisory lock is requested and its answer ignored.
EnterUnlocked(m) ==
  IF thread[m].pc # "idle" THEN UNCHANGED <<thread, lock>>
  ELSE thread' = [thread EXCEPT ![m].pc = "read"] /\ UNCHANGED lock

\* A caller of launch(): joins the pending one or starts it and tries the lock.
Enter(m) ==
  IF thread[m].pc # "idle" THEN UNCHANGED <<thread, lock>>
  ELSE IF lock = NoLock
       THEN lock' = m /\ thread' = [thread EXCEPT ![m].pc = "read"]
       ELSE UNCHANGED lock /\ thread' = [thread EXCEPT ![m].pc = "queued"]

Goto(m, pc) == thread' = [thread EXCEPT ![m].pc = pc]
Finish(m, ok) == thread' = [thread EXCEPT ![m].pc = "done", ![m].ok = ok]

CallLaunch(m) ==
  /\ mgr[m].up /\ mgr[m].calls > 0
  /\ mgr' = [mgr EXCEPT ![m].calls = @ - 1]
  /\ Enter(m)
  /\ UNCHANGED <<row, archived, proc, crashes, requests>>

LockGranted(m) ==
  /\ thread[m].pc = "queued" /\ lock = NoLock
  /\ lock' = m
  /\ Goto(m, "recheck")
  /\ UNCHANGED <<row, archived, mgr, proc, crashes, requests>>

\* After waiting for the lock: another manager may have handled the run.
AlreadyHandled(x) ==
  Terminal(x) \/ Parked(x) \/ (x.owner # NoRunner /\ x.beat > 0 /\ x.lease # "none")

Recheck(m) ==
  /\ thread[m].pc = "recheck"
  /\ IF AlreadyHandled(row) THEN Finish(m, TRUE) ELSE Goto(m, "read")
  /\ UNCHANGED <<row, archived, lock, mgr, proc, crashes, requests>>

\* Mutant: an assigned runner that has not taken its lease yet is overlooked.
LaunchableUnlessOwned(x) == Active(x) /\ ~archived /\ x.owner = NoRunner

Launchable(x) == Active(x) /\ ~archived /\ x.runner = NoRunner /\ x.owner = NoRunner

ReadRun(m) ==
  /\ thread[m].pc = "read"
  /\ \/ /\ Launchable(row)
        /\ thread' = [thread EXCEPT ![m].pc = "prepare", ![m].snap = LaunchKey(row)]
     \/ /\ ServerMode \/ ~Launchable(row)     \* refused: nothing is settled
        /\ Finish(m, FALSE)
  /\ UNCHANGED <<row, archived, lock, mgr, proc, crashes, requests>>

FirstSpare(r) == proc[r] = "none" /\ \A s \in Runners : proc[s] = "none" => r <= s

Prepare(m) ==
  /\ thread[m].pc = "prepare"
  /\ \/ \E r \in Runners :
          /\ FirstSpare(r)
          /\ proc' = [proc EXCEPT ![r] = "created"]
          /\ thread' = [thread EXCEPT ![m].pc = "assign", ![m].run = r]
     \/ Goto(m, "settle") /\ UNCHANGED proc
  /\ UNCHANGED <<row, archived, lock, mgr, crashes, requests>>

\* Mutant: the row is assigned by execution_id alone.
AssignableUnlessArchived(m) == ~archived

Assignable(m) ==
  LaunchKey(row) = thread[m].snap /\ "resume_at" \notin row.micros /\ ~archived

Assign(m) ==
  /\ thread[m].pc = "assign"
  /\ \/ /\ Assignable(m)
        /\ row' = [row EXCEPT !.runner = thread[m].run, !.status = "running",
                              !.at = "none", !.due = FALSE, !.wait = "none",
                              !.micros = @ \ {"resume_at"}]
        /\ thread' = [thread EXCEPT ![m].pc = "start", ![m].assigned = TRUE]
     \/ /\ ~Assignable(m)
        /\ Goto(m, "cleanup")
        /\ UNCHANGED row
  /\ UNCHANGED <<archived, lock, mgr, proc, crashes, requests>>

\* docker start; a failure removes the container, but a start whose answer is
\* lost leaves it running because that removal is not forced.
StartRunner(m) ==
  LET r == thread[m].run IN
  /\ thread[m].pc = "start"
  /\ \/ proc[r] = "created" /\ proc' = [proc EXCEPT ![r] = "boot"] /\ Goto(m, "shake")
     \/ proc[r] = "created" /\ proc' = [proc EXCEPT ![r] = "boot"] /\ Goto(m, "cleanup")
     \/ proc' = [proc EXCEPT ![r] = "gone"] /\ Goto(m, "cleanup")
  /\ UNCHANGED <<row, archived, lock, mgr, crashes, requests>>

\* Mutant: the handshake looks at heartbeat_at, which a resumed run still has from
\* its first runner, and not at the owner.
BeatAndAssigned(x, r) == Terminal(x) \/ Parked(x) \/ (x.beat > 0 /\ x.runner = r)

ShookHands(x, r) ==
  Terminal(x) \/ Parked(x) \/ (x.owner # NoRunner /\ x.beat > 0 /\ x.runner = r)

\* Mutant: a launch gives up on its runner without looking at the lease.
UnownedOrAssigned(x, r) == Active(x) /\ (r = NoRunner \/ x.runner = r)

\* settleUnownedRun: any active, unowned row when r is NoRunner.
Unowned(x, r) == Active(x) /\ x.owner = NoRunner /\ x.lease = "none"
                 /\ (r = NoRunner \/ x.runner = r)

Handshake(m) ==
  /\ thread[m].pc = "shake"
  /\ ShookHands(row, thread[m].run)
  /\ Finish(m, TRUE)
  /\ UNCHANGED <<row, archived, lock, mgr, proc, crashes, requests>>

HandshakeTimeout(m) ==
  /\ thread[m].pc = "shake"
  /\ \/ /\ Unowned(row, thread[m].run)
        /\ row' = Settled(row, "runner_handshake_timeout")
        /\ Goto(m, "cleanup")
     \/ /\ ~Unowned(row, thread[m].run)
        /\ Goto(m, "outcome")
        /\ UNCHANGED row
  /\ UNCHANGED <<archived, lock, mgr, proc, crashes, requests>>

Outcome(m) ==
  /\ thread[m].pc = "outcome"
  /\ IF ShookHands(row, thread[m].run) THEN Finish(m, TRUE) ELSE Goto(m, "cleanup")
  /\ UNCHANGED <<row, archived, lock, mgr, proc, crashes, requests>>

\* docker rm --force; its failure is swallowed.
Removed(r) == \/ proc' = [proc EXCEPT ![r] = "gone"]
              \/ UNCHANGED proc

Cleanup(m) ==
  /\ thread[m].pc = "cleanup"
  /\ Removed(thread[m].run)
  /\ Goto(m, "settle")
  /\ UNCHANGED <<row, archived, lock, mgr, crashes, requests>>

SettleLaunch(m) ==
  LET r == IF thread[m].assigned THEN thread[m].run ELSE NoRunner IN
  /\ thread[m].pc = "settle"
  /\ row' = IF Unowned(row, r) THEN Settled(row, "runner_launch_failed") ELSE row
  /\ Finish(m, FALSE)
  /\ UNCHANGED <<archived, lock, mgr, proc, crashes, requests>>

\* finally: unlock, forget the launch, and let its callers continue.
Release(m) ==
  /\ thread[m].pc = "done"
  /\ lock' = IF lock = m THEN NoLock ELSE lock
  /\ thread' = [thread EXCEPT ![m] = IdleThread]
  /\ mgr' = [mgr EXCEPT ![m].due = IF @ # "waiting" THEN @
                                   ELSE IF thread[m].ok THEN "idle" ELSE "failed"]
  /\ UNCHANGED <<row, archived, proc, crashes, requests>>

LaunchStep(m) ==
  \/ LockGranted(m) \/ Recheck(m) \/ ReadRun(m) \/ Prepare(m) \/ Assign(m)
  \/ StartRunner(m) \/ Handshake(m) \/ HandshakeTimeout(m) \/ Outcome(m)
  \/ Cleanup(m) \/ SettleLaunch(m) \/ Release(m)

-----------------------------------------------------------------------------
(* The wait scan, every second in the scheduler leader: resumeDueRuns().    *)

DueScan(m) ==
  /\ mgr[m].up /\ mgr[m].leader /\ mgr[m].due = "idle"
  /\ row.status = "suspended" /\ row.at # "none" /\ row.due /\ ~archived
  /\ mgr' = [mgr EXCEPT ![m].due = "picked"]
  /\ UNCHANGED <<row, archived, lock, thread, proc, crashes, requests>>

DueLaunch(m) ==
  /\ mgr[m].due = "picked"
  /\ \/ mgr' = [mgr EXCEPT ![m].due = "waiting"] /\ Enter(m)
     \/ /\ ServerMode                        \* the schedule grant is refused
        /\ mgr' = [mgr EXCEPT ![m].due = "failed"]
        /\ UNCHANGED <<thread, lock>>
  /\ UNCHANGED <<row, archived, proc, crashes, requests>>

\* Mutant: a failed resume drops resume_at instead of moving it.
DueGiveUp(m) ==
  /\ mgr[m].due = "failed"
  /\ row' = IF Active(row) THEN [row EXCEPT !.at = "none", !.due = FALSE] ELSE row
  /\ mgr' = [mgr EXCEPT ![m].due = "idle"]
  /\ UNCHANGED <<archived, lock, thread, proc, crashes, requests>>

DueBackoff(m) ==
  /\ mgr[m].due = "failed"
  /\ \E part \in Fraction("resume_at") :
       row' = IF Active(row)
              THEN [row EXCEPT !.at = "later", !.due = FALSE,
                               !.micros = (@ \ {"resume_at"}) \cup part]
              ELSE row
  /\ mgr' = [mgr EXCEPT ![m].due = "idle"]
  /\ UNCHANGED <<archived, lock, thread, proc, crashes, requests>>

-----------------------------------------------------------------------------
(* Reconciliation, every five seconds and at startup.                       *)

\* Mutant: a run lost between its INSERT and its launch is never picked.
AbandonedAfterLaunch(m, x) ==
  /\ Active(x) /\ x.runner # NoRunner
  /\ \/ x.owner = NoRunner /\ x.beat = 0 /\ ~x.ckpt
     \/ x.lease = "expired" /\ ~(x.status = "suspended" /\ x.wait # "none")

Abandoned(m, x) ==
  /\ Active(x)
  /\ \/ x.runner # NoRunner /\ x.owner = NoRunner /\ x.beat = 0 /\ ~x.ckpt
     \/ x.runner = NoRunner /\ x.owner = NoRunner /\ x.beat = 0 /\ ~x.ckpt /\ mgr[m].old
     \/ x.runner # NoRunner /\ x.lease = "expired"
        /\ ~(x.status = "suspended" /\ x.wait # "none")

ReconcileScan(m) ==
  /\ mgr[m].up /\ Cardinality(mgr[m].rec) < MaxPicks
  /\ Abandoned(m, row)
  /\ mgr' = [mgr EXCEPT ![m].rec = @ \cup {[key |-> ReconcileKey(row),
                                            expired |-> row.lease = "expired"]}]
  /\ UNCHANGED <<row, archived, lock, thread, proc, crashes, requests>>

\* The reasons that apply, in the order the code tries them.
ReconcileReason(m, pick) ==
  IF pick.expired THEN "runner_lease_expired"
  ELSE IF pick.key.runner = NoRunner THEN "manager_restarted_before_launch"
  ELSE IF mgr[m].old THEN "manager_restarted_before_handshake"
  ELSE IF ~Alive(pick.key.runner) THEN "abandoned_without_live_runner"
  ELSE "none"

\* Under the launch lock, which this step therefore needs and gives back.
ReconcileSettle(m) ==
  \E pick \in mgr[m].rec :
    LET why    == ReconcileReason(m, pick)
        locked == thread[m].pc = "idle" /\ lock = NoLock
        settle == /\ locked /\ why # "none"
                  /\ ReconcileKey(row) = pick.key /\ row.micros = {}
                  /\ ~(row.status = "suspended" /\ row.wait # "none")
    IN /\ row' = IF settle THEN Settled(row, why) ELSE row
       /\ mgr' = [mgr EXCEPT ![m].rec = @ \ {pick},
                             ![m].kills = IF settle THEN @ \cup ({pick.key.runner} \ {NoRunner})
                                          ELSE @]
       /\ UNCHANGED <<archived, lock, thread, proc, crashes, requests>>

-----------------------------------------------------------------------------
(* HTTP handlers of the owner.                                              *)

\* /stop: fails the active run, then removes its container.
Stop(m) ==
  /\ mgr[m].up /\ Active(row)
  /\ row' = Cancelled(row, "user_cancelled")
  /\ mgr' = [mgr EXCEPT ![m].kills = @ \cup ({row.runner} \ {NoRunner})]
  /\ UNCHANGED <<archived, lock, thread, proc, crashes, requests>>

\* /resume: marks the run running, whatever it was waiting for, and launches it.
Resume(m) ==
  /\ mgr[m].up /\ requests < MaxRequests
  /\ Active(row) /\ ~archived
  /\ row' = [row EXCEPT !.status = "running"]
  /\ mgr' = [mgr EXCEPT ![m].calls = @ + 1]
  /\ requests' = requests + 1
  /\ UNCHANGED <<archived, lock, thread, proc, crashes>>

\* PATCH /v1/workflows/:id/status: the workflow first, its runs afterwards.
Archive(m) ==
  /\ mgr[m].up /\ ~archived /\ requests < MaxRequests
  /\ archived' = TRUE
  /\ mgr' = [mgr EXCEPT ![m].retiring = TRUE]
  /\ requests' = requests + 1
  /\ UNCHANGED <<row, lock, thread, proc, crashes>>

Retire(m) ==
  /\ mgr[m].retiring
  /\ row' = IF Active(row) THEN Cancelled(row, "workflow_archived") ELSE row
  /\ mgr' = [mgr EXCEPT ![m].retiring = FALSE,
                        ![m].kills = IF Active(row) THEN @ \cup ({row.runner} \ {NoRunner}) ELSE @]
  /\ UNCHANGED <<archived, lock, thread, proc, crashes, requests>>

Unarchive(m) ==
  /\ mgr[m].up /\ archived /\ requests < MaxRequests
  /\ archived' = FALSE
  /\ requests' = requests + 1
  /\ UNCHANGED <<row, lock, thread, mgr, proc, crashes>>

\* launcher.stopRunner after the row was failed.
StopRunner(m) ==
  \E r \in mgr[m].kills :
    /\ Removed(r)
    /\ mgr' = [mgr EXCEPT ![m].kills = @ \ {r}]
    /\ UNCHANGED <<row, archived, lock, thread, crashes, requests>>

-----------------------------------------------------------------------------
(* Manager processes.                                                       *)

\* Everything in memory is lost; the session, and with it the lock, ends.
Crash(m) ==
  /\ mgr[m].up /\ crashes < MaxCrashes
  /\ crashes' = crashes + 1
  /\ mgr' = [mgr EXCEPT ![m] = [FreshMgr EXCEPT !.up = FALSE, !.old = TRUE]]
  /\ thread' = [thread EXCEPT ![m] = IdleThread]
  /\ lock' = IF lock = m THEN NoLock ELSE lock
  /\ UNCHANGED <<row, archived, proc, requests>>

\* Mutant: migration 004 fails every active run without an owner.
MigratedUnlessOwned(x) ==
  IF Active(x) /\ archived THEN Cancelled(x, "workflow_archived")
  ELSE IF Active(x) /\ x.owner = NoRunner /\ x.lease = "none"
       THEN Settled(x, "abandoned_without_live_lease") ELSE x

\* main(): the migrations, which settle rows at every start, then leadership.
Migrated(x) ==
  IF Active(x) /\ archived THEN Cancelled(x, "workflow_archived")
  ELSE IF Active(x) /\ x.runner # NoRunner /\ x.owner = NoRunner
          /\ x.lease = "none" /\ x.beat = 0 /\ ~x.ckpt
       THEN Settled(x, "abandoned_without_live_lease") ELSE x

Restart(m) ==
  /\ ~mgr[m].up
  /\ row' = Migrated(row)
  /\ mgr' = [mgr EXCEPT ![m].up = TRUE, ![m].leader = \A n \in Managers : ~mgr[n].leader]
  /\ UNCHANGED <<archived, lock, thread, proc, crashes, requests>>

-----------------------------------------------------------------------------
(* Runner processes: runner.ts main() and the steps of its loop.            *)

Lease(r) ==
  /\ proc[r] = "boot"
  /\ \/ /\ Active(row) /\ (row.owner = NoRunner \/ row.lease # "live")
        /\ \E part \in Fraction("heartbeat_at") :
             row' = [row EXCEPT !.owner = r, !.lease = "live", !.beat = @ + 1,
                                !.micros = (@ \ {"heartbeat_at"}) \cup part,
                                !.status = "running"]
        /\ proc' = [proc EXCEPT ![r] = "loop"]
     \/ /\ ~(Active(row) /\ (row.owner = NoRunner \/ row.lease # "live"))
        /\ proc' = [proc EXCEPT ![r] = "gone"]
        /\ UNCHANGED row
  /\ UNCHANGED <<archived, lock, thread, mgr, crashes, requests>>

\* Every twenty seconds; revives the lease even when it has expired.
Heartbeat(r) ==
  /\ proc[r] \in Working /\ row.owner = r /\ row.beat < MaxBeats
  /\ \E part \in Fraction("heartbeat_at") :
       row' = [row EXCEPT !.lease = "live", !.beat = @ + 1,
                          !.micros = (@ \ {"heartbeat_at"}) \cup part]
  /\ UNCHANGED <<archived, lock, thread, mgr, proc, crashes, requests>>

\* assertExecutionActive at the top of every iteration.
AssertActive(r) ==
  /\ proc[r] = "loop"
  /\ proc' = [proc EXCEPT ![r] =
                IF row.status = "running" /\ row.owner = r /\ ~archived THEN "step" ELSE "fail"]
  /\ UNCHANGED <<row, archived, lock, thread, mgr, crashes, requests>>

\* A node ran: its checkpoint is inserted, guarded by nothing.
Checkpoint(r) ==
  /\ proc[r] = "step"
  /\ row' = [row EXCEPT !.ckpt = TRUE]
  /\ proc' = [proc EXCEPT ![r] = "save"]
  /\ UNCHANGED <<archived, lock, thread, mgr, crashes, requests>>

\* persistState writes the playbook only; the loop goes on.
NextIteration(r) ==
  /\ proc[r] = "save"
  /\ proc' = [proc EXCEPT ![r] = "loop"]
  /\ UNCHANGED <<row, archived, lock, thread, mgr, crashes, requests>>

\* Any await may throw.
Throw(r) ==
  /\ proc[r] \in {"loop", "step", "save"}
  /\ proc' = [proc EXCEPT ![r] = "fail"]
  /\ UNCHANGED <<row, archived, lock, thread, mgr, crashes, requests>>

\* Mutant: suspend() leaves runner_id behind.
SuspendAssigned(r, kind) ==
  /\ proc[r] = (IF kind = "timer" THEN "save" ELSE "step")
  /\ Cardinality({s \in Runners : proc[s] = "none"}) > MaxCrashes - crashes
  /\ row' = IF row.owner # r THEN row
            ELSE [row EXCEPT !.status = "suspended", !.wait = kind,
                             !.at = IF kind = "timer" THEN "wait" ELSE "none",
                             !.micros = @ \ {"resume_at"}, !.due = FALSE,
                             !.owner = NoRunner, !.lease = "none"]
  /\ proc' = [proc EXCEPT ![r] = "gone"]
  /\ UNCHANGED <<archived, lock, thread, mgr, crashes, requests>>

\* suspend(): bound: a container is left for the launch that resumes the run.
Suspend(r, kind) ==
  /\ proc[r] = (IF kind = "timer" THEN "save" ELSE "step")
  /\ Cardinality({s \in Runners : proc[s] = "none"}) > MaxCrashes - crashes
  /\ row' = IF row.owner # r THEN row
            ELSE [row EXCEPT !.status = "suspended", !.wait = kind,
                             !.at = IF kind = "timer" THEN "wait" ELSE "none",
                             !.micros = @ \ {"resume_at"}, !.due = FALSE,
                             !.owner = NoRunner, !.lease = "none", !.runner = NoRunner]
  /\ proc' = [proc EXCEPT ![r] = "gone"]
  /\ UNCHANGED <<archived, lock, thread, mgr, crashes, requests>>

\* Mutant: settle() does not ask whether this runner still owns the row.
SettleUnasked(r, status) ==
  /\ proc[r] \in (IF status = "completed" THEN {"step", "save"} ELSE {"fail"})
  /\ row' = [row EXCEPT !.status = status, !.owner = NoRunner,
                        !.lease = "none", !.runner = NoRunner]
  /\ proc' = [proc EXCEPT ![r] = "gone"]
  /\ UNCHANGED <<archived, lock, thread, mgr, crashes, requests>>

\* settle(): completed from a step or after a transfer, failed from the catch.
SettleRun(r, status) ==
  /\ proc[r] \in (IF status = "completed" THEN {"step", "save"} ELSE {"fail"})
  /\ row' = IF row.owner # r THEN row
            ELSE [row EXCEPT !.status = status, !.owner = NoRunner,
                             !.lease = "none", !.runner = NoRunner]
  /\ proc' = [proc EXCEPT ![r] = "gone"]
  /\ UNCHANGED <<archived, lock, thread, mgr, crashes, requests>>

RunnerCrash(r) ==
  /\ Alive(r)
  /\ proc' = [proc EXCEPT ![r] = "gone"]
  /\ UNCHANGED <<row, archived, lock, thread, mgr, crashes, requests>>

RunnerStep(r) ==
  \/ Lease(r) \/ Heartbeat(r) \/ AssertActive(r) \/ Checkpoint(r)
  \/ NextIteration(r) \/ Throw(r) \/ RunnerCrash(r)
  \/ \E kind \in {"timer", "user-input"} : Suspend(r, kind)
  \/ \E status \in TerminalStatus : SettleRun(r, status)

-----------------------------------------------------------------------------
(* The clock.                                                               *)

LeaseExpires ==
  /\ row.lease = "live"
  /\ row' = [row EXCEPT !.lease = "expired"]
  /\ UNCHANGED <<archived, lock, thread, mgr, proc, crashes, requests>>

WaitElapses ==
  /\ row.at # "none" /\ ~row.due
  /\ row' = [row EXCEPT !.due = TRUE]
  /\ UNCHANGED <<archived, lock, thread, mgr, proc, crashes, requests>>

ManagerStep(m) ==
  \/ CallLaunch(m) \/ LaunchStep(m)
  \/ DueScan(m) \/ DueLaunch(m) \/ DueBackoff(m)
  \/ ReconcileScan(m) \/ ReconcileSettle(m)
  \/ Stop(m) \/ Resume(m) \/ Archive(m) \/ Retire(m) \/ Unarchive(m)
  \/ StopRunner(m) \/ Crash(m) \/ Restart(m)

Next ==
  \/ \E m \in Managers : ManagerStep(m)
  \/ \E r \in Runners : RunnerStep(r)
  \/ LeaseExpires \/ WaitElapses

Spec == Init /\ [][Next]_vars

\* Timers keep firing, requests keep being served, restart: unless-stopped
\* brings a manager back, and the lease of a dead runner runs out.  Nothing
\* is assumed of users, of runners or of crashes.
Fairness ==
  /\ \A m \in Managers :
       /\ WF_vars(CallLaunch(m)) /\ WF_vars(LaunchStep(m))
       /\ WF_vars(DueScan(m)) /\ WF_vars(DueLaunch(m)) /\ WF_vars(DueBackoff(m))
       /\ WF_vars(ReconcileScan(m)) /\ WF_vars(ReconcileSettle(m))
       /\ WF_vars(Retire(m)) /\ WF_vars(Restart(m))
  /\ WF_vars(WaitElapses)
  /\ WF_vars(LeaseExpires /\ \A r \in Runners : row.owner = r => ~Alive(r))

FairSpec == Spec /\ Fairness

-----------------------------------------------------------------------------
(* Safety.                                                                  *)

\* At no time do two runner processes work on the run, whatever crashes,
\* times out or is cancelled; not even after it ended.  runner.ts takes the
\* lease without comparing runner_id, so this rests on manager.ts never
\* assigning a second container to an active run.
AtMostOneWorker ==
  \A r, s \in Runners : proc[r] \in Working /\ proc[s] \in Working => r = s

\* The lease is held by the container the manager assigned: the cleanup of a
\* launch, which knows only runner_id, never removes somebody else's runner.
OwnerIsAssigned == row.owner # NoRunner => row.runner = row.owner

\* A suspended run is released: nothing owns it or is assigned to it, so the
\* wait scan and /resume may launch it, and it knows what it waits for.
ParkedIsReleased ==
  row.status = "suspended" => /\ row.owner = NoRunner /\ row.runner = NoRunner
                              /\ row.wait # "none" /\ row.lease = "none"

\* A settled run stays as it was settled: no late heartbeat, suspend(), settle(),
\* assignment or lease of a process that has not noticed changes its outcome.
TerminalForever ==
  [][Terminal(row) => /\ row'.status = row.status /\ row'.why = row.why
                      /\ row'.owner = NoRunner]_vars

\* What the managers settle on their own initiative (reconciliation, launch
\* and handshake failures, migration 004) is never a run whose lease is live.
Automatic == Reason \ {"none", "user_cancelled", "workflow_archived"}
LiveLeaseRespected ==
  [][row'.why # row.why /\ row'.why \in Automatic => row.lease # "live"]_vars

\* A run that waits for a timer or a person is not taken for an abandoned one,
\* across restarts: only a user or the launch that resumes it can fail it.
WaitSurvivesReconciliation ==
  [][row.status = "suspended" /\ row'.why # row.why
       => row'.why \in {"user_cancelled", "workflow_archived", "runner_launch_failed"}]_vars

\* A run that has run before and is marked running without an owner is in the hands
\* of the launch that assigned its container, which sees it leased or settles it,
\* as long as no manager has crashed and nobody has asked to resume the run or to
\* archive its workflow: heartbeat_at hides it from every clause of the
\* reconciliation, so nobody else would.
Attends(m) ==
  /\ thread[m].pc \in {"start", "shake", "cleanup", "settle"}
  /\ thread[m].assigned /\ thread[m].run = row.runner

RunningIsAttended ==
  row.status = "running" /\ row.owner = NoRunner /\ row.beat > 0
    /\ crashes = 0 /\ requests = 0
    => \E m \in Managers : Attends(m)

-----------------------------------------------------------------------------
(* The inductive invariant behind the safety properties.                    *)

\* lease_expires_at is set exactly while somebody owns the row.
LeaseHasOwner == (row.owner = NoRunner) <=> (row.lease = "none")

TerminalIsReleased == Terminal(row) => row.owner = NoRunner

\* An owner has passed its boot; it may have died since.
OwnerHasBooted ==
  \A r \in Runners : row.owner = r => proc[r] \in Working \cup {"gone"}

\* A runner that has yet to take the lease of an active run is the assigned one.
BootIsAssigned ==
  \A r \in Runners : proc[r] = "boot" /\ Active(row) => row.runner = r

\* A runner past its lease owns the run for as long as the run is active.
WorkerOwns ==
  \A r \in Runners : proc[r] \in Working /\ Active(row) => row.owner = r

\* Inside launchUnchecked a manager holds the advisory lock, ...
LaunchIsLocked ==
  \A m \in Managers : thread[m].pc \notin {"idle", "queued"} => lock = m

\* ... the row it read was unassigned, ...
SnapshotIsFree ==
  \A m \in Managers : thread[m].pc \in {"prepare", "assign"} =>
    /\ thread[m].snap.status \in ActiveStatus
    /\ thread[m].snap.runner = NoRunner /\ thread[m].snap.owner = NoRunner

\* ... its container does not run before it is started, and once assigned stays
\* assigned.
StartIsAssigned ==
  \A m \in Managers :
    /\ thread[m].pc \in {"assign", "start", "shake"} => thread[m].run \in Runners
    /\ thread[m].pc \in {"assign", "start"} => proc[thread[m].run] \in {"created", "gone"}
    /\ thread[m].pc = "start" /\ Active(row) => row.runner = thread[m].run

\* A picked row was active, and while it still has the heartbeat it was picked
\* with, its lease has not become live.
PickIsStale ==
  \A m \in Managers : \A pick \in mgr[m].rec :
    /\ pick.key.status \in ActiveStatus
    /\ pick.key.beat <= row.beat
    /\ pick.key.owner # NoRunner /\ pick.key.beat = row.beat => row.lease # "live"

RowInv    == LeaseHasOwner /\ TerminalIsReleased /\ ParkedIsReleased /\ OwnerIsAssigned
WorkerInv == OwnerHasBooted /\ BootIsAssigned /\ WorkerOwns /\ AtMostOneWorker
LaunchInv == LaunchIsLocked /\ SnapshotIsFree /\ StartIsAssigned

IInv == TypeOK /\ RowInv /\ WorkerInv /\ LaunchInv /\ PickIsStale

-----------------------------------------------------------------------------
(* Refinement: the row and its containers implement ExclusiveRun.           *)

Phase == IF Terminal(row) THEN "ended"
         ELSE IF row.owner # NoRunner THEN "working"
         ELSE IF row.status = "suspended" THEN "parked" ELSE "queued"

Contract == INSTANCE ExclusiveRun
              WITH phase <- Phase, worker <- row.owner,
                   Workers <- Runners, Nobody <- NoRunner

\* The run is claimed by one worker at a time, changes hands only by being
\* parked and launched again, and ends once: every statement the managers and
\* the runners execute, in any order, is a step of ExclusiveRun or none.
ImplementsExclusiveRun == Contract!Spec

-----------------------------------------------------------------------------
(* Liveness.                                                                *)

\* In desktop mode, a run that no runner has owned yet is owned in the end, or settled:
\* neither a crash of the manager, before the launch or inside it, nor a container that
\* never comes up leaves it running for ever.  (The claim does not extend to a server:
\* a launch it refuses in ReadRun throws before the try, manager.ts:413-416, and settles
\* nothing; the run stays as it is, and no reconciliation selects it before a restart.)
FirstLaunchServed ==
  ~ServerMode => (Active(row) /\ row.beat = 0) ~> (row.beat > 0 \/ Terminal(row))

\* manager.ts: a run whose runner died holding the lease is failed, with the
\* reason runner_lease_expired.
DeadOwnerSettled ==
  \A r \in Runners : (row.owner = r /\ proc[r] = "gone") ~> (row.owner = NoRunner)

\* In desktop mode, a run suspended on a timer is launched again or settled.  (A server
\* whose schedule grant is refused puts the timer off at every scan, for ever.)
TimerServed ==
  ~ServerMode => (row.status = "suspended" /\ row.at # "none") ~> (row.status # "suspended")

\* PRD_WORKFLOW_SYSTEM.md 2.17: after a restart the run resumes.  A run that is
\* marked running is eventually owned by a runner, or settled, or parked.
RunningIsServed ==
  (row.status = "running" /\ row.owner = NoRunner)
    ~> (row.status # "running" \/ row.owner # NoRunner)

\* manager.ts: after a failed resume of a wait the "retry [is] delayed"; the retry
\* does not then lose the run to a comparison nothing interfered with.
DelayedRetryLaunches ==
  [][\A m \in Managers :
       thread[m].pc = "assign" /\ thread'[m].pc = "cleanup"
         => LaunchKey(row) # thread[m].snap \/ archived]_vars

\* manager.ts: an assignment that matches no row means that the run "became
\* inactive before runner assignment".
MissedAssignmentIsInactive ==
  [][\A m \in Managers :
       thread[m].pc = "assign" /\ thread'[m].pc = "cleanup" => Terminal(row) \/ archived]_vars
=============================================================================
