---------------------------- MODULE RunAdmission ----------------------------
(***************************************************************************)
(* The admission of runs of one workflow, where two programs meet in one   *)
(* table: the workflow service (services/sulla-workflows manager.ts:       *)
(* startRun, called by the API, by schedules and by their catch-up) and    *)
(* the desktop application (WorkflowExecutionModel.admit, called by        *)
(* execute_workflow, restart_from_checkpoint and nested workflows).  Both  *)
(* count and insert inside a transaction under the advisory lock           *)
(* workflow-admission:<workflow>, and both looked at the workflow before.  *)
(*                                                                         *)
(* A call stands for the execution it would create.  What a run does once  *)
(* it is launched is RunLifecycle; here it is live until it ends.          *)
(***************************************************************************)
EXTENDS Integers, FiniteSets

CONSTANTS
  ServiceCalls,  \* calls of startRun
  DesktopCalls,  \* calls of WorkflowExecutionModel.admit
  NoCall,
  Keys,          \* trigger keys: one for each fire time of a schedule node
  NoKey,
  Limits,        \* values the definition gives maxConcurrentRuns
  MaxEdits,      \* bound: changes of the workflow's status or limit
  MaxCrashes     \* bound: stops of the service or of the desktop application

Calls == ServiceCalls \cup DesktopCalls

ASSUME CallsAssumption ==
  /\ IsFiniteSet(Calls) /\ NoCall \notin Calls
  /\ ServiceCalls \cap DesktopCalls = {} /\ NoKey \notin Keys
ASSUME LimitsAssumption == Limits \subseteq Nat \ {0}
ASSUME BoundsAssumption == MaxEdits \in Nat /\ MaxCrashes \in Nat

VARIABLES
  archived, limit,  \* the workflow: status = 'archive', maxConcurrentRuns
  retiring,         \* programs that have archived it and not yet failed its runs
  up,               \* the service's manager process is running
  run,              \* per call: the row of workflow_executions
  call,             \* per call: how far it has come
  lock,             \* holder of workflow-admission:<workflow>, or NoCall
  peak,             \* the largest limit the definition has had
  edits, crashes

vars == <<archived, limit, retiring, up, run, call, lock, peak, edits, crashes>>
workflow == <<archived, limit, retiring, peak, edits>>
processes == <<up, crashes>>

(* "queued": committed, with neither runner nor lease; "live": launched.    *)
(* old: started before the manager process.  heir: the run that resumed it. *)
Run == [status: {"none", "queued", "live", "ended"},
        old: BOOLEAN, heir: Calls \cup {NoCall}]

(* limit: maxConcurrentRuns as this call read it; key: its trigger key;     *)
(* from: the run it resumes; took: its transaction has settled that run.    *)
Final == {"done", "refused", "deduplicated", "conflict", "gone"}
InTx  == {"dedupe", "supersede", "count", "commit"}
Call == [pc: {"idle", "reconcile", "lock", "launch"} \cup InTx \cup Final,
         limit: Limits, key: Keys \cup {NoKey}, from: Calls \cup {NoCall},
         took: BOOLEAN]

TypeOK ==
  /\ archived \in BOOLEAN /\ retiring \subseteq {"service", "desktop"} /\ up \in BOOLEAN
  /\ limit \in Limits /\ peak \in Limits
  /\ run \in [Calls -> Run] /\ call \in [Calls -> Call]
  /\ lock \in Calls \cup {NoCall}
  /\ edits \in Nat /\ crashes \in Nat

Init ==
  /\ archived = FALSE /\ retiring = {} /\ up = TRUE
  /\ limit \in Limits /\ peak = limit
  /\ run = [c \in Calls |-> [status |-> "none", old |-> FALSE, heir |-> NoCall]]
  /\ call = [c \in Calls |-> [pc |-> "idle", limit |-> limit, key |-> NoKey,
                              from |-> NoCall, took |-> FALSE]]
  /\ lock = NoCall /\ edits = 0 /\ crashes = 0

\* What other transactions see: committed rows.
Committed == {c \in Calls : run[c].status # "none"}
Active    == {c \in Calls : run[c].status \in {"queued", "live"}}
Fired(k)  == k # NoKey /\ \E c \in Committed : call[c].key = k

\* The row a transaction settled stays locked until it commits or rolls back.
Held(c) == \E d \in Calls : call[d].took /\ call[d].from = c /\ call[d].pc \in InTx

Goto(c, pc) == call' = [call EXCEPT ![c].pc = pc]
EndRuns(S)  == run' = [c \in Calls |-> IF c \in S THEN [run[c] EXCEPT !.status = "ended"]
                                       ELSE run[c]]

-----------------------------------------------------------------------------
(* Before the transaction.                                                  *)

\* startRun and its callers: a schedule's fire or its catch-up with the key of
\* the fire time, the API, a restart or a parent run without one.
Start(c, k) ==
  /\ c \in ServiceCalls /\ up /\ call[c].pc = "idle"
  /\ call' = [call EXCEPT ![c].pc = IF archived THEN "refused" ELSE "reconcile",
                          ![c].limit = limit, ![c].key = k]
  /\ UNCHANGED <<run, lock, workflow, processes>>

\* catchUp: the fire is known to have happened.
AlreadyFired(c, k) ==
  /\ c \in ServiceCalls /\ up /\ call[c].pc = "idle" /\ Fired(k)
  /\ Goto(c, "deduplicated")
  /\ UNCHANGED <<run, lock, workflow, processes>>

\* reconcileAbandonedRuns: rows nobody launched before this manager started.
Abandoned == {c \in Active : run[c].status = "queued" /\ run[c].old}

Reconcile(c) ==
  /\ call[c].pc = "reconcile"
  /\ EndRuns(Abandoned)
  /\ Goto(c, "lock")
  /\ UNCHANGED <<lock, workflow, processes>>

\* A run that has left checkpoints may be resumed.
Resumable(from) == from \in Calls /\ run[from].status \in {"live", "ended"}

\* execute_workflow, a nested workflow: a fresh run, or one that resumes another.
Execute(c, from) ==
  /\ c \in DesktopCalls /\ call[c].pc = "idle"
  /\ from = NoCall \/ Resumable(from)
  /\ call' = [call EXCEPT ![c].pc = IF archived THEN "refused" ELSE "lock",
                          ![c].limit = limit, ![c].from = from]
  /\ UNCHANGED <<run, lock, workflow, processes>>

\* restart_from_checkpoint: the registry does not load an archived workflow, and
\* the definition in the checkpoint takes its place.
RestartFromCheckpoint(c, from) ==
  /\ c \in DesktopCalls /\ call[c].pc = "idle" /\ Resumable(from)
  /\ call' = [call EXCEPT ![c].pc = "lock", ![c].from = from,
                          ![c].limit = IF archived THEN call[from].limit ELSE limit]
  /\ UNCHANGED <<run, lock, workflow, processes>>

-----------------------------------------------------------------------------
(* The transaction, from the lock to its end.                               *)

\* Mutant: the two programs lock two names.
LockPerProgram(c) ==
  /\ call[c].pc = "lock"
  /\ lock = NoCall \/ (c \in ServiceCalls /\ lock \in DesktopCalls)
  /\ lock' = c
  /\ Goto(c, IF call[c].key # NoKey THEN "dedupe"
             ELSE IF call[c].from # NoCall THEN "supersede" ELSE "count")
  /\ UNCHANGED <<run, workflow, processes>>

\* Mutant: the trigger key is looked up by the callers only.
LockAndCount(c) ==
  /\ call[c].pc = "lock" /\ lock = NoCall
  /\ lock' = c
  /\ Goto(c, IF call[c].from # NoCall THEN "supersede" ELSE "count")
  /\ UNCHANGED <<run, workflow, processes>>

Lock(c) ==
  /\ call[c].pc = "lock" /\ lock = NoCall
  /\ lock' = c
  /\ Goto(c, IF call[c].key # NoKey THEN "dedupe"
             ELSE IF call[c].from # NoCall THEN "supersede" ELSE "count")
  /\ UNCHANGED <<run, workflow, processes>>

\* Mutant: a COMMIT is forgotten before the client goes back to its pool.
LeaveLocked(c, pc) ==
  Goto(c, pc) /\ lock' = IF pc = "deduplicated" THEN lock ELSE NoCall

\* COMMIT or ROLLBACK; both release the lock.
Leave(c, pc) == Goto(c, pc) /\ lock' = NoCall

Dedupe(c) ==
  /\ call[c].pc = "dedupe"
  /\ IF Fired(call[c].key) THEN Leave(c, "deduplicated")
     ELSE Goto(c, "count") /\ UNCHANGED lock
  /\ UNCHANGED <<run, workflow, processes>>

\* Mutant: supersede() is not given the transaction's client.
SupersedeOutside(c) ==
  /\ call[c].pc = "supersede"
  /\ Goto(c, "count")
  /\ run' = IF call[c].from \in Active
            THEN [run EXCEPT ![call[c].from].status = "ended", ![call[c].from].heir = c]
            ELSE run
  /\ UNCHANGED <<lock, workflow, processes>>

Supersede(c) ==
  /\ call[c].pc = "supersede"
  /\ call' = [call EXCEPT ![c].pc = "count", ![c].took = call[c].from \in Active]
  /\ UNCHANGED <<run, lock, workflow, processes>>

\* The rows a transaction counts: it sees what it has itself settled.
Counted(c) == Active \ (IF call[c].took THEN {call[c].from} ELSE {})

Count(c) ==
  /\ call[c].pc = "count"
  /\ IF Cardinality(Counted(c)) >= call[c].limit THEN Leave(c, "refused")
     ELSE Goto(c, "commit") /\ UNCHANGED lock
  /\ UNCHANGED <<run, workflow, processes>>

\* INSERT ... ON CONFLICT (trigger_key) DO NOTHING, seen by others when it commits.
Commit(c) ==
  LET new == ~Fired(call[c].key) IN
  /\ call[c].pc = "commit"
  /\ Leave(c, IF new THEN "launch" ELSE "conflict")
  /\ run' = [r \in Calls |->
               IF r = c /\ new THEN [run[r] EXCEPT !.status = "queued"]
               ELSE IF call[c].took /\ r = call[c].from
                    THEN [run[r] EXCEPT !.status = "ended", !.heir = c]
               ELSE run[r]]
  /\ UNCHANGED <<workflow, processes>>

-----------------------------------------------------------------------------
(* After it: launch() in the service, the first lease in the application.   *)

\* An archived workflow is refused before anything is settled.
Refused(c) == c \in ServiceCalls /\ archived

\* Mutant: the run is launched whatever has become of its row.
LaunchRegardless(c) ==
  /\ call[c].pc = "launch" /\ ~Refused(c)
  /\ Goto(c, "done")
  /\ run' = [run EXCEPT ![c].status = "live"]
  /\ UNCHANGED <<lock, workflow, processes>>

Launch(c) ==
  /\ call[c].pc = "launch"
  /\ Goto(c, "done")
  /\ \/ /\ run[c].status = "queued" /\ ~Refused(c)
        /\ run' = [run EXCEPT ![c].status = "live"]
     \/ /\ run[c].status = "queued" /\ ~Refused(c) /\ c \in ServiceCalls
        /\ EndRuns({c})
     \/ /\ run[c].status # "queued" \/ Refused(c)
        /\ UNCHANGED run
  /\ UNCHANGED <<lock, workflow, processes>>

\* The run completes, fails or is stopped.
RunEnds(c) ==
  /\ run[c].status = "live" /\ ~Held(c)
  /\ EndRuns({c})
  /\ UNCHANGED <<call, lock, workflow, processes>>

-----------------------------------------------------------------------------
(* The workflow and the processes.                                          *)

\* In either program: the status first, the runs by a statement of its own.
Archive(program) ==
  /\ edits < MaxEdits /\ (program = "service" => up)
  /\ archived' = TRUE /\ retiring' = retiring \cup {program} /\ edits' = edits + 1
  /\ UNCHANGED <<limit, peak, run, call, lock, processes>>

Retire(program) ==
  /\ program \in retiring /\ \A c \in Active : ~Held(c)
  /\ retiring' = retiring \ {program}
  /\ EndRuns(Active)
  /\ UNCHANGED <<archived, limit, peak, edits, call, lock, processes>>

\* The definition or the status is set.  PUT /v1/workflows/:id archives as well,
\* and leaves the runs alone.
Edit ==
  /\ edits < MaxEdits
  /\ \E l \in Limits, a \in BOOLEAN :
       /\ <<l, a>> # <<limit, archived>>
       /\ a => archived \/ up
       /\ limit' = l /\ archived' = a
       /\ peak' = IF l > peak THEN l ELSE peak
  /\ edits' = edits + 1
  /\ UNCHANGED <<retiring, run, call, lock, processes>>

\* A program stops: what it was doing is forgotten, its transaction rolled back.
Stopped(program, side) ==
  /\ crashes < MaxCrashes /\ crashes' = crashes + 1
  /\ call' = [c \in Calls |-> IF c \in side /\ call[c].pc \notin {"idle"} \cup Final
                              THEN [call[c] EXCEPT !.pc = "gone", !.took = FALSE]
                              ELSE call[c]]
  /\ lock' = IF lock \in side THEN NoCall ELSE lock
  /\ retiring' = retiring \ {program}
  /\ UNCHANGED <<archived, limit, peak, edits, run>>

ServiceStops == up /\ up' = FALSE /\ Stopped("service", ServiceCalls)
DesktopStops == UNCHANGED up /\ Stopped("desktop", DesktopCalls)

\* Migration 003 fails what an archived workflow still runs.  started_at is the
\* time a transaction began, so one that is under way counts as older.
Restart ==
  /\ ~up /\ up' = TRUE
  /\ archived => \A c \in Active : ~Held(c)
  /\ run' = [c \in Calls |->
               [run[c] EXCEPT !.old = run[c].status # "none" \/ call[c].pc \in InTx \cup {"lock"},
                              !.status = IF archived /\ c \in Active THEN "ended" ELSE @]]
  /\ UNCHANGED <<call, lock, workflow, crashes>>

\* Every five seconds.
ReconcileTick ==
  /\ up /\ Abandoned # {}
  /\ EndRuns(Abandoned)
  /\ UNCHANGED <<call, lock, workflow, processes>>

CallStep(c) ==
  \/ Reconcile(c) \/ Lock(c) \/ Dedupe(c) \/ Supersede(c) \/ Count(c)
  \/ Commit(c) \/ Launch(c)

Next ==
  \/ \E c \in Calls, k \in Keys \cup {NoKey} : Start(c, k) \/ AlreadyFired(c, k)
  \/ \E c \in Calls, from \in Calls \cup {NoCall} :
       Execute(c, from) \/ RestartFromCheckpoint(c, from)
  \/ \E c \in Calls : CallStep(c) \/ RunEnds(c)
  \/ \E program \in {"service", "desktop"} : Archive(program) \/ Retire(program)
  \/ Edit
  \/ ServiceStops \/ DesktopStops \/ Restart \/ ReconcileTick

Spec == Init /\ [][Next]_vars

-----------------------------------------------------------------------------
(* Safety.                                                                  *)

\* Whoever starts runs, from whichever program and however the definition is
\* edited meanwhile, no more are active than it allowed at some time.
LimitRespected == Cardinality(Active) <= peak

\* startRun's "trigger key is already owned by another context" is never told to
\* the owner's own schedule and catch-up racing each other: one of them starts
\* the run, the other is given it.
NoSpuriousConflict == \A c \in Calls : call[c].pc # "conflict"

\* "An active row is never stolen": a resumed run loses its row only to a run
\* that was itself admitted, also when the limit refuses the resume or a
\* process stops in the middle.
StolenOnlyByHeir ==
  \A c \in Calls : run[c].heir # NoCall =>
    /\ run[c].status = "ended"
    /\ run[c].heir \in Committed /\ call[run[c].heir].from = c

\* execute_workflow.ts enforces "retirement at the execution boundary too.
\* Archived workflows are historical only": once nobody has their runs still to
\* fail, no run of theirs becomes active.
ArchivedIsHistorical == [][archived /\ retiring = {} => Active' \subseteq Active]_vars

-----------------------------------------------------------------------------
(* The inductive invariant behind the safety properties.                    *)

\* The lock is held from its grant to the end of the transaction and no longer:
\* whoever is refused, deduplicated or stopped gives it back.
LockIsHeldInside == \A c \in Calls : call[c].pc \in InTx <=> lock = c

LimitsAreBounded == limit <= peak /\ \A c \in Calls : call[c].limit <= peak

\* A call has no row before it commits; only the application resumes runs, and
\* only the service has trigger keys.
RowIsCommitted ==
  \A c \in Calls :
    /\ run[c].status # "none" => call[c].pc \in {"launch"} \cup Final
    /\ IF c \in ServiceCalls THEN call[c].from = NoCall ELSE call[c].key = NoKey
    /\ call[c].took \/ call[c].pc = "supersede" => call[c].from # NoCall
    /\ call[c].took => call[c].pc \in {"count", "commit", "launch"} \cup Final

\* A run that is resumed has run, and its row cannot end while it is being taken.
TakenIsActive ==
  \A c \in Calls : call[c].from # NoCall =>
    /\ run[call[c].from].status \in {"live", "ended"}
    /\ call[c].took /\ call[c].pc \in InTx => run[call[c].from].status = "live"

\* What a transaction has looked up stays true until it commits.
KeyIsFree == \A c \in Calls : call[c].pc \in {"count", "commit"} => ~Fired(call[c].key)
SlotIsFree ==
  \A c \in Calls : call[c].pc = "commit" => Cardinality(Counted(c)) < call[c].limit

IInv ==
  /\ TypeOK /\ LockIsHeldInside /\ LimitsAreBounded /\ RowIsCommitted /\ TakenIsActive
  /\ KeyIsFree /\ SlotIsFree /\ LimitRespected /\ NoSpuriousConflict /\ StolenOnlyByHeir

-----------------------------------------------------------------------------
(* Refinement: the rows of one workflow implement SlotPool.                 *)

Pool == INSTANCE SlotPool
          WITH Runs <- Calls, active <- Active, allowed <- peak,
               ended <- {c \in Calls : run[c].status = "ended"}

\* Both programs' statements, in any order, with any stop between two of them,
\* behave as one counter of slots.
ImplementsSlotPool == Pool!Spec
=============================================================================
