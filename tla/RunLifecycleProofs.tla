------------------------- MODULE RunLifecycleProofs -------------------------
(* Theorems about RunLifecycle, for every value of its constants. *)
EXTENDS RunLifecycle, TLAPS

-----------------------------------------------------------------------------
(* Type correctness.                                                        *)

LEMMA RowTypes ==
  ASSUME NEW x \in Row, NEW why \in Reason
  PROVE  /\ Cancelled(x, why) \in Row /\ Settled(x, why) \in Row
         /\ LaunchKey(x) \in LaunchKeys /\ ReconcileKey(x) \in ReconcileKeys
  <1>1. ASSUME NEW y \in Row
        PROVE  [y EXCEPT !.status = "failed", !.owner = NoRunner, !.lease = "none", !.why = why] \in Row
    BY DEF Row, TerminalStatus
  <1>2. Cancelled(x, why) \in Row
    BY <1>1 DEF Cancelled
  <1>3. ASSUME NEW y \in Row
        PROVE  [y EXCEPT !.runner = NoRunner] \in Row
    BY DEF Row
  <1>4. Settled(x, why) \in Row
    BY <1>2, <1>3 DEF Settled
  <1>5. LaunchKey(x) \in LaunchKeys
    BY DEF Row, LaunchKey, LaunchKeys
  <1>6. ReconcileKey(x) \in ReconcileKeys
    BY DEF Row, ReconcileKey, ReconcileKeys
  <1>7. QED
    BY <1>2, <1>4, <1>5, <1>6

LEMMA IdleThreadType == IdleThread \in Thread
  BY DEF IdleThread, Thread, ThreadPC, LaunchKey, NewRow, LaunchKeys, ActiveStatus

LEMMA InitTypeOK == Init => TypeOK
  <1> SUFFICES ASSUME Init PROVE TypeOK
    OBVIOUS
  <1>1. NewRow \in Row
    BY DEF NewRow, Row, ActiveStatus, Reason
  <1>2. PICK m \in Managers, l \in Managers :
          mgr = [x \in Managers |-> [FreshMgr EXCEPT !.calls = IF x = m THEN 1 ELSE 0,
                                                     !.leader = (x = l)]]
    BY DEF Init
  <1>3. ASSUME NEW x \in Managers
        PROVE  [FreshMgr EXCEPT !.calls = IF x = m THEN 1 ELSE 0, !.leader = (x = l)] \in Mgr
    BY DEF FreshMgr, Mgr
  <1>4. mgr \in [Managers -> Mgr]
    BY <1>2, <1>3
  <1>5. thread \in [Managers -> Thread]
    BY IdleThreadType DEF Init
  <1>6. archived \in BOOLEAN
    BY Zenon DEF Init
  <1>7. row = NewRow /\ lock = NoLock /\ crashes = 0 /\ requests = 0
        /\ proc = [r \in Runners |-> "none"]
    BY DEF Init
  <1>8. QED
    BY <1>1, <1>4, <1>5, <1>6, <1>7 DEF TypeOK, ProcPC

\* What the callers of launch() do to the thread and the lock.
LEMMA EnterTypeOK ==
  ASSUME TypeOK, NEW m \in Managers, Enter(m)
  PROVE  lock' \in Managers \cup {NoLock} /\ thread' \in [Managers -> Thread]
  <1>1. CASE thread[m].pc # "idle"
    BY <1>1 DEF TypeOK, Enter
  <1>2. CASE thread[m].pc = "idle" /\ lock = NoLock
    <2>1. thread' = [thread EXCEPT ![m].pc = "read"] /\ lock' = m
      BY <1>2 DEF Enter
    <2>2. QED
      BY <2>1 DEF TypeOK, Thread, ThreadPC
  <1>3. CASE thread[m].pc = "idle" /\ lock # NoLock
    <2>1. thread' = [thread EXCEPT ![m].pc = "queued"] /\ lock' = lock
      BY <1>3 DEF Enter
    <2>2. QED
      BY <2>1 DEF TypeOK, Thread, ThreadPC
  <1>4. QED
    BY <1>1, <1>2, <1>3

\* One manager's thread or memory changes, and keeps its type.
LEMMA ThreadMoves ==
  ASSUME TypeOK, NEW m \in Managers, NEW x \in Thread, thread' = [thread EXCEPT ![m] = x]
  PROVE  thread' \in [Managers -> Thread]
  BY DEF TypeOK

LEMMA MgrMoves ==
  ASSUME TypeOK, NEW m \in Managers, NEW x \in Mgr, mgr' = [mgr EXCEPT ![m] = x]
  PROVE  mgr' \in [Managers -> Mgr]
  BY DEF TypeOK

LEMMA GoesTypes ==
  ASSUME TypeOK, NEW m \in Managers, NEW pc \in ThreadPC, Goto(m, pc)
  PROVE  thread' \in [Managers -> Thread]
  <1> DEFINE x == [thread[m] EXCEPT !.pc = pc]
  <1>1. thread[m] \in Thread /\ thread' = [thread EXCEPT ![m] = x]
    BY DEF TypeOK, Goto
  <1>2. x \in Thread
    BY <1>1 DEF Thread
  <1> HIDE DEF x
  <1>3. QED
    BY <1>1, <1>2, ThreadMoves

LEMMA FinishTypes ==
  ASSUME TypeOK, NEW m \in Managers, NEW ok \in BOOLEAN, Finish(m, ok)
  PROVE  thread' \in [Managers -> Thread]
  <1> DEFINE x == [thread[m] EXCEPT !.pc = "done", !.ok = ok]
  <1>1. thread[m] \in Thread /\ thread' = [thread EXCEPT ![m] = x]
    BY DEF TypeOK, Finish
  <1>2. x \in Thread
    BY <1>1 DEF Thread, ThreadPC
  <1> HIDE DEF x
  <1>3. QED
    BY <1>1, <1>2, ThreadMoves

LEMMA LaunchTypeOK ==
  ASSUME TypeOK, NEW m \in Managers, LaunchStep(m)
  PROVE  TypeOK'
  <1> USE DEF TypeOK
  <1>a. /\ {"read", "recheck", "settle", "cleanup", "shake", "outcome"} \subseteq ThreadPC
        /\ thread[m] \in Thread
    BY DEF ThreadPC
  <1>b. thread[m].run \in Runners \cup {NoRunner}
    BY <1>a DEF Thread
  <1>1. CASE LockGranted(m)
    BY <1>1, <1>a, GoesTypes DEF LockGranted
  <1>2. CASE Recheck(m)
    BY <1>2, <1>a, GoesTypes, FinishTypes DEF Recheck
  <1>3. CASE ReadRun(m)
    <2>1. LaunchKey(row) \in LaunchKeys
      BY RowTypes DEF Reason
    <2> DEFINE x == [thread[m] EXCEPT !.pc = "prepare", !.snap = LaunchKey(row)]
    <2>2. x \in Thread
      BY <1>a, <2>1 DEF Thread, ThreadPC
    <2>3. thread' = [thread EXCEPT ![m] = x] \/ Finish(m, FALSE)
      BY <1>3 DEF ReadRun
    <2> HIDE DEF x
    <2>4. thread' \in [Managers -> Thread]
      BY <2>2, <2>3, ThreadMoves, FinishTypes
    <2>5. QED
      BY <1>3, <2>4 DEF ReadRun
  <1>4. CASE Prepare(m)
    <2>1. CASE Goto(m, "settle") /\ UNCHANGED proc
      BY <1>4, <1>a, <2>1, GoesTypes DEF Prepare
    <2>2. CASE ~(Goto(m, "settle") /\ UNCHANGED proc)
      <3>1. PICK r \in Runners : /\ proc' = [proc EXCEPT ![r] = "created"]
                                /\ thread' = [thread EXCEPT ![m].pc = "assign", ![m].run = r]
        BY <1>4, <2>2 DEF Prepare
      <3> DEFINE x == [thread[m] EXCEPT !.pc = "assign", !.run = r]
      <3>2. x \in Thread
        BY <1>a DEF Thread, ThreadPC
      <3>3. thread' = [thread EXCEPT ![m] = x]
        BY <3>1
      <3> HIDE DEF x
      <3>4. thread' \in [Managers -> Thread]
        BY <3>2, <3>3, ThreadMoves
      <3>5. proc' \in [Runners -> ProcPC]
        BY <3>1 DEF ProcPC
      <3>6. QED
        BY <1>4, <3>4, <3>5 DEF Prepare
    <2>3. QED
      BY <2>1, <2>2
  <1>5. CASE Assign(m)
    <2>1. row' \in Row
      <3> DEFINE left == row.micros \ {"resume_at"}
      <3>1. /\ left \subseteq {"heartbeat_at", "resume_at"}
            /\ thread[m].run \in Runners \cup {NoRunner}
        BY DEF Row, Thread
      <3>2. CASE UNCHANGED row
        BY <3>2
      <3>3. CASE ~UNCHANGED row
        <4>1. row' = [row EXCEPT !.runner = thread[m].run, !.status = "running", !.at = "none",
                                 !.due = FALSE, !.wait = "none", !.micros = left]
          BY <1>5, <3>3 DEF Assign, Row
        <4> HIDE DEF left
        <4>2. QED
          BY <3>1, <4>1 DEF Row, ActiveStatus
      <3>4. QED
        BY <3>2, <3>3
    <2> DEFINE x == [thread[m] EXCEPT !.pc = "start", !.assigned = TRUE]
    <2>2. x \in Thread
      BY <1>a DEF Thread, ThreadPC
    <2>3. thread' = [thread EXCEPT ![m] = x] \/ Goto(m, "cleanup")
      BY <1>5 DEF Assign
    <2> HIDE DEF x
    <2>4. thread' \in [Managers -> Thread]
      BY <1>a, <2>2, <2>3, ThreadMoves, GoesTypes
    <2>5. QED
      BY <1>5, <2>1, <2>4 DEF Assign
  <1>6. CASE StartRunner(m)
    <2>1. thread' \in [Managers -> Thread]
      BY <1>6, <1>a, GoesTypes DEF StartRunner
    <2>2. proc' \in [Runners -> ProcPC]
      BY <1>6 DEF StartRunner, ProcPC
    <2>3. QED
      BY <1>6, <2>1, <2>2 DEF StartRunner
  <1>7. CASE Handshake(m)
    BY <1>7, FinishTypes DEF Handshake
  <1>8. CASE HandshakeTimeout(m)
    <2>1. row' \in Row
      BY <1>8, RowTypes DEF HandshakeTimeout, Reason
    <2>2. QED
      BY <1>8, <1>a, <2>1, GoesTypes DEF HandshakeTimeout
  <1>9. CASE Outcome(m)
    BY <1>9, <1>a, GoesTypes, FinishTypes DEF Outcome
  <1>10. CASE Cleanup(m)
    <2>1. thread' \in [Managers -> Thread]
      BY <1>10, <1>a, GoesTypes DEF Cleanup
    <2>2. proc' \in [Runners -> ProcPC]
      BY <1>10 DEF Cleanup, Removed, ProcPC
    <2>3. QED
      BY <1>10, <2>1, <2>2 DEF Cleanup
  <1>11. CASE SettleLaunch(m)
    <2>1. row' \in Row
      BY <1>11, RowTypes DEF SettleLaunch, Reason
    <2>2. QED
      BY <1>11, <2>1, FinishTypes DEF SettleLaunch
  <1>12. CASE Release(m)
    <2>1. mgr' \in [Managers -> Mgr]
      BY <1>12 DEF Release, Mgr
    <2>2. QED
      BY <1>12, <2>1, IdleThreadType DEF Release
  <1>13. QED
    BY <1>1, <1>2, <1>3, <1>4, <1>5, <1>6, <1>7, <1>8, <1>9, <1>10, <1>11, <1>12
       DEF LaunchStep

LEMMA ManagerTypeOK ==
  ASSUME TypeOK, NEW m \in Managers, ManagerStep(m)
  PROVE  TypeOK'
  <1>1. CASE CallLaunch(m)
    <2>1. mgr' \in [Managers -> Mgr]
      BY <1>1 DEF CallLaunch, TypeOK, Mgr
    <2>2. QED
      BY <1>1, <2>1, EnterTypeOK DEF CallLaunch, TypeOK
  <1>2. CASE LaunchStep(m)
    BY <1>2, LaunchTypeOK
  <1>3. CASE DueScan(m)
    BY <1>3 DEF DueScan, TypeOK, Mgr
  <1>4. CASE DueLaunch(m)
    <2>1. mgr' \in [Managers -> Mgr]
      BY <1>4 DEF DueLaunch, TypeOK, Mgr
    <2>2. QED
      BY <1>4, <2>1, EnterTypeOK DEF DueLaunch, TypeOK
  <1>5. CASE DueBackoff(m)
    <2>1. row' \in Row
      <3>1. PICK part \in Fraction("resume_at") :
              row' = IF Active(row)
                     THEN [row EXCEPT !.at = "later", !.due = FALSE,
                                      !.micros = (@ \ {"resume_at"}) \cup part]
                     ELSE row
        BY <1>5 DEF DueBackoff
      <3> DEFINE now == (row.micros \ {"resume_at"}) \cup part
      <3>2. now \subseteq {"heartbeat_at", "resume_at"}
        BY DEF TypeOK, Row, Fraction
      <3>3. row' = [row EXCEPT !.at = "later", !.due = FALSE, !.micros = now] \/ row' = row
        BY <3>1 DEF TypeOK, Row
      <3> HIDE DEF now
      <3>4. row \in Row
        BY DEF TypeOK
      <3>5. [row EXCEPT !.at = "later", !.due = FALSE, !.micros = now] \in Row
        BY <3>2, <3>4 DEF Row
      <3>6. QED
        BY <3>3, <3>4, <3>5
    <2>2. mgr' \in [Managers -> Mgr]
      BY <1>5 DEF DueBackoff, TypeOK, Mgr
    <2>3. QED
      BY <1>5, <2>1, <2>2 DEF DueBackoff, TypeOK
  <1>6. CASE ReconcileScan(m)
    <2>1. ReconcileKey(row) \in ReconcileKeys
      BY RowTypes DEF TypeOK, Reason
    <2>2. [key |-> ReconcileKey(row), expired |-> row.lease = "expired"] \in Picks
      BY <2>1 DEF Picks
    <2> DEFINE pick == [key |-> ReconcileKey(row), expired |-> row.lease = "expired"]
               more == mgr[m].rec \cup {pick}
    <2>3. mgr' \in [Managers -> Mgr]
      <3>1. more \subseteq Picks
        BY <2>2 DEF TypeOK, Mgr
      <3>2. mgr' = [mgr EXCEPT ![m].rec = more]
        BY <1>6 DEF ReconcileScan
      <3> HIDE DEF more
      <3>3. QED
        BY <3>1, <3>2 DEF TypeOK, Mgr
    <2>4. QED
      BY <1>6, <2>3 DEF ReconcileScan, TypeOK
  <1>7. CASE ReconcileSettle(m)
    <2> PICK pick \in mgr[m].rec : ReconcileSettle(m)!(pick)
      BY <1>7 DEF ReconcileSettle
    <2>1. pick \in Picks
      BY DEF TypeOK, Mgr
    <2>2. ReconcileReason(m, pick) \in Reason
      BY DEF ReconcileReason, Reason
    <2>3. row' \in Row
      BY <2>2, RowTypes DEF TypeOK
    <2>4. {pick.key.runner} \ {NoRunner} \subseteq Runners
      BY <2>1 DEF Picks, ReconcileKeys
    <2>5. mgr' \in [Managers -> Mgr]
      <3> DEFINE rest == mgr[m].rec \ {pick}
                 most == mgr[m].kills \cup ({pick.key.runner} \ {NoRunner})
      <3>1. rest \subseteq Picks /\ mgr[m].kills \subseteq Runners /\ most \subseteq Runners
        BY <2>4 DEF TypeOK, Mgr
      <3>2. \/ mgr' = [mgr EXCEPT ![m] = [mgr[m] EXCEPT !.rec = rest, !.kills = most]]
            \/ mgr' = [mgr EXCEPT ![m] = [mgr[m] EXCEPT !.rec = rest, !.kills = mgr[m].kills]]
        BY DEF TypeOK, Mgr
      <3>3. ASSUME NEW x, NEW y, x \subseteq Picks, y \subseteq Runners
            PROVE  [mgr[m] EXCEPT !.rec = x, !.kills = y] \in Mgr
        <4>1. mgr[m] \in Mgr
          BY DEF TypeOK
        <4>2. QED
          BY <3>3, <4>1 DEF Mgr
      <3>4. \E z \in Mgr : mgr' = [mgr EXCEPT ![m] = z]
        <4> HIDE DEF rest, most
        <4>1. [mgr[m] EXCEPT !.rec = rest, !.kills = most] \in Mgr
          BY ONLY <3>1, <3>3
        <4>2. [mgr[m] EXCEPT !.rec = rest, !.kills = mgr[m].kills] \in Mgr
          BY ONLY <3>1, <3>3
        <4>3. QED
          BY ONLY <3>2, <4>1, <4>2
      <3>5. QED
        BY <3>4 DEF TypeOK
    <2>6. QED
      BY <2>3, <2>5 DEF TypeOK
  <1>8. CASE Stop(m)
    <2>1. row' \in Row
      BY <1>8, RowTypes DEF Stop, TypeOK, Reason
    <2>2. {row.runner} \ {NoRunner} \subseteq Runners
      BY DEF TypeOK, Row
    <2>3. mgr' \in [Managers -> Mgr]
      BY <1>8, <2>2 DEF Stop, TypeOK, Mgr
    <2>4. QED
      BY <1>8, <2>1, <2>3 DEF Stop, TypeOK
  <1>9. CASE Resume(m)
    <2>1. row' \in Row
      BY <1>9 DEF Resume, TypeOK, Row, ActiveStatus
    <2>2. mgr' \in [Managers -> Mgr]
      BY <1>9 DEF Resume, TypeOK, Mgr
    <2>3. QED
      BY <1>9, <2>1, <2>2 DEF Resume, TypeOK
  <1>10. CASE Archive(m)
    <2>1. mgr' \in [Managers -> Mgr]
      <3> DEFINE x == [mgr[m] EXCEPT !.retiring = TRUE]
      <3>1. mgr[m] \in Mgr /\ mgr' = [mgr EXCEPT ![m] = x]
        BY <1>10 DEF Archive, TypeOK
      <3>2. x \in Mgr
        BY <3>1 DEF Mgr
      <3> HIDE DEF x
      <3>3. QED
        BY <3>1, <3>2, MgrMoves
    <2>2. archived' \in BOOLEAN /\ requests' \in Nat
      BY <1>10 DEF Archive, TypeOK
    <2>3. QED
      BY <1>10, <2>1, <2>2 DEF Archive, TypeOK
  <1>11. CASE Retire(m)
    <2>1. row' \in Row
      BY <1>11, RowTypes DEF Retire, TypeOK, Reason
    <2>2. {row.runner} \ {NoRunner} \subseteq Runners
      BY DEF TypeOK, Row
    <2>3. mgr' \in [Managers -> Mgr]
      <3> DEFINE kills == IF Active(row) THEN mgr[m].kills \cup ({row.runner} \ {NoRunner})
                          ELSE mgr[m].kills
      <3>1. kills \subseteq Runners
        BY <2>2 DEF TypeOK, Mgr
      <3> DEFINE x == [mgr[m] EXCEPT !.retiring = FALSE, !.kills = kills]
      <3>2. mgr' = [mgr EXCEPT ![m] = x] /\ mgr[m] \in Mgr
        BY <1>11 DEF Retire, TypeOK, Mgr
      <3> HIDE DEF kills
      <3>3. x \in Mgr
        BY <3>1, <3>2 DEF Mgr
      <3> HIDE DEF x
      <3>4. QED
        BY <3>2, <3>3, MgrMoves
    <2>4. QED
      BY <1>11, <2>1, <2>3 DEF Retire, TypeOK
  <1>12. CASE Unarchive(m)
    <2>1. archived' \in BOOLEAN
      BY <1>12, Zenon DEF Unarchive
    <2>2. QED
      BY <1>12, <2>1 DEF Unarchive, TypeOK
  <1>13. CASE StopRunner(m)
    <2>1. mgr' \in [Managers -> Mgr]
      BY <1>13 DEF StopRunner, TypeOK, Mgr
    <2>2. proc' \in [Runners -> ProcPC]
      BY <1>13 DEF StopRunner, Removed, TypeOK, ProcPC
    <2>3. QED
      BY <1>13, <2>1, <2>2 DEF StopRunner, TypeOK
  <1>14. CASE Crash(m)
    <2>1. mgr' \in [Managers -> Mgr]
      BY <1>14 DEF Crash, TypeOK, Mgr, FreshMgr
    <2>2. QED
      BY <1>14, <2>1, IdleThreadType DEF Crash, TypeOK
  <1>15. CASE Restart(m)
    <2>1. row' \in Row
      BY <1>15, RowTypes DEF Restart, Migrated, TypeOK, Reason
    <2>2. mgr' \in [Managers -> Mgr]
      <3> DEFINE leads == \A n \in Managers : ~mgr[n].leader
      <3>1. leads \in BOOLEAN
        OBVIOUS
      <3> DEFINE x == [mgr[m] EXCEPT !.up = TRUE, !.leader = leads]
      <3>2. mgr' = [mgr EXCEPT ![m] = x] /\ mgr[m] \in Mgr
        BY <1>15 DEF Restart, TypeOK
      <3> HIDE DEF leads
      <3>3. x \in Mgr
        BY <3>1, <3>2 DEF Mgr
      <3> HIDE DEF x
      <3>4. QED
        BY <3>2, <3>3, MgrMoves
    <2>3. QED
      BY <1>15, <2>1, <2>2 DEF Restart, TypeOK
  <1>16. QED
    BY ManagerStep(m), <1>1, <1>2, <1>3, <1>4, <1>5, <1>6, <1>7, <1>8, <1>9, <1>10,
       <1>11, <1>12, <1>13, <1>14, <1>15 DEF ManagerStep

LEMMA RunnerTypeOK ==
  ASSUME TypeOK, NEW r \in Runners, RunnerStep(r)
  PROVE  TypeOK'
  <1>1. row' \in Row
    <2>1. CASE Lease(r)
      <3>1. CASE UNCHANGED row
        BY <3>1 DEF TypeOK
      <3>2. CASE ~UNCHANGED row
        <4>1. PICK part \in Fraction("heartbeat_at") :
                row' = [row EXCEPT !.owner = r, !.lease = "live", !.beat = @ + 1,
                                   !.micros = (@ \ {"heartbeat_at"}) \cup part,
                                   !.status = "running"]
          BY <2>1, <3>2 DEF Lease
        <4> DEFINE now == (row.micros \ {"heartbeat_at"}) \cup part
        <4>2. row.beat + 1 \in Nat /\ now \subseteq {"heartbeat_at", "resume_at"}
          BY DEF TypeOK, Row, Fraction
        <4>3. row' = [row EXCEPT !.owner = r, !.lease = "live", !.beat = row.beat + 1,
                                 !.micros = now, !.status = "running"]
          BY <4>1 DEF TypeOK, Row
        <4> HIDE DEF now
        <4>4. QED
          BY <4>2, <4>3 DEF TypeOK, Row, ActiveStatus
      <3>3. QED
        BY <3>1, <3>2
    <2>2. CASE Heartbeat(r)
      <3>1. PICK part \in Fraction("heartbeat_at") :
              row' = [row EXCEPT !.lease = "live", !.beat = @ + 1,
                                 !.micros = (@ \ {"heartbeat_at"}) \cup part]
        BY <2>2 DEF Heartbeat
      <3> DEFINE now == (row.micros \ {"heartbeat_at"}) \cup part
      <3>2. row.beat + 1 \in Nat /\ now \subseteq {"heartbeat_at", "resume_at"}
        BY DEF TypeOK, Row, Fraction
      <3>3. row' = [row EXCEPT !.lease = "live", !.beat = row.beat + 1, !.micros = now]
        BY <3>1 DEF TypeOK, Row
      <3> HIDE DEF now
      <3>4. QED
        BY <3>2, <3>3 DEF TypeOK, Row
    <2>3. CASE AssertActive(r) \/ NextIteration(r) \/ Throw(r) \/ RunnerCrash(r)
      BY <2>3 DEF AssertActive, NextIteration, Throw, RunnerCrash, TypeOK
    <2>4. CASE Checkpoint(r)
      BY <2>4 DEF Checkpoint, TypeOK, Row
    <2>5. ASSUME NEW kind \in {"timer", "user-input"}, Suspend(r, kind)
          PROVE  row' \in Row
      BY <2>5 DEF Suspend, TypeOK, Row, ActiveStatus
    <2>6. ASSUME NEW status \in TerminalStatus, SettleRun(r, status)
          PROVE  row' \in Row
      BY <2>6 DEF SettleRun, TypeOK, Row
    <2>7. QED
      BY <2>1, <2>2, <2>3, <2>4, <2>5, <2>6 DEF RunnerStep
  <1>2. proc' \in [Runners -> ProcPC]
    BY DEF RunnerStep, Lease, Heartbeat, AssertActive, Checkpoint, NextIteration, Throw,
           Suspend, SettleRun, RunnerCrash, TypeOK, ProcPC
  <1>3. UNCHANGED <<archived, lock, thread, mgr, crashes, requests>>
    BY DEF RunnerStep, Lease, Heartbeat, AssertActive, Checkpoint, NextIteration, Throw,
           Suspend, SettleRun, RunnerCrash
  <1>4. QED
    BY <1>1, <1>2, <1>3 DEF TypeOK

LEMMA NextTypeOK == TypeOK /\ [Next]_vars => TypeOK'
  <1> SUFFICES ASSUME TypeOK, [Next]_vars PROVE TypeOK'
    OBVIOUS
  <1>1. CASE \E m \in Managers : ManagerStep(m)
    BY <1>1, ManagerTypeOK
  <1>2. CASE \E r \in Runners : RunnerStep(r)
    BY <1>2, RunnerTypeOK
  <1>3. CASE LeaseExpires \/ WaitElapses
    <2>1. row \in Row
      BY DEF TypeOK
    <2>2. CASE LeaseExpires
      <3>1. row' = [row EXCEPT !.lease = "expired"]
        BY <2>2 DEF LeaseExpires
      <3>2. row' \in Row
        BY <2>1, <3>1 DEF Row
      <3>3. QED
        BY <2>2, <3>2 DEF LeaseExpires, TypeOK
    <2>3. CASE WaitElapses
      <3>1. row' = [row EXCEPT !.due = TRUE]
        BY <2>3 DEF WaitElapses
      <3>2. row' \in Row
        BY <2>1, <3>1 DEF Row
      <3>3. QED
        BY <2>3, <3>2 DEF WaitElapses, TypeOK
    <2>4. QED
      BY <1>3, <2>2, <2>3
  <1>4. CASE UNCHANGED vars
    BY <1>4 DEF vars, TypeOK
  <1>5. QED
    BY <1>1, <1>2, <1>3, <1>4 DEF Next

\* The row, the launch threads and the containers stay well formed.
THEOREM TypeCorrect == Spec => []TypeOK
  BY InitTypeOK, NextTypeOK, PTL DEF Spec

-----------------------------------------------------------------------------
(* The inductive invariant.  A step leaves the row alone, ends the run, or  *)
(* is one of the few that hand the run over; the first two are two lemmas.  *)

\* Ending an active run releases it and wakes nobody.
Ends == /\ Terminal(row') /\ row'.owner = NoRunner /\ row'.lease = "none"
        /\ row'.beat = row.beat

LEMMA EndedShape ==
  ASSUME NEW x \in Row, NEW why \in Reason
  PROVE  /\ Terminal(Cancelled(x, why)) /\ Terminal(Settled(x, why))
         /\ Cancelled(x, why).owner = NoRunner /\ Settled(x, why).owner = NoRunner
         /\ Cancelled(x, why).lease = "none" /\ Settled(x, why).lease = "none"
         /\ Cancelled(x, why).beat = x.beat /\ Settled(x, why).beat = x.beat
         /\ Cancelled(x, why).why = why /\ Settled(x, why).why = why
  BY DEF Row, Cancelled, Settled, Terminal, TerminalStatus

LEMMA InitIInv == Init => IInv
  <1> SUFFICES ASSUME Init PROVE IInv
    OBVIOUS
  <1>1. TypeOK
    BY InitTypeOK
  <1>2. row = NewRow /\ proc = [r \in Runners |-> "none"]
        /\ thread = [m \in Managers |-> IdleThread]
    BY DEF Init
  <1>3. RowInv
    BY <1>2 DEF RowInv, LeaseHasOwner, TerminalIsReleased, ParkedIsReleased,
                OwnerIsAssigned, NewRow, Terminal, TerminalStatus
  <1>4. WorkerInv
    BY <1>2 DEF WorkerInv, OwnerHasBooted, BootIsAssigned, WorkerOwns, AtMostOneWorker,
                NewRow, NoRunner, Runners, Working
  <1>5. LaunchInv
    BY <1>2 DEF LaunchInv, LaunchIsLocked, SnapshotIsFree, StartIsAssigned, IdleThread
  <1>6. \A m \in Managers : mgr[m].rec = {}
    <2> PICK m \in Managers, l \in Managers :
          mgr = [x \in Managers |-> [FreshMgr EXCEPT !.calls = IF x = m THEN 1 ELSE 0,
                                                     !.leader = (x = l)]]
      BY DEF Init
    <2>1. ASSUME NEW x \in Managers
          PROVE  [FreshMgr EXCEPT !.calls = IF x = m THEN 1 ELSE 0, !.leader = (x = l)].rec = {}
      BY DEF FreshMgr
    <2>2. QED
      BY <2>1
  <1>7. QED
    BY <1>1, <1>3, <1>4, <1>5, <1>6 DEF IInv, PickIsStale

LEMMA QuietRow ==
  ASSUME IInv, UNCHANGED row
  PROVE  RowInv'
  BY DEF IInv, RowInv, LeaseHasOwner, TerminalIsReleased, ParkedIsReleased, OwnerIsAssigned,
         Terminal

LEMMA EndedRow ==
  ASSUME TypeOK', Ends
  PROVE  RowInv'
  BY DEF Ends, TypeOK, RowInv, LeaseHasOwner, TerminalIsReleased, ParkedIsReleased,
         OwnerIsAssigned, Terminal, TerminalStatus

\* Containers that are created, or that disappear, disturb nothing.
Fading == \A r \in Runners : proc'[r] = proc[r] \/ proc'[r] = "gone"
                              \/ (proc[r] = "none" /\ proc'[r] = "created")

LEMMA QuietWorkers ==
  ASSUME IInv, TypeOK', Fading, UNCHANGED row \/ Ends
  PROVE  WorkerInv'
  <1> USE DEF IInv, WorkerInv, Fading, Working
  <1>1. OwnerHasBooted'
    BY DEF OwnerHasBooted, Ends, NoRunner, Runners
  <1>2. BootIsAssigned'
    BY DEF BootIsAssigned, Ends, Active, Terminal, ActiveStatus, TerminalStatus
  <1>3. WorkerOwns'
    BY DEF WorkerOwns, Ends, Active, Terminal, ActiveStatus, TerminalStatus
  <1>4. AtMostOneWorker'
    BY DEF AtMostOneWorker
  <1>5. QED
    BY <1>1, <1>2, <1>3, <1>4

LEMMA QuietPicks ==
  ASSUME IInv, TypeOK', \A m \in Managers : mgr'[m].rec \subseteq mgr[m].rec,
         \/ row'.beat = row.beat /\ (row'.lease # "live" \/ row'.lease = row.lease)
         \/ row'.beat = row.beat + 1
  PROVE  PickIsStale'
  <1> SUFFICES ASSUME NEW m \in Managers, NEW pick \in mgr'[m].rec
               PROVE  /\ pick.key.status \in ActiveStatus
                      /\ pick.key.beat <= row'.beat
                      /\ pick.key.owner # NoRunner /\ pick.key.beat = row'.beat
                           => row'.lease # "live"
    BY DEF PickIsStale
  <1>1. pick \in mgr[m].rec
    OBVIOUS
  <1>2. pick.key.beat \in Nat /\ row.beat \in Nat
    BY <1>1 DEF IInv, TypeOK, Mgr, Picks, ReconcileKeys, Row
  <1>3. QED
    BY <1>1, <1>2 DEF IInv, PickIsStale

-----------------------------------------------------------------------------
(* The launch thread.                                                       *)

\* Inside launchUnchecked the lock is held by one manager, and only for itself.
LEMMA LockedAlone ==
  ASSUME IInv, NEW m \in Managers, NEW n \in Managers,
         thread[m].pc \notin {"idle", "queued"}, thread[n].pc \notin {"idle", "queued"}
  PROVE  m = n
  BY DEF IInv, LaunchInv, LaunchIsLocked

\* The steps of manager m that leave the row alone or end the run.
PlainLaunch(m) ==
  \/ LockGranted(m) \/ Recheck(m) \/ ReadRun(m) \/ Prepare(m) \/ Handshake(m)
  \/ HandshakeTimeout(m) \/ Outcome(m) \/ Cleanup(m) \/ SettleLaunch(m) \/ Release(m)
PlainManager(m) ==
  \/ CallLaunch(m) \/ PlainLaunch(m) \/ DueScan(m) \/ DueLaunch(m)
  \/ ReconcileScan(m) \/ ReconcileSettle(m) \/ Stop(m) \/ Archive(m) \/ Retire(m)
  \/ Unarchive(m) \/ StopRunner(m) \/ Crash(m) \/ Restart(m)

LEMMA EndsByUpdate ==
  ASSUME TypeOK, NEW why \in Reason, row' = Cancelled(row, why) \/ row' = Settled(row, why)
  PROVE  Ends
  BY EndedShape DEF TypeOK, Ends

LEMMA PlainRow ==
  ASSUME TypeOK, NEW m \in Managers, PlainManager(m)
  PROVE  UNCHANGED row \/ Ends
  <1>1. CASE HandshakeTimeout(m)
    BY <1>1, EndsByUpdate DEF HandshakeTimeout, Reason
  <1>2. CASE SettleLaunch(m)
    BY <1>2, EndsByUpdate DEF SettleLaunch, Reason
  <1>3. CASE ReconcileSettle(m)
    <2> PICK pick \in mgr[m].rec : ReconcileSettle(m)!(pick)
      BY <1>3 DEF ReconcileSettle
    <2>1. ReconcileReason(m, pick) \in Reason
      BY DEF ReconcileReason, Reason
    <2>2. UNCHANGED row \/ row' = Settled(row, ReconcileReason(m, pick))
      OBVIOUS
    <2>3. QED
      BY <2>1, <2>2, EndsByUpdate
  <1>4. CASE Stop(m)
    BY <1>4, EndsByUpdate DEF Stop, Reason
  <1>5. CASE Retire(m)
    BY <1>5, EndsByUpdate DEF Retire, Reason
  <1>6. CASE Restart(m)
    BY <1>6, EndsByUpdate DEF Restart, Migrated, Reason
  <1>7. CASE LockGranted(m) \/ Recheck(m) \/ ReadRun(m) \/ Prepare(m) \/ Handshake(m)
             \/ Outcome(m) \/ Cleanup(m) \/ Release(m)
    BY <1>7 DEF LockGranted, Recheck, ReadRun, Prepare, Handshake, Outcome, Cleanup, Release
  <1>8. CASE CallLaunch(m) \/ DueScan(m) \/ DueLaunch(m) \/ ReconcileScan(m) \/ Archive(m)
             \/ Unarchive(m) \/ StopRunner(m) \/ Crash(m)
    BY <1>8 DEF CallLaunch, DueScan, DueLaunch, ReconcileScan, Archive, Unarchive,
                StopRunner, Crash
  <1>9. QED
    BY <1>1, <1>2, <1>3, <1>4, <1>5, <1>6, <1>7, <1>8 DEF PlainManager, PlainLaunch

LEMMA PlainProc ==
  ASSUME TypeOK, NEW m \in Managers, PlainManager(m)
  PROVE  Fading
  <1>1. CASE PlainLaunch(m)
    <2>1. CASE Prepare(m)
      BY <2>1 DEF Prepare, FirstSpare, Fading, TypeOK
    <2>2. CASE Cleanup(m)
      BY <2>2 DEF Cleanup, Removed, Fading, TypeOK
    <2>3. CASE LockGranted(m) \/ Recheck(m) \/ ReadRun(m) \/ Handshake(m)
               \/ HandshakeTimeout(m) \/ Outcome(m) \/ SettleLaunch(m) \/ Release(m)
      BY <2>3 DEF LockGranted, Recheck, ReadRun, Handshake, HandshakeTimeout, Outcome,
                  SettleLaunch, Release, Fading
    <2>4. QED
      BY <1>1, <2>1, <2>2, <2>3 DEF PlainLaunch
  <1>2. CASE StopRunner(m)
    BY <1>2 DEF StopRunner, Removed, Fading, TypeOK
  <1>3. CASE CallLaunch(m) \/ DueScan(m) \/ DueLaunch(m) \/ ReconcileScan(m)
             \/ ReconcileSettle(m) \/ Stop(m) \/ Archive(m) \/ Retire(m) \/ Unarchive(m)
             \/ Crash(m) \/ Restart(m)
    BY <1>3 DEF CallLaunch, DueScan, DueLaunch, ReconcileScan, ReconcileSettle, Stop,
                Archive, Retire, Unarchive, Crash, Restart, Fading
  <1>4. QED
    BY <1>1, <1>2, <1>3 DEF PlainManager

\* What LaunchInv says of one manager.
ThreadInv(m) ==
  /\ thread[m].pc \notin {"idle", "queued"} => lock = m
  /\ thread[m].pc \in {"prepare", "assign"} =>
       /\ thread[m].snap.status \in ActiveStatus
       /\ thread[m].snap.runner = NoRunner /\ thread[m].snap.owner = NoRunner
  /\ thread[m].pc \in {"assign", "start", "shake"} => thread[m].run \in Runners
  /\ thread[m].pc \in {"assign", "start"} => proc[thread[m].run] \in {"created", "gone"}
  /\ thread[m].pc = "start" /\ Active(row) => row.runner = thread[m].run

LEMMA LaunchInvByThread ==
  /\ LaunchInv <=> \A m \in Managers : ThreadInv(m)
  /\ LaunchInv' <=> \A m \in Managers : ThreadInv(m)'
  BY DEF LaunchInv, LaunchIsLocked, SnapshotIsFree, StartIsAssigned, ThreadInv

KeepsCreated == \A r \in Runners : proc[r] \in {"created", "gone"} =>
                                   proc'[r] \in {"created", "gone"}
KeepsRunner  == \/ Terminal(row')
                \/ row'.runner = row.runner /\ (Active(row') => Active(row))

LEMMA OtherThread ==
  ASSUME IInv, TypeOK', NEW n \in Managers, thread'[n] = thread[n],
         lock' = lock \/ lock # n,
         thread[n].pc \in {"idle", "queued"} \/ (KeepsCreated /\ KeepsRunner)
  PROVE  ThreadInv(n)'
  <1>1. ThreadInv(n)
    BY LaunchInvByThread DEF IInv
  <1>2. CASE thread[n].pc \in {"idle", "queued"}
    BY <1>2 DEF ThreadInv
  <1>3. CASE thread[n].pc \notin {"idle", "queued"} /\ KeepsCreated /\ KeepsRunner
    BY <1>1, <1>3 DEF ThreadInv, KeepsCreated, KeepsRunner, Active, Terminal, ActiveStatus,
                      TerminalStatus
  <1>4. QED
    BY <1>2, <1>3

LEMMA PlainKeeps ==
  ASSUME IInv, TypeOK', UNCHANGED row \/ Ends, Fading
  PROVE  KeepsCreated /\ KeepsRunner
  BY DEF KeepsCreated, KeepsRunner, Fading, Ends, Active

\* The thread that takes a step of launch() keeps its own part.
LEMMA OwnThread ==
  ASSUME IInv, TypeOK', NEW m \in Managers, LaunchStep(m)
  PROVE  ThreadInv(m)'
  <1> USE DEF ThreadInv
  <1>1. ThreadInv(m)
    BY LaunchInvByThread DEF IInv
  <1>2. TypeOK
    BY DEF IInv
  <1>3. CASE LockGranted(m)
    BY <1>2, <1>3 DEF LockGranted, Goto, TypeOK
  <1>4. CASE Recheck(m)
    BY <1>1, <1>2, <1>4 DEF Recheck, Goto, Finish, TypeOK, Thread
  <1>5. CASE ReadRun(m)
    <2>1. Launchable(row) => LaunchKey(row).status \in ActiveStatus
            /\ LaunchKey(row).runner = NoRunner /\ LaunchKey(row).owner = NoRunner
      BY DEF Launchable, LaunchKey, Active
    <2>2. QED
      BY <1>1, <1>2, <1>5, <2>1 DEF ReadRun, Finish, TypeOK, Thread
  <1>6. CASE Prepare(m)
    BY <1>1, <1>2, <1>6 DEF Prepare, Goto, TypeOK, Thread
  <1>7. CASE Assign(m)
    <2>1. CASE Assignable(m)
      <3>1. row'.runner = thread[m].run /\ lock' = lock /\ proc' = proc
        BY <1>2, <1>7, <2>1 DEF Assign, TypeOK, Row
      <3>2. thread'[m].pc = "start" /\ thread'[m].run = thread[m].run
        BY <1>2, <1>7, <2>1 DEF Assign, TypeOK, Thread
      <3>3. QED
        BY <1>1, <1>7, <3>1, <3>2 DEF Assign
    <2>2. CASE ~Assignable(m)
      BY <1>1, <1>2, <1>7, <2>2 DEF Assign, Goto, TypeOK, Thread
    <2>3. QED
      BY <2>1, <2>2
  <1>8. CASE StartRunner(m)
    <2>1. thread'[m].pc \in {"shake", "cleanup"} /\ lock' = lock
          /\ thread'[m].run = thread[m].run
      BY <1>2, <1>8 DEF StartRunner, Goto, TypeOK, Thread
    <2>2. QED
      BY <1>1, <1>8, <2>1 DEF StartRunner
  <1>9. CASE Handshake(m) \/ Outcome(m) \/ SettleLaunch(m) \/ Cleanup(m)
    BY <1>1, <1>2, <1>9 DEF Handshake, Outcome, SettleLaunch, Cleanup, Goto, Finish, TypeOK, Thread
  <1>10. CASE HandshakeTimeout(m)
    BY <1>1, <1>2, <1>10 DEF HandshakeTimeout, Goto, TypeOK, Thread
  <1>11. CASE Release(m)
    BY <1>2, <1>11 DEF Release, TypeOK, IdleThread
  <1>12. QED
    BY <1>3, <1>4, <1>5, <1>6, <1>7, <1>8, <1>9, <1>10, <1>11 DEF LaunchStep

\* A step of one launch thread touches no other thread, and its lock only for itself.
LEMMA LaunchFrame ==
  ASSUME TypeOK, NEW m \in Managers, NEW n \in Managers, n # m, LaunchStep(m)
  PROVE  /\ thread'[n] = thread[n]
         /\ lock' = lock \/ lock \in {m, NoLock}
         /\ Assign(m) \/ StartRunner(m) => thread[m].pc \notin {"idle", "queued"}
  BY DEF LaunchStep, LockGranted, Recheck, ReadRun, Prepare, Assign, StartRunner, Handshake,
         HandshakeTimeout, Outcome, Cleanup, SettleLaunch, Release, Goto, Finish, TypeOK

LEMMA LaunchLaunchInv ==
  ASSUME IInv, TypeOK', NEW m \in Managers, LaunchStep(m)
  PROVE  LaunchInv'
  <1>1. TypeOK
    BY DEF IInv
  <1>2. ASSUME NEW n \in Managers, n # m
        PROVE  ThreadInv(n)'
    <2>1. thread'[n] = thread[n] /\ (lock' = lock \/ lock \in {m, NoLock})
      BY <1>1, <1>2, LaunchFrame
    <2>2. lock' = lock \/ lock # n
      BY <1>2, <2>1, ManagersAssumption DEF NoLock
    <2>3. CASE Assign(m) \/ StartRunner(m)
      <3>1. thread[n].pc \in {"idle", "queued"}
        BY <1>1, <1>2, <2>3, LaunchFrame, LockedAlone
      <3>2. QED
        BY <2>1, <2>2, <3>1, OtherThread
    <2>4. CASE PlainLaunch(m)
      BY <1>1, <2>1, <2>2, <2>4, PlainRow, PlainProc, PlainKeeps, OtherThread
         DEF PlainManager
    <2>5. QED
      BY <2>3, <2>4 DEF LaunchStep, PlainLaunch
  <1>3. ThreadInv(m)'
    BY OwnThread
  <1>4. \A n \in Managers : ThreadInv(n)'
    BY <1>2, <1>3
  <1>5. QED
    BY <1>4, LaunchInvByThread

LEMMA QuietThreads ==
  ASSUME IInv, TypeOK', UNCHANGED <<thread, lock>>, KeepsCreated, KeepsRunner
  PROVE  LaunchInv'
  BY OtherThread, LaunchInvByThread

LEMMA EnterThreads ==
  ASSUME IInv, TypeOK', NEW m \in Managers, Enter(m), UNCHANGED <<row, proc>>
  PROVE  LaunchInv'
  <1>1. KeepsCreated /\ KeepsRunner
    BY DEF KeepsCreated, KeepsRunner
  <1>2. CASE thread[m].pc # "idle"
    BY <1>1, <1>2, QuietThreads DEF Enter
  <1>3. CASE thread[m].pc = "idle"
    <2>1. ASSUME NEW n \in Managers, n # m PROVE ThreadInv(n)'
      <3>1. thread'[n] = thread[n] /\ (lock' = lock \/ lock = NoLock)
        BY <1>3, <2>1 DEF Enter, IInv, TypeOK
      <3>2. n # NoLock
        BY ManagersAssumption DEF NoLock
      <3>3. QED
        BY <1>1, <3>1, <3>2, OtherThread
    <2>2. ThreadInv(m)'
      BY <1>3 DEF Enter, IInv, TypeOK, Thread, ThreadInv
    <2>3. QED
      BY <2>1, <2>2, LaunchInvByThread
  <1>4. QED
    BY <1>2, <1>3

LEMMA CrashThreads ==
  ASSUME IInv, TypeOK', NEW m \in Managers, Crash(m)
  PROVE  LaunchInv'
  <1>1. KeepsCreated /\ KeepsRunner
    BY DEF KeepsCreated, KeepsRunner, Crash
  <1>2. ASSUME NEW n \in Managers, n # m PROVE ThreadInv(n)'
    <2>1. thread'[n] = thread[n] /\ (lock' = lock \/ lock = m)
      BY <1>2 DEF Crash, IInv, TypeOK
    <2>2. QED
      BY <1>1, <1>2, <2>1, OtherThread
  <1>3. ThreadInv(m)'
    BY DEF Crash, IInv, TypeOK, ThreadInv, IdleThread
  <1>4. QED
    BY <1>2, <1>3, LaunchInvByThread

LEMMA ManagerLaunchInv ==
  ASSUME IInv, TypeOK', NEW m \in Managers, ManagerStep(m)
  PROVE  LaunchInv'
  <1>1. TypeOK
    BY DEF IInv
  <1>2. CASE LaunchStep(m)
    BY <1>2, LaunchLaunchInv
  <1>3. CASE CallLaunch(m)
    BY <1>3, EnterThreads DEF CallLaunch
  <1>4. CASE DueLaunch(m)
    <2>1. KeepsCreated /\ KeepsRunner /\ UNCHANGED <<row, proc>>
      BY <1>4 DEF DueLaunch, KeepsCreated, KeepsRunner
    <2>2. Enter(m) \/ UNCHANGED <<thread, lock>>
      BY <1>4 DEF DueLaunch
    <2>3. QED
      BY <2>1, <2>2, EnterThreads, QuietThreads
  <1>5. CASE Crash(m)
    BY <1>5, CrashThreads
  <1>6. CASE DueBackoff(m)
    <2>1. row'.runner = row.runner /\ row'.status = row.status
      BY <1>1, <1>6 DEF DueBackoff, TypeOK, Row
    <2>2. KeepsCreated /\ KeepsRunner /\ UNCHANGED <<thread, lock>>
      BY <1>6, <2>1 DEF DueBackoff, KeepsCreated, KeepsRunner, Active
    <2>3. QED
      BY <2>2, QuietThreads
  <1>7. CASE Resume(m)
    <2>1. row'.runner = row.runner /\ Active(row)
      BY <1>1, <1>7 DEF Resume, TypeOK, Row
    <2>2. KeepsCreated /\ KeepsRunner /\ UNCHANGED <<thread, lock>>
      BY <1>7, <2>1 DEF Resume, KeepsCreated, KeepsRunner
    <2>3. QED
      BY <2>2, QuietThreads
  <1>8. CASE DueScan(m) \/ ReconcileScan(m) \/ ReconcileSettle(m) \/ Stop(m) \/ Archive(m)
             \/ Retire(m) \/ Unarchive(m) \/ StopRunner(m) \/ Restart(m)
    <2>1. PlainManager(m)
      BY <1>8 DEF PlainManager
    <2>2. KeepsCreated /\ KeepsRunner
      BY <1>1, <2>1, PlainRow, PlainProc, PlainKeeps
    <2>3. UNCHANGED <<thread, lock>>
      BY <1>8 DEF DueScan, ReconcileScan, ReconcileSettle, Stop, Archive, Retire, Unarchive,
                  StopRunner, Restart
    <2>4. QED
      BY <2>2, <2>3, QuietThreads
  <1>9. QED
    BY ManagerStep(m), <1>2, <1>3, <1>4, <1>5, <1>6, <1>7, <1>8 DEF ManagerStep

-----------------------------------------------------------------------------
(* The row and its containers under the steps of the managers.              *)

\* Assigning a container: nobody else runs one for this run.
LEMMA AssignCoreInv ==
  ASSUME IInv, TypeOK', NEW m \in Managers, Assign(m)
  PROVE  RowInv' /\ WorkerInv'
  <1> USE DEF IInv
  <1>1. CASE UNCHANGED row
    BY <1>1, QuietRow, QuietWorkers DEF Assign, Fading
  <1>2. CASE Assignable(m) /\ row' # row
    <2>1. Active(row) /\ row.runner = NoRunner /\ row.owner = NoRunner
      BY <1>2 DEF Assign, Assignable, LaunchKey, LaunchInv, SnapshotIsFree, Active
    <2>2. \A r \in Runners : proc[r] # "boot" /\ proc[r] \notin Working
      BY <2>1 DEF WorkerInv, BootIsAssigned, WorkerOwns, NoRunner, Runners
    <2>3. /\ row'.owner = NoRunner /\ row'.lease = "none" /\ row'.status = "running"
          /\ proc' = proc
      BY <1>2, <2>1 DEF Assign, TypeOK, Row, RowInv, LeaseHasOwner
    <2>4. RowInv'
      BY <2>3 DEF RowInv, LeaseHasOwner, TerminalIsReleased, ParkedIsReleased,
                  OwnerIsAssigned, Terminal, TerminalStatus
    <2>5. WorkerInv'
      BY <2>2, <2>3 DEF WorkerInv, OwnerHasBooted, BootIsAssigned, WorkerOwns,
                        AtMostOneWorker, NoRunner, Runners
    <2>6. QED
      BY <2>4, <2>5
  <1>3. QED
    BY <1>1, <1>2 DEF Assign

\* Starting it: the row is its own, or has ended in the meantime.
LEMMA StartCoreInv ==
  ASSUME IInv, TypeOK', NEW m \in Managers, StartRunner(m)
  PROVE  RowInv' /\ WorkerInv'
  <1> USE DEF IInv
  <1>1. RowInv'
    BY QuietRow DEF StartRunner
  <1>2. /\ thread[m].run \in Runners /\ proc[thread[m].run] \in {"created", "gone"}
        /\ Active(row) => row.runner = thread[m].run
    BY DEF StartRunner, LaunchInv, StartIsAssigned
  <1>3. /\ \A r \in Runners : r # thread[m].run => proc'[r] = proc[r]
        /\ proc'[thread[m].run] \in {"boot", "gone"}
        /\ proc'[thread[m].run] = "boot" => proc[thread[m].run] = "created"
        /\ UNCHANGED row
    BY <1>2 DEF StartRunner, TypeOK
  <1>4. OwnerHasBooted'
    BY <1>2, <1>3 DEF WorkerInv, OwnerHasBooted, Working
  <1>5. BootIsAssigned'
    BY <1>2, <1>3 DEF WorkerInv, BootIsAssigned, Active
  <1>6. WorkerOwns' /\ AtMostOneWorker'
    BY <1>2, <1>3 DEF WorkerInv, WorkerOwns, AtMostOneWorker, Working, Active
  <1>7. QED
    BY <1>1, <1>4, <1>5, <1>6 DEF WorkerInv

\* /resume and the back-off of a failed one change neither owner nor runner.
LEMMA RequestCoreInv ==
  ASSUME IInv, TypeOK', NEW m \in Managers, Resume(m) \/ DueBackoff(m)
  PROVE  RowInv' /\ WorkerInv'
  <1>1. /\ row'.owner = row.owner /\ row'.runner = row.runner /\ row'.lease = row.lease
        /\ row'.wait = row.wait /\ UNCHANGED proc
        /\ row'.status = row.status \/ (Active(row) /\ row'.status = "running")
    <2>1. row \in Row
      BY DEF IInv, TypeOK
    <2>2. CASE Resume(m)
      BY <2>1, <2>2 DEF Resume, Row
    <2>3. CASE DueBackoff(m)
      <3>1. \/ UNCHANGED row
            \/ \E part : row' = [row EXCEPT !.at = "later", !.due = FALSE, !.micros = part]
        BY <2>3 DEF DueBackoff
      <3>2. QED
        BY <2>1, <2>3, <3>1 DEF DueBackoff, Row
    <2>4. QED
      BY <2>2, <2>3
  <1>2. RowInv'
    BY <1>1 DEF IInv, RowInv, LeaseHasOwner, TerminalIsReleased, ParkedIsReleased,
                OwnerIsAssigned, Terminal, TerminalStatus
  <1>3. WorkerInv'
    BY <1>1 DEF IInv, WorkerInv, OwnerHasBooted, BootIsAssigned, WorkerOwns,
                AtMostOneWorker, Active, ActiveStatus
  <1>4. QED
    BY <1>2, <1>3

LEMMA ManagerCoreInv ==
  ASSUME IInv, TypeOK', NEW m \in Managers, ManagerStep(m)
  PROVE  RowInv' /\ WorkerInv'
  <1>1. CASE Assign(m)
    BY <1>1, AssignCoreInv
  <1>2. CASE StartRunner(m)
    BY <1>2, StartCoreInv
  <1>3. CASE Resume(m) \/ DueBackoff(m)
    BY <1>3, RequestCoreInv
  <1>4. CASE PlainManager(m)
    <2>1. TypeOK
      BY DEF IInv
    <2>2. (UNCHANGED row \/ Ends) /\ Fading
      BY <1>4, <2>1, PlainRow, PlainProc
    <2>3. QED
      BY <2>2, QuietRow, EndedRow, QuietWorkers
  <1>5. QED
    BY <1>1, <1>2, <1>3, <1>4 DEF ManagerStep, LaunchStep, PlainManager, PlainLaunch

-----------------------------------------------------------------------------
(* The row and its containers under the steps of the runners and the clock. *)

\* A container that boots while the run is active is its assigned one, so no
\* other one can hold or be using the lease it takes.
LEMMA LeaseCoreInv ==
  ASSUME IInv, TypeOK', NEW r \in Runners, Lease(r), row' # row
  PROVE  RowInv' /\ WorkerInv' /\ KeepsRunner
  <1> USE DEF IInv
  <1>1. proc[r] = "boot" /\ Active(row)
    BY DEF Lease
  <1>2. row.runner = r
    BY <1>1 DEF WorkerInv, BootIsAssigned
  <1>3. \A s \in Runners : proc[s] \notin Working
    <2> SUFFICES ASSUME NEW s \in Runners, proc[s] \in Working PROVE FALSE
      OBVIOUS
    <2>1. row.owner = s
      BY <1>1 DEF WorkerInv, WorkerOwns
    <2>2. s = r
      BY <1>2, <2>1 DEF RowInv, OwnerIsAssigned, NoRunner, Runners
    <2>3. QED
      BY <1>1, <2>2 DEF Working
  <1>4. /\ row'.owner = r /\ row'.lease = "live" /\ row'.status = "running"
        /\ row'.runner = r /\ proc' = [proc EXCEPT ![r] = "loop"]
    <2>1. row \in Row
      BY DEF TypeOK
    <2>2. PICK part \in Fraction("heartbeat_at") :
            row' = [row EXCEPT !.owner = r, !.lease = "live", !.beat = @ + 1,
                               !.micros = (@ \ {"heartbeat_at"}) \cup part,
                               !.status = "running"]
      BY DEF Lease
    <2>3. proc' = [proc EXCEPT ![r] = "loop"]
      BY DEF Lease
    <2>4. QED
      BY <1>2, <2>1, <2>2, <2>3 DEF Row
  <1>5. RowInv'
    BY <1>4 DEF RowInv, LeaseHasOwner, TerminalIsReleased, ParkedIsReleased, OwnerIsAssigned,
                Terminal, TerminalStatus, NoRunner, Runners
  <1>6. \A s \in Runners : s # r => proc'[s] # "boot" /\ proc'[s] \notin Working
    BY <1>1, <1>2, <1>3, <1>4 DEF WorkerInv, BootIsAssigned, TypeOK, Working
  <1>7. WorkerInv'
    BY <1>4, <1>6 DEF WorkerInv, OwnerHasBooted, BootIsAssigned, WorkerOwns, AtMostOneWorker,
                      Working, TypeOK
  <1>8. KeepsRunner
    BY <1>1, <1>2, <1>4 DEF KeepsRunner
  <1>9. QED
    BY <1>5, <1>7, <1>8

\* Leaving the container: suspend() and settle() of the owner release the row.
Leaves(r) ==
  /\ proc[r] \in Working /\ proc' = [proc EXCEPT ![r] = "gone"] /\ row.owner = r
  /\ row'.owner = NoRunner /\ row'.lease = "none" /\ row'.runner = NoRunner
  /\ row'.beat = row.beat
  /\ Terminal(row') \/ (row'.status = "suspended" /\ row'.wait # "none")

LEMMA LeavesCoreInv ==
  ASSUME IInv, TypeOK', NEW r \in Runners, Leaves(r)
  PROVE  RowInv' /\ WorkerInv'
  <1> USE DEF IInv, Leaves
  <1>1. RowInv'
    BY DEF RowInv, LeaseHasOwner, TerminalIsReleased, ParkedIsReleased, OwnerIsAssigned,
           Terminal, TerminalStatus, ActiveStatus
  <1>2. Active(row)
    BY DEF RowInv, TerminalIsReleased, Active, Terminal, ActiveStatus, TerminalStatus, TypeOK,
           Row, NoRunner, Runners
  <1>3. \A s \in Runners : proc'[s] # "boot" /\ proc'[s] \notin Working
    <2>1. \A s \in Runners : proc[s] = "boot" => s = r
      BY <1>2 DEF WorkerInv, BootIsAssigned, RowInv, OwnerIsAssigned, NoRunner, Runners
    <2>2. \A s \in Runners : proc[s] \in Working => s = r
      BY DEF WorkerInv, AtMostOneWorker
    <2>3. QED
      BY <2>1, <2>2 DEF TypeOK, Working
  <1>4. WorkerInv'
    BY <1>3 DEF WorkerInv, OwnerHasBooted, BootIsAssigned, WorkerOwns, AtMostOneWorker,
                NoRunner, Runners
  <1>5. QED
    BY <1>1, <1>4

LEMMA LeavesThreads ==
  ASSUME IInv, TypeOK', NEW r \in Runners, Leaves(r), UNCHANGED <<thread, lock>>
  PROVE  LaunchInv'
  <1>1. Active(row) /\ row.runner = r
    BY DEF IInv, Leaves, RowInv, TerminalIsReleased, OwnerIsAssigned, Active, Terminal,
           ActiveStatus, TerminalStatus, TypeOK, Row, NoRunner, Runners
  <1>2. \A m \in Managers : thread[m].pc # "start"
    BY <1>1 DEF IInv, LaunchInv, StartIsAssigned, Leaves, Working
  <1>3. KeepsCreated
    BY DEF KeepsCreated, Leaves, IInv, TypeOK, Working
  <1>4. QED
    BY <1>2, <1>3 DEF LaunchInv, LaunchIsLocked, SnapshotIsFree, StartIsAssigned, IInv,
                      KeepsCreated

\* The other steps of a runner stay within its own life.
LEMMA StaysCoreInv ==
  ASSUME IInv, TypeOK', NEW r \in Runners,
         proc[r] \in Working \cup {"boot"},
         \/ UNCHANGED proc
         \/ proc[r] \in Working /\ \E pc \in Working : proc' = [proc EXCEPT ![r] = pc]
         \/ proc' = [proc EXCEPT ![r] = "gone"],
         row'.owner = row.owner, row'.runner = row.runner, row'.status = row.status,
         row'.wait = row.wait,
         row'.lease = row.lease \/ (row.owner # NoRunner /\ row'.lease # "none")
  PROVE  RowInv' /\ WorkerInv' /\ KeepsRunner /\ KeepsCreated
  <1>1. RowInv'
    BY DEF IInv, RowInv, LeaseHasOwner, TerminalIsReleased, ParkedIsReleased, OwnerIsAssigned,
           Terminal
  <1>2. \A s \in Runners : /\ proc'[s] = "boot" => proc[s] = "boot"
                           /\ proc'[s] \in Working => proc[s] \in Working
                           /\ proc[s] \in Working \cup {"gone"}
                                => proc'[s] \in Working \cup {"gone"}
                           /\ proc[s] \in {"created", "gone"} => proc'[s] = proc[s]
    BY DEF IInv, TypeOK, Working
  <1>3. WorkerInv'
    BY <1>2 DEF IInv, WorkerInv, OwnerHasBooted, BootIsAssigned, WorkerOwns, AtMostOneWorker,
                Active
  <1>4. KeepsRunner /\ KeepsCreated
    BY <1>2 DEF KeepsRunner, KeepsCreated, Active
  <1>5. QED
    BY <1>1, <1>3, <1>4

LEMMA RunnerCoreInv ==
  ASSUME IInv, TypeOK', NEW r \in Runners, RunnerStep(r)
  PROVE  RowInv' /\ WorkerInv' /\ LaunchInv'
  <1>1. TypeOK /\ row \in Row /\ proc \in [Runners -> ProcPC]
    BY DEF IInv, TypeOK
  <1>2. UNCHANGED <<thread, lock>>
    BY DEF RunnerStep, Lease, Heartbeat, AssertActive, Checkpoint, NextIteration, Throw,
           Suspend, SettleRun, RunnerCrash
  <1>3. CASE Lease(r) /\ row' # row
    <2>1. KeepsCreated
      BY <1>1, <1>3 DEF Lease, KeepsCreated
    <2>2. QED
      BY <1>2, <1>3, <2>1, LeaseCoreInv, QuietThreads
  <1>4. CASE Lease(r) /\ row' = row
    <2>1. row.beat + 1 # row.beat
      BY <1>1 DEF Row
    <2>2. proc'[r] = "loop" => row'.beat = row.beat + 1
      BY <1>1, <1>4 DEF Lease, Row
    <2>3. proc[r] = "boot" /\ proc' = [proc EXCEPT ![r] = "gone"]
      BY <1>1, <1>4, <2>1, <2>2 DEF Lease
    <2>4. QED
      BY <1>2, <1>4, <2>3, StaysCoreInv, QuietThreads
  <1>5. CASE Heartbeat(r)
    <2>1. /\ proc[r] \in Working /\ UNCHANGED proc /\ row.owner # NoRunner
          /\ row'.owner = row.owner /\ row'.runner = row.runner /\ row'.status = row.status
          /\ row'.wait = row.wait /\ row'.lease = "live"
      BY <1>1, <1>5 DEF Heartbeat, Row, NoRunner, Runners
    <2>2. QED
      BY <1>2, <2>1, StaysCoreInv, QuietThreads
  <1>6. CASE AssertActive(r) \/ NextIteration(r) \/ Throw(r)
    <2>1. /\ proc[r] \in Working /\ UNCHANGED row
          /\ \E pc \in Working : proc' = [proc EXCEPT ![r] = pc]
      BY <1>6 DEF AssertActive, NextIteration, Throw, Working
    <2>2. QED
      BY <1>2, <2>1, StaysCoreInv, QuietThreads
  <1>7. CASE Checkpoint(r)
    <2>1. /\ proc[r] \in Working
          /\ \E pc \in Working : proc' = [proc EXCEPT ![r] = pc]
          /\ row'.owner = row.owner /\ row'.runner = row.runner /\ row'.status = row.status
          /\ row'.wait = row.wait /\ row'.lease = row.lease
      BY <1>1, <1>7 DEF Checkpoint, Row, Working
    <2>2. QED
      BY <1>2, <2>1, StaysCoreInv, QuietThreads
  <1>8. CASE RunnerCrash(r)
    BY <1>2, <1>8, StaysCoreInv, QuietThreads DEF RunnerCrash, Alive
  <1>9. ASSUME NEW kind \in {"timer", "user-input"}, Suspend(r, kind)
        PROVE  RowInv' /\ WorkerInv' /\ LaunchInv'
    <2>1. proc[r] \in Working /\ proc' = [proc EXCEPT ![r] = "gone"]
      BY <1>9 DEF Suspend, Working
    <2>2. CASE row.owner = r
      <3>1. Leaves(r)
        BY <1>1, <1>9, <2>1, <2>2 DEF Suspend, Leaves, Row
      <3>2. QED
        BY <1>2, <3>1, LeavesCoreInv, LeavesThreads
    <2>3. CASE row.owner # r
      <3>1. UNCHANGED row
        BY <1>9, <2>3 DEF Suspend
      <3>2. QED
        BY <1>2, <2>1, <3>1, StaysCoreInv, QuietThreads
    <2>4. QED
      BY <2>2, <2>3
  <1>10. ASSUME NEW status \in TerminalStatus, SettleRun(r, status)
         PROVE  RowInv' /\ WorkerInv' /\ LaunchInv'
    <2>1. proc[r] \in Working /\ proc' = [proc EXCEPT ![r] = "gone"]
      BY <1>10 DEF SettleRun, Working
    <2>2. CASE row.owner = r
      <3>1. Leaves(r)
        BY <1>1, <1>10, <2>1, <2>2 DEF SettleRun, Leaves, Row, Terminal
      <3>2. QED
        BY <1>2, <3>1, LeavesCoreInv, LeavesThreads
    <2>3. CASE row.owner # r
      <3>1. UNCHANGED row
        BY <1>10, <2>3 DEF SettleRun
      <3>2. QED
        BY <1>2, <2>1, <3>1, StaysCoreInv, QuietThreads
    <2>4. QED
      BY <2>2, <2>3
  <1>11. QED
    BY <1>3, <1>4, <1>5, <1>6, <1>7, <1>8, <1>9, <1>10 DEF RunnerStep

LEMMA ClockCoreInv ==
  ASSUME IInv, TypeOK', LeaseExpires \/ WaitElapses
  PROVE  RowInv' /\ WorkerInv' /\ LaunchInv'
  <1>1. /\ row'.owner = row.owner /\ row'.runner = row.runner /\ row'.status = row.status
        /\ row'.wait = row.wait /\ UNCHANGED <<proc, thread, lock>>
        /\ row'.lease = row.lease \/ (row.lease = "live" /\ row'.lease = "expired")
    BY DEF IInv, TypeOK, Row, LeaseExpires, WaitElapses
  <1>2. RowInv'
    BY <1>1 DEF IInv, RowInv, LeaseHasOwner, TerminalIsReleased, ParkedIsReleased,
                OwnerIsAssigned, Terminal
  <1>3. WorkerInv'
    BY <1>1 DEF IInv, WorkerInv, OwnerHasBooted, BootIsAssigned, WorkerOwns, AtMostOneWorker,
                Active
  <1>4. KeepsCreated /\ KeepsRunner
    BY <1>1 DEF KeepsCreated, KeepsRunner, Active
  <1>5. QED
    BY <1>1, <1>2, <1>3, <1>4, QuietThreads

-----------------------------------------------------------------------------
(* The rows a reconciliation picked.                                        *)

\* The steps that write heartbeat_at or the lease move them together.
LEMMA BeatOrLease ==
  ASSUME IInv, [Next]_vars
  PROVE  \/ row'.beat = row.beat /\ (row'.lease # "live" \/ row'.lease = row.lease)
         \/ row'.beat = row.beat + 1
  <1>1. TypeOK /\ row \in Row
    BY DEF IInv, TypeOK
  <1>2. CASE \E m \in Managers : ManagerStep(m)
    <2> PICK m \in Managers : ManagerStep(m)
      BY <1>2
    <2>1. CASE PlainManager(m)
      BY <1>1, <2>1, PlainRow DEF Ends
    <2>2. CASE Assign(m)
      BY <1>1, <2>2 DEF Assign, Row
    <2>3. CASE StartRunner(m)
      BY <2>3 DEF StartRunner
    <2>4. CASE Resume(m) \/ DueBackoff(m)
      BY <1>1, <2>4 DEF Resume, DueBackoff, Row
    <2>5. QED
      BY <2>1, <2>2, <2>3, <2>4 DEF ManagerStep, LaunchStep, PlainManager, PlainLaunch
  <1>3. CASE \E r \in Runners : RunnerStep(r)
    <2> PICK r \in Runners : RunnerStep(r)
      BY <1>3
    <2>1. CASE Lease(r) \/ Heartbeat(r)
      BY <1>1, <2>1 DEF Lease, Heartbeat, Row
    <2>2. CASE \/ AssertActive(r) \/ Checkpoint(r) \/ NextIteration(r) \/ Throw(r)
               \/ RunnerCrash(r)
      BY <1>1, <2>2 DEF AssertActive, Checkpoint, NextIteration, Throw, RunnerCrash, Row
    <2>3. ASSUME NEW kind \in {"timer", "user-input"}, Suspend(r, kind)
          PROVE  row'.beat = row.beat /\ (row'.lease # "live" \/ row'.lease = row.lease)
      BY <1>1, <2>3 DEF Suspend, Row
    <2>4. ASSUME NEW status \in TerminalStatus, SettleRun(r, status)
          PROVE  row'.beat = row.beat /\ (row'.lease # "live" \/ row'.lease = row.lease)
      BY <1>1, <2>4 DEF SettleRun, Row
    <2>5. QED
      BY <2>1, <2>2, <2>3, <2>4 DEF RunnerStep
  <1>4. CASE LeaseExpires \/ WaitElapses
    BY <1>1, <1>4 DEF LeaseExpires, WaitElapses, Row
  <1>5. CASE UNCHANGED vars
    BY <1>5 DEF vars
  <1>6. QED
    BY <1>2, <1>3, <1>4, <1>5 DEF Next

\* Picks are made by ReconcileScan alone, from a row no live lease protects.
LEMMA PicksOnlyByScan ==
  ASSUME IInv, [Next]_vars, NEW n \in Managers, ~ReconcileScan(n)
  PROVE  mgr'[n].rec \subseteq mgr[n].rec
  <1>1. TypeOK /\ mgr \in [Managers -> Mgr]
    BY DEF IInv, TypeOK
  <1>2. ASSUME NEW m \in Managers, ManagerStep(m)
        PROVE  mgr'[n].rec \subseteq mgr[n].rec
    <2>1. CASE LaunchStep(m)
      <3>1. CASE Release(m)
        BY <1>1, <3>1 DEF Release, Mgr
      <3>2. CASE ~Release(m)
        <4>1. UNCHANGED mgr
          BY <2>1, <3>2 DEF LaunchStep, LockGranted, Recheck, ReadRun, Prepare, Assign,
               StartRunner, Handshake, HandshakeTimeout, Outcome, Cleanup, SettleLaunch
        <4>2. QED
          BY <4>1
      <3>3. QED
        BY <3>1, <3>2
    <2>2. CASE CallLaunch(m) \/ DueScan(m) \/ DueLaunch(m) \/ DueBackoff(m)
      <3>1. CASE CallLaunch(m)
        BY <1>1, <3>1 DEF CallLaunch, Mgr
      <3>2. CASE DueScan(m)
        BY <1>1, <3>2 DEF DueScan, Mgr
      <3>3. CASE DueLaunch(m)
        BY <1>1, <3>3 DEF DueLaunch, Mgr
      <3>4. CASE DueBackoff(m)
        BY <1>1, <3>4 DEF DueBackoff, Mgr
      <3>5. QED
        BY <2>2, <3>1, <3>2, <3>3, <3>4
    <2>3. CASE Stop(m) \/ Resume(m) \/ Archive(m) \/ Retire(m) \/ Unarchive(m) \/ StopRunner(m)
      BY <1>1, <2>3 DEF Stop, Resume, Archive, Retire, Unarchive, StopRunner, Mgr
    <2>4. CASE Crash(m) \/ Restart(m)
      <3> DEFINE leads == \A x \in Managers : ~mgr[x].leader
      <3>1. CASE Crash(m)
        BY <1>1, <3>1 DEF Crash, FreshMgr, Mgr
      <3>2. CASE Restart(m)
        <4>1. mgr' = [mgr EXCEPT ![m] = [mgr[m] EXCEPT !.up = TRUE, !.leader = leads]]
          BY <1>1, <3>2 DEF Restart, Mgr
        <4> HIDE DEF leads
        <4>2. QED
          BY <1>1, <4>1 DEF Mgr
      <3>3. QED
        BY <2>4, <3>1, <3>2
    <2>5. CASE ReconcileScan(m)
      BY <1>1, <2>5 DEF ReconcileScan, Mgr
    <2>6. CASE ReconcileSettle(m)
      BY <1>1, <2>6 DEF ReconcileSettle, Mgr
    <2>7. QED
      BY <1>2, <2>1, <2>2, <2>3, <2>4, <2>5, <2>6 DEF ManagerStep
  <1>3. CASE ~ \E m \in Managers : ManagerStep(m)
    BY <1>3 DEF Next, RunnerStep, Lease, Heartbeat, AssertActive, Checkpoint, NextIteration,
           Throw, Suspend, SettleRun, RunnerCrash, LeaseExpires, WaitElapses, vars
  <1>4. QED
    BY <1>2, <1>3

LEMMA NextPicks ==
  ASSUME IInv, TypeOK', [Next]_vars
  PROVE  PickIsStale'
  <1>1. CASE \E m \in Managers : ReconcileScan(m)
    <2> PICK m \in Managers : ReconcileScan(m)
      BY <1>1
    <2> DEFINE pick == [key |-> ReconcileKey(row), expired |-> row.lease = "expired"]
    <2>1. TypeOK /\ row \in Row /\ mgr \in [Managers -> Mgr]
      BY DEF IInv, TypeOK
    <2>2. mgr'[m].rec = mgr[m].rec \cup {pick} /\ \A n \in Managers : n # m => mgr'[n] = mgr[n]
      BY <2>1 DEF ReconcileScan, Mgr
    <2>3. UNCHANGED row
      BY DEF ReconcileScan
    <2>4. /\ pick.key.status \in ActiveStatus /\ pick.key.beat = row.beat
          /\ pick.key.owner # NoRunner => row.lease # "live"
      BY <2>1 DEF ReconcileScan, Abandoned, ReconcileKey, Active
    <2>5. pick.key.beat <= row.beat
      BY <2>1, <2>4 DEF Row
    <2> HIDE DEF pick
    <2>6. QED
      BY <2>2, <2>3, <2>4, <2>5 DEF IInv, PickIsStale
  <1>2. CASE ~ \E m \in Managers : ReconcileScan(m)
    BY <1>2, PicksOnlyByScan, BeatOrLease, QuietPicks
  <1>3. QED
    BY <1>1, <1>2

-----------------------------------------------------------------------------
LEMMA NextIInv == IInv /\ [Next]_vars => IInv'
  <1> SUFFICES ASSUME IInv, [Next]_vars PROVE IInv'
    OBVIOUS
  <1>1. TypeOK'
    BY NextTypeOK DEF IInv
  <1>2. RowInv' /\ WorkerInv' /\ LaunchInv'
    <2>1. CASE \E m \in Managers : ManagerStep(m)
      BY <1>1, <2>1, ManagerCoreInv, ManagerLaunchInv
    <2>2. CASE \E r \in Runners : RunnerStep(r)
      BY <1>1, <2>2, RunnerCoreInv
    <2>3. CASE LeaseExpires \/ WaitElapses
      BY <1>1, <2>3, ClockCoreInv
    <2>4. CASE UNCHANGED vars
      <3>1. Fading /\ KeepsCreated /\ KeepsRunner /\ UNCHANGED <<row, thread, lock>>
        BY <2>4 DEF vars, Fading, KeepsCreated, KeepsRunner
      <3>2. QED
        BY <1>1, <3>1, QuietRow, QuietWorkers, QuietThreads
    <2>5. QED
      BY <2>1, <2>2, <2>3, <2>4 DEF Next
  <1>3. QED
    BY <1>1, <1>2, NextPicks DEF IInv

\* The inductive invariant: who may own the row and who may run a container for it.
THEOREM Invariant == Spec => []IInv
  BY InitIInv, NextIInv, PTL DEF Spec

\* At no time do two containers work on the run, however launches, time-outs,
\* reconciliations, user requests, crashes and restarts interleave.
THEOREM Exclusion == Spec => []AtMostOneWorker
  <1>1. IInv => AtMostOneWorker
    BY DEF IInv, WorkerInv
  <1>2. QED
    BY Invariant, <1>1, PTL

\* The lease is always held by the container the row is assigned to.
THEOREM Assignment == Spec => []OwnerIsAssigned
  <1>1. IInv => OwnerIsAssigned
    BY DEF IInv, RowInv
  <1>2. QED
    BY Invariant, <1>1, PTL

\* A suspended run has neither owner nor lease: whatever suspended it, a late or dead
\* runner does not keep the run from being resumed.
THEOREM Parking == Spec => []ParkedIsReleased
  <1>1. IInv => ParkedIsReleased
    BY DEF IInv, RowInv
  <1>2. QED
    BY Invariant, <1>1, PTL

-----------------------------------------------------------------------------
(* What a step may do to a run that has ended, that is owned or that waits. *)

\* Every update of an ended run misses it.
LEMMA TerminalKept ==
  ASSUME IInv, Terminal(row), [Next]_vars
  PROVE  row'.status = row.status /\ row'.why = row.why /\ row'.owner = NoRunner
  <1>1. TypeOK /\ row \in Row
    BY DEF IInv, TypeOK
  <1>2. ~Active(row) /\ row.owner = NoRunner /\ row.lease = "none"
    BY DEF IInv, RowInv, TerminalIsReleased, LeaseHasOwner, Active, Terminal, ActiveStatus,
           TerminalStatus
  <1>3. CASE \E m \in Managers : ManagerStep(m)
    <2> PICK m \in Managers : ManagerStep(m)
      BY <1>3
    <2>1. UNCHANGED row
      <3>1. CASE HandshakeTimeout(m) \/ SettleLaunch(m)
        BY <1>2, <3>1 DEF HandshakeTimeout, SettleLaunch, Unowned
      <3>2. CASE Assign(m)
        BY <1>2, <3>2 DEF Assign, Assignable, LaunchKey, IInv, LaunchInv, SnapshotIsFree, Active
      <3>3. CASE ReconcileSettle(m)
        <4> PICK pick \in mgr[m].rec : ReconcileSettle(m)!(pick)
          BY <3>3 DEF ReconcileSettle
        <4>1. pick.key.status # row.status
          BY <1>2 DEF IInv, PickIsStale, Active
        <4>2. QED
          BY <4>1 DEF ReconcileKey
      <3>4. CASE Stop(m) \/ Resume(m) \/ Retire(m) \/ DueBackoff(m) \/ Restart(m)
        BY <1>2, <3>4 DEF Stop, Resume, Retire, DueBackoff, Restart, Migrated
      <3>5. CASE LockGranted(m) \/ Recheck(m) \/ ReadRun(m) \/ Prepare(m) \/ StartRunner(m)
                 \/ Handshake(m) \/ Outcome(m) \/ Cleanup(m) \/ Release(m)
        BY <3>5 DEF LockGranted, Recheck, ReadRun, Prepare, StartRunner, Handshake, Outcome,
                    Cleanup, Release
      <3>6. CASE CallLaunch(m) \/ DueScan(m) \/ DueLaunch(m) \/ ReconcileScan(m) \/ Archive(m)
                 \/ Unarchive(m) \/ StopRunner(m) \/ Crash(m)
        BY <3>6 DEF CallLaunch, DueScan, DueLaunch, ReconcileScan, Archive, Unarchive,
                    StopRunner, Crash
      <3>7. QED
        BY <3>1, <3>2, <3>3, <3>4, <3>5, <3>6 DEF ManagerStep, LaunchStep
    <2>2. QED
      BY <1>2, <2>1
  <1>4. CASE \E r \in Runners : RunnerStep(r)
    <2> PICK r \in Runners : RunnerStep(r)
      BY <1>4
    <2>1. row.owner # r
      BY <1>2 DEF NoRunner, Runners
    <2>2. UNCHANGED row \/ row' = [row EXCEPT !.ckpt = TRUE]
      BY <1>2, <2>1 DEF RunnerStep, Lease, Heartbeat, AssertActive, Checkpoint, NextIteration,
           Throw, Suspend, SettleRun, RunnerCrash
    <2>3. QED
      BY <1>1, <1>2, <2>2 DEF Row
  <1>5. CASE LeaseExpires \/ WaitElapses
    BY <1>1, <1>2, <1>5 DEF LeaseExpires, WaitElapses, Row
  <1>6. CASE UNCHANGED vars
    BY <1>2, <1>6 DEF vars
  <1>7. QED
    BY <1>3, <1>4, <1>5, <1>6 DEF Next

\* Who writes a reason, and what the row looked like when it did.
LEMMA WhoSettles ==
  ASSUME IInv, [Next]_vars, row'.why # row.why
  PROVE  \/ row'.why \in {"user_cancelled", "workflow_archived"}
         \/ /\ row.lease # "live"
            /\ row.status = "suspended" => row'.why = "runner_launch_failed"
  <1>1. TypeOK /\ row \in Row
    BY DEF IInv, TypeOK
  <1>2. row.owner = NoRunner => row.lease # "live"
    BY DEF IInv, RowInv, LeaseHasOwner
  <1>3. row.status = "suspended" => row.runner = NoRunner /\ row.wait # "none"
    BY DEF IInv, RowInv, ParkedIsReleased
  <1>4. \A why \in Reason : Settled(row, why).why = why /\ Cancelled(row, why).why = why
    BY <1>1, EndedShape
  <1>5. CASE \E m \in Managers : ManagerStep(m)
    <2> PICK m \in Managers : ManagerStep(m)
      BY <1>5
    <2>1. CASE HandshakeTimeout(m)
      <3>1. thread[m].run # NoRunner
        BY <2>1 DEF HandshakeTimeout, IInv, LaunchInv, StartIsAssigned, NoRunner, Runners
      <3>2. Unowned(row, thread[m].run)
        BY <2>1 DEF HandshakeTimeout
      <3>3. QED
        BY <1>2, <1>3, <3>1, <3>2 DEF Unowned
    <2>2. CASE SettleLaunch(m)
      BY <1>2, <1>4, <2>2 DEF SettleLaunch, Unowned, Reason
    <2>3. CASE ReconcileSettle(m)
      <3> PICK pick \in mgr[m].rec : ReconcileSettle(m)!(pick)
        BY <2>3 DEF ReconcileSettle
      <3>1. /\ ReconcileKey(row) = pick.key
            /\ ~(row.status = "suspended" /\ row.wait # "none")
        OBVIOUS
      <3>2. row.owner # NoRunner => row.lease # "live"
        BY <3>1 DEF IInv, PickIsStale, ReconcileKey
      <3>3. QED
        BY <1>2, <1>3, <3>1, <3>2
    <2>4. CASE Stop(m) \/ Retire(m)
      BY <1>4, <2>4 DEF Stop, Retire, Reason
    <2>5. CASE Restart(m)
      <3>1. CASE Active(row) /\ archived
        BY <1>4, <2>5, <3>1 DEF Restart, Migrated, Reason
      <3>2. CASE ~(Active(row) /\ archived)
        <4>1. row.runner # NoRunner /\ row.owner = NoRunner
          BY <2>5, <3>2 DEF Restart, Migrated
        <4>2. QED
          BY <1>2, <1>3, <4>1
      <3>3. QED
        BY <3>1, <3>2
    <2>6. CASE Assign(m) \/ Resume(m) \/ DueBackoff(m)
      BY <1>1, <2>6 DEF Assign, Resume, DueBackoff, Row
    <2>7. CASE LockGranted(m) \/ Recheck(m) \/ ReadRun(m) \/ Prepare(m) \/ StartRunner(m)
               \/ Handshake(m) \/ Outcome(m) \/ Cleanup(m) \/ Release(m)
      BY <2>7 DEF LockGranted, Recheck, ReadRun, Prepare, StartRunner, Handshake, Outcome,
                  Cleanup, Release
    <2>8. CASE CallLaunch(m) \/ DueScan(m) \/ DueLaunch(m) \/ ReconcileScan(m) \/ Archive(m)
               \/ Unarchive(m) \/ StopRunner(m) \/ Crash(m)
      BY <2>8 DEF CallLaunch, DueScan, DueLaunch, ReconcileScan, Archive, Unarchive,
                  StopRunner, Crash
    <2>9. QED
      BY <2>1, <2>2, <2>3, <2>4, <2>5, <2>6, <2>7, <2>8 DEF ManagerStep, LaunchStep
  <1>6. ~ \E r \in Runners : RunnerStep(r)
    <2> SUFFICES ASSUME NEW r \in Runners, RunnerStep(r)
                 PROVE  row'.why = row.why
      OBVIOUS
    <2>1. CASE Lease(r)
      <3>1. \/ UNCHANGED row
            \/ \E beat, part : row' = [row EXCEPT !.owner = r, !.lease = "live", !.beat = beat,
                                                !.micros = part, !.status = "running"]
        BY <2>1 DEF Lease
      <3>2. QED
        BY <1>1, <3>1 DEF Row
    <2>a. CASE Heartbeat(r)
      <3>1. \E beat, part : row' = [row EXCEPT !.lease = "live", !.beat = beat, !.micros = part]
        BY <2>a DEF Heartbeat
      <3>2. QED
        BY <1>1, <3>1 DEF Row
    <2>2. CASE Checkpoint(r) \/ \E status \in TerminalStatus : SettleRun(r, status)
      BY <1>1, <2>2 DEF Checkpoint, SettleRun, Row
    <2>3. CASE \E kind \in {"timer", "user-input"} : Suspend(r, kind)
      BY <1>1, <2>3 DEF Suspend, Row
    <2>4. CASE AssertActive(r) \/ NextIteration(r) \/ Throw(r) \/ RunnerCrash(r)
      BY <2>4 DEF AssertActive, NextIteration, Throw, RunnerCrash
    <2>5. QED
      BY <2>1, <2>a, <2>2, <2>3, <2>4 DEF RunnerStep
  <1>7. ~(LeaseExpires \/ WaitElapses) /\ ~UNCHANGED vars
    BY <1>1 DEF LeaseExpires, WaitElapses, vars, Row
  <1>8. QED
    BY <1>5, <1>6, <1>7 DEF Next

\* A run ends once: no statement of a process that has not noticed revives it.
THEOREM EndsOnce == Spec => TerminalForever
  <1>1. IInv /\ [Next]_vars
          => [Terminal(row) => /\ row'.status = row.status /\ row'.why = row.why
                               /\ row'.owner = NoRunner]_vars
    BY TerminalKept
  <1>2. QED
    BY Invariant, <1>1, PTL DEF Spec, TerminalForever

\* Reconciliation, launch failures and migrations never settle a live runner's run.
THEOREM LiveRunsAreLeftAlone == Spec => LiveLeaseRespected
  <1>1. IInv /\ [Next]_vars
          => [row'.why # row.why /\ row'.why \in Automatic => row.lease # "live"]_vars
    BY WhoSettles DEF Automatic
  <1>2. QED
    BY Invariant, <1>1, PTL DEF Spec, LiveLeaseRespected

\* A run waiting for a timer or a person is failed by no reconciliation or restart.
THEOREM WaitsAreLeftAlone == Spec => WaitSurvivesReconciliation
  <1>1. IInv /\ [Next]_vars
          => [row.status = "suspended" /\ row'.why # row.why
               => row'.why \in {"user_cancelled", "workflow_archived", "runner_launch_failed"}]_vars
    BY WhoSettles
  <1>2. QED
    BY Invariant, <1>1, PTL DEF Spec, WaitSurvivesReconciliation

-----------------------------------------------------------------------------
(* No run that has run before is left running with nobody to launch it.     *)

\* A run between two workers that is not parked.
BetweenWorkers(x) == x.status = "running" /\ x.owner = NoRunner /\ x.beat > 0

\* Another thread's launch is not disturbed by a step of m.
LEMMA OthersAttend ==
  ASSUME NEW m \in Managers, NEW n \in Managers, n # m, ManagerStep(m),
         row' = row, thread \in [Managers -> Thread], Attends(n)
  PROVE  Attends(n)'
  <1>1. CASE LaunchStep(m)
    <2>1. thread'[n] = thread[n]
      BY <1>1 DEF LaunchStep, LockGranted, Recheck, ReadRun, Prepare, Assign, StartRunner,
                  Handshake, HandshakeTimeout, Outcome, Cleanup, SettleLaunch, Release, Goto,
                  Finish
    <2>2. QED
      BY <2>1 DEF Attends
  <1>2. CASE CallLaunch(m) \/ DueLaunch(m) \/ Crash(m)
    <2>1. thread'[n] = thread[n]
      BY <1>2 DEF CallLaunch, DueLaunch, Crash, Enter
    <2>2. QED
      BY <2>1 DEF Attends
  <1>3. CASE ~LaunchStep(m) /\ ~CallLaunch(m) /\ ~DueLaunch(m) /\ ~Crash(m)
    <2>1. UNCHANGED thread
      BY <1>3 DEF ManagerStep, DueScan, DueBackoff, ReconcileScan, ReconcileSettle, Stop,
                  Resume, Archive, Retire, Unarchive, StopRunner, Restart
    <2>2. QED
      BY <2>1 DEF Attends
  <1>4. QED
    BY <1>1, <1>2, <1>3

\* The attending thread itself stays until the run is leased or settled.
LEMMA OwnAttends ==
  ASSUME IInv, NEW m \in Managers, ManagerStep(m), row' = row, BetweenWorkers(row),
         Attends(m), crashes' = crashes
  PROVE  Attends(m)'
  <1> DEFINE r == thread[m].run
  <1>1. TypeOK /\ row \in Row /\ crashes \in Nat
    BY DEF IInv, TypeOK
  <1>2. thread \in [Managers -> Thread]
    BY <1>1 DEF TypeOK
  <1>3. Unowned(row, r) /\ ~ShookHands(row, r) /\ Active(row) /\ row.runner = r
    <2>1. row.lease = "none"
      BY DEF IInv, RowInv, LeaseHasOwner, BetweenWorkers
    <2>2. Active(row) /\ row.runner = r /\ ~Terminal(row) /\ ~Parked(row)
      BY DEF BetweenWorkers, Active, ActiveStatus, Attends, Terminal, TerminalStatus, Parked
    <2>3. QED
      BY <2>1, <2>2 DEF Unowned, ShookHands, BetweenWorkers
  <1>4. thread[m].pc \in {"start", "shake", "cleanup", "settle"} /\ thread[m].assigned
    BY DEF Attends
  <1>5. CASE StartRunner(m) \/ Cleanup(m)
    <2>1. PICK pc \in {"shake", "cleanup", "settle"} : thread' = [thread EXCEPT ![m].pc = pc]
      BY <1>5 DEF StartRunner, Cleanup, Goto
    <2>2. QED
      BY <1>2, <1>3, <1>4, <2>1 DEF Attends, Thread
  <1>6. ~HandshakeTimeout(m) /\ ~SettleLaunch(m)
    <2>1. row' # Settled(row, "runner_handshake_timeout")
          /\ row' # Settled(row, "runner_launch_failed")
      BY <1>1, <1>3, EndedShape DEF Reason, BetweenWorkers, Terminal, TerminalStatus
    <2>2. QED
      BY <1>3, <1>4, <2>1 DEF HandshakeTimeout, SettleLaunch
  <1>7. /\ ~LockGranted(m) /\ ~Recheck(m) /\ ~ReadRun(m) /\ ~Prepare(m) /\ ~Assign(m)
        /\ ~Handshake(m) /\ ~Outcome(m) /\ ~Release(m) /\ ~Crash(m)
    <2>1. ~LockGranted(m) /\ ~Recheck(m) /\ ~ReadRun(m) /\ ~Prepare(m) /\ ~Assign(m)
      BY <1>4 DEF LockGranted, Recheck, ReadRun, Prepare, Assign
    <2>2. ~Outcome(m) /\ ~Release(m)
      BY <1>4 DEF Outcome, Release
    <2>3. ~Handshake(m)
      BY <1>3 DEF Handshake
    <2>4. ~Crash(m)
      <3>1. crashes' # crashes + 1
        BY <1>1
      <3>2. QED
        BY <3>1 DEF Crash
    <2>5. QED
      BY <2>1, <2>2, <2>3, <2>4
  <1>8. CASE CallLaunch(m) \/ DueLaunch(m)
    BY <1>4, <1>8 DEF CallLaunch, DueLaunch, Enter, Attends
  <1>9. CASE ~LaunchStep(m) /\ ~CallLaunch(m) /\ ~DueLaunch(m)
    <2>1. UNCHANGED thread
      BY <1>7, <1>9 DEF ManagerStep, DueScan, DueBackoff, ReconcileScan, ReconcileSettle, Stop,
                        Resume, Archive, Retire, Unarchive, StopRunner, Restart
    <2>2. QED
      BY <2>1 DEF Attends
  <1>10. QED
    BY <1>5, <1>6, <1>7, <1>8, <1>9 DEF LaunchStep

\* Crashes and requests are only counted up.
Counts == /\ crashes' \in {crashes, crashes + 1}
          /\ requests' \in {requests, requests + 1}

LEMMA NextCounts == [Next]_vars => Counts
  <1>1. ASSUME NEW m \in Managers, ManagerStep(m) PROVE Counts
    <2>1. CASE CallLaunch(m) \/ DueScan(m) \/ DueLaunch(m) \/ DueBackoff(m)
      BY <2>1 DEF CallLaunch, DueScan, DueLaunch, DueBackoff, Counts
    <2>2. CASE ReconcileScan(m) \/ ReconcileSettle(m) \/ Stop(m) \/ Retire(m)
               \/ StopRunner(m) \/ Restart(m)
      BY <2>2 DEF ReconcileScan, ReconcileSettle, Stop, Retire, StopRunner, Restart, Counts
    <2>3. CASE Resume(m) \/ Archive(m) \/ Unarchive(m) \/ Crash(m)
      BY <2>3 DEF Resume, Archive, Unarchive, Crash, Counts
    <2>4. CASE LockGranted(m) \/ Recheck(m) \/ ReadRun(m) \/ Prepare(m) \/ Assign(m)
               \/ StartRunner(m)
      BY <2>4 DEF LockGranted, Recheck, ReadRun, Prepare, Assign, StartRunner, Counts
    <2>5. CASE Handshake(m) \/ HandshakeTimeout(m) \/ Outcome(m) \/ Cleanup(m)
               \/ SettleLaunch(m) \/ Release(m)
      BY <2>5 DEF Handshake, HandshakeTimeout, Outcome, Cleanup, SettleLaunch, Release, Counts
    <2>6. QED
      BY <1>1, <2>1, <2>2, <2>3, <2>4, <2>5 DEF ManagerStep, LaunchStep
  <1>2. ASSUME NEW r \in Runners, RunnerStep(r) PROVE Counts
    <2>1. UNCHANGED <<crashes, requests>>
      BY <1>2 DEF RunnerStep, Lease, Heartbeat, AssertActive, Checkpoint, NextIteration, Throw,
                  Suspend, SettleRun, RunnerCrash
    <2>2. QED
      BY <2>1 DEF Counts
  <1>3. CASE LeaseExpires \/ WaitElapses \/ UNCHANGED vars
    BY <1>3 DEF LeaseExpires, WaitElapses, vars, Counts
  <1>4. QED
    BY <1>1, <1>2, <1>3 DEF Next

LEMMA BeforeAttended ==
  ASSUME TypeOK, [Next]_vars, crashes' = 0, requests' = 0
  PROVE  crashes = 0 /\ requests = 0
  <1>1. crashes \in Nat /\ requests \in Nat
    BY DEF TypeOK
  <1>2. QED
    BY <1>1, NextCounts DEF Counts

LEMMA ManagerAttended ==
  ASSUME IInv, RunningIsAttended, NEW m \in Managers, ManagerStep(m), BetweenWorkers(row'),
         crashes = 0, requests = 0, crashes' = 0, requests' = 0
  PROVE  \E n \in Managers : Attends(n)'
  <1>1. TypeOK /\ row \in Row /\ thread \in [Managers -> Thread]
    BY DEF IInv, TypeOK
  <1>2. ASSUME row' = row
        PROVE  \E n \in Managers : Attends(n)'
    <2>1. BetweenWorkers(row)
      BY <1>2
    <2>2. PICK n \in Managers : Attends(n)
      BY <2>1 DEF RunningIsAttended, BetweenWorkers
    <2>3. Attends(n)'
      BY <1>1, <1>2, <2>1, <2>2, OthersAttend, OwnAttends
    <2>4. QED
      BY <2>3
  <1>3. CASE PlainManager(m)
    <2>1. ~Ends
      BY DEF Ends, BetweenWorkers, Terminal, TerminalStatus
    <2>2. QED
      BY <1>1, <1>2, <1>3, <2>1, PlainRow
  <1>4. CASE Assign(m) /\ row' # row
    <2>1. row' = [row EXCEPT !.runner = thread[m].run, !.status = "running",
                             !.at = "none", !.due = FALSE, !.wait = "none",
                             !.micros = @ \ {"resume_at"}]
          /\ thread' = [thread EXCEPT ![m].pc = "start", ![m].assigned = TRUE]
      BY <1>4 DEF Assign
    <2>2. row'.runner = thread[m].run
      BY <1>1, <2>1 DEF Row
    <2>3. /\ thread'[m].pc = "start" /\ thread'[m].assigned
          /\ thread'[m].run = thread[m].run
      BY <1>1, <2>1 DEF Thread
    <2>4. QED
      BY <2>2, <2>3 DEF Attends
  <1>5. CASE DueBackoff(m) /\ row' # row
    <2>1. PICK part \in Fraction("resume_at") :
            row' = [row EXCEPT !.at = "later", !.due = FALSE,
                               !.micros = (@ \ {"resume_at"}) \cup part]
      BY <1>5 DEF DueBackoff
    <2>2. /\ row'.status = row.status /\ row'.owner = row.owner
          /\ row'.beat = row.beat /\ row'.runner = row.runner
      BY <1>1, <2>1 DEF Row
    <2>3. PICK n \in Managers : Attends(n)
      BY <2>2 DEF RunningIsAttended, BetweenWorkers
    <2>4. UNCHANGED thread
      BY <1>5 DEF DueBackoff
    <2>5. QED
      BY <2>2, <2>3, <2>4 DEF Attends
  <1>6. ~Resume(m)
    BY DEF Resume
  <1>7. CASE StartRunner(m)
    BY <1>2, <1>7 DEF StartRunner
  <1>8. QED
    BY <1>2, <1>3, <1>4, <1>5, <1>6, <1>7 DEF ManagerStep, LaunchStep, PlainManager, PlainLaunch

\* The row between two workers is not written by runners or the clock.
LEMMA IdleRow ==
  ASSUME TypeOK, (\E r \in Runners : RunnerStep(r)) \/ LeaseExpires \/ WaitElapses,
         BetweenWorkers(row')
  PROVE  /\ BetweenWorkers(row) /\ row'.runner = row.runner
         /\ UNCHANGED thread
  <1>1. row \in Row
    BY DEF TypeOK
  <1>2. ASSUME NEW r \in Runners, RunnerStep(r)
        PROVE  BetweenWorkers(row) /\ row'.runner = row.runner
    <2>1. r # NoRunner
      BY DEF Runners, NoRunner
    <2>2. CASE Lease(r)
      <3>1. CASE UNCHANGED row
        BY <3>1
      <3>2. CASE ~UNCHANGED row
        <4>1. PICK part \in Fraction("heartbeat_at") :
                row' = [row EXCEPT !.owner = r, !.lease = "live", !.beat = @ + 1,
                                   !.micros = (@ \ {"heartbeat_at"}) \cup part,
                                   !.status = "running"]
          BY <2>2, <3>2 DEF Lease
        <4>2. row'.owner = r
          BY <1>1, <4>1 DEF Row
        <4>3. QED
          BY <2>1, <4>2 DEF BetweenWorkers
      <3>3. QED
        BY <3>1, <3>2
    <2>3. CASE Heartbeat(r)
      <3>1. PICK part \in Fraction("heartbeat_at") :
              row' = [row EXCEPT !.lease = "live", !.beat = @ + 1,
                                 !.micros = (@ \ {"heartbeat_at"}) \cup part]
        BY <2>3 DEF Heartbeat
      <3>2. row'.owner = r
        BY <1>1, <2>3, <3>1 DEF Heartbeat, Row
      <3>3. QED
        BY <2>1, <3>2 DEF BetweenWorkers
    <2>4. CASE Checkpoint(r)
      BY <1>1, <2>4 DEF Checkpoint, Row, BetweenWorkers
    <2>5. CASE \E kind \in {"timer", "user-input"} : Suspend(r, kind)
      <3>1. row' = row \/ row'.status = "suspended"
        BY <1>1, <2>5 DEF Suspend, Row
      <3>2. QED
        BY <3>1 DEF BetweenWorkers
    <2>6. CASE \E status \in TerminalStatus : SettleRun(r, status)
      <3>1. row' = row \/ row'.status \in TerminalStatus
        BY <1>1, <2>6 DEF SettleRun, Row
      <3>2. QED
        BY <3>1 DEF BetweenWorkers, TerminalStatus
    <2>7. CASE AssertActive(r) \/ NextIteration(r) \/ Throw(r) \/ RunnerCrash(r)
      BY <2>7 DEF AssertActive, NextIteration, Throw, RunnerCrash
    <2>8. QED
      BY <1>2, <2>2, <2>3, <2>4, <2>5, <2>6, <2>7 DEF RunnerStep
  <1>3. CASE LeaseExpires
    BY <1>1, <1>3 DEF LeaseExpires, Row, BetweenWorkers
  <1>4. CASE WaitElapses
    BY <1>1, <1>4 DEF WaitElapses, Row, BetweenWorkers
  <1>5. UNCHANGED thread
    BY DEF RunnerStep, Lease, Heartbeat, AssertActive, Checkpoint, NextIteration, Throw,
           Suspend, SettleRun, RunnerCrash, LeaseExpires, WaitElapses
  <1>6. QED
    BY <1>2, <1>3, <1>4, <1>5

\* A run that has run before waits for its next worker in the hands of a launch
\* that will not leave it running, unless a manager has crashed or somebody has
\* asked to resume it.
THEOREM RunningRunsAreAttended == Spec => []RunningIsAttended
  <1>1. Init => RunningIsAttended
    <2> SUFFICES ASSUME Init PROVE ~(row.beat > 0)
      BY DEF RunningIsAttended
    <2>1. row = NewRow
      BY DEF Init
    <2>2. QED
      BY <2>1 DEF NewRow
  <1>2. IInv /\ RunningIsAttended /\ [Next]_vars => RunningIsAttended'
    <2> SUFFICES ASSUME IInv, RunningIsAttended, [Next]_vars, BetweenWorkers(row'),
                        crashes' = 0, requests' = 0
                 PROVE  \E n \in Managers : Attends(n)'
      BY DEF RunningIsAttended, BetweenWorkers
    <2>1. crashes = 0 /\ requests = 0 /\ TypeOK
      BY BeforeAttended DEF IInv
    <2>2. CASE \E m \in Managers : ManagerStep(m)
      BY <2>1, <2>2, ManagerAttended
    <2>3. CASE (\E r \in Runners : RunnerStep(r)) \/ LeaseExpires \/ WaitElapses
      <3>1. BetweenWorkers(row) /\ row'.runner = row.runner /\ UNCHANGED thread
        BY <2>1, <2>3, IdleRow
      <3>2. PICK n \in Managers : Attends(n)
        BY <2>1, <3>1 DEF RunningIsAttended, BetweenWorkers
      <3>3. QED
        BY <3>1, <3>2 DEF Attends
    <2>4. CASE UNCHANGED vars
      BY <2>1, <2>4 DEF vars, RunningIsAttended, BetweenWorkers, Attends
    <2>5. QED
      BY <2>2, <2>3, <2>4 DEF Next
  <1>3. QED
    BY Invariant, <1>1, <1>2, PTL DEF Spec

-----------------------------------------------------------------------------
(* The refinement: every statement is a step of ExclusiveRun or none.       *)

\* What a step of ExclusiveRun, or none, is in terms of the row.
PhaseStep == [Contract!Next]_<<Phase, row.owner>>

LEMMA EndedPhase ==
  ASSUME IInv, [Next]_vars, Terminal(row)
  PROVE  PhaseStep
  <1>1. Terminal(row') /\ row.owner = NoRunner /\ row'.owner = NoRunner
    BY TerminalKept DEF IInv, RowInv, TerminalIsReleased, Terminal
  <1>2. QED
    BY <1>1 DEF PhaseStep, Phase

LEMMA EndingPhase ==
  ASSUME ~Terminal(row), Terminal(row'), row'.owner = NoRunner
  PROVE  PhaseStep
  BY DEF PhaseStep, Phase, Contract!Next, Contract!End

\* A claim is the lease of a queued run.
LEMMA LeasePhase ==
  ASSUME IInv, NEW r \in Runners, Lease(r), ~Terminal(row)
  PROVE  PhaseStep
  <1>1. CASE UNCHANGED row
    BY <1>1 DEF PhaseStep, Phase
  <1>2. CASE Active(row) /\ ~UNCHANGED row
    <2>1. row.runner = r /\ proc[r] = "boot"
      BY <1>2 DEF Lease, IInv, WorkerInv, BootIsAssigned
    <2>2. row.owner = NoRunner
      BY <2>1 DEF IInv, TypeOK, Row, RowInv, OwnerIsAssigned, WorkerInv, OwnerHasBooted, Working,
                  NoRunner, Runners
    <2>3. row.status # "suspended"
      BY <2>1 DEF IInv, RowInv, ParkedIsReleased, NoRunner, Runners
    <2>4. row'.owner = r /\ row'.status = "running"
      BY <1>2 DEF Lease, IInv, TypeOK, Row
    <2>5. Phase = "queued" /\ Phase' = "working"
      BY <2>2, <2>3, <2>4 DEF Phase, Terminal, TerminalStatus, NoRunner, Runners
    <2>6. QED
      BY <2>4, <2>5 DEF PhaseStep, Contract!Next, Contract!Claim
  <1>3. QED
    BY <1>1, <1>2 DEF Lease

LEMMA RunnerPhase ==
  ASSUME IInv, NEW r \in Runners, RunnerStep(r), ~Terminal(row)
  PROVE  PhaseStep
  <1>1. row \in Row
    BY DEF IInv, TypeOK
  <1>2. CASE Lease(r)
    BY <1>2, LeasePhase
  <1>3. CASE \/ Heartbeat(r) \/ AssertActive(r) \/ Checkpoint(r) \/ NextIteration(r)
             \/ Throw(r) \/ RunnerCrash(r)
    <2>1. row'.status = row.status /\ row'.owner = row.owner
      BY <1>1, <1>3 DEF Heartbeat, AssertActive, Checkpoint, NextIteration, Throw, RunnerCrash,
                        Row
    <2>2. QED
      BY <2>1 DEF PhaseStep, Phase, Terminal
  <1>4. ASSUME NEW kind \in {"timer", "user-input"}, Suspend(r, kind)
        PROVE  PhaseStep
    <2>1. CASE row.owner = r
      <3>1. row'.status = "suspended" /\ row'.owner = NoRunner
        BY <1>1, <1>4, <2>1 DEF Suspend, Row
      <3>2. Phase = "working" /\ Phase' = "parked"
        BY <2>1, <3>1 DEF Phase, Terminal, TerminalStatus, NoRunner, Runners
      <3>3. QED
        BY <3>1, <3>2 DEF PhaseStep, Contract!Next, Contract!Park
    <2>2. CASE row.owner # r
      BY <1>4, <2>2 DEF Suspend, PhaseStep, Phase
    <2>3. QED
      BY <2>1, <2>2
  <1>5. ASSUME NEW status \in TerminalStatus, SettleRun(r, status)
        PROVE  PhaseStep
    <2>1. CASE row.owner = r
      <3>1. Terminal(row') /\ row'.owner = NoRunner
        BY <1>1, <1>5, <2>1 DEF SettleRun, Row, Terminal
      <3>2. QED
        BY <3>1, EndingPhase
    <2>2. CASE row.owner # r
      BY <1>5, <2>2 DEF SettleRun, PhaseStep, Phase
    <2>3. QED
      BY <2>1, <2>2
  <1>6. QED
    BY <1>2, <1>3, <1>4, <1>5 DEF RunnerStep

\* /resume and the assignment of a container wake a parked run.
LEMMA WakePhase ==
  ASSUME IInv, ~Terminal(row), row'.owner = row.owner, row'.status = "running"
  PROVE  PhaseStep
  <1>1. ~Terminal(row')
    BY DEF Terminal, TerminalStatus
  <1>2. CASE row.status = "suspended"
    <2>1. Phase = "parked" /\ Phase' = "queued"
      BY <1>1, <1>2 DEF IInv, RowInv, ParkedIsReleased, Phase
    <2>2. QED
      BY <2>1 DEF PhaseStep, Contract!Next, Contract!Wake
  <1>3. CASE row.status # "suspended"
    BY <1>1, <1>3 DEF PhaseStep, Phase
  <1>4. QED
    BY <1>2, <1>3

LEMMA ManagerPhase ==
  ASSUME IInv, NEW m \in Managers, ManagerStep(m), ~Terminal(row)
  PROVE  PhaseStep
  <1>1. TypeOK /\ row \in Row
    BY DEF IInv, TypeOK
  <1>2. CASE PlainManager(m)
    <2>1. CASE UNCHANGED row
      BY <2>1 DEF PhaseStep, Phase
    <2>2. CASE Ends
      BY <2>2, EndingPhase DEF Ends
    <2>3. QED
      BY <1>1, <1>2, <2>1, <2>2, PlainRow
  <1>3. CASE Assign(m) \/ Resume(m)
    <2>1. UNCHANGED row \/ (row'.owner = row.owner /\ row'.status = "running")
      <3>1. CASE Assign(m)
        BY <1>1, <3>1 DEF Assign, Row
      <3>2. CASE Resume(m)
        BY <1>1, <3>2 DEF Resume, Row
      <3>3. QED
        BY <1>3, <3>1, <3>2
    <2>2. QED
      BY <2>1, WakePhase DEF PhaseStep, Phase
  <1>4. CASE DueBackoff(m) \/ StartRunner(m)
    <2>1. row'.status = row.status /\ row'.owner = row.owner
      BY <1>1, <1>4 DEF DueBackoff, StartRunner, Row
    <2>2. QED
      BY <2>1 DEF PhaseStep, Phase, Terminal
  <1>5. QED
    BY <1>2, <1>3, <1>4 DEF ManagerStep, LaunchStep, PlainManager, PlainLaunch

LEMMA ClockPhase ==
  ASSUME IInv, LeaseExpires \/ WaitElapses
  PROVE  PhaseStep
  <1>1. row'.status = row.status /\ row'.owner = row.owner
    BY DEF IInv, TypeOK, Row, LeaseExpires, WaitElapses
  <1>2. QED
    BY <1>1 DEF PhaseStep, Phase, Terminal

\* The managers and runners implement ExclusiveRun: one worker at a time, replaced
\* only by way of parking, and nothing after the end.
THEOREM Refinement == Spec => ImplementsExclusiveRun
  <1>1. Init => Contract!Init
    <2> SUFFICES ASSUME Init PROVE Contract!Init
      OBVIOUS
    <2>1. row = NewRow
      BY DEF Init
    <2>2. row.status = "running" /\ row.owner = NoRunner
      BY <2>1 DEF NewRow
    <2>3. QED
      BY <2>2 DEF Contract!Init, Phase, Terminal, TerminalStatus
  <1>2. IInv /\ [Next]_vars => [Contract!Next]_<<Phase, row.owner>>
    <2> SUFFICES ASSUME IInv, [Next]_vars PROVE PhaseStep
      BY DEF PhaseStep
    <2>1. CASE Terminal(row)
      BY <2>1, EndedPhase
    <2>2. CASE ~Terminal(row)
      <3>1. CASE UNCHANGED vars
        BY <3>1 DEF vars, PhaseStep, Phase
      <3>2. QED
        BY <2>2, <3>1, ManagerPhase, RunnerPhase, ClockPhase DEF Next
    <2>3. QED
      BY <2>1, <2>2
  <1>3. QED
    BY Invariant, <1>1, <1>2, PTL DEF Spec, ImplementsExclusiveRun, Contract!Spec
=============================================================================
