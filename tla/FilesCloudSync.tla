--------------------------- MODULE FilesCloudSync ---------------------------
(***************************************************************************)
(* The cloud backup of one collection of files by several Desktops         *)
(* (services/sulla-files/src/cloudSync): the loop of CloudSyncService that *)
(* pulls, stages a version and queues a signed operation, the driver in    *)
(* the Electron process that sends it (prepare/send), the conflict rules   *)
(* of CloudPuller, and the local writes that go on meanwhile.              *)
(*                                                                         *)
(* A version is its place in `ver`.  A head of the cloud is its seq: the   *)
(* cloud keeps one commit, with one version, for each.  A state hash is    *)
(* the function it hashes: per file, the seq of its latest version.        *)
(***************************************************************************)
EXTENDS Integers, Sequences

CONSTANTS
  Devices,
  Files,         \* file ids
  MaxAttempts,   \* MAX_ATTEMPTS: sends of one operation
  MaxVersions,   \* bound: versions the users write
  MaxFaults      \* bound: crashes, failed calls, refusals

ASSUME BoundsAssumption ==
  MaxAttempts \in Nat \ {0} /\ MaxVersions \in Nat /\ MaxFaults \in Nat

VARIABLES
  ver,       \* the versions written so far
  cloud,     \* the commits the cloud has accepted
  current,   \* files.current_version_id; 0: no such file here
  has,       \* file_versions
  known,     \* files_cloud_versions
  journal,   \* journal: the rows of local writes, in the order of their seqs
  heads,     \* files_cloud_file_heads: the seq of the file's head
  lastSeq,   \* files_cloud_sync.last_seq (and head)
  cursor,    \* file_sync_cursors.last_push_seq
  skips,     \* files_cloud_skips: "parked" until retry_at, then "due"
  session,   \* files_cloud_sync.upload_session
  op,        \* the queued row of files_cloud_operations
  fresh,     \* the last pull is less than PULL_INTERVAL_MS ago
  step,      \* the work `exclusive` is doing
  faults,
  raced,     \* history: versions replaced that the pull had not looked at
  undone,    \* history: deletions whose receipt has been undone
  relanded   \* history: deletions a device applied after a later version of their file

vars == <<ver, cloud, current, has, known, journal, heads, lastSeq, cursor, skips, session,
          op, fresh, step, faults, raced, undone, relanded>>
disk    == <<current, has, known, journal>>     \* local files
account == <<heads, lastSeq, cursor, skips>>    \* what a device knows of the cloud
work    == <<session, op, fresh, step>>
history == <<raced, undone, relanded>>

Versions == 1..Len(ver)
Seqs     == 1..Len(cloud)

FileVersion == [file: Files, parent: Nat, deleted: BOOLEAN, device: Devices, copy: Nat]
Commit      == [version: Nat, base: Nat, state: [Files -> Nat]]
Row         == [version: Versions, sealable: BOOLEAN]
Session     == [version: 0..Len(ver), seq: Nat, open: BOOLEAN]
Operation   == [kind: {"none", "upload-open", "commit"}, version: 0..Len(ver), base: Nat,
                state: [Files -> Nat], attempts: Nat]
Work        == [pc: {"idle", "apply", "fork", "land", "save", "queue", "answer", "complete"},
                upto: Nat, pos: Nat, saw: 0..Len(ver)]

NoSession == [version |-> 0, seq |-> 0, open |-> FALSE]
NoOp      == [kind |-> "none", version |-> 0, base |-> 0, state |-> [f \in Files |-> 0],
              attempts |-> 0]
Idle      == [pc |-> "idle", upto |-> 0, pos |-> 0, saw |-> 0]

TypeOK ==
  /\ ver \in Seq(FileVersion)
  /\ cloud \in Seq(Commit)
  /\ current \in [Devices -> [Files -> 0..Len(ver)]]
  /\ has \in [Devices -> SUBSET Versions] /\ known \in [Devices -> SUBSET Versions]
  /\ journal \in [Devices -> Seq(Row)]
  /\ heads \in [Devices -> [Files -> 0..Len(cloud)]]
  /\ lastSeq \in [Devices -> 0..Len(cloud)] /\ cursor \in [Devices -> Nat]
  /\ skips \in [Devices -> [{"parked", "due"} -> SUBSET Versions]]
  /\ session \in [Devices -> Session] /\ op \in [Devices -> Operation]
  /\ fresh \in [Devices -> BOOLEAN] /\ step \in [Devices -> Work]
  /\ faults \in Nat /\ raced \subseteq Versions /\ undone \subseteq Versions
  /\ relanded \subseteq Devices \X Versions

Init ==
  /\ ver = <<>> /\ cloud = <<>>
  /\ current = [d \in Devices |-> [f \in Files |-> 0]]
  /\ has = [d \in Devices |-> {}] /\ known = [d \in Devices |-> {}]
  /\ journal = [d \in Devices |-> <<>>]
  /\ heads = [d \in Devices |-> [f \in Files |-> 0]]
  /\ lastSeq = [d \in Devices |-> 0] /\ cursor = [d \in Devices |-> 0]
  /\ skips = [d \in Devices |-> [s \in {"parked", "due"} |-> {}]]
  /\ session = [d \in Devices |-> NoSession] /\ op = [d \in Devices |-> NoOp]
  /\ fresh = [d \in Devices |-> FALSE] /\ step = [d \in Devices |-> Idle]
  /\ faults = 0 /\ raced = {} /\ undone = {} /\ relanded = {}

Fault == faults < MaxFaults /\ faults' = faults + 1

FileOf(v)   == ver[v].file
FileAt(n)   == FileOf(cloud[n].version)
Goto(d, pc) == step' = [step EXCEPT ![d].pc = pc]
Rest(d)     == step' = [step EXCEPT ![d] = Idle]
Put(f, v, d) == current' = [current EXCEPT ![d][f] = v]

-----------------------------------------------------------------------------
(* Local writes.  Each is one transaction: the UPDATE of `files` bumps      *)
(* fuse_tree_state (migration 042), so no other writer of `files` commits   *)
(* between it, the insert into the journal that follows and the COMMIT.     *)

\* A random id no file has; which one makes no difference.
Unused(f) == \A v \in Versions : FileOf(v) # f
NewId(f)  == Unused(f) /\ f = CHOOSE g \in Files : Unused(g)

\* A row of the journal; serializeNamespaceEvent refuses an op 'restore' of a version
\* that does not name the one it was restored from.
Journal(d, v, sealable) ==
  journal' = [journal EXCEPT ![d] = Append(@, [version |-> v, sealable |-> sealable])]

\* A version of f written by d, its row and the row of its file.
Write(d, f, deleted, copy, sealable) ==
  /\ copy = 0 => Len(ver) < MaxVersions
  /\ ver' = Append(ver, [file |-> f, deleted |-> deleted, device |-> d, copy |-> copy,
                         parent |-> IF copy = 0 THEN current[d][f] ELSE 0])
  /\ Put(f, Len(ver) + 1, d)
  /\ has' = [has EXCEPT ![d] = @ \cup {Len(ver) + 1}]
  /\ Journal(d, Len(ver) + 1, sealable)

\* insertVersion, the streamed upload, the watched folder, a restore out of the Trash: a
\* new version of a file, or the first one of a new file.
Edit(d, f) ==
  /\ current[d][f] # 0 \/ NewId(f)
  /\ Write(d, f, FALSE, 0, TRUE)
  /\ UNCHANGED <<cloud, known, account, work, faults, history>>

\* /v1/files/:id/restore: an old version, written anew; the source is not named.
RestoreVersion(d, f) ==
  /\ \E v \in has[d] : FileOf(v) = f /\ ~ver[v].deleted
  /\ Write(d, f, FALSE, 0, FALSE)
  /\ UNCHANGED <<cloud, known, account, work, faults, history>>

\* The trash of a receipt, trashFileWithoutReceipt, softDelete.
TrashFile(d, f) ==
  /\ current[d][f] # 0 /\ ~ver[current[d][f]].deleted
  /\ Write(d, f, TRUE, 0, TRUE)
  /\ UNCHANGED <<cloud, known, account, work, faults, history>>

\* undoDatabaseOperation of a trash, while its deletion is current: back to the version
\* before it, with a row 'restore' in the journal and no new version.  Only a version that
\* was itself restored out of the Trash may name a source.
UndoTrash(d, f) ==
  LET t == current[d][f]
      v == ver[t].parent
  IN  /\ t # 0 /\ ver[t].deleted /\ ver[t].device = d
      /\ v # 0 /\ ~ver[v].deleted
      /\ Put(f, v, d)
      /\ \E named \in BOOLEAN :
           /\ named => ver[v].parent # 0 /\ ver[ver[v].parent].deleted
           /\ Journal(d, v, named)
      /\ undone' = undone \cup {t}
      /\ UNCHANGED <<ver, cloud, has, known, account, work, faults, raced, relanded>>

-----------------------------------------------------------------------------
(* advance: pull.                                                           *)

Free(d) == step[d].pc = "idle" /\ op[d].kind = "none"

\* Mutant of Upsert: the seq that is there is not compared.
UpsertAny(d, n) == heads' = [heads EXCEPT ![d][FileAt(n)] = n]

\* recordCloudHead, applyRemote: upsertCloudHead keeps the later seq.
Upsert(d, n) ==
  heads' = [heads EXCEPT ![d][FileAt(n)] = IF @ <= n THEN n ELSE @]

\* assertStateHash: the heads this device knows, with those of the pages laid over.
Projected(d) ==
  [f \in Files |->
     LET later == {n \in (lastSeq[d] + 1)..Len(cloud) : FileAt(n) = f}
     IN  IF later = {} THEN heads[d][f]
         ELSE CHOOSE n \in later : \A m \in later : m <= n]

HashAgrees(d) == cloud # <<>> => Projected(d) = cloud[Len(cloud)].state

\* A page after last_seq, when the last pull is a minute old.  The checks on the head
\* and its hash precede every change; without news the pull is over.
Pull(d) ==
  /\ Free(d) /\ session[d].version = 0 /\ ~fresh[d] /\ HashAgrees(d)
  /\ IF lastSeq[d] = Len(cloud)
     THEN fresh' = [fresh EXCEPT ![d] = TRUE] /\ UNCHANGED step
     ELSE /\ step' = [step EXCEPT ![d] = [pc |-> "apply", upto |-> Len(cloud),
                                          pos |-> lastSeq[d], saw |-> 0]]
          /\ UNCHANGED fresh
  /\ UNCHANGED <<ver, cloud, disk, account, session, op, faults, history>>

\* To the next version, or past the last one.
Applied(d) ==
  step' = [step EXCEPT ![d].pos = @ + 1,
                       ![d].pc = IF step[d].pos + 1 = step[d].upto THEN "save" ELSE "apply"]

\* saveVerifiedHead, a statement of its own after the transactions of the versions.
SaveVerifiedHead(d) ==
  /\ step[d].pc = "save"
  /\ lastSeq' = [lastSeq EXCEPT ![d] = step[d].upto]
  /\ fresh' = [fresh EXCEPT ![d] = TRUE]
  /\ Rest(d)
  /\ UNCHANGED <<ver, cloud, disk, heads, cursor, skips, session, op, faults, history>>

Incoming(d) == cloud[step[d].pos + 1].version

\* Mutant of KnownVersion: the head is recorded, files_cloud_versions is not.
KnownHeadOnly(d) ==
  /\ step[d].pc = "apply" /\ Incoming(d) \in has[d]
  /\ Upsert(d, step[d].pos + 1)
  /\ Applied(d)
  /\ UNCHANGED <<ver, cloud, disk, lastSeq, cursor, skips, session, op, fresh, faults,
                 history>>

\* applyOne, a version that is here already: recordCloudHead.
KnownVersion(d) ==
  /\ step[d].pc = "apply" /\ Incoming(d) \in has[d]
  /\ known' = [known EXCEPT ![d] = @ \cup {Incoming(d)}]
  /\ Upsert(d, step[d].pos + 1)
  /\ Applied(d)
  /\ UNCHANGED <<ver, cloud, current, has, journal, lastSeq, cursor, skips, session, op,
                 fresh, faults, history>>

\* Mutant of Unpushed: the NOT of the query is lost.
Pushed(d, v) ==
  v # 0 /\ v # ver[Incoming(d)].parent /\ ~ver[v].deleted /\ v \in known[d]

\* The remote version did not build on the local one, which no other device has.
Unpushed(d, v) ==
  v # 0 /\ v # ver[Incoming(d)].parent /\ ~ver[v].deleted /\ v \notin known[d]

\* applyOne reads the row of the file; what follows uses what it has read.
Inspect(d) ==
  LET v == current[d][FileOf(Incoming(d))]
  IN  /\ step[d].pc = "apply" /\ Incoming(d) \notin has[d]
      /\ step' = [step EXCEPT ![d].saw = v, ![d].pc = IF Unpushed(d, v) THEN "fork" ELSE "land"]
      /\ UNCHANGED <<ver, cloud, disk, account, session, op, fresh, faults, history>>

\* forkLocalVersion: the version that was read, as the first one of a new file.
Fork(d, f) ==
  /\ step[d].pc = "fork" /\ NewId(f)
  /\ Write(d, f, FALSE, step[d].saw, TRUE)
  /\ Goto(d, "land")
  /\ UNCHANGED <<cloud, known, account, session, op, fresh, faults, history>>

\* applyRemoteVersion, once the chunks are here: whatever the row holds by then, the
\* remote version becomes current.  A deletion of a file not known here leaves no row and
\* no version: a pull that begins anew applies it again, though the file may be here by then.
\* (Its row in the journal is of a version the cloud has: never a candidate, left out.)
Land(d) ==
  LET v == Incoming(d)
      f == FileOf(v)
      old == current[d][f]
  IN  /\ step[d].pc = "land"
      /\ IF ver[v].deleted /\ old = 0
         THEN UNCHANGED disk
         ELSE /\ Put(f, v, d)
              /\ has' = [has EXCEPT ![d] = @ \cup {v}]
              /\ known' = [known EXCEPT ![d] = @ \cup {v}]
              /\ UNCHANGED journal
      /\ Upsert(d, step[d].pos + 1)
      /\ raced' = IF old \notin {0, step[d].saw} THEN raced \cup {old} ELSE raced
      /\ relanded' = IF old # 0 /\ heads[d][f] > step[d].pos + 1
                     THEN relanded \cup {<<d, v>>} ELSE relanded
      /\ Applied(d)
      /\ UNCHANGED <<ver, cloud, lastSeq, cursor, skips, session, op, fresh, faults, undone>>

\* A page or a chunk cannot be fetched, the database fails: status error, the next
\* pass begins anew.
PullFails(d) ==
  /\ Fault /\ step[d].pc \in {"apply", "fork", "land", "save"}
  /\ Rest(d)
  /\ UNCHANGED <<ver, cloud, disk, account, session, op, fresh, history>>

\* Time passes: PULL_INTERVAL_MS, and the retry_at of a skip.
PullIsDue(d) ==
  /\ Free(d) /\ fresh[d] /\ lastSeq[d] # Len(cloud)
  /\ fresh' = [fresh EXCEPT ![d] = FALSE]
  /\ UNCHANGED <<ver, cloud, disk, account, session, op, step, faults, history>>

SkipIsDue(d) ==
  /\ skips[d]["parked"] # {}
  /\ skips' = [skips EXCEPT ![d] = [s \in {"parked", "due"} |->
                 IF s = "due" THEN @["due"] \cup @["parked"] ELSE {}]]
  /\ UNCHANGED <<ver, cloud, disk, heads, lastSeq, cursor, work, faults, history>>

-----------------------------------------------------------------------------
(* advance: stage a version, upload its chunks, queue its commit.           *)

Current(d, v)  == current[d][FileOf(v)] = v
RowVersion(d, j) == journal[d][j].version

\* Mutant of Candidates: a skip that is due waits for the cursor like the others.
CandidatesAfterCursor(d) ==
  {j \in DOMAIN journal[d] :
     LET v == RowVersion(d, j)
     IN  Current(d, v) /\ v \notin known[d] /\ v \notin skips[d]["parked"] /\ j > cursor[d]}

\* nextPushCandidate: rows of current versions the cloud has not, after the cursor or of
\* a version that is due again.
Candidates(d) ==
  {j \in DOMAIN journal[d] :
     LET v == RowVersion(d, j)
     IN  /\ Current(d, v) /\ v \notin known[d] /\ v \notin skips[d]["parked"]
         /\ j > cursor[d] \/ v \in skips[d]["due"]}

\* The earliest of them is staged, when nothing else is under way.
NextCandidate(d, j) ==
  /\ Free(d) /\ session[d].version = 0 /\ fresh[d]
  /\ j \in Candidates(d) /\ \A i \in Candidates(d) : j <= i

\* saveSession with the file's head as the base of the commit.
Stage(d, j) ==
  /\ NextCandidate(d, j) /\ journal[d][j].sealable
  /\ session' = [session EXCEPT ![d] = [version |-> RowVersion(d, j), seq |-> j, open |-> FALSE]]
  /\ Goto(d, "queue")
  /\ UNCHANGED <<ver, cloud, disk, account, op, fresh, faults, history>>

\* skipVersion: retry_at is an hour ahead, or more.
Skip(d, v) == skips' = [skips EXCEPT ![d]["parked"] = @ \cup {v}, ![d]["due"] = @ \ {v}]

\* The manifest cannot be made of the row.
StageRefuses(d, j) ==
  /\ NextCandidate(d, j) /\ ~journal[d][j].sealable
  /\ Skip(d, RowVersion(d, j))
  /\ UNCHANGED <<ver, cloud, disk, heads, lastSeq, cursor, work, faults, history>>

\* Mutants of CommitOf: the hash of the heads before the commit; a base asked of the
\* cloud instead of the head this device has verified.
CommitOfOldHeads(d, v) ==
  [kind |-> "commit", version |-> v, base |-> lastSeq[d], attempts |-> 0, state |-> heads[d]]

CommitOfCloudHead(d, v) ==
  [kind |-> "commit", version |-> v, base |-> Len(cloud), attempts |-> 0,
   state |-> [heads[d] EXCEPT ![FileOf(v)] = Len(cloud) + 1]]

CommitOf(d, v) ==
  [kind |-> "commit", version |-> v, base |-> lastSeq[d], attempts |-> 0,
   state |-> [heads[d] EXCEPT ![FileOf(v)] = lastSeq[d] + 1]]

\* Chunks first; a deletion has none and is committed at once.
QueueOperation(d) ==
  LET v == session[d].version
  IN  /\ step[d].pc = "queue"
      /\ op' = [op EXCEPT ![d] = IF ver[v].deleted \/ session[d].open THEN CommitOf(d, v)
                                 ELSE [NoOp EXCEPT !.kind = "upload-open", !.version = v]]
      /\ Rest(d)
      /\ UNCHANGED <<ver, cloud, disk, account, session, fresh, faults, history>>

\* The source cannot be read or sealed.
StageFails(d, j) ==
  /\ Fault
  /\ NextCandidate(d, j)
  /\ Skip(d, RowVersion(d, j))
  /\ UNCHANGED <<ver, cloud, disk, heads, lastSeq, cursor, work, history>>

DropSession(d) ==
  /\ session' = [session EXCEPT ![d] = NoSession]
  /\ op' = [op EXCEPT ![d] = NoOp]

\* continueUpload with an open upload: the chunks go up.
ContinueUpload(d) ==
  /\ Free(d) /\ session[d].open
  /\ Goto(d, "queue")
  /\ UNCHANGED <<ver, cloud, disk, account, session, op, fresh, faults, history>>

\* Mutant of DropUpload: the row of the session stays.
DropOperationOnly(d) ==
  /\ Free(d) /\ session[d].version # 0 /\ ~session[d].open
  /\ op' = [op EXCEPT ![d] = NoOp]
  /\ UNCHANGED <<ver, cloud, disk, account, session, fresh, step, faults, history>>

\* No upload was opened before a crash.
DropUpload(d) ==
  /\ Free(d) /\ session[d].version # 0 /\ ~session[d].open
  /\ DropSession(d)
  /\ UNCHANGED <<ver, cloud, disk, account, fresh, step, faults, history>>

-----------------------------------------------------------------------------
(* send: the device-signed operation and its answer.                        *)

Sendable(d, kind) == step[d].pc = "idle" /\ op[d].kind = kind

UploadOpens(d) ==
  /\ Sendable(d, "upload-open")
  /\ session' = [session EXCEPT ![d].open = session[d].version # 0]
  /\ op' = [op EXCEPT ![d] = NoOp]
  /\ UNCHANGED <<ver, cloud, disk, account, fresh, step, faults, history>>

Landed(o) == o.base < Len(cloud) /\ cloud[o.base + 1].version = o.version

\* External: the worker accepts a commit on top of its head.
CommitLands(d) ==
  /\ Sendable(d, "commit") /\ op[d].base = Len(cloud)
  /\ cloud' = Append(cloud, [version |-> op[d].version, base |-> op[d].base,
                             state |-> op[d].state])
  /\ Goto(d, "answer")
  /\ UNCHANGED <<ver, disk, account, session, op, fresh, faults, history>>

\* External: it may know a commit it has accepted before, and answer ok again.
CommitRepeats(d) ==
  /\ Sendable(d, "commit") /\ Landed(op[d])
  /\ Goto(d, "answer")
  /\ UNCHANGED <<ver, cloud, disk, account, session, op, fresh, faults, history>>

\* ok: finishCommit, in one transaction.
FinishCommit(d) ==
  LET n == op[d].base + 1
      v == session[d].version
  IN  /\ step[d].pc = "answer" /\ v # 0
      /\ known' = [known EXCEPT ![d] = @ \cup {v}]
      /\ heads' = [heads EXCEPT ![d][FileOf(v)] = IF @ <= n THEN n ELSE @]
      /\ cursor' = [cursor EXCEPT ![d] = IF @ <= session[d].seq THEN session[d].seq ELSE @]
      /\ lastSeq' = [lastSeq EXCEPT ![d] = n]
      /\ session' = [session EXCEPT ![d] = NoSession]
      /\ Goto(d, "complete")
      /\ UNCHANGED <<ver, cloud, current, has, journal, skips, op, fresh, faults, history>>

\* ok, but the bookkeeping is gone: the next pull reconciles it.
CommitUnexpected(d) ==
  /\ step[d].pc = "answer" /\ session[d].version = 0
  /\ fresh' = [fresh EXCEPT ![d] = FALSE]
  /\ Goto(d, "complete")
  /\ UNCHANGED <<ver, cloud, disk, account, session, op, faults, history>>

CompleteOperation(d) ==
  /\ step[d].pc = "complete"
  /\ op' = [op EXCEPT ![d] = NoOp]
  /\ Rest(d)
  /\ UNCHANGED <<ver, cloud, disk, account, session, fresh, faults, history>>

\* 409 head_moved or file_conflict: the upload is dropped and the next pass pulls.
HeadMoved(d) ==
  /\ Sendable(d, "commit") /\ op[d].base # Len(cloud)
  /\ DropSession(d)
  /\ fresh' = [fresh EXCEPT ![d] = FALSE]
  /\ UNCHANGED <<ver, cloud, disk, account, step, faults, history>>

\* 422 missing_chunks, 507 at upload-open; or continueUpload finds that the upload or a
\* staged chunk is gone.
UploadIsGone(d) ==
  /\ Fault /\ step[d].pc = "idle" /\ (op[d].kind # "none" \/ session[d].open)
  /\ DropSession(d)
  /\ UNCHANGED <<ver, cloud, disk, account, fresh, step, history>>

Park(d) ==
  /\ DropSession(d)
  /\ IF session[d].version = 0 THEN UNCHANGED skips ELSE Skip(d, session[d].version)

\* failed(): no answer, a 5xx, a refused signature.  The operation stays for the next
\* tick of the driver, until it has been sent MaxAttempts times.
SendFails(d) ==
  /\ Fault /\ op[d].kind # "none" /\ step[d].pc \in {"idle", "answer"}
  /\ IF op[d].attempts + 1 < MaxAttempts
     THEN op' = [op EXCEPT ![d].attempts = @ + 1] /\ UNCHANGED <<session, skips>>
     ELSE Park(d)
  /\ Rest(d)
  /\ UNCHANGED <<ver, cloud, disk, heads, lastSeq, cursor, fresh, history>>

\* failed(): a 4xx it will repeat.
Refused(d) ==
  /\ Fault /\ step[d].pc = "idle" /\ op[d].kind # "none" /\ session[d].version # 0
  /\ Park(d)
  /\ UNCHANGED <<ver, cloud, disk, heads, lastSeq, cursor, fresh, step, history>>

\* The service restarts: its maps are gone.
Crash(d) ==
  /\ Fault
  /\ Rest(d) /\ fresh' = [fresh EXCEPT ![d] = FALSE]
  /\ UNCHANGED <<ver, cloud, disk, account, session, op, history>>

-----------------------------------------------------------------------------
LocalWrite(d) ==
  \E f \in Files : Edit(d, f) \/ RestoreVersion(d, f) \/ TrashFile(d, f) \/ UndoTrash(d, f)

\* One step of the background loop, or of a send under way.
Advance(d) ==
  \/ Pull(d) \/ KnownVersion(d) \/ Inspect(d) \/ Land(d) \/ (\E f \in Files : Fork(d, f))
  \/ SaveVerifiedHead(d)
  \/ \E j \in DOMAIN journal[d] : Stage(d, j) \/ StageRefuses(d, j)
  \/ QueueOperation(d) \/ ContinueUpload(d) \/ DropUpload(d)
  \/ FinishCommit(d) \/ CommitUnexpected(d) \/ CompleteOperation(d)

\* The driver sends the operation and the worker answers.
Send(d) == UploadOpens(d) \/ CommitLands(d) \/ HeadMoved(d)

Failure(d) ==
  \/ PullFails(d) \/ UploadIsGone(d) \/ SendFails(d) \/ Refused(d) \/ Crash(d)
  \/ \E j \in DOMAIN journal[d] : StageFails(d, j)

Next == \E d \in Devices :
          \/ LocalWrite(d) \/ Advance(d) \/ Send(d) \/ CommitRepeats(d)
          \/ PullIsDue(d) \/ SkipIsDue(d) \/ Failure(d)

Spec == Init /\ [][Next]_vars

\* The loop and the driver arm their next timer whatever a pass did; time passes.  A pass
\* is 10 s after the last one and a retry an hour after its skip: in between the loop comes
\* to the other candidates.
Fairness == \A d \in Devices :
  /\ WF_vars(Advance(d)) /\ WF_vars(Send(d))
  /\ WF_vars(PullIsDue(d)) /\ WF_vars(SkipIsDue(d))
  /\ SF_vars(\E j \in DOMAIN journal[d] : Stage(d, j))

FairSpec == Spec /\ Fairness
-----------------------------------------------------------------------------
(* Properties.                                                              *)

InCloud(v) == \E n \in Seqs : cloud[n].version = v

\* The log of the cloud is what SharedLog says: a device commits only on top of all
\* there is (baseSeq of buildCommitBatch, head_moved, the pull that follows).
Committed == [n \in 1..Len(cloud) |-> cloud[n].version]
Log == INSTANCE SharedLog WITH log <- Committed, view <- lastSeq
CommitsOnTop == Log!Spec

\* The hash of the latest head agrees with what any device that is to pull makes of
\* the heads it has and the versions it has not seen: assertStateHash never raises an
\* alarm of its own, after whatever was applied in part, lost or sent twice.
HashNeverLies == \A d \in Devices : HashAgrees(d)

\* No version is committed twice, though its answer was lost and it was staged again.
CommittedOnce == \A m, n \in Seqs : cloud[m].version = cloud[n].version => m = n

\* A version written here is still current, in the cloud, replaced by a version its
\* user wrote on top of it (and has not undone), or copied to a file of its own.
Kept(d, v) ==
  \/ current[d][FileOf(v)] = v \/ InCloud(v) \/ ver[v].deleted
  \/ \E w \in has[d] : /\ ver[w].device = d
                       /\ (ver[w].parent = v /\ w \notin undone) \/ ver[w].copy = v

LocalEditIsKept == \A d \in Devices : \A v \in has[d] : ver[v].device = d => Kept(d, v)

\* It is lost only when it was written after the pull had read the row of its file.
LostOnlyInRace ==
  \A d \in Devices : \A v \in has[d] : ver[v].device = d => Kept(d, v) \/ v \in raced

\* Every row of the version was refused: a restored version, whose source is not named.
Unsealable(d, v) ==
  \A j \in DOMAIN journal[d] : RowVersion(d, j) = v => ~journal[d][j].sealable

\* A device has no work left, but for versions that are refused at every retry.
AtRest(d) ==
  /\ step[d].pc = "idle" /\ op[d].kind = "none" /\ session[d].version = 0
  /\ lastSeq[d] = Len(cloud) /\ fresh[d]
  /\ \A j \in Candidates(d) : Unsealable(d, RowVersion(d, j))
  /\ \A v \in skips[d]["parked"] : Unsealable(d, v) \/ ~Current(d, v) \/ v \in known[d]

HeadOf(f) ==
  LET at == {n \in Seqs : FileAt(n) = f}
  IN  IF at = {} THEN 0 ELSE cloud[CHOOSE n \in at : \A m \in at : m <= n].version

\* The row is on the head, or the head is a deletion and there is no row.
RestsOn(d, f) ==
  current[d][f] = HeadOf(f) \/ (current[d][f] = 0 /\ ver[HeadOf(f)].deleted)

\* v is a deletion of c written here; when c is shown again, it has been undone.
Deletes(d, v, c) ==
  v # 0 /\ c # 0 /\ ver[v].device = d /\ ver[v].deleted /\ ver[v].parent = c

Relanded(d, v) == <<d, v>> \in relanded /\ ver[v].deleted /\ faults # 0

\* A device with no work left has the head of every file: no version the cloud holds is
\* missed and no local one is forgotten (pull.ts, nextPushCandidate), but for three: a
\* deletion that was undone after it had gone to the cloud, an old version restored
\* without naming it, and a deletion that a pull, begun anew after a failure, has applied
\* over the later version of the file that the pull before it had brought.
LagIsExplained ==
  \A d \in Devices : AtRest(d) =>
    \A f \in Files :
      LET c == current[d][f]
      IN  RestsOn(d, f) \/ Relanded(d, c) \/ Deletes(d, HeadOf(f), c)
          \/ (c # 0 /\ c \notin known[d] /\ Unsealable(d, c))

\* CloudPuller: versions are applied "in seq order".  A device with no work left shows no
\* file deleted by a version that is not the latest of the file.
RestsInSeqOrder ==
  \A d \in Devices : AtRest(d) =>
    \A f \in Files : LET c == current[d][f]
                      IN  c \in known[d] /\ ver[c].deleted => c = HeadOf(f)

\* "Restore appends a fresh version on the same item": a device with no work left shows no
\* file the cloud has deleted.
UndoneIsRestored ==
  \A d \in Devices : AtRest(d) =>
    \A f \in Files : LET c == current[d][f]
                      IN  c \in known[d] /\ ~ver[c].deleted => ~ver[HeadOf(f)].deleted

\* "... names the immutable source in restoredFromVersionId": a device with no work left
\* has no version the cloud lacks.
RestoredIsPushed ==
  \A d \in Devices : AtRest(d) => \A f \in Files : current[d][f] \in known[d] \cup {0}

\* Once its users stop writing and its calls stop failing, every device comes to rest:
\* two that commit over each other, and a version that was parked, end some day.
Settles == <>[](\A d \in Devices : AtRest(d))

-----------------------------------------------------------------------------
(* Why they hold: the inductive invariant, device by device.                *)

Pulling(d) == step[d].pc \in {"apply", "fork", "land", "save"}
Passed(d)  == IF Pulling(d) THEN step[d].pos ELSE lastSeq[d]
Claims(d)  == fresh[d] \/ session[d].version # 0 \/ op[d].kind # "none"

\* h is the seq of the latest version of f among the first n commits.
HeadAt(f, h, n) ==
  /\ h = 0 \/ (h \in 1..n /\ FileAt(h) = f)
  /\ \A m \in 1..n : FileAt(m) = f => m <= h

\* Each commit hashes the heads up to itself, and its version stays with its writer.
ChainIsHashed ==
  \A n \in Seqs :
    /\ cloud[n].base = n - 1 /\ cloud[n].version \in Versions
    /\ cloud[n].version \in has[ver[cloud[n].version].device]
    /\ \A f \in Files : HeadAt(f, cloud[n].state[f], n)

\* A version was written on top of one its writer had, of the same file.
ParentIsHeld(v) ==
  ver[v].parent # 0 =>
    /\ ver[v].parent \in has[ver[v].device] /\ ver[v].parent < v
    /\ FileOf(ver[v].parent) = FileOf(v)

\* What the work in progress is about; an answer is awaited for a commit that landed.
StepIsShaped(d) ==
  /\ Pulling(d) => /\ ~Claims(d) /\ lastSeq[d] <= step[d].pos
                   /\ step[d].pos <= step[d].upto /\ step[d].upto <= Len(cloud)
                   /\ step[d].pc = "save" <=> step[d].pos = step[d].upto
  /\ step[d].pc = "fork" => step[d].saw # 0
  /\ step[d].pc = "queue" => op[d].kind = "none" /\ session[d].version # 0
  /\ step[d].pc = "answer" => op[d].kind = "commit" /\ Landed(op[d])
  /\ step[d].pc = "complete" => op[d].kind = "commit" /\ session[d].version = 0

\* The queued commit is the one of the session, on top of all this device knows; with
\* no session it has been finished.
OpIsShaped(d) ==
  /\ session[d].open => session[d].version # 0
  /\ op[d].kind = "upload-open" => session[d].version # 0
  /\ op[d].kind = "commit" =>
       IF session[d].version = 0 THEN lastSeq[d] = op[d].base + 1
       ELSE op[d] = [CommitOf(d, session[d].version) EXCEPT !.attempts = op[d].attempts]

\* The heads are commits, no older than what the pull has passed; a device that claims
\* to be up to date has exactly those of last_seq.
HeadsCover(d) ==
  \A f \in Files :
    LET h == heads[d][f]
    IN  /\ h = 0 \/ (h \in Seqs /\ FileAt(h) = f)
        /\ \A m \in 1..Passed(d) : FileAt(m) = f => m <= h
        /\ Pulling(d) => h <= step[d].upto
        /\ Claims(d) => h <= lastSeq[d]

\* files_cloud_versions: of the versions here, those the cloud has among the commits
\* passed; a version of another device came from the cloud.
KnownCovers(d) ==
  /\ known[d] \subseteq has[d] /\ \A v \in known[d] : InCloud(v)
  /\ \A n \in 1..Passed(d) : cloud[n].version \in has[d] => cloud[n].version \in known[d]
  /\ \A v \in has[d] : ver[v].device # d => InCloud(v)
  /\ session[d].version # 0 => session[d].version \in has[d] \ known[d]

\* Rows of files.
RowsAreHeld(d) ==
  \A f \in Files : current[d][f] # 0 => FileOf(current[d][f]) = f /\ current[d][f] \in has[d]

\* A version that is about to land is new here.  What it replaces, unless the row has
\* changed, is kept.
Forked(d, v)  == \E w \in has[d] : ver[w].device = d /\ ver[w].copy = v
LandIsSafe(d) ==
  /\ step[d].pc \in {"fork", "land"} => Incoming(d) \notin has[d]
  /\ step[d].pc = "land" => ~Unpushed(d, step[d].saw) \/ Forked(d, step[d].saw)
  /\ \A v \in has[d] : ver[v].device = d => Kept(d, v) \/ v \in raced

\* A version in the cloud that is here is known exactly when the heads have come to it;
\* one they have come to that is not here was a deletion.  All but the last of its own
\* commits a device has seen.  Without a failure the heads are those passed.
KnownIsPassed(d) ==
  /\ \A n \in Seqs :
       LET v == cloud[n].version
       IN  /\ v \in has[d] => (v \in known[d] <=> n <= heads[d][FileAt(n)])
           /\ n <= heads[d][FileAt(n)] => v \in known[d] \/ ver[v].deleted
           /\ ver[v].device = d => n <= lastSeq[d] + 1
  /\ \A v \in has[d] : ver[v].device # d => v \in known[d]
  /\ faults = 0 => \A f \in Files : heads[d][f] <= Passed(d)

\* The version a row shows, and the one it would show if its deletion were undone.
Shown(d, f, c) ==
  c # 0 /\ (c = current[d][f] \/ Deletes(d, current[d][f], c))

\* A row on a version the cloud has is on the head, unless the head is its own deletion,
\* undone; one that is not here has no version.
CurrentIsHead(d) ==
  \A f \in Files :
    LET h == heads[d][f]
    IN  /\ current[d][f] = 0 => \A v \in has[d] : FileOf(v) # f
        /\ current[d][f] = 0 /\ h # 0 => ver[cloud[h].version].deleted
        /\ \A c \in known[d] : Shown(d, f, c) =>
             \/ h # 0 /\ (cloud[h].version = c \/ Deletes(d, cloud[h].version, c))
             \/ Relanded(d, c)

\* A version being committed, or committed without an answer, has not been replaced by
\* one the cloud has, but for the one it deletes.
PendingIsCurrent(d) ==
  \A v \in has[d] \ known[d] :
    v = session[d].version \/ InCloud(v) =>
      /\ current[d][FileOf(v)] # 0
      /\ \A c \in Versions :
           Shown(d, FileOf(v), c) => c \in {v} \cup (has[d] \ known[d]) \/ Deletes(d, v, c)

\* The rows of the journal: the cursor is on one, or before all, and so is the session.
JournalIsHeld(d) ==
  /\ cursor[d] <= Len(journal[d]) /\ session[d].seq <= Len(journal[d])
  /\ session[d].version # 0 =>
       session[d].seq \in DOMAIN journal[d] /\ RowVersion(d, session[d].seq) = session[d].version

\* A current version that the cloud has not is skipped, or has a row after the cursor and
\* not before the one being committed.
SkipsCover(d) ==
  \A f \in Files :
    LET v == current[d][f]
    IN  v \in has[d] \ known[d] =>
          \/ v \in skips[d]["parked"] \cup skips[d]["due"]
          \/ \E j \in DOMAIN journal[d] :
               RowVersion(d, j) = v /\ j > cursor[d] /\ j >= session[d].seq

RestInv(d) ==
  KnownIsPassed(d) /\ CurrentIsHead(d) /\ PendingIsCurrent(d) /\ JournalIsHeld(d) /\ SkipsCover(d)

DeviceInv(d) ==
  StepIsShaped(d) /\ OpIsShaped(d) /\ HeadsCover(d) /\ KnownCovers(d) /\ RowsAreHeld(d)
  /\ LandIsSafe(d)

IInv == /\ TypeOK /\ ChainIsHashed /\ CommittedOnce /\ \A v \in Versions : ParentIsHeld(v)
        /\ \A d \in Devices : DeviceInv(d)

\* With what IInv says of the work in hand, what a device at rest can lack.
HInv == IInv /\ \A d \in Devices : RestInv(d)
=============================================================================
