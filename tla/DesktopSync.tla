---------------------------- MODULE DesktopSync ----------------------------
(***************************************************************************)
(* The conversation sync of the desktop application with the Sulla cloud   *)
(* (pkg/sulla-desktop/main/sync): local rows of claude_conversations and   *)
(* claude_messages, the table sync_queue of rows still to be pushed, the   *)
(* cursor claudeSyncLastSeq into the cloud's log, the cycle push-then-pull *)
(* of SullaSyncService, the calls that write rows and queue them           *)
(* (syncMirror, syncDispatcher, the conversation handlers), and the phone  *)
(* that writes to the same log.                                            *)
(*                                                                         *)
(* One conversation with its messages.  A row is a version: the updated_at *)
(* that last-writer-wins compares, whether it is deleted, its created_at   *)
(* (1 for the conversation, whose created_at nothing compares).            *)
(***************************************************************************)
EXTENDS Integers, Sequences

CONSTANTS
  Conversation,   \* the row of claude_conversations
  Turns,          \* ids of user messages, routed to the desktop
  Replies,        \* ids of assistant messages
  Others,         \* ids of entities whose dataType has no handler here
  PhoneRows,      \* bound: rows and other entities the phone writes
  Jobs,           \* bound: calls of the application in flight at a time
  NoRow,          \* also "no message" and "not queued"
  MaxClock,       \* bound: time stamps
  MaxLog,         \* bound: items the cloud holds
  MaxFaults       \* bound: stops of the process, calls that fail, sign-outs

Messages == Turns \cup Replies
Rows     == Messages \cup {Conversation}

ASSUME RowsAssumption ==
  /\ NoRow \notin Rows /\ Conversation \notin Messages
  /\ Turns \cap Replies = {} /\ Rows \cap Others = {}
ASSUME BoundsAssumption == MaxClock \in Nat \ {0} /\ MaxLog \in Nat /\ MaxFaults \in Nat

VARIABLES
  local,     \* per row: the version in the local database, or NoRow
  queue,     \* per row: its row of sync_queue, or NoRow
  cursor,    \* claudeSyncLastSeq
  cloud,     \* the cloud's log: item n has seq n
  running,   \* SullaSync.running: signed in and started
  sync,      \* the fullSync in progress
  job,       \* per slot: a call that writes rows and queues them
  inFlight,  \* turns Claude is answering (the set in syncDispatcher)
  clock,     \* the last time stamp taken on this desktop
  faults,
  seen,      \* history: items that have been applied or have no handler
  answered,  \* history: turns for which a dispatch has written its reply
  dropped,   \* history: messages and turns a failed or killed call left behind
  lapse      \* history: what kept the latest edit of the conversation from being queued
             \* in time, see Lapses

vars == <<local, queue, cursor, cloud, running, sync, job, inFlight, clock, faults,
          seen, answered, dropped, lapse>>
history == <<seen, answered, dropped, lapse>>
environment == <<running, faults>>

Stamp   == 1..MaxClock
Version == [stamp: Stamp, live: BOOLEAN, born: Stamp]
Op      == [op: {"upsert", "delete"}, at: Stamp]
Item    == [row: Rows \cup Others, stamp: Stamp, live: BOOLEAN, born: Stamp]
Pending == [row: Rows, op: {"upsert", "delete"}, at: Stamp]

ASSUME NoRowAssumption == NoRow \notin Version \cup Op

(* ops: the SELECT of getPendingOps; unread: those whose row is still to be *)
(* read; unsent: items the worker has not stored; pos: `highest`; upto,     *)
(* more: the page being applied and its hasMore.                            *)
Sync == [pc: {"idle", "read", "post", "pull", "apply", "save"},
         ops: SUBSET Pending, unread: SUBSET Pending, unsent: SUBSET Item,
         pos: Nat, upto: Nat, more: BOOLEAN]

(* kind "edit": a change of the conversation; "turn": writeTurnToSyncLog;     *)
(* "reply": dispatchClaudeForMessage for the turn `for`.  msg is the message  *)
(* row the call writes, stamp the time it gives its rows.                     *)
Job == [kind: {"none", "edit", "turn", "reply"},
        at: {"done", "check", "claude", "conversation", "message",
             "enqueueConversation", "enqueueMessage"},
        for: Turns \cup {NoRow}, msg: Messages \cup {NoRow}, stamp: Stamp \cup {0},
        op: {"upsert", "delete"}]

NoJob == [kind |-> "none", at |-> "done", for |-> NoRow, msg |-> NoRow,
          stamp |-> 0, op |-> "upsert"]
NoSync == [pc |-> "idle", ops |-> {}, unread |-> {}, unsent |-> {},
           pos |-> 0, upto |-> 0, more |-> FALSE]

(* lapse "failed": a call that had written the conversation failed or died    *)
(* before it queued it; "late": the cycle under way had its item already.      *)
Lapses == {"none", "failed", "late"}

TypeOK ==
  /\ local \in [Rows -> Version \cup {NoRow}] /\ queue \in [Rows -> Op \cup {NoRow}]
  /\ cloud \in Seq(Item) /\ cursor \in 0..Len(cloud)
  /\ running \in BOOLEAN /\ sync \in Sync
  /\ job \in [Jobs -> Job] /\ inFlight \subseteq Turns
  /\ clock \in 0..MaxClock /\ faults \in Nat
  /\ seen \subseteq 1..Len(cloud) /\ answered \subseteq Turns /\ dropped \subseteq Messages
  /\ lapse \in Lapses

Init ==
  /\ local = [r \in Rows |-> NoRow] /\ queue = [r \in Rows |-> NoRow]
  /\ cursor = 0 /\ cloud = <<>> /\ running = TRUE
  /\ sync = NoSync /\ job = [j \in Jobs |-> NoJob] /\ inFlight = {}
  /\ clock = 0 /\ faults = 0
  /\ seen = {} /\ answered = {} /\ dropped = {} /\ lapse = "none"

Free(j)    == job[j].kind = "none"
Fault      == faults < MaxFaults /\ faults' = faults + 1
InCloud(r) == \E i \in 1..Len(cloud) : cloud[i].row = r

-----------------------------------------------------------------------------
(* Calls of the application that write rows and queue them.                 *)

\* Mutant of After: writeTurnToSyncLog queues the message only.
AfterMessageOnly(kind, at) ==
  CASE kind = "turn"  /\ at = "conversation"        -> "message"
    [] kind = "turn"  /\ at = "message"             -> "enqueueMessage"
    [] kind = "reply" /\ at = "claude"              -> "message"
    [] kind = "reply" /\ at = "message"             -> "conversation"
    [] kind = "reply" /\ at = "conversation"        -> "enqueueMessage"
    [] kind = "reply" /\ at = "enqueueMessage"      -> "enqueueConversation"
    [] OTHER                                        -> "done"
\* The statements of a call, in the order of its source.
After(kind, at) ==
  CASE kind = "turn"  /\ at = "conversation"        -> "message"
    [] kind = "turn"  /\ at = "message"             -> "enqueueConversation"
    [] kind = "turn"  /\ at = "enqueueConversation" -> "enqueueMessage"
    [] kind = "reply" /\ at = "claude"              -> "message"
    [] kind = "reply" /\ at = "message"             -> "conversation"
    [] kind = "reply" /\ at = "conversation"        -> "enqueueMessage"
    [] kind = "reply" /\ at = "enqueueMessage"      -> "enqueueConversation"
    [] OTHER                                        -> "done"

\* Mutant of Leave: the dispatch forgets its finally.
LeaveInFlight(j, passed) == job' = [job EXCEPT ![j] = NoJob] /\ UNCHANGED inFlight

\* The end of a call: the finally of a dispatch takes its turn out of inFlight.
Leave(j, passed) ==
  /\ job' = [job EXCEPT ![j] = NoJob]
  /\ inFlight' = IF passed /\ job[j].kind = "reply" THEN inFlight \ {job[j].for}
                 ELSE inFlight

Proceed(j) ==
  LET next == After(job[j].kind, job[j].at)
  IN  IF next = "done" THEN Leave(j, TRUE)
      ELSE job' = [job EXCEPT ![j].at = next] /\ UNCHANGED inFlight

\* conversation-history:update and conversations.update: UPDATE with now(), then
\* the queue; a deletion queues a delete.
Edit(j, live) ==
  /\ Free(j) /\ clock < MaxClock /\ local[Conversation] # NoRow
  /\ local' = [local EXCEPT ![Conversation].stamp = clock + 1, ![Conversation].live = live]
  /\ job' = [job EXCEPT ![j] = [NoJob EXCEPT !.kind = "edit", !.at = "enqueueConversation",
                                             !.op = IF live THEN "upsert" ELSE "delete"]]
  /\ clock' = clock + 1
  /\ UNCHANGED <<queue, cursor, cloud, sync, inFlight, environment, history>>

\* An id nobody has given to a message yet.
Fresh(m) == local[m] = NoRow /\ ~InCloud(m) /\ \A j \in Jobs : job[j].msg # m

\* mirrorMessageToClaudeMessages, scribeRelayTurn: a turn of either side with the
\* time of its event.  A relayed user turn has the id the phone gave it.
Mirror(j, m) ==
  /\ Free(j) /\ clock < MaxClock
  /\ m \in Turns \/ Fresh(m)
  /\ job' = [job EXCEPT ![j] = [NoJob EXCEPT !.kind = "turn", !.at = "conversation",
                                             !.msg = m, !.stamp = clock + 1]]
  /\ clock' = clock + 1
  /\ UNCHANGED <<local, queue, cursor, cloud, sync, inFlight, environment, history>>

\* The turn's upsert of the conversation sets updated_at whatever it was; the
\* reply's UPDATE finds it or not.
WriteConversation(j) ==
  LET t == job[j].stamp
      old == local[Conversation]
  IN  /\ job[j].at = "conversation"
      /\ local' = CASE old # NoRow -> [local EXCEPT ![Conversation].stamp = t]
                    [] old = NoRow /\ job[j].kind = "turn" ->
                         [local EXCEPT ![Conversation] = [stamp |-> t, live |-> TRUE, born |-> 1]]
                    [] OTHER -> local
      /\ Proceed(j)
      /\ UNCHANGED <<queue, cursor, cloud, sync, clock, environment, history>>

WriteMessage(j) ==
  LET t == job[j].stamp
      m == job[j].msg
  IN  /\ job[j].at = "message"
      /\ local' = IF local[m] = NoRow
                  THEN [local EXCEPT ![m] = [stamp |-> t, live |-> TRUE, born |-> t]]
                  ELSE local
      /\ answered' = answered \cup (IF job[j].kind = "reply" THEN {job[j].for} ELSE {})
      /\ Proceed(j)
      /\ UNCHANGED <<queue, cursor, cloud, sync, clock, environment, seen, dropped, lapse>>

\* enqueueSyncOp: a row that is queued already keeps its id; since only clearOps
\* deletes, the id is represented by the row it stands for.
Enqueue(j, r, op) ==
  /\ queue' = [queue EXCEPT ![r] = [op |-> op, at |-> IF op = "delete" THEN clock ELSE 1]]
  /\ Proceed(j)
  /\ UNCHANGED <<local, cursor, cloud, sync, clock, environment, seen, answered, dropped>>

\* The cycle under way has its item of the conversation: the row was read, or the op
\* is a deletion, whose item is the op itself.
Carried(o) == o.row = Conversation /\ (o \notin sync.unread \/ o.op = "delete")

EnqueueConversation(j) ==
  /\ job[j].at = "enqueueConversation" /\ Enqueue(j, Conversation, job[j].op)
  /\ lapse' = IF \E o \in sync.ops : Carried(o) THEN "late" ELSE "none"
EnqueueMessage(j) ==
  /\ job[j].at = "enqueueMessage" /\ Enqueue(j, job[j].msg, "upsert")
  /\ UNCHANGED lapse

Queued(j) == IF job[j].at = "enqueueMessage" THEN job[j].msg ELSE Conversation

\* The message a call has still to queue: replies are queued before their conversation.
Owes(j, m) ==
  job[j].msg = m /\ (job[j].kind = "reply" => job[j].at # "enqueueConversation")

\* It has written the conversation and not queued it.
OwesConversation(j) ==
  \/ job[j].kind = "edit"
  \/ job[j].kind = "turn"  /\ job[j].at \in {"message", "enqueueConversation"}
  \/ job[j].kind = "reply" /\ job[j].at \in {"enqueueMessage", "enqueueConversation"}

LapseOf(left) == lapse' = IF left THEN "failed" ELSE lapse

\* What a call leaves behind when it ends early: a message it has written and not
\* queued, a turn it has not answered.
Concerns(j) == {m \in Messages : local[m] # NoRow /\ Owes(j, m)}
               \cup ({job[j].for} \ (answered \cup {NoRow}))

\* enqueueSyncOp swallows the error of its statement.
EnqueueFails(j) ==
  /\ Fault
  /\ job[j].at \in {"enqueueConversation", "enqueueMessage"}
  /\ dropped' = dropped \cup ({Queued(j)} \cap Messages)
  /\ LapseOf(job[j].at = "enqueueConversation")
  /\ Proceed(j)
  /\ UNCHANGED <<local, queue, cursor, cloud, sync, clock, running, seen, answered>>

\* A statement of writeTurnToSyncLog or of a dispatch throws: what the call has
\* written stays, what it has not queued is not queued.
JobFails(j) ==
  /\ Fault
  /\ job[j].at \in {"check", "conversation", "message"}
  /\ dropped' = dropped \cup Concerns(j)
  /\ LapseOf(OwesConversation(j))
  /\ Leave(j, job[j].at # "check")
  /\ UNCHANGED <<local, queue, cursor, cloud, sync, clock, running, seen, answered>>

-----------------------------------------------------------------------------
(* dispatchClaudeForMessage.                                                *)

\* Called by applyRemote: until its first await it only looks at inFlight.  At
\* "check" the call's stamp is the created_at of the item.
Dispatch(it) ==
  IF it.row \in inFlight THEN UNCHANGED job
  ELSE \E j \in Jobs :
         /\ Free(j)
         /\ job' = [job EXCEPT ![j] = [NoJob EXCEPT !.kind = "reply", !.at = "check",
                                         !.for = it.row, !.stamp = it.born]]

\* Mutant of RepliedSince: any assistant message of the conversation.
RepliedEver(created) == \E r \in Replies : local[r] # NoRow /\ local[r].live

\* The SELECT: an assistant message not older than the turn.
RepliedSince(created) ==
  \E r \in Replies : local[r] # NoRow /\ local[r].live /\ local[r].born >= created

Check(j) ==
  /\ job[j].at = "check"
  /\ IF RepliedSince(job[j].stamp) THEN Leave(j, FALSE)
     ELSE /\ inFlight' = inFlight \cup {job[j].for}
          /\ job' = [job EXCEPT ![j].at = "claude"]
  /\ UNCHANGED <<local, queue, cursor, cloud, sync, clock, environment, history>>

\* chatStream returns a text; the reply gets a new id and the present time.
ClaudeAnswers(j, r) ==
  /\ job[j].at = "claude" /\ clock < MaxClock /\ r \in Replies /\ Fresh(r)
  /\ job' = [job EXCEPT ![j].at = After("reply", "claude"), ![j].msg = r,
                        ![j].stamp = clock + 1]
  /\ clock' = clock + 1
  /\ UNCHANGED <<local, queue, cursor, cloud, sync, inFlight, environment, history>>

\* It throws, returns nothing, or the history is empty.
ClaudeFails(j) ==
  /\ Fault
  /\ job[j].at = "claude"
  /\ dropped' = dropped \cup {job[j].for}
  /\ Leave(j, TRUE)
  /\ UNCHANGED <<local, queue, cursor, cloud, sync, clock, running, seen, answered, lapse>>

-----------------------------------------------------------------------------
(* fullSync: push().                                                        *)

\* Its two flags allow one cycle at a time; the poll timer and the debounced
\* pushSoon both end here.  A cycle begins with getPendingOps (whose LIMIT of 500
\* is above every instance).
FullSync ==
  LET ops == {[row |-> r, op |-> queue[r].op, at |-> queue[r].at] :
                r \in {x \in Rows : queue[x] # NoRow}}
  IN  /\ running /\ sync.pc = "idle"
      /\ sync' = [NoSync EXCEPT !.ops = ops, !.unread = ops,
                                !.pc = IF ops = {} THEN "pull" ELSE "read"]
      /\ lapse' = IF lapse = "late" /\ queue[Conversation] # NoRow THEN "none" ELSE lapse
      /\ UNCHANGED <<local, queue, cursor, cloud, job, inFlight, clock, environment,
                     seen, answered, dropped>>

\* Mutant of ItemsOf: a delete is dated with the created_at of its row.
ItemsOfCreated(o) ==
  IF o.op = "delete"
  THEN {[row |-> o.row, stamp |-> 1, live |-> FALSE, born |-> 1]}
  ELSE {[row |-> o.row, stamp |-> v.stamp, live |-> v.live, born |-> v.born] :
          v \in {local[o.row]} \ {NoRow}}

\* The item an op becomes: a delete names its row only, with the op's created_at;
\* an upsert is the row as readLocal finds it now.
ItemsOf(o) ==
  IF o.op = "delete"
  THEN {[row |-> o.row, stamp |-> o.at, live |-> FALSE, born |-> 1]}
  ELSE {[row |-> o.row, stamp |-> v.stamp, live |-> v.live, born |-> v.born] :
          v \in {local[o.row]} \ {NoRow}}

ReadLocal(o) ==
  LET items == sync.unsent \cup ItemsOf(o)
      left  == sync.unread \ {o}
  IN  /\ sync.pc = "read" /\ o \in sync.unread
      /\ sync' = [sync EXCEPT !.unread = left, !.unsent = items,
                              !.pc = IF left = {} THEN "post" ELSE "read"]
      /\ UNCHANGED <<local, queue, cursor, cloud, job, inFlight, clock, environment, history>>

\* External: the worker stores the items of POST /sync/push one by one.
CloudTakes(it) ==
  /\ sync.pc = "post" /\ it \in sync.unsent /\ Len(cloud) < MaxLog
  /\ cloud' = Append(cloud, it)
  /\ sync' = [sync EXCEPT !.unsent = @ \ {it}]
  /\ UNCHANGED <<local, queue, cursor, job, inFlight, clock, environment, history>>

\* Mutant of PushFails: the queue is cleared whatever the status.
PushFailsCleared ==
  /\ sync.pc = "post"
  /\ queue' = [r \in Rows |-> IF \E o \in sync.ops : o.row = r THEN NoRow ELSE queue[r]]
  /\ sync' = [NoSync EXCEPT !.pc = "pull"]
  /\ UNCHANGED <<local, cursor, cloud, job, inFlight, clock, environment, history>>

\* No answer, or a status that is not ok, whatever the worker has stored.
PushFails ==
  /\ sync.pc = "post"
  /\ sync' = [NoSync EXCEPT !.pc = "pull"]
  /\ UNCHANGED <<local, queue, cursor, cloud, job, inFlight, clock, environment, history>>

\* The answer is ok (or there was nothing to send): clearOps.
ClearOps ==
  /\ sync.pc = "post" /\ sync.unsent = {}
  /\ queue' = [r \in Rows |-> IF \E o \in sync.ops : o.row = r THEN NoRow ELSE queue[r]]
  /\ sync' = [NoSync EXCEPT !.pc = "pull"]
  /\ UNCHANGED <<local, cursor, cloud, job, inFlight, clock, environment, history>>

\* A database error that no try block of the loops catches rejects the cycle.
SyncThrows ==
  /\ sync.pc \in {"read", "post", "pull", "save"}
  /\ sync' = NoSync
  /\ UNCHANGED <<local, queue, cursor, cloud, job, inFlight, clock, environment, history>>

-----------------------------------------------------------------------------
(* fullSync: pull().                                                        *)

\* GET /sync/pull?after=cursor answers with a page of the log (its size is the
\* worker's affair).
PullPage(n) ==
  /\ sync.pc = "pull" /\ n \in (cursor + 1)..Len(cloud)
  /\ sync' = [NoSync EXCEPT !.pc = "apply", !.pos = cursor, !.upto = n,
                            !.more = n < Len(cloud)]
  /\ UNCHANGED <<local, queue, cursor, cloud, job, inFlight, clock, environment, history>>

\* An empty page, no answer, or the tenth round ends the cycle.
PullEnds ==
  /\ sync.pc = "pull"
  /\ sync' = NoSync
  /\ UNCHANGED <<local, queue, cursor, cloud, job, inFlight, clock, environment, history>>

\* What applyRemote makes of a row: the newer updated_at wins, a deletion does
\* not create a row, created_at stays.
Applied(it) ==
  LET old == local[it.row]
  IN  CASE old = NoRow /\ ~it.live -> NoRow
        [] old = NoRow /\ it.live  -> [stamp |-> it.stamp, live |-> TRUE, born |-> it.born]
        [] old # NoRow /\ it.stamp > old.stamp ->
             [stamp |-> it.stamp, live |-> it.live, born |-> old.born]
        [] OTHER -> old

NextPos == sync' = [sync EXCEPT !.pos = @ + 1,
                                !.pc = IF sync.pos + 1 = sync.upto THEN "save" ELSE "apply"]

\* One item: highest moves past it once it is applied, or has no handler.
ApplyItem ==
  LET it == cloud[sync.pos + 1]
  IN  /\ sync.pc = "apply"
      /\ local' = IF it.row \in Rows THEN [local EXCEPT ![it.row] = Applied(it)] ELSE local
      /\ IF it.row \in Turns /\ it.live THEN Dispatch(it) ELSE UNCHANGED job
      /\ seen' = seen \cup {sync.pos + 1}
      /\ NextPos
      /\ UNCHANGED <<queue, cursor, cloud, inFlight, clock, environment, answered, dropped, lapse>>

\* Mutant of ApplyFails: highest moves before the item is applied.
ApplyFailsPast ==
  /\ sync.pc = "apply" /\ cloud[sync.pos + 1].row \in Rows
  /\ sync' = [sync EXCEPT !.pc = "save", !.pos = @ + 1, !.more = FALSE]
  /\ UNCHANGED <<local, queue, cursor, cloud, job, inFlight, clock, environment, history>>

\* applyRemote throws: the page ends before the item.
ApplyFails ==
  /\ sync.pc = "apply" /\ cloud[sync.pos + 1].row \in Rows
  /\ sync' = [sync EXCEPT !.pc = "save", !.more = FALSE]
  /\ UNCHANGED <<local, queue, cursor, cloud, job, inFlight, clock, environment, history>>

SetLastSeq ==
  /\ sync.pc = "save"
  /\ cursor' = IF sync.pos > cursor THEN sync.pos ELSE cursor
  /\ sync' = [NoSync EXCEPT !.pc = IF sync.more THEN "pull" ELSE "idle"]
  /\ UNCHANGED <<local, queue, cloud, job, inFlight, clock, environment, history>>

-----------------------------------------------------------------------------
(* The environment: the phone, sign-in and sign-out, the process.           *)

BornOf(r, t) == IF InCloud(r)
                THEN LET i == CHOOSE n \in 1..Len(cloud) : cloud[n].row = r
                     IN  cloud[i].born
                ELSE IF r \in Messages THEN t ELSE 1

\* The phone writes with a clock of its own; it deletes, and changes the replies,
\* that it has seen.
PhonePushes(r, t, live) ==
  /\ r \in Replies \/ ~live => InCloud(r)
  /\ t >= BornOf(r, t)
  /\ cloud' = Append(cloud, [row |-> r, stamp |-> t, live |-> live, born |-> BornOf(r, t)])
  /\ UNCHANGED <<local, queue, cursor, sync, job, inFlight, clock, environment, history>>

Phone ==
  /\ Len(cloud) < MaxLog
  /\ \/ \E r \in PhoneRows \cap Rows, t \in Stamp, live \in BOOLEAN : PhonePushes(r, t, live)
     \/ \E r \in PhoneRows \cap Others : PhonePushes(r, 1, TRUE)

\* stop() leaves a cycle that has begun alone.
SignOut ==
  /\ running /\ Fault
  /\ running' = FALSE
  /\ UNCHANGED <<local, queue, cursor, cloud, sync, job, inFlight, clock, history>>

\* Sign-in, or a saved session after a restart.
StartSync ==
  /\ ~running
  /\ running' = TRUE
  /\ UNCHANGED <<local, queue, cursor, cloud, sync, job, inFlight, clock, faults, history>>

\* The process ends: what its calls had begun stays as it is.
Stop ==
  /\ Fault
  /\ running' = FALSE
  /\ sync' = NoSync /\ job' = [j \in Jobs |-> NoJob] /\ inFlight' = {}
  /\ dropped' = dropped \cup UNION {Concerns(j) : j \in Jobs}
  /\ LapseOf(\E j \in Jobs : OwesConversation(j))
  /\ UNCHANGED <<local, queue, cursor, cloud, clock, seen, answered>>

-----------------------------------------------------------------------------
JobStep(j) ==
  \/ WriteConversation(j) \/ WriteMessage(j)
  \/ EnqueueConversation(j) \/ EnqueueMessage(j) \/ EnqueueFails(j) \/ JobFails(j)
  \/ Check(j) \/ ClaudeFails(j) \/ \E r \in Replies : ClaudeAnswers(j, r)

PushStep ==
  \/ PushFails \/ ClearOps \/ SyncThrows
  \/ \E o \in sync.unread : ReadLocal(o)
  \/ \E it \in sync.unsent : CloudTakes(it)

PullStep ==
  \/ PullEnds \/ ApplyItem \/ ApplyFails \/ SetLastSeq
  \/ \E n \in 1..Len(cloud) : PullPage(n)

User ==
  \/ \E j \in Jobs, live \in BOOLEAN : Edit(j, live)
  \/ \E j \in Jobs, m \in Messages : Mirror(j, m)
  \/ Phone \/ SignOut \/ Stop

Next == \/ User \/ StartSync \/ FullSync \/ PushStep \/ PullStep
        \/ \E j \in Jobs : JobStep(j)

Spec == Init /\ [][Next]_vars

-----------------------------------------------------------------------------
(* Properties.                                                              *)

\* The cursor never passes an item that was neither applied nor of a type this
\* program does not know, whatever fails in a page and wherever the process stops
\* (SullaSyncService.pull: highest, and the break at a failed item).
CursorCovers == \A i \in 1..cursor : i \in seen

\* A message written on this desktop is in the cloud, queued, or owed to the queue by
\* the call that wrote it, unless that call failed or died before it queued it: no
\* lost answer, failed cycle or clearOps makes the pair of tables forget it.
MessageNotLost ==
  \A m \in Messages :
    local[m] # NoRow => \/ queue[m] # NoRow \/ m \in dropped \/ InCloud(m)
                        \/ \E j \in Jobs : Owes(j, m)

\* A user turn the cursor has passed is being answered, has been answered, is older
\* than an assistant message of the conversation, or its dispatch failed or died.
NoTurnForgotten ==
  \A i \in 1..cursor :
    LET m == cloud[i].row
    IN  m \in Turns /\ cloud[i].live =>
          \/ m \in answered \cup dropped
          \/ \E j \in Jobs : job[j].for = m
          \/ \E r \in Replies : local[r] # NoRow /\ local[r].born >= cloud[i].born

\* The cloud has had the conversation as new as this.
CloudHas(stamp) ==
  \E i \in 1..Len(cloud) : cloud[i].row = Conversation /\ cloud[i].stamp >= stamp

\* Only the race that breaks LatestIntentIsKept loses an edit of the conversation: whatever
\* else fails, throws or is applied, a conversation newer than the cloud's is queued, or in
\* the hands of a call that will queue it, unless that call failed, or queued it while
\* the cycle under way had its item already (enqueueSyncOp, clearOps).
EditLostOnlyInRace ==
  local[Conversation] # NoRow =>
    \/ queue[Conversation] # NoRow \/ CloudHas(local[Conversation].stamp)
    \/ \E j \in Jobs : OwesConversation(j)
    \/ lapse # "none"

\* syncDispatcher.ts: inFlight "prevents duplicate Claude spawns if the same message id
\* is pulled twice before the reply is written".
OneClaudePerTurn ==
  \A j, k \in Jobs :
    job[j].at = "claude" /\ job[k].at = "claude" /\ job[j].for = job[k].for => j = k

-----------------------------------------------------------------------------
(* Why they hold: the inductive invariant.                                  *)

\* A page lies inside the log and begins at the cursor; what it has passed is seen.
PageIsSeen ==
  sync.pc \in {"apply", "save"} =>
    /\ cursor <= sync.pos /\ sync.pos <= sync.upto /\ sync.upto <= Len(cloud)
    /\ sync.pc = "apply" => sync.pos < sync.upto
    /\ \A i \in 1..sync.pos : i \in seen

\* Only rows that exist are queued, and messages only to be upserted.
QueuedExists ==
  /\ \A m \in Messages : queue[m] # NoRow => local[m] # NoRow /\ queue[m].op = "upsert"
  /\ \A o \in sync.ops : o.row \in Messages => local[o.row] # NoRow /\ o.op = "upsert"

\* An op that has been read is in the cloud or among the items to be sent, and no
\* op is cleared unread.
ReadIsCarried ==
  /\ sync.unread \subseteq sync.ops /\ (sync.pc = "post" => sync.unread = {})
  /\ sync.pc \in {"read", "post"} =>
       \A o \in sync.ops \ sync.unread :
         o.row \in Messages => InCloud(o.row) \/ \E it \in sync.unsent : it.row = o.row

\* The calls: which rows each kind is about, and what its label says.
Stamped(j) == job[j].stamp > 0 /\ clock > 0 /\ job[j].msg # NoRow
Wrote(j)   == local[job[j].msg] # NoRow

JobIsShaped(j) ==
  /\ Free(j) => job[j] = NoJob
  /\ job[j].kind = "edit" =>
       /\ job[j].at = "enqueueConversation" /\ job[j].msg = NoRow
       /\ job[j].for = NoRow /\ clock > 0
  /\ job[j].kind = "turn" =>
       /\ job[j].at \in {"conversation", "message", "enqueueConversation", "enqueueMessage"}
       /\ job[j].for = NoRow /\ job[j].op = "upsert" /\ Stamped(j)
       /\ job[j].at \in {"enqueueConversation", "enqueueMessage"} => Wrote(j)
  /\ job[j].kind = "reply" =>
       /\ job[j].at # "done" /\ job[j].for # NoRow /\ job[j].op = "upsert"
       /\ IF job[j].at \in {"check", "claude"} THEN job[j].msg = NoRow ELSE Stamped(j)
       /\ job[j].at \notin {"check", "claude", "message"} =>
            Wrote(j) /\ job[j].for \in answered

JobsAreShaped == \A j \in Jobs : JobIsShaped(j)

\* A turn in inFlight has the call that will take it out again.
InFlightIsHeld ==
  \A m \in inFlight : \E j \in Jobs : job[j].for = m /\ job[j].at # "check"

\* A turn that has been applied: NoTurnForgotten before the cursor has passed it.
Served(i) ==
  LET m == cloud[i].row
  IN  m \in Turns /\ cloud[i].live =>
        \/ m \in answered \cup dropped
        \/ \E j \in Jobs : /\ job[j].for = m
                           /\ job[j].at = "check" => job[j].stamp = cloud[i].born
        \/ \E r \in Replies : local[r] # NoRow /\ local[r].born >= cloud[i].born

SeenIsServed == \A i \in seen : Served(i)

IInv == /\ TypeOK /\ PageIsSeen /\ QueuedExists /\ ReadIsCarried /\ JobsAreShaped
        /\ InFlightIsHeld /\ SeenIsServed /\ CursorCovers /\ MessageNotLost

\* The same for EditLostOnlyInRace.  A conversation newer than this desktop's clock came
\* from the cloud.
NewerIsForeign ==
  local[Conversation] # NoRow =>
    local[Conversation].stamp <= clock \/ CloudHas(local[Conversation].stamp)

\* A call gives its rows a time it has taken.
CallsArePast == \A j \in Jobs : job[j].at \notin {"check", "claude"} => job[j].stamp <= clock

Owed == (\E j \in Jobs : OwesConversation(j)) \/ lapse = "failed"

\* A deletion that is queued is as new as the row, unless a call has more to queue, ...
DeletionIsCurrent ==
  local[Conversation] # NoRow /\ queue[Conversation] # NoRow =>
    \/ Owed \/ CloudHas(local[Conversation].stamp)
    \/ queue[Conversation].op = "delete" => queue[Conversation].at >= local[Conversation].stamp

\* ... and so is what the cycle under way has of the conversation, unless it was late.
CarriedIsCurrent ==
  \A o \in sync.ops :
    Carried(o) /\ local[Conversation] # NoRow =>
      \/ Owed \/ lapse = "late" \/ CloudHas(local[Conversation].stamp)
      \/ o \in sync.unread /\ o.at >= local[Conversation].stamp
      \/ \E it \in sync.unsent : /\ it.row = Conversation
                                 /\ it.stamp >= local[Conversation].stamp

IntentInv == NewerIsForeign /\ CallsArePast /\ DeletionIsCurrent /\ CarriedIsCurrent
             /\ EditLostOnlyInRace

\* What syncQueue.ts says of two edits before a push: the op that is left has the
\* latest intent.  So as long as no call has failed, the conversation as it is now is
\* in the cloud, queued, or in the hands of a call that will queue it.
LatestIntentIsKept ==
  local[Conversation] # NoRow /\ faults = 0 =>
    \/ queue[Conversation] # NoRow
    \/ \E j \in Jobs : ~Free(j)
    \/ \E i \in 1..Len(cloud) : /\ cloud[i].row = Conversation
                                /\ cloud[i].stamp >= local[Conversation].stamp
=============================================================================
