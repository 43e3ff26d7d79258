-------------------------- MODULE DesktopSyncProofs --------------------------
(***************************************************************************)
(* Every step grows: no row, message of the cloud, answer or failure is    *)
(* forgotten, and a row keeps its created_at.  What is left to show of an  *)
(* action is what becomes of the calls and of the queue.                   *)
(***************************************************************************)
EXTENDS DesktopSync, TLAPS

USE RowsAssumption, BoundsAssumption, NoRowAssumption

Grows ==
  /\ \A r \in Rows : local[r] # NoRow =>
       local'[r] # NoRow /\ local'[r].born = local[r].born
  /\ answered \subseteq answered' /\ dropped \subseteq dropped' /\ clock <= clock'
  /\ Len(cloud) <= Len(cloud') /\ \A i \in 1..Len(cloud) : cloud'[i] = cloud[i]

\* A call goes on with its turn, or no longer has to.
ServesOn(j) ==
  \/ job[j].for = NoRow \/ job[j].for \in answered' \cup dropped'
  \/ /\ job'[j].for = job[j].for
     /\ job'[j].at = "check" => job'[j].stamp = job[j].stamp /\ job[j].at = "check"
  \/ job[j].at = "check" /\ RepliedSince(job[j].stamp)

\* A call still owes the message to the queue, or no longer has to.
OwesOn(j) ==
  \A m \in Messages :
    local'[m] # NoRow /\ Owes(j, m) => Owes(j, m)' \/ queue'[m] # NoRow \/ m \in dropped'

-----------------------------------------------------------------------------
LEMMA JobTypes ==
  ASSUME TypeOK, NEW j \in Jobs
  PROVE  /\ job[j] \in Job
         /\ job[j].kind \in {"none", "edit", "turn", "reply"}
         /\ job[j].at \in {"done", "check", "claude", "conversation", "message",
                           "enqueueConversation", "enqueueMessage"}
         /\ job[j].for \in Turns \cup {NoRow} /\ job[j].msg \in Messages \cup {NoRow}
         /\ job[j].stamp \in Stamp \cup {0} /\ job[j].stamp \in Nat
         /\ job[j].op \in {"upsert", "delete"}
  <1>1. job[j] \in Job
    BY DEF TypeOK
  <1>2. QED
    BY <1>1 DEF Job, Stamp

LEMMA SyncTypes ==
  ASSUME TypeOK
  PROVE  /\ sync \in Sync
         /\ sync.pc \in {"idle", "read", "post", "pull", "apply", "save"}
         /\ sync.ops \subseteq Pending /\ sync.unread \subseteq Pending
         /\ sync.unsent \subseteq Item
         /\ sync.pos \in Nat /\ sync.upto \in Nat /\ sync.more \in BOOLEAN
  BY DEF TypeOK, Sync

LEMMA CloudAppends ==
  ASSUME TypeOK, NEW it \in Item, cloud' = Append(cloud, it)
  PROVE  /\ cloud' \in Seq(Item) /\ Len(cloud') = Len(cloud) + 1 /\ Len(cloud) \in Nat
         /\ \A i \in 1..Len(cloud) : cloud'[i] = cloud[i]
         /\ cloud'[Len(cloud) + 1] = it
         /\ \A r : InCloud(r) => InCloud(r)'
         /\ InCloud(it.row)'
  <1>1. cloud \in Seq(Item)
    BY DEF TypeOK
  <1>2. /\ cloud' \in Seq(Item) /\ Len(cloud') = Len(cloud) + 1 /\ Len(cloud) \in Nat
        /\ \A i \in 1..Len(cloud) : cloud'[i] = cloud[i]
        /\ cloud'[Len(cloud) + 1] = it
    BY <1>1
  <1>3. \A r : InCloud(r) => InCloud(r)'
    BY <1>2 DEF InCloud
  <1>4. InCloud(it.row)'
    <2>1. Len(cloud) + 1 \in 1..Len(cloud')
      BY <1>2
    <2>2. QED
      BY <1>2, <2>1 DEF InCloud
  <1>5. QED
    BY <1>2, <1>3, <1>4

LEMMA ShapeKept ==
  ASSUME TypeOK, Grows, NEW j \in Jobs, JobIsShaped(j), job'[j] = job[j], TypeOK'
  PROVE  JobIsShaped(j)'
  <1>1. clock > 0 => clock' > 0
    BY DEF Grows, TypeOK
  <1>2. job[j].msg # NoRow => job[j].msg \in Rows
    BY JobTypes DEF Rows
  <1>3. Wrote(j) /\ job[j].msg # NoRow => Wrote(j)'
    BY <1>2 DEF Wrote, Grows
  <1>4. Stamped(j) => Stamped(j)'
    BY <1>1 DEF Stamped
  <1>5. Free(j)' <=> Free(j)
    BY DEF Free
  <1>6. answered \subseteq answered'
    BY DEF Grows
  <1>7. job[j].kind = "edit" => JobIsShaped(j)'
    BY <1>1, <1>5 DEF JobIsShaped, Free
  <1>8. job[j].kind = "turn" => JobIsShaped(j)'
    BY <1>3, <1>4, <1>5 DEF JobIsShaped, Free, Stamped
  <1>9. job[j].kind = "reply" => JobIsShaped(j)'
    BY <1>3, <1>4, <1>5, <1>6 DEF JobIsShaped, Free, Stamped
  <1>10. job[j].kind = "none" => JobIsShaped(j)'
    BY <1>5 DEF JobIsShaped, Free
  <1>11. QED
    BY <1>7, <1>8, <1>9, <1>10, JobTypes

LEMMA ServedKept ==
  ASSUME TypeOK, SeenIsServed, Grows, \A j \in Jobs : ServesOn(j)
  PROVE  \A i \in seen : Served(i)'
  <1> SUFFICES ASSUME NEW i \in seen, cloud'[i].row \in Turns, cloud'[i].live,
                      cloud'[i].row \notin answered' \cup dropped',
                      \A r \in Replies : ~(local'[r] # NoRow /\ local'[r].born >= cloud'[i].born)
               PROVE  \E j \in Jobs : /\ job'[j].for = cloud'[i].row
                                      /\ job'[j].at = "check" => job'[j].stamp = cloud'[i].born
    BY DEF Served
  <1>1. cloud'[i] = cloud[i]
    BY DEF TypeOK, Grows
  <1>2. \A r \in Replies : ~(local[r] # NoRow /\ local[r].born >= cloud[i].born)
    BY <1>1 DEF Grows, Rows, Messages
  <1>3. cloud[i].row \notin answered \cup dropped
    BY <1>1 DEF Grows
  <1>4. PICK j \in Jobs : /\ job[j].for = cloud[i].row
                          /\ job[j].at = "check" => job[j].stamp = cloud[i].born
    BY <1>1, <1>2, <1>3 DEF SeenIsServed, Served
  <1>5. job[j].for # NoRow
    BY <1>1, <1>4 DEF Rows, Messages
  <1>6. ~(job[j].at = "check" /\ RepliedSince(job[j].stamp))
    BY <1>2, <1>4 DEF RepliedSince
  <1>7. /\ job'[j].for = job[j].for
        /\ job'[j].at = "check" => job'[j].stamp = job[j].stamp /\ job[j].at = "check"
    BY <1>1, <1>4, <1>5, <1>6 DEF ServesOn
  <1>8. QED
    BY <1>1, <1>4, <1>7

LEMMA NotLostKept ==
  ASSUME TypeOK, MessageNotLost, Grows,
         \A m \in Messages : local'[m] # NoRow =>
           local[m] # NoRow \/ InCloud(m)' \/ \E j \in Jobs : Owes(j, m)',
         \A m \in Messages : queue[m] # NoRow => queue'[m] # NoRow \/ InCloud(m)',
         \A j \in Jobs : OwesOn(j)
  PROVE  MessageNotLost'
  <1> SUFFICES ASSUME NEW m \in Messages, local'[m] # NoRow, ~InCloud(m)',
                      queue'[m] = NoRow, m \notin dropped'
               PROVE  \E j \in Jobs : Owes(j, m)'
    BY DEF MessageNotLost
  <1>1. ~InCloud(m)
    BY DEF InCloud, Grows, TypeOK
  <1>2. CASE local[m] # NoRow
    <2>1. queue[m] = NoRow /\ m \notin dropped
      BY DEF Grows
    <2>2. PICK j \in Jobs : Owes(j, m)
      BY <1>1, <1>2, <2>1 DEF MessageNotLost
    <2>3. QED
      BY <2>2 DEF OwesOn
  <1>3. CASE local[m] = NoRow
    BY <1>3
  <1>4. QED
    BY <1>2, <1>3

-----------------------------------------------------------------------------
(* The cycle: steps that change only what fullSync holds, and the cursor.   *)

LEMMA CycleSpares ==
  ASSUME IInv, UNCHANGED <<local, queue, cloud, job, inFlight, clock, seen, answered, dropped>>
  PROVE  /\ JobsAreShaped' /\ InFlightIsHeld' /\ SeenIsServed' /\ MessageNotLost'
         /\ \A m \in Messages :
              queue'[m] # NoRow => local'[m] # NoRow /\ queue'[m].op = "upsert"
         /\ local' \in [Rows -> Version \cup {NoRow}] /\ queue' \in [Rows -> Op \cup {NoRow}]
         /\ cloud' \in Seq(Item) /\ job' \in [Jobs -> Job] /\ inFlight' \subseteq Turns
         /\ clock' \in 0..MaxClock /\ seen' \subseteq 1..Len(cloud') /\ answered' \subseteq Turns
         /\ dropped' \subseteq Messages
  <1>1. JobsAreShaped' /\ InFlightIsHeld'
    BY DEF IInv, JobsAreShaped, JobIsShaped, Free, Stamped, Wrote, InFlightIsHeld
  <1>2. SeenIsServed'
    BY DEF IInv, SeenIsServed, Served
  <1>3. MessageNotLost'
    BY DEF IInv, MessageNotLost, InCloud, Owes
  <1>4. \A m \in Messages :
          queue'[m] # NoRow => local'[m] # NoRow /\ queue'[m].op = "upsert"
    BY DEF IInv, QueuedExists
  <1>5. QED
    BY <1>1, <1>2, <1>3, <1>4 DEF IInv, TypeOK

LEMMA CycleKeeps ==
  ASSUME IInv, UNCHANGED <<local, queue, cloud, job, inFlight, clock, history>>
  PROVE  /\ JobsAreShaped' /\ InFlightIsHeld' /\ SeenIsServed' /\ MessageNotLost'
         /\ \A m \in Messages :
              queue'[m] # NoRow => local'[m] # NoRow /\ queue'[m].op = "upsert"
         /\ local' \in [Rows -> Version \cup {NoRow}] /\ queue' \in [Rows -> Op \cup {NoRow}]
         /\ cloud' \in Seq(Item) /\ job' \in [Jobs -> Job] /\ inFlight' \subseteq Turns
         /\ clock' \in 0..MaxClock /\ seen' \subseteq 1..Len(cloud') /\ answered' \subseteq Turns
         /\ dropped' \subseteq Messages /\ lapse' \in Lapses
  <1>1. UNCHANGED <<seen, answered, dropped, lapse>>
    BY DEF history
  <1>2. QED
    BY <1>1, CycleSpares DEF IInv, TypeOK

\* A step to the beginning of a cycle, its end or the next round carries nothing.
LEMMA EmptyCycle ==
  ASSUME IInv, UNCHANGED <<local, queue, cursor, cloud, job, inFlight, clock, history, environment>>,
         NEW pc \in {"idle", "pull"}, sync' = [NoSync EXCEPT !.pc = pc]
  PROVE  IInv'
  <1>1. /\ sync' \in Sync /\ sync'.pc \in {"idle", "pull"}
        /\ sync'.ops = {} /\ sync'.unread = {}
    BY DEF NoSync, Sync
  <1>2. TypeOK'
    BY <1>1, CycleKeeps DEF IInv, TypeOK, environment
  <1>3. PageIsSeen' /\ ReadIsCarried' /\ QueuedExists'
    BY <1>1, CycleKeeps DEF PageIsSeen, ReadIsCarried, QueuedExists
  <1>4. CursorCovers'
    BY DEF IInv, CursorCovers, history
  <1>5. QED
    BY <1>2, <1>3, <1>4, CycleKeeps DEF IInv

LEMMA FullSyncKeeps ==
  ASSUME IInv, FullSync
  PROVE  IInv'
  <1> DEFINE ops == {[row |-> r, op |-> queue[r].op, at |-> queue[r].at] :
                       r \in {x \in Rows : queue[x] # NoRow}}
             pc  == IF ops = {} THEN "pull" ELSE "read"
  <1>1. UNCHANGED <<local, queue, cursor, cloud, job, inFlight, clock, environment,
                    seen, answered, dropped>>
    BY DEF FullSync
  <1>2. sync' = [NoSync EXCEPT !.ops = ops, !.unread = ops, !.pc = pc]
    BY DEF FullSync
  <1>3. ops \subseteq Pending
    <2> SUFFICES ASSUME NEW r \in Rows, queue[r] # NoRow
                 PROVE  [row |-> r, op |-> queue[r].op, at |-> queue[r].at] \in Pending
      OBVIOUS
    <2>1. queue[r] \in Op
      BY DEF IInv, TypeOK
    <2>2. QED
      BY <2>1 DEF Op, Pending
  <1>4. \A o \in ops : o.row \in Messages => local[o.row] # NoRow /\ o.op = "upsert"
    BY DEF IInv, QueuedExists
  <1> HIDE DEF ops
  <1>5. sync' \in Sync /\ sync'.pc \in {"pull", "read"} /\ sync'.ops = ops /\ sync'.unread = ops
    BY <1>2, <1>3 DEF NoSync, Sync
  <1>6. TypeOK'
    <2>1. lapse' \in Lapses
      BY DEF FullSync, IInv, TypeOK, Lapses
    <2>2. QED
      BY <1>1, <1>5, <2>1, CycleSpares DEF IInv, TypeOK, environment
  <1>7. PageIsSeen' /\ ReadIsCarried'
    BY <1>5 DEF PageIsSeen, ReadIsCarried
  <1>8. QueuedExists'
    BY <1>1, <1>4, <1>5, CycleSpares DEF QueuedExists
  <1>9. CursorCovers'
    BY <1>1 DEF IInv, CursorCovers
  <1>10. QED
    BY <1>1, <1>6, <1>7, <1>8, <1>9, CycleSpares DEF IInv

LEMMA ItemsOfOp ==
  ASSUME IInv, NEW o \in sync.ops
  PROVE  /\ ItemsOf(o) \subseteq Item
         /\ o.row \in Messages => \E it \in ItemsOf(o) : it.row = o.row
  <1>1. o \in Pending /\ o.row \in Rows /\ o.op \in {"upsert", "delete"} /\ o.at \in Stamp
    BY SyncTypes DEF IInv, Pending
  <1>2. 1 \in Stamp
    BY DEF Stamp
  <1>3. local[o.row] # NoRow => local[o.row] \in Version
    BY <1>1 DEF IInv, TypeOK
  <1>4. ItemsOf(o) \subseteq Item
    <2>1. CASE o.op = "delete"
      BY <1>1, <1>2, <2>1 DEF ItemsOf, Item
    <2>2. CASE o.op # "delete"
      BY <1>1, <1>3, <2>2 DEF ItemsOf, Item, Version
    <2>3. QED
      BY <2>1, <2>2
  <1>5. ASSUME o.row \in Messages
        PROVE  \E it \in ItemsOf(o) : it.row = o.row
    <2>1. local[o.row] # NoRow /\ o.op = "upsert"
      BY <1>5 DEF IInv, QueuedExists
    <2> DEFINE v  == local[o.row]
               it == [row |-> o.row, stamp |-> v.stamp, live |-> v.live, born |-> v.born]
    <2>2. it \in ItemsOf(o)
      BY <2>1 DEF ItemsOf
    <2>3. QED
      BY <2>2
  <1>6. QED
    BY <1>4, <1>5

LEMMA ReadLocalKeeps ==
  ASSUME IInv, NEW o \in sync.unread, ReadLocal(o)
  PROVE  IInv'
  <1> DEFINE items == sync.unsent \cup ItemsOf(o)
             left  == sync.unread \ {o}
             pc    == IF left = {} THEN "post" ELSE "read"
  <1>1. UNCHANGED <<local, queue, cursor, cloud, job, inFlight, clock, history, environment>>
    BY DEF ReadLocal
  <1>2. sync' = [sync EXCEPT !.unread = left, !.unsent = items, !.pc = pc] /\ sync.pc = "read"
    BY DEF ReadLocal
  <1>3. /\ sync \in Sync /\ sync.ops \subseteq Pending /\ sync.unread \subseteq Pending
        /\ sync.unsent \subseteq Item /\ sync.unread \subseteq sync.ops
    BY SyncTypes DEF IInv, ReadIsCarried
  <1>4. o \in sync.ops
    BY <1>3
  <1>5. left \subseteq Pending /\ items \subseteq Item /\ left \subseteq sync.ops
    BY <1>3, <1>4, ItemsOfOp
  <1>6. \A p \in sync.ops \ left : p.row \in Messages => InCloud(p.row) \/ \E it \in items : it.row = p.row
    <2> SUFFICES ASSUME NEW p \in sync.ops \ left, p.row \in Messages
                 PROVE  InCloud(p.row) \/ \E it \in items : it.row = p.row
      OBVIOUS
    <2>1. CASE p = o
      BY <1>4, <2>1, ItemsOfOp
    <2>2. CASE p # o
      BY <1>2, <2>2 DEF IInv, ReadIsCarried
    <2>3. QED
      BY <2>1, <2>2
  <1> HIDE DEF items
  <1>7. /\ sync' \in Sync /\ sync'.pc = pc /\ sync'.ops = sync.ops
        /\ sync'.unread = left /\ sync'.unsent = items
    BY <1>2, <1>3, <1>5 DEF Sync
  <1>8. TypeOK'
    BY <1>1, <1>7, CycleKeeps DEF IInv, TypeOK, environment
  <1>9. PageIsSeen'
    BY <1>7 DEF PageIsSeen
  <1>10. ReadIsCarried'
    BY <1>1, <1>5, <1>6, <1>7 DEF ReadIsCarried, InCloud
  <1>11. QueuedExists'
    BY <1>1, <1>7, CycleKeeps DEF QueuedExists, IInv
  <1>12. CursorCovers'
    BY <1>1 DEF IInv, CursorCovers, history
  <1>13. QED
    BY <1>1, <1>8, <1>9, <1>10, <1>11, <1>12, CycleKeeps DEF IInv

LEMMA PullPageKeeps ==
  ASSUME IInv, NEW n \in 1..Len(cloud), PullPage(n)
  PROVE  IInv'
  <1> DEFINE more == n < Len(cloud)
  <1>1. UNCHANGED <<local, queue, cursor, cloud, job, inFlight, clock, history, environment>>
    BY DEF PullPage
  <1>2. /\ sync' = [NoSync EXCEPT !.pc = "apply", !.pos = cursor, !.upto = n, !.more = more]
        /\ more \in BOOLEAN
        /\ n \in (cursor + 1)..Len(cloud) /\ cursor \in Nat /\ n \in Nat /\ Len(cloud) \in Nat
    BY DEF PullPage, IInv, TypeOK
  <1> HIDE DEF more
  <1>3. /\ sync' \in Sync /\ sync'.pc = "apply" /\ sync'.ops = {} /\ sync'.unread = {}
        /\ sync'.pos = cursor /\ sync'.upto = n
    BY <1>2 DEF NoSync, Sync
  <1>4. TypeOK'
    BY <1>1, <1>3, CycleKeeps DEF IInv, TypeOK, environment
  <1>5. PageIsSeen'
    BY <1>1, <1>2, <1>3 DEF PageIsSeen, IInv, CursorCovers, history
  <1>6. ReadIsCarried' /\ QueuedExists'
    BY <1>1, <1>3, CycleKeeps DEF ReadIsCarried, QueuedExists
  <1>7. CursorCovers'
    BY <1>1 DEF IInv, CursorCovers, history
  <1>8. QED
    BY <1>1, <1>4, <1>5, <1>6, <1>7, CycleKeeps DEF IInv

LEMMA ApplyFailsKeeps ==
  ASSUME IInv, ApplyFails
  PROVE  IInv'
  <1>1. UNCHANGED <<local, queue, cursor, cloud, job, inFlight, clock, history, environment>>
    BY DEF ApplyFails
  <1>2. sync' = [sync EXCEPT !.pc = "save", !.more = FALSE] /\ sync.pc = "apply" /\ sync \in Sync
    BY SyncTypes DEF ApplyFails, IInv
  <1>3. /\ sync' \in Sync /\ sync'.pc = "save" /\ sync'.ops = sync.ops /\ sync'.unread = sync.unread
        /\ sync'.pos = sync.pos /\ sync'.upto = sync.upto
    BY <1>2 DEF Sync
  <1>4. TypeOK'
    BY <1>1, <1>3, CycleKeeps DEF IInv, TypeOK, environment
  <1>5. PageIsSeen'
    BY <1>1, <1>2, <1>3 DEF PageIsSeen, IInv, history
  <1>6. ReadIsCarried' /\ QueuedExists'
    BY <1>1, <1>3, CycleKeeps DEF ReadIsCarried, QueuedExists, IInv
  <1>7. CursorCovers'
    BY <1>1 DEF IInv, CursorCovers, history
  <1>8. QED
    BY <1>1, <1>4, <1>5, <1>6, <1>7, CycleKeeps DEF IInv

LEMMA SetLastSeqKeeps ==
  ASSUME IInv, SetLastSeq
  PROVE  IInv'
  <1> DEFINE pc == IF sync.more THEN "pull" ELSE "idle"
  <1>1. UNCHANGED <<local, queue, cloud, job, inFlight, clock, history, environment>>
    BY DEF SetLastSeq
  <1>2. /\ sync' = [NoSync EXCEPT !.pc = pc] /\ sync.pc = "save"
        /\ cursor' = IF sync.pos > cursor THEN sync.pos ELSE cursor
    BY DEF SetLastSeq
  <1>3. /\ cursor \in Nat /\ sync.pos \in Nat /\ cursor <= Len(cloud) /\ sync.pos <= Len(cloud)
        /\ Len(cloud) \in Nat /\ \A i \in 1..sync.pos : i \in seen
    BY <1>2, SyncTypes DEF IInv, TypeOK, PageIsSeen
  <1>4. /\ sync' \in Sync /\ sync'.pc \in {"pull", "idle"} /\ sync'.ops = {} /\ sync'.unread = {}
    BY <1>2 DEF NoSync, Sync
  <1>5. TypeOK'
    BY <1>1, <1>2, <1>3, <1>4, CycleKeeps DEF IInv, TypeOK, environment
  <1>6. PageIsSeen' /\ ReadIsCarried' /\ QueuedExists'
    BY <1>1, <1>4, CycleKeeps DEF PageIsSeen, ReadIsCarried, QueuedExists
  <1>7. CursorCovers'
    BY <1>1, <1>2, <1>3 DEF IInv, CursorCovers, history
  <1>8. QED
    BY <1>1, <1>5, <1>6, <1>7, CycleKeeps DEF IInv

-----------------------------------------------------------------------------
(* The cloud's log grows: an item of the desktop, or one of the phone.      *)

LEMMA LogGrows ==
  ASSUME IInv, NEW it \in Item, cloud' = Append(cloud, it),
         UNCHANGED <<local, queue, cursor, job, inFlight, clock, history, environment>>
  PROVE  /\ JobsAreShaped' /\ InFlightIsHeld' /\ SeenIsServed' /\ MessageNotLost' /\ CursorCovers'
         /\ \A m \in Messages :
              queue'[m] # NoRow => local'[m] # NoRow /\ queue'[m].op = "upsert"
         /\ sync' \in Sync => TypeOK'
         /\ Len(cloud) <= Len(cloud') /\ Len(cloud) \in Nat /\ Len(cloud') \in Nat
         /\ \A r : InCloud(r) => InCloud(r)'
  <1>1. /\ Len(cloud') = Len(cloud) + 1 /\ cloud' \in Seq(Item) /\ Len(cloud) \in Nat
        /\ \A i \in 1..Len(cloud) : cloud'[i] = cloud[i]
        /\ \A r : InCloud(r) => InCloud(r)'
    BY CloudAppends DEF IInv
  <1>2. Grows
    BY <1>1 DEF Grows, history, IInv, TypeOK
  <1>3. JobsAreShaped' /\ InFlightIsHeld'
    BY DEF history, IInv, JobsAreShaped, JobIsShaped, Free, Stamped, Wrote, InFlightIsHeld
  <1>4. SeenIsServed'
    <2>1. \A j \in Jobs : ServesOn(j)
      BY DEF ServesOn
    <2>2. QED
      BY <1>2, <2>1, ServedKept DEF IInv, SeenIsServed, history
  <1>5. MessageNotLost'
    <2>1. \A j \in Jobs : OwesOn(j)
      BY DEF OwesOn, Owes
    <2>2. QED
      BY <1>2, <2>1, NotLostKept DEF IInv
  <1>6. CursorCovers'
    BY DEF IInv, CursorCovers, history
  <1>7. \A m \in Messages :
          queue'[m] # NoRow => local'[m] # NoRow /\ queue'[m].op = "upsert"
    BY DEF IInv, QueuedExists
  <1>8. sync' \in Sync => TypeOK'
    BY <1>1 DEF IInv, TypeOK, history, environment
  <1>9. QED
    BY <1>1, <1>3, <1>4, <1>5, <1>6, <1>7, <1>8

LEMMA CloudTakesKeeps ==
  ASSUME IInv, NEW it \in sync.unsent, CloudTakes(it)
  PROVE  IInv'
  <1>1. /\ cloud' = Append(cloud, it) /\ sync.pc = "post"
        /\ UNCHANGED <<local, queue, cursor, job, inFlight, clock, history, environment>>
        /\ sync' = [sync EXCEPT !.unsent = @ \ {it}]
    BY DEF CloudTakes
  <1>2. it \in Item /\ sync \in Sync /\ sync.unsent \subseteq Item
    BY SyncTypes DEF IInv
  <1>3. /\ sync' \in Sync /\ sync'.pc = "post" /\ sync'.ops = sync.ops
        /\ sync'.unread = sync.unread /\ sync'.unsent = sync.unsent \ {it}
    BY <1>1, <1>2 DEF Sync
  <1>4. /\ JobsAreShaped' /\ InFlightIsHeld' /\ SeenIsServed' /\ MessageNotLost' /\ CursorCovers'
        /\ TypeOK' /\ \A r : InCloud(r) => InCloud(r)'
        /\ \A m \in Messages :
              queue'[m] # NoRow => local'[m] # NoRow /\ queue'[m].op = "upsert"
    BY <1>1, <1>2, <1>3, LogGrows
  <1>5. InCloud(it.row)'
    BY <1>1, <1>2, CloudAppends DEF IInv
  <1>6. PageIsSeen'
    BY <1>3 DEF PageIsSeen
  <1>7. QueuedExists'
    BY <1>1, <1>3, <1>4 DEF QueuedExists, IInv
  <1>8. ReadIsCarried'
    BY <1>1, <1>3, <1>4, <1>5 DEF ReadIsCarried, IInv
  <1>9. QED
    BY <1>4, <1>6, <1>7, <1>8 DEF IInv

LEMMA BornIsStamp ==
  ASSUME TypeOK, NEW r \in Rows \cup Others, NEW t \in Stamp
  PROVE  BornOf(r, t) \in Stamp
  <1>1. 1 \in Stamp
    BY DEF Stamp
  <1>2. ASSUME InCloud(r)
        PROVE  BornOf(r, t) \in Stamp
    <2> DEFINE i == CHOOSE n \in 1..Len(cloud) : cloud[n].row = r
    <2>1. i \in 1..Len(cloud)
      BY <1>2 DEF InCloud
    <2> HIDE DEF i
    <2>2. cloud \in Seq(Item)
      BY DEF TypeOK
    <2>3. cloud[i] \in Item
      BY <2>1, <2>2
    <2>4. cloud[i].born \in Stamp
      BY <2>3 DEF Item
    <2>5. QED
      BY <1>2, <2>4 DEF BornOf, i
  <1>3. QED
    BY <1>1, <1>2 DEF BornOf

LEMMA PhonePushesKeeps ==
  ASSUME IInv, NEW r \in Rows \cup Others, NEW t \in Stamp, NEW live \in BOOLEAN,
         PhonePushes(r, t, live)
  PROVE  IInv'
  <1> DEFINE it == [row |-> r, stamp |-> t, live |-> live, born |-> BornOf(r, t)]
  <1>1. /\ cloud' = Append(cloud, it)
        /\ UNCHANGED <<local, queue, cursor, sync, job, inFlight, clock, history, environment>>
    BY DEF PhonePushes
  <1>2. it \in Item
    BY BornIsStamp DEF IInv, Item
  <1> HIDE DEF it
  <1>3. sync' \in Sync
    BY <1>1 DEF IInv, TypeOK
  <1>4. /\ JobsAreShaped' /\ InFlightIsHeld' /\ SeenIsServed' /\ MessageNotLost' /\ CursorCovers'
        /\ TypeOK' /\ \A q : InCloud(q) => InCloud(q)'
        /\ Len(cloud) <= Len(cloud') /\ Len(cloud) \in Nat /\ Len(cloud') \in Nat
        /\ \A m \in Messages :
              queue'[m] # NoRow => local'[m] # NoRow /\ queue'[m].op = "upsert"
    BY <1>1, <1>2, <1>3, LogGrows
  <1>5. PageIsSeen'
    BY <1>1, <1>4, SyncTypes DEF PageIsSeen, IInv, history
  <1>6. QueuedExists'
    BY <1>1, <1>4 DEF QueuedExists, IInv
  <1>7. ReadIsCarried'
    BY <1>1, <1>4 DEF ReadIsCarried, IInv
  <1>8. QED
    BY <1>4, <1>5, <1>6, <1>7 DEF IInv

-----------------------------------------------------------------------------
(* The queue, the calls of the application and the dispatches.              *)

LEMMA ClearOpsKeeps ==
  ASSUME IInv, ClearOps
  PROVE  IInv'
  <1>1. /\ UNCHANGED <<local, cursor, cloud, job, inFlight, clock, history, environment>>
        /\ sync' = [NoSync EXCEPT !.pc = "pull"] /\ sync.pc = "post" /\ sync.unsent = {}
        /\ queue' = [r \in Rows |-> IF \E o \in sync.ops : o.row = r THEN NoRow ELSE queue[r]]
    BY DEF ClearOps
  <1>2. /\ sync' \in Sync /\ sync'.pc = "pull" /\ sync'.ops = {} /\ sync'.unread = {}
    BY <1>1 DEF NoSync, Sync
  <1>3. queue' \in [Rows -> Op \cup {NoRow}]
    BY <1>1 DEF IInv, TypeOK
  <1>4. TypeOK'
    BY <1>1, <1>2, <1>3 DEF IInv, TypeOK, history, environment
  <1>5. Grows
    BY <1>1 DEF Grows, history, IInv, TypeOK
  <1>6. PageIsSeen' /\ ReadIsCarried'
    BY <1>2 DEF PageIsSeen, ReadIsCarried
  <1>7. QueuedExists'
    BY <1>1, <1>2 DEF IInv, QueuedExists, Rows
  <1>8. JobsAreShaped' /\ InFlightIsHeld'
    BY <1>1 DEF history, IInv, JobsAreShaped, JobIsShaped, Free, Stamped, Wrote, InFlightIsHeld
  <1>9. SeenIsServed' /\ CursorCovers'
    BY <1>1 DEF history, IInv, SeenIsServed, Served, CursorCovers
  <1>10. MessageNotLost'
    <2>1. \A j \in Jobs : OwesOn(j)
      BY <1>1 DEF OwesOn, Owes
    <2>2. ASSUME NEW m \in Messages, queue[m] # NoRow
          PROVE  queue'[m] # NoRow \/ InCloud(m)'
      <3>1. CASE \E o \in sync.ops : o.row = m
        <4>1. InCloud(m)
          BY <1>1, <3>1 DEF IInv, ReadIsCarried
        <4>2. QED
          BY <1>1, <4>1 DEF InCloud
      <3>2. CASE ~ \E o \in sync.ops : o.row = m
        BY <1>1, <2>2, <3>2 DEF Rows
      <3>3. QED
        BY <3>1, <3>2
    <2>3. QED
      BY <1>1, <1>5, <2>1, <2>2, NotLostKept DEF IInv
  <1>11. QED
    BY <1>4, <1>6, <1>7, <1>8, <1>9, <1>10 DEF IInv

\* What every step of the calls leaves alone.
LEMMA CycleUntouched ==
  ASSUME IInv, Grows, UNCHANGED <<cursor, cloud, sync, seen>>
  PROVE  /\ PageIsSeen' /\ ReadIsCarried' /\ CursorCovers'
         /\ \A o \in sync'.ops : o.row \in Messages => local'[o.row] # NoRow /\ o.op = "upsert"
  <1>1. PageIsSeen' /\ CursorCovers'
    BY DEF IInv, PageIsSeen, CursorCovers
  <1>2. ReadIsCarried'
    BY DEF IInv, ReadIsCarried, InCloud
  <1>3. \A o \in sync'.ops : o.row \in Messages => local'[o.row] # NoRow /\ o.op = "upsert"
    BY DEF IInv, QueuedExists, Grows, Rows
  <1>4. QED
    BY <1>1, <1>2, <1>3

\* A step of one call: the others keep what they had to do.
LEMMA OneJobMoves ==
  ASSUME IInv, TypeOK', Grows, UNCHANGED <<cursor, cloud, sync, seen>>,
         NEW j \in Jobs, \A k \in Jobs \ {j} : job'[k] = job[k],
         JobIsShaped(j)', ServesOn(j), OwesOn(j),
         \A m \in inFlight' : m \in inFlight /\ job[j].for = m /\ job[j].at # "check"
                                => job'[j].for = m /\ job'[j].at # "check",
         \A m \in inFlight' \ inFlight : job'[j].for = m /\ job'[j].at # "check",
         \A m \in Messages : local'[m] # NoRow =>
           local[m] # NoRow \/ InCloud(m)' \/ \E k \in Jobs : Owes(k, m)',
         \A m \in Messages : queue[m] # NoRow => queue'[m] # NoRow \/ InCloud(m)',
         \A m \in Messages : queue'[m] # NoRow => local'[m] # NoRow /\ queue'[m].op = "upsert"
  PROVE  IInv'
  <1>1. /\ PageIsSeen' /\ ReadIsCarried' /\ CursorCovers'
        /\ \A o \in sync'.ops : o.row \in Messages => local'[o.row] # NoRow /\ o.op = "upsert"
    BY CycleUntouched
  <1>2. QueuedExists'
    BY <1>1 DEF QueuedExists
  <1>3. JobsAreShaped'
    <2> SUFFICES ASSUME NEW k \in Jobs
                 PROVE  JobIsShaped(k)'
      BY DEF JobsAreShaped
    <2>1. CASE k = j
      BY <2>1
    <2>2. CASE k # j
      BY <2>2, ShapeKept DEF IInv, JobsAreShaped
    <2>3. QED
      BY <2>1, <2>2
  <1>4. InFlightIsHeld'
    <2> SUFFICES ASSUME NEW m \in inFlight'
                 PROVE  \E k \in Jobs : job'[k].for = m /\ job'[k].at # "check"
      BY DEF InFlightIsHeld
    <2>1. CASE m \notin inFlight
      BY <2>1
    <2>2. CASE m \in inFlight
      <3>1. PICK k \in Jobs : job[k].for = m /\ job[k].at # "check"
        BY <2>2 DEF IInv, InFlightIsHeld
      <3>2. CASE k = j
        BY <2>2, <3>1, <3>2
      <3>3. CASE k # j
        BY <3>1, <3>3
      <3>4. QED
        BY <3>2, <3>3
    <2>3. QED
      BY <2>1, <2>2
  <1>5. SeenIsServed'
    <2>1. \A k \in Jobs : ServesOn(k)
      BY DEF ServesOn
    <2>2. QED
      BY <2>1, ServedKept DEF IInv, SeenIsServed
  <1>6. MessageNotLost'
    <2>1. \A k \in Jobs : OwesOn(k)
      BY DEF OwesOn, Owes
    <2>2. QED
      BY <2>1, NotLostKept DEF IInv
  <1>7. QED
    BY <1>1, <1>2, <1>3, <1>4, <1>5, <1>6 DEF IInv

\* A turn that stays in inFlight keeps the call that will take it out.
Guarded(j) ==
  /\ \A m \in inFlight' : m \in inFlight /\ job[j].for = m /\ job[j].at # "check"
                          => job'[j].for = m /\ job'[j].at # "check"
  /\ \A m \in inFlight' \ inFlight : job'[j].for = m /\ job'[j].at # "check"

LEMMA NoJobIsJob == NoJob \in Job /\ NoJob.for = NoRow /\ NoJob.msg = NoRow /\ NoJob.kind = "none"
                    /\ NoJob.at = "done"
  BY DEF NoJob, Job

\* The end of a call.
LEMMA Leaves ==
  ASSUME IInv, NEW j \in Jobs, NEW passed \in BOOLEAN, Leave(j, passed),
         ~passed => job[j].at = "check"
  PROVE  /\ job' \in [Jobs -> Job] /\ job'[j] = NoJob /\ JobIsShaped(j)'
         /\ \A k \in Jobs \ {j} : job'[k] = job[k]
         /\ inFlight' \subseteq Turns /\ Guarded(j)
  <1>1. job' = [job EXCEPT ![j] = NoJob] /\ job \in [Jobs -> Job]
    BY DEF Leave, IInv, TypeOK
  <1>2. /\ job' \in [Jobs -> Job] /\ job'[j] = NoJob /\ \A k \in Jobs \ {j} : job'[k] = job[k]
    BY <1>1, NoJobIsJob
  <1>3. JobIsShaped(j)'
    BY <1>2, NoJobIsJob DEF JobIsShaped, Free
  <1>4. inFlight' \subseteq inFlight /\ inFlight \subseteq Turns
    BY DEF Leave, IInv, TypeOK
  <1>5. Guarded(j)
    <2> SUFFICES ASSUME NEW m \in inFlight', job[j].for = m, job[j].at # "check"
                 PROVE  FALSE
      BY <1>4 DEF Guarded
    <2>1. job[j].for # NoRow
      BY <1>4 DEF Rows, Messages
    <2>2. job[j].kind = "reply"
      BY <2>1, JobTypes, NoJobIsJob DEF IInv, JobsAreShaped, JobIsShaped, Free
    <2>3. inFlight' = inFlight \ {m}
      BY <2>2 DEF Leave
    <2>4. QED
      BY <2>3
  <1>6. QED
    BY <1>2, <1>3, <1>4, <1>5

\* A call whose next statement is not its last.
LEMMA GoesOn ==
  ASSUME IInv, NEW j \in Jobs, Proceed(j), After(job[j].kind, job[j].at) # "done"
  PROVE  /\ job' \in [Jobs -> Job] /\ \A k \in Jobs \ {j} : job'[k] = job[k]
         /\ job'[j].kind = job[j].kind /\ job'[j].for = job[j].for /\ job'[j].msg = job[j].msg
         /\ job'[j].stamp = job[j].stamp /\ job'[j].op = job[j].op
         /\ job'[j].at = After(job[j].kind, job[j].at)
         /\ inFlight' = inFlight /\ Guarded(j)
  <1> DEFINE next == After(job[j].kind, job[j].at)
  <1>1. job' = [job EXCEPT ![j].at = next] /\ inFlight' = inFlight /\ job \in [Jobs -> Job]
    BY DEF Proceed, IInv, TypeOK
  <1>2. next \in {"message", "conversation", "enqueueConversation", "enqueueMessage"}
    BY DEF After
  <1> HIDE DEF next
  <1>3. job' = [job EXCEPT ![j] = [job[j] EXCEPT !.at = next]]
    BY <1>1
  <1>4. job[j] \in Job
    BY JobTypes DEF IInv
  <1>5. /\ [job[j] EXCEPT !.at = next] \in Job
        /\ job'[j] = [job[j] EXCEPT !.at = next]
    BY <1>1, <1>2, <1>3, <1>4 DEF Job
  <1>6. job' \in [Jobs -> Job] /\ \A k \in Jobs \ {j} : job'[k] = job[k]
    BY <1>1, <1>3, <1>5
  <1>7. /\ job'[j].kind = job[j].kind /\ job'[j].for = job[j].for /\ job'[j].msg = job[j].msg
        /\ job'[j].stamp = job[j].stamp /\ job'[j].op = job[j].op /\ job'[j].at = next
    BY <1>4, <1>5 DEF Job
  <1>8. Guarded(j)
    BY <1>1, <1>2, <1>7 DEF Guarded
  <1>9. QED
    BY <1>1, <1>6, <1>7, <1>8 DEF next

\* A call begins.
LEMMA Begins ==
  ASSUME IInv, NEW j \in Jobs, Free(j), NEW x \in Job, job' = [job EXCEPT ![j] = x],
         inFlight' = inFlight
  PROVE  /\ job' \in [Jobs -> Job] /\ job'[j] = x /\ \A k \in Jobs \ {j} : job'[k] = job[k]
         /\ ServesOn(j) /\ OwesOn(j) /\ Guarded(j)
  <1>1. job[j] = NoJob /\ job \in [Jobs -> Job]
    BY DEF IInv, JobsAreShaped, JobIsShaped, TypeOK
  <1>2. job' \in [Jobs -> Job] /\ job'[j] = x /\ \A k \in Jobs \ {j} : job'[k] = job[k]
    BY <1>1
  <1>3. ServesOn(j)
    BY <1>1, NoJobIsJob DEF ServesOn
  <1>4. OwesOn(j)
    BY <1>1, NoJobIsJob DEF OwesOn, Owes, Rows
  <1>5. Guarded(j)
    BY <1>1, NoJobIsJob DEF Guarded, IInv, TypeOK, Rows, Messages
  <1>6. QED
    BY <1>2, <1>3, <1>4, <1>5

LEMMA EditKeeps ==
  ASSUME IInv, NEW j \in Jobs, NEW live \in BOOLEAN, Edit(j, live)
  PROVE  IInv'
  <1> DEFINE op == IF live THEN "upsert" ELSE "delete"
             x == [NoJob EXCEPT !.kind = "edit", !.at = "enqueueConversation", !.op = op]
             c == [local[Conversation] EXCEPT !.stamp = clock + 1, !.live = live]
  <1>1. /\ UNCHANGED <<queue, cursor, cloud, sync, inFlight, environment, history>>
        /\ Free(j) /\ clock < MaxClock /\ local[Conversation] # NoRow /\ clock' = clock + 1
        /\ job' = [job EXCEPT ![j] = x]
        /\ local' = [local EXCEPT ![Conversation] = c]
    BY DEF Edit
  <1>2. /\ clock \in Nat /\ clock' \in Stamp /\ clock' \in 0..MaxClock /\ clock' > 0
    BY <1>1 DEF IInv, TypeOK, Stamp
  <1>3. local[Conversation] \in Version
    BY <1>1 DEF IInv, TypeOK, Rows
  <1>4. c \in Version /\ c.born = local[Conversation].born
    BY <1>1, <1>2, <1>3 DEF Version
  <1>5. c # NoRow
    BY <1>4
  <1> op \in {"upsert", "delete"}
    OBVIOUS
  <1> HIDE DEF op
  <1>6. x \in Job /\ x.kind = "edit" /\ x.at = "enqueueConversation" /\ x.msg = NoRow /\ x.for = NoRow
    BY DEF NoJob, Job
  <1> HIDE DEF c, x
  <1>7. /\ local' \in [Rows -> Version \cup {NoRow}]
        /\ local'[Conversation] = c /\ \A r \in Rows \ {Conversation} : local'[r] = local[r]
    BY <1>1, <1>4 DEF IInv, TypeOK, Rows
  <1>8. Grows
    BY <1>1, <1>2, <1>4, <1>5, <1>7 DEF Grows, history, IInv, TypeOK
  <1>9. /\ job' \in [Jobs -> Job] /\ job'[j] = x /\ \A k \in Jobs \ {j} : job'[k] = job[k]
        /\ ServesOn(j) /\ OwesOn(j) /\ Guarded(j)
    BY <1>1, <1>6, Begins
  <1>10. TypeOK'
    BY <1>1, <1>2, <1>7, <1>9 DEF IInv, TypeOK, history, environment
  <1>11. JobIsShaped(j)'
    BY <1>2, <1>6, <1>9 DEF JobIsShaped, Free
  <1>12. \A m \in Messages : local'[m] # NoRow => local[m] # NoRow
    BY <1>7 DEF Rows
  <1>13. \A m \in Messages : queue'[m] # NoRow => local'[m] # NoRow /\ queue'[m].op = "upsert"
    BY <1>1, <1>7 DEF IInv, QueuedExists, Rows
  <1>14. UNCHANGED <<cursor, cloud, sync, seen, queue>>
    BY <1>1 DEF history
  <1>15. QED
    BY <1>8, <1>9, <1>10, <1>11, <1>12, <1>13, <1>14, OneJobMoves DEF Guarded

LEMMA MirrorKeeps ==
  ASSUME IInv, NEW j \in Jobs, NEW m \in Messages, Mirror(j, m)
  PROVE  IInv'
  <1> DEFINE x == [NoJob EXCEPT !.kind = "turn", !.at = "conversation", !.msg = m, !.stamp = clock + 1]
  <1>1. /\ UNCHANGED <<local, queue, cursor, cloud, sync, inFlight, environment, history>>
        /\ Free(j) /\ clock < MaxClock /\ clock' = clock + 1
        /\ job' = [job EXCEPT ![j] = x]
    BY DEF Mirror
  <1>2. /\ clock \in Nat /\ clock' \in Stamp /\ clock' \in 0..MaxClock /\ clock' > 0
    BY <1>1 DEF IInv, TypeOK, Stamp
  <1>3. /\ x \in Job /\ x.kind = "turn" /\ x.at = "conversation" /\ x.msg = m /\ x.for = NoRow
        /\ x.op = "upsert" /\ x.stamp = clock'
    BY <1>1, <1>2 DEF NoJob, Job
  <1> HIDE DEF x
  <1>4. Grows
    BY <1>1, <1>2 DEF Grows, history, IInv, TypeOK
  <1>5. /\ job' \in [Jobs -> Job] /\ job'[j] = x /\ \A k \in Jobs \ {j} : job'[k] = job[k]
        /\ ServesOn(j) /\ OwesOn(j) /\ Guarded(j)
    BY <1>1, <1>3, Begins
  <1>6. TypeOK'
    BY <1>1, <1>2, <1>5 DEF IInv, TypeOK, history, environment
  <1>7. JobIsShaped(j)'
    BY <1>2, <1>3, <1>5 DEF JobIsShaped, Free, Stamped, Rows
  <1>8. \A q \in Messages : queue'[q] # NoRow => local'[q] # NoRow /\ queue'[q].op = "upsert"
    BY <1>1 DEF IInv, QueuedExists
  <1>9. UNCHANGED <<local, cursor, cloud, sync, seen, queue>>
    BY <1>1 DEF history
  <1>10. QED
    BY <1>4, <1>5, <1>6, <1>7, <1>8, <1>9, OneJobMoves DEF Guarded

LEMMA WriteConversationKeeps ==
  ASSUME IInv, NEW j \in Jobs, WriteConversation(j)
  PROVE  IInv'
  <1> DEFINE t   == job[j].stamp
             old == local[Conversation]
  <1>1. /\ UNCHANGED <<queue, cursor, cloud, sync, clock, environment, history>>
        /\ job[j].at = "conversation" /\ Proceed(j)
        /\ local' = CASE old # NoRow -> [local EXCEPT ![Conversation].stamp = t]
                      [] old = NoRow /\ job[j].kind = "turn" ->
                           [local EXCEPT ![Conversation] = [stamp |-> t, live |-> TRUE, born |-> 1]]
                      [] OTHER -> local
    BY DEF WriteConversation
  <1>2. /\ job[j].kind \in {"turn", "reply"} /\ Stamped(j) /\ JobIsShaped(j)
    BY <1>1, JobTypes, NoJobIsJob DEF IInv, JobsAreShaped, JobIsShaped, Free
  <1>3. t \in Stamp /\ 1 \in Stamp /\ Conversation \in Rows /\ local \in [Rows -> Version \cup {NoRow}]
    BY <1>2, JobTypes DEF Stamped, Stamp, IInv, TypeOK, Rows
  <1> HIDE DEF t
  <1>4. /\ local' \in [Rows -> Version \cup {NoRow}]
        /\ \A r \in Rows \ {Conversation} : local'[r] = local[r]
        /\ old # NoRow => local'[Conversation] # NoRow /\ local'[Conversation].born = old.born
    <2>1. CASE old # NoRow
      <3> DEFINE c == [old EXCEPT !.stamp = t]
      <3>1. old \in Version
        BY <1>3, <2>1
      <3>2. c \in Version /\ c.born = old.born
        BY <1>3, <3>1 DEF Version
      <3>3. c # NoRow
        BY <3>2
      <3>4. local' = [local EXCEPT ![Conversation] = c]
        BY <1>1, <2>1
      <3> HIDE DEF c
      <3>5. QED
        BY <1>3, <3>2, <3>3, <3>4
    <2>2. CASE old = NoRow /\ job[j].kind = "turn"
      <3> DEFINE c == [stamp |-> t, live |-> TRUE, born |-> 1]
      <3>1. c \in Version
        BY <1>3 DEF Version
      <3>2. local' = [local EXCEPT ![Conversation] = c]
        BY <1>1, <2>2
      <3> HIDE DEF c
      <3>3. QED
        BY <1>3, <2>2, <3>1, <3>2
    <2>3. CASE old = NoRow /\ job[j].kind # "turn"
      BY <1>1, <1>3, <2>3
    <2>4. QED
      BY <2>1, <2>2, <2>3
  <1>5. Grows
    BY <1>1, <1>3, <1>4 DEF Grows, history, IInv, TypeOK
  <1>6. After(job[j].kind, "conversation") \in {"message", "enqueueMessage"}
    BY <1>2 DEF After
  <1>7. /\ job' \in [Jobs -> Job] /\ \A k \in Jobs \ {j} : job'[k] = job[k]
        /\ job'[j].kind = job[j].kind /\ job'[j].for = job[j].for /\ job'[j].msg = job[j].msg
        /\ job'[j].stamp = job[j].stamp /\ job'[j].op = job[j].op
        /\ job'[j].at = After(job[j].kind, job[j].at)
        /\ inFlight' = inFlight /\ Guarded(j)
    BY <1>1, <1>6, GoesOn
  <1>8. TypeOK'
    BY <1>1, <1>4, <1>7 DEF IInv, TypeOK, history, environment
  <1>9. JobIsShaped(j)'
    <2>1. job'[j].msg \in Rows /\ Stamped(j)'
      BY <1>1, <1>2, <1>7, JobTypes DEF Stamped, IInv, Rows
    <2>2. CASE job[j].kind = "turn"
      BY <1>1, <1>2, <1>7, <2>1, <2>2 DEF JobIsShaped, Free, After
    <2>3. CASE job[j].kind = "reply"
      <3>1. Wrote(j)'
        BY <1>1, <1>2, <1>5, <1>7, <2>1, <2>3 DEF JobIsShaped, Wrote, Grows
      <3>2. answered' = answered
        BY <1>1 DEF history
      <3>3. QED
        BY <1>1, <1>2, <1>7, <2>1, <2>3, <3>1, <3>2 DEF JobIsShaped, Free, After
    <2>4. QED
      BY <1>2, <2>2, <2>3
  <1>10. ServesOn(j) /\ OwesOn(j)
    BY <1>1, <1>2, <1>6, <1>7 DEF ServesOn, OwesOn, Owes
  <1>11. \A m \in Messages : local'[m] # NoRow => local[m] # NoRow
    BY <1>4 DEF Rows
  <1>12. \A m \in Messages : queue'[m] # NoRow => local'[m] # NoRow /\ queue'[m].op = "upsert"
    BY <1>1, <1>4 DEF IInv, QueuedExists, Rows
  <1>13. UNCHANGED <<cursor, cloud, sync, seen, queue>>
    BY <1>1 DEF history
  <1>14. QED
    BY <1>5, <1>7, <1>8, <1>9, <1>10, <1>11, <1>12, <1>13, OneJobMoves DEF Guarded

LEMMA WriteMessageKeeps ==
  ASSUME IInv, NEW j \in Jobs, WriteMessage(j)
  PROVE  IInv'
  <1> DEFINE t == job[j].stamp
             m == job[j].msg
             c == [stamp |-> t, live |-> TRUE, born |-> t]
  <1>1. /\ UNCHANGED <<queue, cursor, cloud, sync, clock, environment, seen, dropped, lapse>>
        /\ job[j].at = "message" /\ Proceed(j)
        /\ local' = IF local[m] = NoRow THEN [local EXCEPT ![m] = c] ELSE local
        /\ answered' = answered \cup (IF job[j].kind = "reply" THEN {job[j].for} ELSE {})
    BY DEF WriteMessage
  <1>2. /\ job[j].kind \in {"turn", "reply"} /\ Stamped(j) /\ JobIsShaped(j)
    BY <1>1, JobTypes, NoJobIsJob DEF IInv, JobsAreShaped, JobIsShaped, Free
  <1>3. /\ t \in Stamp /\ m \in Messages /\ m \in Rows /\ local \in [Rows -> Version \cup {NoRow}]
    BY <1>2, JobTypes DEF Stamped, Stamp, IInv, TypeOK, Rows
  <1>4. c \in Version
    BY <1>3 DEF Version
  <1>5. job[j].kind = "reply" => job[j].for \in Turns
    BY <1>2, JobTypes DEF JobIsShaped, IInv
  <1> HIDE DEF t, m, c
  <1>6. /\ local' \in [Rows -> Version \cup {NoRow}] /\ local'[m] # NoRow
        /\ \A r \in Rows : r # m \/ local[r] # NoRow => local'[r] = local[r]
    BY <1>1, <1>3, <1>4
  <1>7. Grows
    BY <1>1, <1>3, <1>6 DEF Grows, IInv, TypeOK
  <1>8. After(job[j].kind, "message") \in {"conversation", "enqueueConversation"}
    BY <1>2 DEF After
  <1>9. /\ job' \in [Jobs -> Job] /\ \A k \in Jobs \ {j} : job'[k] = job[k]
        /\ job'[j].kind = job[j].kind /\ job'[j].for = job[j].for /\ job'[j].msg = m
        /\ job'[j].stamp = job[j].stamp /\ job'[j].op = job[j].op
        /\ job'[j].at = After(job[j].kind, job[j].at)
        /\ inFlight' = inFlight /\ Guarded(j)
    BY <1>1, <1>8, GoesOn DEF m
  <1>10. TypeOK'
    BY <1>1, <1>5, <1>6, <1>9 DEF IInv, TypeOK, environment
  <1>11. JobIsShaped(j)'
    <2>1. m # NoRow /\ Stamped(j)' /\ Wrote(j)'
      BY <1>1, <1>2, <1>3, <1>6, <1>9 DEF Stamped, Wrote, Rows
    <2>2. CASE job[j].kind = "turn"
      BY <1>1, <1>2, <1>9, <2>1, <2>2 DEF JobIsShaped, Free, After
    <2>3. CASE job[j].kind = "reply"
      BY <1>1, <1>2, <1>9, <2>1, <2>3 DEF JobIsShaped, Free, After
    <2>4. QED
      BY <1>2, <2>2, <2>3
  <1>12. ServesOn(j) /\ OwesOn(j)
    <2>1. job'[j].at \in {"conversation", "enqueueConversation"}
          /\ (job[j].kind = "reply" => job'[j].at = "conversation")
      BY <1>1, <1>2, <1>9 DEF After
    <2>2. QED
      BY <1>9, <2>1 DEF ServesOn, OwesOn, Owes, m
  <1>13. \A q \in Messages : q = m => Owes(j, q)'
    BY <1>1, <1>2, <1>9 DEF Owes, After
  <1>14. \A q \in Messages : local'[q] # NoRow => local[q] # NoRow \/ \E k \in Jobs : Owes(k, q)'
    BY <1>6, <1>13 DEF Rows
  <1>15. \A q \in Messages : queue'[q] # NoRow => local'[q] # NoRow /\ queue'[q].op = "upsert"
    BY <1>1, <1>6 DEF IInv, QueuedExists, Rows
  <1>16. UNCHANGED <<cursor, cloud, sync, seen, queue>>
    BY <1>1
  <1>17. QED
    BY <1>7, <1>9, <1>10, <1>11, <1>12, <1>14, <1>15, <1>16, OneJobMoves DEF Guarded

\* Proceed at one of the two enqueues, whatever happened to the statement: the next one
\* or the end.
LEMMA EnqueueProceeds ==
  ASSUME IInv, NEW j \in Jobs, Proceed(j),
         job[j].at \in {"enqueueConversation", "enqueueMessage"},
         UNCHANGED <<local, answered, clock>>, dropped \subseteq dropped',
         job[j].at = "enqueueMessage" => queue'[job[j].msg] # NoRow \/ job[j].msg \in dropped'
  PROVE  /\ job' \in [Jobs -> Job] /\ inFlight' \subseteq Turns
         /\ \A k \in Jobs \ {j} : job'[k] = job[k]
         /\ JobIsShaped(j)' /\ ServesOn(j) /\ OwesOn(j) /\ Guarded(j)
  <1>1. /\ job[j].kind \in {"edit", "turn", "reply"} /\ JobIsShaped(j)
    BY JobTypes, NoJobIsJob DEF IInv, JobsAreShaped, JobIsShaped, Free
  <1>2. CASE After(job[j].kind, job[j].at) = "done"
    <2>1. Leave(j, TRUE)
      BY <1>2 DEF Proceed
    <2>2. /\ job' \in [Jobs -> Job] /\ job'[j] = NoJob /\ JobIsShaped(j)'
          /\ \A k \in Jobs \ {j} : job'[k] = job[k]
          /\ inFlight' \subseteq Turns /\ Guarded(j)
      BY <2>1, Leaves
    <2>3. ServesOn(j)
      BY <1>1 DEF ServesOn, JobIsShaped
    <2>4. OwesOn(j)
      <3>1. job[j].kind = "turn" => job[j].at = "enqueueMessage"
        BY <1>1, <1>2 DEF After
      <3>2. job[j].kind = "reply" => job[j].at = "enqueueConversation"
        BY <1>1, <1>2 DEF After
      <3>3. job[j].kind = "edit" => job[j].msg = NoRow
        BY <1>1 DEF JobIsShaped
      <3>4. QED
        BY <1>1, <3>1, <3>2, <3>3 DEF OwesOn, Owes, Rows
    <2>5. QED
      BY <2>2, <2>3, <2>4
  <1>3. CASE After(job[j].kind, job[j].at) # "done"
    <2>1. /\ job' \in [Jobs -> Job] /\ \A k \in Jobs \ {j} : job'[k] = job[k]
          /\ job'[j].kind = job[j].kind /\ job'[j].for = job[j].for /\ job'[j].msg = job[j].msg
          /\ job'[j].stamp = job[j].stamp /\ job'[j].op = job[j].op
          /\ job'[j].at = After(job[j].kind, job[j].at)
          /\ inFlight' = inFlight /\ Guarded(j)
      BY <1>3, GoesOn
    <2>2. \/ job[j].kind = "turn" /\ job[j].at = "enqueueConversation" /\ job'[j].at = "enqueueMessage"
          \/ job[j].kind = "reply" /\ job[j].at = "enqueueMessage" /\ job'[j].at = "enqueueConversation"
      BY <1>1, <1>3, <2>1 DEF After
    <2>3. JobIsShaped(j)'
      BY <1>1, <2>1, <2>2 DEF JobIsShaped, Free, Stamped, Wrote
    <2>4. ServesOn(j) /\ OwesOn(j)
      BY <2>1, <2>2 DEF ServesOn, OwesOn, Owes
    <2>5. inFlight' \subseteq Turns
      BY <2>1 DEF IInv, TypeOK
    <2>6. QED
      BY <2>1, <2>3, <2>4, <2>5
  <1>4. QED
    BY <1>2, <1>3

LEMMA EnqueueKeeps ==
  ASSUME IInv, NEW j \in Jobs, EnqueueConversation(j) \/ EnqueueMessage(j)
  PROVE  IInv'
  <1> DEFINE r  == Queued(j)
             op == IF job[j].at = "enqueueMessage" THEN "upsert" ELSE job[j].op
             q  == [op |-> op, at |-> IF op = "delete" THEN clock ELSE 1]
  <1>1. /\ UNCHANGED <<local, cursor, cloud, sync, clock, environment,
                     seen, answered, dropped>>
        /\ job[j].at \in {"enqueueConversation", "enqueueMessage"} /\ Proceed(j)
        /\ queue' = [queue EXCEPT ![r] = q]
    BY DEF EnqueueConversation, EnqueueMessage, Enqueue, Queued
  <1>2. /\ job[j].kind \in {"edit", "turn", "reply"} /\ JobIsShaped(j)
    BY <1>1, JobTypes, NoJobIsJob DEF IInv, JobsAreShaped, JobIsShaped, Free
  <1>3. clock \in Stamp /\ 1 \in Stamp /\ op \in {"upsert", "delete"}
    BY <1>1, <1>2, JobTypes DEF JobIsShaped, Stamped, Stamp, IInv, TypeOK
  <1>4. job[j].at = "enqueueMessage" =>
          r \in Messages /\ r = job[j].msg /\ local[r] # NoRow /\ op = "upsert"
    BY <1>1, <1>2, JobTypes DEF Queued, JobIsShaped, Stamped, Wrote, IInv
  <1>5. job[j].at # "enqueueMessage" => r = Conversation
    BY DEF Queued
  <1> HIDE DEF op, r
  <1>6. q \in Op /\ q # NoRow /\ q.op = op
    <2>1. q \in Op
      BY <1>3 DEF Op
    <2>2. QED
      BY <2>1
  <1> HIDE DEF q
  <1>7. r \in Rows
    BY <1>4, <1>5 DEF Rows
  <1>8. /\ queue' \in [Rows -> Op \cup {NoRow}] /\ queue'[r] = q
        /\ \A x \in Rows \ {r} : queue'[x] = queue[x]
    BY <1>1, <1>6, <1>7 DEF IInv, TypeOK
  <1>9. /\ job' \in [Jobs -> Job] /\ inFlight' \subseteq Turns
        /\ \A k \in Jobs \ {j} : job'[k] = job[k]
        /\ JobIsShaped(j)' /\ ServesOn(j) /\ OwesOn(j) /\ Guarded(j)
    BY <1>1, <1>4, <1>6, <1>8, EnqueueProceeds
  <1>10. Grows
    BY <1>1 DEF Grows, IInv, TypeOK
  <1>11. TypeOK'
    <2>1. lapse' \in Lapses
      BY DEF EnqueueConversation, EnqueueMessage, IInv, TypeOK, Lapses
    <2>2. QED
      BY <1>1, <1>8, <1>9, <2>1 DEF IInv, TypeOK, environment
  <1>12. \A m \in Messages : queue'[m] # NoRow => local'[m] # NoRow /\ queue'[m].op = "upsert"
    BY <1>1, <1>4, <1>5, <1>6, <1>8 DEF IInv, QueuedExists, Rows
  <1>13. \A m \in Messages : queue[m] # NoRow => queue'[m] # NoRow
    BY <1>6, <1>8 DEF Rows
  <1>14. UNCHANGED <<local, cursor, cloud, sync, seen>>
    BY <1>1
  <1>15. QED
    BY <1>9, <1>10, <1>11, <1>12, <1>13, <1>14, OneJobMoves DEF Guarded

LEMMA EnqueueFailsKeeps ==
  ASSUME IInv, NEW j \in Jobs, EnqueueFails(j)
  PROVE  IInv'
  <1>1. /\ UNCHANGED <<local, queue, cursor, cloud, sync, clock, running, seen, answered>>
        /\ job[j].at \in {"enqueueConversation", "enqueueMessage"} /\ Proceed(j)
        /\ dropped' = dropped \cup ({Queued(j)} \cap Messages) /\ faults' = faults + 1
        /\ LapseOf(job[j].at = "enqueueConversation")
    BY DEF EnqueueFails, Fault
  <1>2. job[j].at = "enqueueMessage" => Queued(j) = job[j].msg /\ job[j].msg \in Messages
    BY <1>1, JobTypes, NoJobIsJob DEF IInv, JobsAreShaped, JobIsShaped, Free, Stamped, Queued
  <1>3. dropped' \subseteq Messages
    BY <1>1 DEF IInv, TypeOK
  <1>4. /\ job' \in [Jobs -> Job] /\ inFlight' \subseteq Turns
        /\ \A k \in Jobs \ {j} : job'[k] = job[k]
        /\ JobIsShaped(j)' /\ ServesOn(j) /\ OwesOn(j) /\ Guarded(j)
    BY <1>1, <1>2, EnqueueProceeds
  <1>5. Grows
    BY <1>1 DEF Grows, IInv, TypeOK
  <1>6. TypeOK'
    <2>1. lapse' \in Lapses
      BY <1>1 DEF IInv, TypeOK, LapseOf, Lapses
    <2>2. QED
      BY <1>1, <1>3, <1>4, <2>1 DEF IInv, TypeOK
  <1>7. \A m \in Messages : queue'[m] # NoRow => local'[m] # NoRow /\ queue'[m].op = "upsert"
    BY <1>1 DEF IInv, QueuedExists
  <1>8. UNCHANGED <<local, cursor, cloud, sync, seen, queue>>
    BY <1>1
  <1>9. QED
    BY <1>4, <1>5, <1>6, <1>7, <1>8, OneJobMoves DEF Guarded

\* A call that gives up leaves its message and its turn in dropped.
LEMMA GivesUp ==
  ASSUME IInv, NEW j \in Jobs, NEW passed \in BOOLEAN, Leave(j, passed),
         ~passed => job[j].at = "check", NEW left \in SUBSET Messages,
         dropped' = dropped \cup left,
         UNCHANGED <<local, queue, cursor, cloud, sync, clock, running, seen, answered>>,
         faults' \in Nat, lapse' \in Lapses, ServesOn(j), OwesOn(j)
  PROVE  IInv'
  <1>1. /\ job' \in [Jobs -> Job] /\ job'[j] = NoJob /\ JobIsShaped(j)'
        /\ \A k \in Jobs \ {j} : job'[k] = job[k]
        /\ inFlight' \subseteq Turns /\ Guarded(j)
    BY Leaves
  <1>2. Grows
    BY DEF Grows, IInv, TypeOK
  <1>3. TypeOK'
    BY <1>1 DEF IInv, TypeOK
  <1>4. \A m \in Messages : queue'[m] # NoRow => local'[m] # NoRow /\ queue'[m].op = "upsert"
    BY DEF IInv, QueuedExists
  <1>5. QED
    BY <1>1, <1>2, <1>3, <1>4, OneJobMoves DEF Guarded

LEMMA JobFailsKeeps ==
  ASSUME IInv, NEW j \in Jobs, JobFails(j)
  PROVE  IInv'
  <1> DEFINE passed == job[j].at # "check"
             left   == Concerns(j)
  <1>1. /\ UNCHANGED <<local, queue, cursor, cloud, sync, clock, running, seen, answered>>
        /\ Leave(j, passed) /\ dropped' = dropped \cup left /\ faults' = faults + 1
    BY DEF JobFails, Fault
  <1>2. left \subseteq Messages
    BY JobTypes DEF IInv, Messages, Concerns
  <1>3. ServesOn(j)
    BY <1>1 DEF ServesOn, Concerns
  <1>4. OwesOn(j)
    BY <1>1, RowsAssumption DEF OwesOn, Owes, Concerns, Rows
  <1>5. faults' \in Nat /\ lapse' \in Lapses
    BY <1>1 DEF IInv, TypeOK, JobFails, LapseOf, Lapses
  <1>6. passed \in BOOLEAN /\ (~passed => job[j].at = "check")
    OBVIOUS
  <1> HIDE DEF left, passed
  <1>7. QED
    BY <1>1, <1>2, <1>3, <1>4, <1>5, <1>6, GivesUp

LEMMA ClaudeFailsKeeps ==
  ASSUME IInv, NEW j \in Jobs, ClaudeFails(j)
  PROVE  IInv'
  <1> DEFINE left == {job[j].for}
  <1>1. /\ UNCHANGED <<local, queue, cursor, cloud, sync, clock, running, seen, answered>>
        /\ Leave(j, TRUE) /\ dropped' = dropped \cup left /\ faults' = faults + 1
        /\ job[j].at = "claude"
    BY DEF ClaudeFails, Fault
  <1>2. left \subseteq Messages
    BY <1>1, JobTypes, NoJobIsJob DEF IInv, Messages, JobsAreShaped, JobIsShaped, Free
  <1>3. ServesOn(j)
    BY <1>1 DEF ServesOn
  <1>4. faults' \in Nat /\ lapse' \in Lapses
    BY <1>1 DEF IInv, TypeOK, ClaudeFails
  <1>5. OwesOn(j)
    BY <1>1, JobTypes, NoJobIsJob DEF IInv, Rows, JobsAreShaped, JobIsShaped, Free, OwesOn, Owes
  <1> HIDE DEF left
  <1>6. QED
    BY <1>1, <1>2, <1>3, <1>4, <1>5, GivesUp

LEMMA CheckKeeps ==
  ASSUME IInv, NEW j \in Jobs, Check(j)
  PROVE  IInv'
  <1>1. /\ UNCHANGED <<local, queue, cursor, cloud, sync, clock, environment, history>>
        /\ job[j].at = "check"
    BY DEF Check
  <1>2. job[j].kind = "reply" /\ JobIsShaped(j) /\ job[j].for \in Turns /\ job[j].msg = NoRow
    BY <1>1, JobTypes, NoJobIsJob DEF IInv, JobsAreShaped, JobIsShaped, Free
  <1>3. Grows
    BY <1>1 DEF Grows, IInv, TypeOK, history
  <1>4. OwesOn(j)
    BY <1>2 DEF OwesOn, Owes, Rows
  <1>5. /\ job' \in [Jobs -> Job] /\ JobIsShaped(j)' /\ inFlight' \subseteq Turns
        /\ \A k \in Jobs \ {j} : job'[k] = job[k]
        /\ ServesOn(j) /\ Guarded(j)
    <2>1. CASE RepliedSince(job[j].stamp)
      <3>1. Leave(j, FALSE)
        BY <2>1 DEF Check
      <3>2. ServesOn(j)
        BY <1>1, <2>1 DEF ServesOn
      <3>3. QED
        BY <1>1, <3>1, <3>2, Leaves
    <2>2. CASE ~RepliedSince(job[j].stamp)
      <3> DEFINE x == [job[j] EXCEPT !.at = "claude"]
      <3>1. /\ inFlight' = inFlight \cup {job[j].for}
            /\ job' = [job EXCEPT ![j] = x] /\ job \in [Jobs -> Job]
        BY <2>2 DEF Check, IInv, TypeOK
      <3>2. /\ x \in Job /\ x.kind = "reply" /\ x.at = "claude" /\ x.for = job[j].for
            /\ x.msg = NoRow /\ x.op = job[j].op
        BY <1>2, JobTypes DEF Job, IInv
      <3> HIDE DEF x
      <3>3. job' \in [Jobs -> Job] /\ job'[j] = x /\ \A k \in Jobs \ {j} : job'[k] = job[k]
        BY <3>1, <3>2
      <3>4. JobIsShaped(j)'
        BY <1>2, <3>2, <3>3 DEF JobIsShaped, Free
      <3>5. inFlight' \subseteq Turns
        BY <1>2, <3>1 DEF IInv, TypeOK
      <3>6. ServesOn(j) /\ Guarded(j)
        BY <1>1, <3>1, <3>2, <3>3 DEF ServesOn, Guarded
      <3>7. QED
        BY <3>3, <3>4, <3>5, <3>6
    <2>3. QED
      BY <2>1, <2>2
  <1>6. TypeOK'
    BY <1>1, <1>5 DEF IInv, TypeOK, history, environment
  <1>7. \A m \in Messages : queue'[m] # NoRow => local'[m] # NoRow /\ queue'[m].op = "upsert"
    BY <1>1 DEF IInv, QueuedExists
  <1>8. UNCHANGED <<local, queue, cursor, cloud, sync, seen>>
    BY <1>1 DEF history
  <1>9. QED
    BY <1>3, <1>4, <1>5, <1>6, <1>7, <1>8, OneJobMoves DEF Guarded

LEMMA ClaudeAnswersKeeps ==
  ASSUME IInv, NEW j \in Jobs, NEW r \in Replies, ClaudeAnswers(j, r)
  PROVE  IInv'
  <1> DEFINE x == [job[j] EXCEPT !.at = After("reply", "claude"), !.msg = r, !.stamp = clock + 1]
  <1>1. /\ UNCHANGED <<local, queue, cursor, cloud, sync, inFlight, environment, history>>
        /\ job[j].at = "claude" /\ clock < MaxClock /\ clock' = clock + 1
        /\ job' = [job EXCEPT ![j] = x] /\ job \in [Jobs -> Job]
    BY DEF ClaudeAnswers, IInv, TypeOK
  <1>2. job[j].kind = "reply" /\ JobIsShaped(j) /\ job[j].msg = NoRow
    BY <1>1, JobTypes, NoJobIsJob DEF IInv, JobsAreShaped, JobIsShaped, Free
  <1>3. clock \in Nat /\ clock' \in Stamp /\ clock' \in 0..MaxClock /\ clock' > 0
    BY <1>1 DEF IInv, TypeOK, Stamp
  <1>4. After("reply", "claude") = "message" /\ r \in Messages
    BY DEF After, Messages
  <1>5. /\ x \in Job /\ x.kind = "reply" /\ x.at = "message" /\ x.for = job[j].for
        /\ x.msg = r /\ x.op = job[j].op /\ x.stamp = clock'
    <2>1. job[j] \in Job
      BY <1>1
    <2>2. x = [job[j] EXCEPT !.at = "message", !.msg = r, !.stamp = clock']
      BY <1>1, <1>4
    <2> HIDE DEF x
    <2>3. r \in Messages \cup {NoRow} /\ clock' \in Stamp \cup {0}
      BY <1>3, <1>4
    <2>4. QED
      BY <1>2, <2>1, <2>2, <2>3 DEF Job
  <1> HIDE DEF x
  <1>6. job' \in [Jobs -> Job] /\ job'[j] = x /\ \A k \in Jobs \ {j} : job'[k] = job[k]
    BY <1>1, <1>5
  <1>7. JobIsShaped(j)'
    BY <1>2, <1>3, <1>4, <1>5, <1>6 DEF JobIsShaped, Free, Stamped, Rows
  <1>8. ServesOn(j) /\ OwesOn(j) /\ Guarded(j)
    BY <1>1, <1>2, <1>5, <1>6 DEF ServesOn, OwesOn, Owes, Guarded, Rows
  <1>9. Grows
    BY <1>1, <1>3 DEF Grows, IInv, TypeOK, history
  <1>10. TypeOK'
    BY <1>1, <1>3, <1>6 DEF IInv, TypeOK, history, environment
  <1>11. \A m \in Messages : queue'[m] # NoRow => local'[m] # NoRow /\ queue'[m].op = "upsert"
    BY <1>1 DEF IInv, QueuedExists
  <1>12. UNCHANGED <<local, queue, cursor, cloud, sync, seen>>
    BY <1>1 DEF history
  <1>13. QED
    BY <1>6, <1>7, <1>8, <1>9, <1>10, <1>11, <1>12, OneJobMoves DEF Guarded

-----------------------------------------------------------------------------
(* An item is applied.                                                      *)

LEMMA ItemApplied ==
  ASSUME IInv, sync.pc = "apply"
  PROVE  /\ sync.pos + 1 \in 1..Len(cloud) /\ cloud[sync.pos + 1] \in Item
         /\ cursor <= sync.pos /\ sync.pos < sync.upto /\ sync.upto <= Len(cloud)
         /\ Len(cloud) \in Nat /\ cursor \in Nat
         /\ \A i \in 1..sync.pos : i \in seen
  <1>1. /\ sync.pos \in Nat /\ sync.upto \in Nat /\ cloud \in Seq(Item) /\ Len(cloud) \in Nat
        /\ cursor \in Nat
    BY SyncTypes DEF IInv, TypeOK
  <1>2. /\ cursor <= sync.pos /\ sync.pos < sync.upto /\ sync.upto <= Len(cloud)
        /\ \A i \in 1..sync.pos : i \in seen
    BY DEF IInv, PageIsSeen
  <1>3. sync.pos + 1 \in 1..Len(cloud)
    BY <1>1, <1>2
  <1>4. QED
    BY <1>1, <1>2, <1>3

LEMMA AppliedRow ==
  ASSUME IInv, NEW it \in Item, it.row \in Rows
  PROVE  /\ Applied(it) \in Version \cup {NoRow}
         /\ local[it.row] # NoRow => Applied(it) # NoRow /\ Applied(it).born = local[it.row].born
  <1> DEFINE old == local[it.row]
  <1>1. old \in Version \cup {NoRow}
    BY DEF IInv, TypeOK
  <1>2. it.stamp \in Stamp /\ it.live \in BOOLEAN /\ it.born \in Stamp
    BY DEF Item
  <1>3. CASE old = NoRow /\ ~it.live
    BY <1>3 DEF Applied
  <1>4. CASE old = NoRow /\ it.live
    BY <1>2, <1>4 DEF Applied, Version
  <1>5. CASE old # NoRow /\ it.stamp > old.stamp
    <2> DEFINE v == [stamp |-> it.stamp, live |-> it.live, born |-> old.born]
    <2>1. Applied(it) = v
      BY <1>5 DEF Applied
    <2>2. v \in Version /\ v.born = old.born
      BY <1>1, <1>2, <1>5 DEF Version
    <2>3. v # NoRow
      BY <2>2
    <2>4. QED
      BY <2>1, <2>2, <2>3
  <1>6. CASE old # NoRow /\ ~(it.stamp > old.stamp)
    BY <1>1, <1>6 DEF Applied
  <1>7. QED
    BY <1>3, <1>4, <1>5, <1>6

\* The turn of the item has a call from now on, or has had one.
LEMMA Dispatched ==
  ASSUME IInv, NEW it \in Item, it.row \in Turns, Dispatch(it)
  PROVE  /\ job' \in [Jobs -> Job]
         /\ \E j \in Jobs : /\ job'[j].for = it.row
                            /\ job'[j].at = "check" => job'[j].stamp = it.born
         /\ \A k \in Jobs : \/ job'[k] = job[k]
                            \/ /\ job[k] = NoJob /\ JobIsShaped(k)'
                               /\ job'[k].msg = NoRow
  <1>1. job \in [Jobs -> Job]
    BY DEF IInv, TypeOK
  <1>2. CASE it.row \in inFlight
    BY <1>1, <1>2 DEF Dispatch, IInv, InFlightIsHeld
  <1>3. CASE it.row \notin inFlight
    <2> DEFINE x == [NoJob EXCEPT !.kind = "reply", !.at = "check", !.for = it.row, !.stamp = it.born]
    <2>1. PICK j \in Jobs : Free(j) /\ job' = [job EXCEPT ![j] = x]
      BY <1>3 DEF Dispatch
    <2>2. /\ x \in Job /\ x.kind = "reply" /\ x.at = "check" /\ x.for = it.row /\ x.stamp = it.born
          /\ x.msg = NoRow /\ x.op = "upsert"
      BY DEF NoJob, Job, Item
    <2> HIDE DEF x
    <2>3. job' \in [Jobs -> Job] /\ job'[j] = x /\ \A k \in Jobs \ {j} : job'[k] = job[k]
      BY <1>1, <2>1, <2>2
    <2>4. job[j] = NoJob
      BY <2>1 DEF IInv, JobsAreShaped, JobIsShaped
    <2>5. JobIsShaped(j)'
      BY <2>2, <2>3 DEF JobIsShaped, Free, Rows, Messages
    <2>6. QED
      BY <2>2, <2>3, <2>4, <2>5
  <1>4. QED
    BY <1>2, <1>3

LEMMA NextPosMoves ==
  ASSUME IInv, sync.pc = "apply", NextPos
  PROVE  /\ sync' \in Sync /\ sync'.pos = sync.pos + 1 /\ sync'.upto = sync.upto
         /\ sync'.ops = sync.ops /\ sync'.unread = sync.unread
         /\ sync'.pc \in {"apply", "save"}
         /\ sync'.pc = "apply" => sync.pos + 1 # sync.upto
  <1> DEFINE pc == IF sync.pos + 1 = sync.upto THEN "save" ELSE "apply"
             n  == sync.pos + 1
  <1>1. sync \in Sync /\ n \in Nat
    BY SyncTypes DEF IInv
  <1>2. sync' = [sync EXCEPT !.pos = n, !.pc = pc]
    BY DEF NextPos
  <1> HIDE DEF n
  <1>3. QED
    BY <1>1, <1>2 DEF Sync, n

LEMMA ApplyItemKeeps ==
  ASSUME IInv, ApplyItem
  PROVE  IInv'
  <1> DEFINE n  == sync.pos + 1
             it == cloud[n]
  <1>1. /\ UNCHANGED <<queue, cursor, cloud, inFlight, clock, environment, answered, dropped, lapse>>
        /\ sync.pc = "apply" /\ seen' = seen \cup {n} /\ NextPos
        /\ local' = IF it.row \in Rows THEN [local EXCEPT ![it.row] = Applied(it)] ELSE local
        /\ IF it.row \in Turns /\ it.live THEN Dispatch(it) ELSE UNCHANGED job
    BY DEF ApplyItem
  <1>2. /\ n \in 1..Len(cloud) /\ it \in Item /\ n \in Nat /\ Len(cloud) \in Nat
        /\ cursor <= sync.pos /\ sync.pos < sync.upto /\ sync.upto <= Len(cloud) /\ cursor \in Nat
        /\ sync.pos \in Nat /\ sync.upto \in Nat /\ \A i \in 1..sync.pos : i \in seen
    BY <1>1, ItemApplied, SyncTypes DEF IInv
  <1>3. /\ local' \in [Rows -> Version \cup {NoRow}]
        /\ \A r \in Rows : local[r] # NoRow =>
             local'[r] # NoRow /\ local'[r].born = local[r].born
        /\ \A r \in Rows : r # it.row => local'[r] = local[r]
    <2> HIDE DEF it
    <2>1. local \in [Rows -> Version \cup {NoRow}]
      BY DEF IInv, TypeOK
    <2>2. CASE it.row \in Rows
      <3> DEFINE v == Applied(it)
      <3>1. /\ v \in Version \cup {NoRow}
            /\ local[it.row] # NoRow => v # NoRow /\ v.born = local[it.row].born
        BY <1>2, <2>2, AppliedRow
      <3>2. local' = [local EXCEPT ![it.row] = v]
        BY <1>1, <2>2
      <3> HIDE DEF v
      <3>3. QED
        BY <2>1, <2>2, <3>1, <3>2
    <2>3. CASE it.row \notin Rows
      BY <1>1, <2>1, <2>3
    <2>4. QED
      BY <2>2, <2>3
  <1>4. /\ sync' \in Sync /\ sync'.pos = n /\ sync'.upto = sync.upto
        /\ sync'.ops = sync.ops /\ sync'.unread = sync.unread
        /\ sync'.pc \in {"apply", "save"} /\ (sync'.pc = "apply" => n # sync.upto)
    BY <1>1, NextPosMoves
  <1>5. Grows
    BY <1>1, <1>3 DEF Grows, IInv, TypeOK
  <1>6. /\ job' \in [Jobs -> Job]
        /\ \A k \in Jobs : \/ job'[k] = job[k]
                           \/ job[k] = NoJob /\ JobIsShaped(k)' /\ job'[k].msg = NoRow
    <2> HIDE DEF it
    <2>1. CASE it.row \in Turns /\ it.live
      BY <1>1, <1>2, <2>1, Dispatched
    <2>2. CASE ~(it.row \in Turns /\ it.live)
      BY <1>1, <2>2 DEF IInv, TypeOK
    <2>3. QED
      BY <2>1, <2>2
  <1>7. TypeOK'
    BY <1>1, <1>2, <1>3, <1>4, <1>6 DEF IInv, TypeOK, environment
  <1>8. JobsAreShaped'
    <2> SUFFICES ASSUME NEW k \in Jobs
                 PROVE  JobIsShaped(k)'
      BY DEF JobsAreShaped
    <2>1. CASE job'[k] = job[k]
      BY <1>5, <1>7, <2>1, ShapeKept DEF IInv, JobsAreShaped
    <2>2. QED
      BY <1>6, <2>1
  <1>9. InFlightIsHeld'
    <2> SUFFICES ASSUME NEW m \in inFlight
                 PROVE  \E k \in Jobs : job'[k].for = m /\ job'[k].at # "check"
      BY <1>1 DEF InFlightIsHeld
    <2>1. PICK k \in Jobs : job[k].for = m /\ job[k].at # "check"
      BY DEF IInv, InFlightIsHeld
    <2>2. job[k] # NoJob
      BY <2>1, NoJobIsJob DEF IInv, TypeOK, Rows, Messages
    <2>3. QED
      BY <1>6, <2>1, <2>2
  <1>10. \A k \in Jobs : ServesOn(k) /\ OwesOn(k)
    <2> SUFFICES ASSUME NEW k \in Jobs
                 PROVE  ServesOn(k) /\ OwesOn(k)
      OBVIOUS
    <2>1. CASE job'[k] = job[k]
      BY <2>1 DEF ServesOn, OwesOn, Owes
    <2>2. CASE job[k] = NoJob
      BY <2>2, NoJobIsJob DEF ServesOn, OwesOn, Owes, Rows
    <2>3. QED
      BY <1>6, <2>1, <2>2
  <1>11. SeenIsServed'
    <2>1. \A i \in seen : Served(i)'
      BY <1>5, <1>10, ServedKept DEF IInv
    <2>2. \A i : i = n => Served(i)'
      <3>1. cloud'[n] = it
        BY <1>1
      <3>2. ASSUME it.row \in Turns, it.live
            PROVE  \E j \in Jobs : /\ job'[j].for = it.row
                                   /\ job'[j].at = "check" => job'[j].stamp = it.born
        <4> HIDE DEF it
        <4>1. QED
          BY <1>1, <1>2, <3>2, Dispatched
      <3> HIDE DEF it
      <3>3. QED
        BY <3>1, <3>2 DEF Served
    <2> HIDE DEF n
    <2>3. QED
      BY <1>1, <2>1, <2>2 DEF SeenIsServed
  <1>12. MessageNotLost'
    <2>1. InCloud(it.row)
      BY <1>2 DEF InCloud
    <2>2. \A m \in Messages : local'[m] # NoRow => local[m] # NoRow \/ InCloud(m)'
      BY <1>1, <1>3, <2>1 DEF InCloud, Rows
    <2>3. QED
      BY <1>1, <1>5, <1>10, <2>2, NotLostKept DEF IInv
  <1>13. PageIsSeen'
    BY <1>1, <1>2, <1>4 DEF PageIsSeen
  <1>14. QueuedExists'
    BY <1>1, <1>3, <1>4 DEF IInv, QueuedExists, Rows
  <1>15. ReadIsCarried'
    BY <1>1, <1>4 DEF IInv, ReadIsCarried
  <1>16. CursorCovers'
    BY <1>1 DEF IInv, CursorCovers
  <1>17. QED
    BY <1>7, <1>8, <1>9, <1>11, <1>12, <1>13, <1>14, <1>15, <1>16 DEF IInv

-----------------------------------------------------------------------------
(* The process and the sign-in.                                             *)

LEMMA SignKeeps ==
  ASSUME IInv, SignOut \/ StartSync
  PROVE  IInv'
  <1>1. /\ UNCHANGED <<local, queue, cursor, cloud, sync, job, inFlight, clock, history>>
        /\ running' \in BOOLEAN
    BY DEF SignOut, StartSync
  <1> faults' \in Nat
    BY DEF SignOut, StartSync, Fault, IInv, TypeOK
  <1>2. /\ JobsAreShaped' /\ InFlightIsHeld' /\ SeenIsServed' /\ MessageNotLost'
        /\ \A m \in Messages :
             queue'[m] # NoRow => local'[m] # NoRow /\ queue'[m].op = "upsert"
    BY <1>1, CycleKeeps
  <1>3. TypeOK'
    BY <1>1 DEF IInv, TypeOK, history
  <1>4. PageIsSeen' /\ CursorCovers'
    BY <1>1 DEF IInv, PageIsSeen, CursorCovers, history
  <1>5. QueuedExists' /\ ReadIsCarried'
    BY <1>1 DEF IInv, QueuedExists, ReadIsCarried, InCloud
  <1>6. QED
    BY <1>2, <1>3, <1>4, <1>5 DEF IInv

LEMMA StopKeeps ==
  ASSUME IInv, Stop
  PROVE  IInv'
  <1> DEFINE left == UNION {Concerns(j) : j \in Jobs}
  <1>1. /\ UNCHANGED <<local, queue, cursor, cloud, clock, seen, answered>>
        /\ running' = FALSE /\ faults' = faults + 1
        /\ sync' = NoSync /\ job' = [j \in Jobs |-> NoJob] /\ inFlight' = {}
        /\ dropped' = dropped \cup left
    BY DEF Stop, Fault
  <1>2. /\ sync' \in Sync /\ sync'.pc = "idle" /\ sync'.ops = {} /\ sync'.unread = {}
    BY <1>1 DEF NoSync, Sync
  <1>3. \A j \in Jobs : Concerns(j) \subseteq left
    OBVIOUS
  <1>4. left \subseteq Messages
    BY JobTypes DEF Concerns, IInv, Messages
  <1> HIDE DEF left
  <1>5. job' \in [Jobs -> Job] /\ \A j \in Jobs : job'[j] = NoJob
    BY <1>1, NoJobIsJob
  <1>6. TypeOK'
    <2>1. dropped' \subseteq Messages /\ faults' \in Nat /\ inFlight' \subseteq Turns
      BY <1>1, <1>4 DEF IInv, TypeOK
    <2>2. running' \in BOOLEAN /\ lapse' \in Lapses
      BY <1>1 DEF Stop, LapseOf, Lapses, IInv, TypeOK
    <2>3. QED
      BY <1>1, <1>2, <1>5, <2>1, <2>2 DEF IInv, TypeOK
  <1>7. Grows
    BY <1>1 DEF Grows, IInv, TypeOK
  <1>8. \A j \in Jobs : ServesOn(j) /\ OwesOn(j)
    BY <1>1, <1>3, RowsAssumption DEF ServesOn, OwesOn, Owes, Concerns, Rows
  <1>9. SeenIsServed'
    BY <1>1, <1>7, <1>8, ServedKept DEF IInv, SeenIsServed
  <1>10. MessageNotLost'
    BY <1>1, <1>7, <1>8, NotLostKept DEF IInv
  <1>11. JobsAreShaped' /\ InFlightIsHeld'
    BY <1>1, <1>5, NoJobIsJob DEF JobsAreShaped, JobIsShaped, Free, InFlightIsHeld
  <1>12. PageIsSeen' /\ ReadIsCarried'
    BY <1>2 DEF PageIsSeen, ReadIsCarried
  <1>13. QueuedExists' /\ CursorCovers'
    BY <1>1, <1>2 DEF QueuedExists, CursorCovers, IInv
  <1>14. QED
    BY <1>6, <1>9, <1>10, <1>11, <1>12, <1>13 DEF IInv

-----------------------------------------------------------------------------
(* The theorems.                                                            *)

LEMMA InitIInv == Init => IInv
  <1> SUFFICES ASSUME Init
               PROVE  IInv
    OBVIOUS
  <1>1. NoSync \in Sync /\ NoSync.pc = "idle" /\ NoSync.ops = {} /\ NoSync.unread = {}
    BY DEF NoSync, Sync
  <1>2. TypeOK
    BY <1>1, NoJobIsJob DEF Init, TypeOK, Lapses
  <1>3. JobsAreShaped
    BY NoJobIsJob DEF Init, JobsAreShaped, JobIsShaped, Free
  <1>4. PageIsSeen /\ ReadIsCarried /\ QueuedExists
    BY <1>1 DEF Init, PageIsSeen, ReadIsCarried, QueuedExists, Rows
  <1>5. InFlightIsHeld /\ SeenIsServed /\ CursorCovers /\ MessageNotLost
    BY DEF Init, InFlightIsHeld, SeenIsServed, CursorCovers, MessageNotLost, Rows
  <1>6. QED
    BY <1>2, <1>3, <1>4, <1>5 DEF IInv

LEMMA NextIInv == IInv /\ [Next]_vars => IInv'
  <1> SUFFICES ASSUME IInv, [Next]_vars
               PROVE  IInv'
    OBVIOUS
  <1>1. CASE UNCHANGED vars
    <2>1. UNCHANGED <<local, queue, cursor, cloud, sync, job, inFlight, clock, history, environment>>
      BY <1>1 DEF vars, history, environment
    <2>2. /\ JobsAreShaped' /\ InFlightIsHeld' /\ SeenIsServed' /\ MessageNotLost'
          /\ \A m \in Messages :
               queue'[m] # NoRow => local'[m] # NoRow /\ queue'[m].op = "upsert"
      BY <2>1, CycleKeeps
    <2>3. TypeOK' /\ PageIsSeen' /\ CursorCovers'
      BY <2>1 DEF IInv, TypeOK, PageIsSeen, CursorCovers, history, environment
    <2>4. QueuedExists' /\ ReadIsCarried'
      BY <2>1 DEF IInv, QueuedExists, ReadIsCarried, InCloud
    <2>5. QED
      BY <2>2, <2>3, <2>4 DEF IInv
  <1>2. CASE User
    <2>1. CASE \E j \in Jobs, live \in BOOLEAN : Edit(j, live)
      BY <2>1, EditKeeps
    <2>2. CASE \E j \in Jobs, m \in Messages : Mirror(j, m)
      BY <2>2, MirrorKeeps
    <2>3. CASE \E r \in PhoneRows \cap Rows, t \in Stamp, live \in BOOLEAN : PhonePushes(r, t, live)
      BY <2>3, PhonePushesKeeps
    <2>4. CASE \E r \in PhoneRows \cap Others : PhonePushes(r, 1, TRUE)
      <3>1. 1 \in Stamp
        BY DEF Stamp
      <3>2. QED
        BY <2>4, <3>1, PhonePushesKeeps
    <2>5. CASE SignOut
      BY <2>5, SignKeeps
    <2>6. CASE Stop
      BY <2>6, StopKeeps
    <2>7. QED
      BY <1>2, <2>1, <2>2, <2>3, <2>4, <2>5, <2>6 DEF User, Phone
  <1>3. CASE StartSync
    BY <1>3, SignKeeps
  <1>4. CASE FullSync
    BY <1>4, FullSyncKeeps
  <1>5. CASE PushStep
    <2>1. CASE PushFails
      BY <2>1, EmptyCycle DEF PushFails
    <2>2. CASE ClearOps
      BY <2>2, ClearOpsKeeps
    <2>3. CASE SyncThrows
      <3>1. NoSync = [NoSync EXCEPT !.pc = "idle"]
        BY DEF NoSync
      <3>2. QED
        BY <2>3, <3>1, EmptyCycle DEF SyncThrows
    <2>4. CASE \E o \in sync.unread : ReadLocal(o)
      BY <2>4, ReadLocalKeeps
    <2>5. CASE \E it \in sync.unsent : CloudTakes(it)
      BY <2>5, CloudTakesKeeps
    <2>6. QED
      BY <1>5, <2>1, <2>2, <2>3, <2>4, <2>5 DEF PushStep
  <1>6. CASE PullStep
    <2>1. CASE PullEnds
      <3>1. NoSync = [NoSync EXCEPT !.pc = "idle"]
        BY DEF NoSync
      <3>2. QED
        BY <2>1, <3>1, EmptyCycle DEF PullEnds
    <2>2. CASE ApplyItem
      BY <2>2, ApplyItemKeeps
    <2>3. CASE ApplyFails
      BY <2>3, ApplyFailsKeeps
    <2>4. CASE SetLastSeq
      BY <2>4, SetLastSeqKeeps
    <2>5. CASE \E n \in 1..Len(cloud) : PullPage(n)
      BY <2>5, PullPageKeeps
    <2>6. QED
      BY <1>6, <2>1, <2>2, <2>3, <2>4, <2>5 DEF PullStep
  <1>7. ASSUME NEW j \in Jobs, JobStep(j)
        PROVE  IInv'
    <2>1. CASE WriteConversation(j)
      BY <2>1, WriteConversationKeeps
    <2>2. CASE WriteMessage(j)
      BY <2>2, WriteMessageKeeps
    <2>3. CASE EnqueueConversation(j) \/ EnqueueMessage(j)
      BY <2>3, EnqueueKeeps
    <2>4. CASE EnqueueFails(j)
      BY <2>4, EnqueueFailsKeeps
    <2>5. CASE JobFails(j)
      BY <2>5, JobFailsKeeps
    <2>6. CASE Check(j)
      BY <2>6, CheckKeeps
    <2>7. CASE ClaudeFails(j)
      BY <2>7, ClaudeFailsKeeps
    <2>8. CASE \E r \in Replies : ClaudeAnswers(j, r)
      BY <2>8, ClaudeAnswersKeeps
    <2>9. QED
      BY <1>7, <2>1, <2>2, <2>3, <2>4, <2>5, <2>6, <2>7, <2>8 DEF JobStep
  <1>8. QED
    BY <1>1, <1>2, <1>3, <1>4, <1>5, <1>6, <1>7 DEF Next

\* The inductive invariant: the page being applied, the ops being sent and the calls of
\* the application always account for every row and every item that has been passed.
THEOREM SyncInvariant == Spec => []IInv
  BY InitIInv, NextIInv, PTL DEF Spec

\* Whatever fails in a page and wherever the process stops, the cursor passes no item of
\* a known type that was not applied.
THEOREM CursorIsSafe == Spec => []CursorCovers
  <1>1. IInv => CursorCovers
    BY DEF IInv
  <1>2. QED
    BY SyncInvariant, <1>1, PTL

\* No answer lost, cycle failed or queue cleared forgets a message of this desktop.
THEOREM MessagesAreKept == Spec => []MessageNotLost
  <1>1. IInv => MessageNotLost
    BY DEF IInv
  <1>2. QED
    BY SyncInvariant, <1>1, PTL

\* Every user turn the cursor has passed is answered, being answered, older than an
\* assistant message, or lost with a failed or stopped dispatch.
THEOREM TurnsAreServed == Spec => []NoTurnForgotten
  <1>1. IInv => NoTurnForgotten
    <2> SUFFICES ASSUME IInv, NEW i \in 1..cursor
                 PROVE  LET m == cloud[i].row
                        IN  m \in Turns /\ cloud[i].live =>
                              \/ m \in answered \cup dropped
                              \/ \E j \in Jobs : job[j].for = m
                              \/ \E r \in Replies : local[r] # NoRow /\ local[r].born >= cloud[i].born
      BY DEF NoTurnForgotten
    <2>1. i \in seen
      BY DEF IInv, CursorCovers
    <2>2. Served(i)
      BY <2>1 DEF IInv, SeenIsServed
    <2>3. QED
      BY <2>2 DEF Served
  <1>2. QED
    BY SyncInvariant, <1>1, PTL
=============================================================================
