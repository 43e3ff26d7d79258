------------------------- MODULE DesktopIntentProofs -------------------------
(***************************************************************************)
(* An edit of the conversation is lost in one race only.  Between its      *)
(* UPDATE and its enqueueSyncOp a call owes the edit; from then on it is   *)
(* in the queue, in the cycle that read the queue, in the items on their   *)
(* way to the worker, and in the cloud.  The lemmas follow it from hand to *)
(* hand.                                                                   *)
(***************************************************************************)
EXTENDS DesktopSyncProofs

USE RowsAssumption, BoundsAssumption, NoRowAssumption

\* The stamp of the conversation here; one operand of every comparison.
Latest == local[Conversation].stamp

LEMMA LatestIsNat ==
  ASSUME TypeOK, local[Conversation] # NoRow
  PROVE  Latest \in Nat /\ local[Conversation] \in Version
  <1>1. local[Conversation] \in Version
    BY DEF TypeOK, Rows
  <1>2. QED
    BY <1>1 DEF Version, Stamp, Latest

LEMMA CloudItems ==
  ASSUME TypeOK
  PROVE  /\ Len(cloud) \in Nat
         /\ \A i \in 1..Len(cloud) : cloud[i] \in Item /\ cloud[i].stamp \in Nat
  <1>1. cloud \in Seq(Item)
    BY DEF TypeOK
  <1>2. Len(cloud) \in Nat /\ \A i \in 1..Len(cloud) : cloud[i] \in Item
    BY <1>1
  <1>3. QED
    BY <1>2 DEF Item, Stamp

\* What the cloud has it keeps.
Keeps == \A stamp \in Nat : CloudHas(stamp) => CloudHas(stamp)'

LEMMA LogKept == cloud' = cloud => Keeps
  BY DEF Keeps, CloudHas

LEMMA LogAppends ==
  ASSUME TypeOK, NEW it \in Item, cloud' = Append(cloud, it)
  PROVE  /\ Keeps
         /\ it.row = Conversation => CloudHas(it.stamp)'
  <1>1. /\ Len(cloud') = Len(cloud) + 1 /\ Len(cloud) \in Nat
        /\ \A i \in 1..Len(cloud) : cloud'[i] = cloud[i]
        /\ cloud'[Len(cloud) + 1] = it
    BY CloudAppends
  <1>2. it.stamp \in Nat
    BY DEF Item, Stamp
  <1>3. Keeps
    BY <1>1 DEF Keeps, CloudHas
  <1>4. Len(cloud) + 1 \in 1..Len(cloud')
    BY <1>1
  <1>5. ASSUME it.row = Conversation
        PROVE  CloudHas(it.stamp)'
    BY <1>1, <1>2, <1>4, <1>5 DEF CloudHas
  <1>6. QED
    BY <1>3, <1>5

-----------------------------------------------------------------------------
(* What the calls owe.                                                      *)

\* No call is relieved of the edit, except into a lapse.
OwedOn == (\E j \in Jobs : OwesConversation(j)) => Owed'

LEMMA JobsKept == UNCHANGED job => OwedOn
  BY DEF OwedOn, Owed, OwesConversation

\* A call that moves while the others do not.
LEMMA OneJobOwes ==
  ASSUME NEW j \in Jobs, \A k \in Jobs \ {j} : job'[k] = job[k],
         OwesConversation(j) => OwesConversation(j)' \/ lapse' = "failed"
  PROVE  OwedOn
  <1> SUFFICES ASSUME NEW k \in Jobs, OwesConversation(k), lapse' # "failed"
               PROVE  \E i \in Jobs : OwesConversation(i)'
    BY DEF OwedOn, Owed
  <1>1. CASE k = j
    BY <1>1
  <1>2. CASE k # j
    BY <1>2 DEF OwesConversation
  <1>3. QED
    BY <1>1, <1>2

\* The steps that leave the conversation, its op and the log's items alone.
LEMMA IntentSpared ==
  ASSUME TypeOK, IntentInv, clock' \in Nat, clock <= clock', Keeps, OwedOn,
         local'[Conversation] = local[Conversation],
         queue'[Conversation] = queue[Conversation],
         lapse' = lapse \/ lapse' = "failed",
         CallsArePast', CarriedIsCurrent'
  PROVE  IntentInv'
  <1>1. local[Conversation] # NoRow => Latest \in Nat
    BY LatestIsNat
  <1>2. NewerIsForeign'
    BY <1>1 DEF IntentInv, NewerIsForeign, Keeps, Latest, TypeOK
  <1>3. Owed => Owed'
    BY DEF Owed, OwedOn
  <1>4. DeletionIsCurrent'
    BY <1>1, <1>3 DEF IntentInv, DeletionIsCurrent, Keeps, Latest
  <1>5. EditLostOnlyInRace'
    <2> SUFFICES ASSUME local'[Conversation] # NoRow, queue'[Conversation] = NoRow,
                        ~CloudHas(Latest)', ~ \E j \in Jobs : OwesConversation(j)', lapse' = "none"
                 PROVE  FALSE
      BY DEF EditLostOnlyInRace, Latest
    <2>1. Latest' = Latest /\ ~CloudHas(Latest)
      BY <1>1 DEF Keeps, Latest
    <2>2. lapse = "none" /\ ~Owed
      BY <1>3 DEF Owed
    <2>3. QED
      BY <2>1, <2>2 DEF IntentInv, EditLostOnlyInRace, Owed, Latest
  <1>6. QED
    BY <1>2, <1>4, <1>5 DEF IntentInv

\* The cycle holds nothing.
LEMMA NothingCarried == sync'.ops = {} => CarriedIsCurrent'
  BY DEF CarriedIsCurrent

\* The cycle holds what it held.
LEMMA CarriedKept ==
  ASSUME TypeOK, CarriedIsCurrent, Keeps, OwedOn,
         local'[Conversation] = local[Conversation],
         sync'.ops = sync.ops, sync'.unread = sync.unread, sync'.unsent = sync.unsent,
         lapse' = lapse \/ lapse' = "failed"
  PROVE  CarriedIsCurrent'
  <1> SUFFICES ASSUME NEW o \in sync.ops, Carried(o), local[Conversation] # NoRow
               PROVE  \/ Owed' \/ lapse' = "late" \/ CloudHas(Latest)'
                      \/ o \in sync.unread /\ o.at >= Latest
                      \/ \E it \in sync.unsent : it.row = Conversation /\ it.stamp >= Latest
    BY DEF CarriedIsCurrent, Carried, Latest
  <1>1. Latest \in Nat /\ Latest' = Latest
    BY LatestIsNat DEF Latest
  <1>2. \/ Owed \/ lapse = "late" \/ CloudHas(Latest)
        \/ o \in sync.unread /\ o.at >= Latest
        \/ \E it \in sync.unsent : it.row = Conversation /\ it.stamp >= Latest
    BY DEF CarriedIsCurrent, Latest
  <1>3. Owed => Owed'
    BY DEF Owed, OwedOn
  <1>4. lapse = "late" => lapse' = "late" \/ Owed'
    BY DEF Owed
  <1>5. QED
    BY <1>1, <1>2, <1>3, <1>4 DEF Keeps

\* A call that moves keeps its time, or takes the present one.
LEMMA OneJobPast ==
  ASSUME TypeOK, CallsArePast, clock' \in Nat, clock <= clock',
         NEW j \in Jobs, \A k \in Jobs \ {j} : job'[k] = job[k],
         job'[j].at \notin {"check", "claude"} => job'[j].stamp <= clock'
  PROVE  CallsArePast'
  <1> SUFFICES ASSUME NEW k \in Jobs, job'[k].at \notin {"check", "claude"}
               PROVE  job'[k].stamp <= clock'
    BY DEF CallsArePast
  <1>1. CASE k = j
    BY <1>1
  <1>2. CASE k # j
    BY <1>2, JobTypes DEF CallsArePast, TypeOK
  <1>3. QED
    BY <1>1, <1>2

\* A step of one call that does not touch the conversation or the queueing of it.
LEMMA CallSpares ==
  ASSUME IInv, IntentInv, clock' \in Nat, clock <= clock',
         UNCHANGED <<cloud, sync>>,
         local'[Conversation] = local[Conversation],
         queue'[Conversation] = queue[Conversation],
         lapse' = lapse \/ lapse' = "failed",
         NEW j \in Jobs, \A k \in Jobs \ {j} : job'[k] = job[k],
         OwesConversation(j) => OwesConversation(j)' \/ lapse' = "failed",
         job'[j].at \notin {"check", "claude"} => job'[j].stamp <= clock'
  PROVE  IntentInv'
  <1>1. TypeOK /\ Keeps /\ OwedOn
    BY LogKept, OneJobOwes DEF IInv
  <1>2. CallsArePast'
    BY <1>1, OneJobPast DEF IntentInv
  <1>3. CarriedIsCurrent'
    BY <1>1, CarriedKept DEF IntentInv
  <1>4. QED
    BY <1>1, <1>2, <1>3, IntentSpared

\* A step of the cycle to a label that holds no ops, or of the sign-in.
LEMMA CycleSparesIntent ==
  ASSUME IInv, IntentInv, UNCHANGED <<local, queue, cloud, job, clock, lapse>>,
         sync'.ops = {} \/ UNCHANGED sync
  PROVE  IntentInv'
  <1>1. TypeOK /\ Keeps /\ OwedOn
    BY LogKept, JobsKept DEF IInv
  <1>2. clock' \in Nat /\ clock <= clock'
    BY DEF IInv, TypeOK
  <1>3. CallsArePast'
    BY DEF IntentInv, CallsArePast
  <1>4. CarriedIsCurrent'
    BY <1>1, NothingCarried, CarriedKept DEF IntentInv
  <1>5. QED
    BY <1>1, <1>2, <1>3, <1>4, IntentSpared

\* While a call owes the edit nothing else is asked.
LEMMA OwedExcuses ==
  ASSUME Owed', NewerIsForeign', CallsArePast'
  PROVE  IntentInv'
  BY DEF IntentInv, DeletionIsCurrent, CarriedIsCurrent, EditLostOnlyInRace, Owed

\* Nor when the cloud has the conversation as it is, or there is none.
LEMMA CloudExcuses ==
  ASSUME CallsArePast', local'[Conversation] # NoRow => CloudHas(Latest)'
  PROVE  IntentInv'
  BY DEF IntentInv, NewerIsForeign, DeletionIsCurrent, CarriedIsCurrent, EditLostOnlyInRace, Latest

-----------------------------------------------------------------------------
(* The calls of the application.                                            *)

LEMMA Moved ==
  ASSUME IInv, NEW j \in Jobs, NEW x, job' = [job EXCEPT ![j] = x]
  PROVE  job'[j] = x /\ \A k \in Jobs \ {j} : job'[k] = job[k]
  BY DEF IInv, TypeOK

LEMMA EditIntent ==
  ASSUME IInv, IntentInv, NEW j \in Jobs, NEW live \in BOOLEAN, Edit(j, live)
  PROVE  IntentInv'
  <1> DEFINE op == IF live THEN "upsert" ELSE "delete"
             x == [NoJob EXCEPT !.kind = "edit", !.at = "enqueueConversation", !.op = op]
             c == [local[Conversation] EXCEPT !.stamp = clock + 1, !.live = live]
  <1>1. /\ job' = [job EXCEPT ![j] = x] /\ clock' = clock + 1 /\ local[Conversation] # NoRow
        /\ local' = [local EXCEPT ![Conversation] = c]
    BY DEF Edit
  <1> clock \in Nat
    BY DEF IInv, TypeOK
  <1>2. x.kind = "edit" /\ x.stamp = 0
    BY DEF NoJob
  <1>3. c.stamp = clock'
    BY <1>1, LatestIsNat DEF IInv, Version
  <1> HIDE DEF x, c
  <1>4. job'[j] = x /\ \A k \in Jobs \ {j} : job'[k] = job[k]
    BY <1>1, Moved
  <1>5. Owed'
    BY <1>2, <1>4 DEF Owed, OwesConversation
  <1>6. CallsArePast'
    BY <1>1, <1>2, <1>4, OneJobPast DEF IInv, IntentInv
  <1>7. local'[Conversation] = c
    BY <1>1 DEF IInv, TypeOK, Rows
  <1>8. NewerIsForeign'
    BY <1>1, <1>3, <1>7 DEF NewerIsForeign
  <1>9. QED
    BY <1>5, <1>6, <1>8, OwedExcuses

LEMMA MirrorIntent ==
  ASSUME IInv, IntentInv, NEW j \in Jobs, NEW m \in Messages, Mirror(j, m)
  PROVE  IntentInv'
  <1> DEFINE x == [NoJob EXCEPT !.kind = "turn", !.at = "conversation", !.msg = m, !.stamp = clock + 1]
  <1>1. /\ job' = [job EXCEPT ![j] = x] /\ clock' = clock + 1 /\ clock \in Nat /\ Free(j)
        /\ UNCHANGED <<local, queue, cloud, sync, lapse>>
    BY DEF Mirror, history, IInv, TypeOK
  <1>2. x.stamp = clock'
    BY <1>1 DEF NoJob
  <1> HIDE DEF x
  <1>3. job'[j] = x /\ \A k \in Jobs \ {j} : job'[k] = job[k]
    BY <1>1, Moved
  <1>4. ~OwesConversation(j)
    BY <1>1 DEF Free, OwesConversation
  <1>5. QED
    BY <1>1, <1>2, <1>3, <1>4, CallSpares

\* The next statement of a call, if it has one.
LEMMA Proceeds ==
  ASSUME IInv, NEW j \in Jobs, Proceed(j)
  PROVE  /\ \A k \in Jobs \ {j} : job'[k] = job[k]
         /\ \/ After(job[j].kind, job[j].at) = "done" /\ job'[j] = NoJob
            \/ /\ After(job[j].kind, job[j].at) # "done"
               /\ job'[j].at = After(job[j].kind, job[j].at)
               /\ job'[j].kind = job[j].kind /\ job'[j].stamp = job[j].stamp
  <1>1. CASE After(job[j].kind, job[j].at) = "done"
    <2>1. job' = [job EXCEPT ![j] = NoJob]
      BY <1>1 DEF Proceed, Leave
    <2>2. QED
      BY <1>1, <2>1, Moved
  <1>2. CASE After(job[j].kind, job[j].at) # "done"
    BY <1>2, GoesOn
  <1>3. QED
    BY <1>1, <1>2

\* A call that has come to its statements has taken its time.
LEMMA ProceedsPast ==
  ASSUME IInv, IntentInv, NEW j \in Jobs, Proceed(j), job[j].at \notin {"check", "claude"},
         UNCHANGED clock
  PROVE  job'[j].stamp <= clock'
  <1>1. job[j].stamp <= clock /\ clock \in Nat
    BY DEF IntentInv, CallsArePast, IInv, TypeOK
  <1>2. NoJob.stamp = 0
    BY DEF NoJob
  <1>3. QED
    BY <1>1, <1>2, Proceeds

LEMMA WriteConversationIntent ==
  ASSUME IInv, IntentInv, NEW j \in Jobs, WriteConversation(j)
  PROVE  IntentInv'
  <1> DEFINE t == job[j].stamp
             old == local[Conversation]
  <1>1. /\ UNCHANGED <<queue, cloud, sync, clock, lapse>>
        /\ job[j].at = "conversation" /\ Proceed(j)
        /\ local' = CASE old # NoRow -> [local EXCEPT ![Conversation].stamp = t]
                      [] old = NoRow /\ job[j].kind = "turn" ->
                           [local EXCEPT ![Conversation] = [stamp |-> t, live |-> TRUE, born |-> 1]]
                      [] OTHER -> local
    BY DEF WriteConversation, history
  <1>2. job[j].kind \in {"turn", "reply"} /\ t <= clock /\ t \in Nat /\ clock \in Nat
    BY <1>1, JobTypes, NoJobIsJob DEF IInv, JobsAreShaped, JobIsShaped, Free, IntentInv,
       CallsArePast, TypeOK
  <1>3. /\ \A k \in Jobs \ {j} : job'[k] = job[k]
        /\ job'[j].kind = job[j].kind /\ job'[j].stamp = t
        /\ job'[j].at = (IF job[j].kind = "turn" THEN "message" ELSE "enqueueMessage")
    BY <1>1, <1>2, Proceeds DEF After
  <1>4. Owed'
    BY <1>2, <1>3 DEF Owed, OwesConversation
  <1>5. CallsArePast'
    BY <1>1, <1>2, <1>3, OneJobPast DEF IInv, IntentInv
  <1>6. local'[Conversation] # NoRow => local'[Conversation].stamp <= clock'
    <2>1. local \in [Rows -> Version \cup {NoRow}] /\ Conversation \in Rows
      BY DEF IInv, TypeOK, Rows
    <2>2. CASE old # NoRow
      <3> DEFINE c == [old EXCEPT !.stamp = t]
      <3>1. c.stamp = t
        BY <2>1, <2>2 DEF Version
      <3>2. local' = [local EXCEPT ![Conversation] = c]
        BY <1>1, <2>2
      <3> HIDE DEF c
      <3>3. QED
        BY <1>1, <1>2, <2>1, <3>1, <3>2
    <2>3. CASE old = NoRow
      BY <1>1, <1>2, <2>1, <2>3
    <2>4. QED
      BY <2>2, <2>3
  <1>7. QED
    BY <1>4, <1>5, <1>6, OwedExcuses DEF NewerIsForeign

LEMMA WriteMessageIntent ==
  ASSUME IInv, IntentInv, NEW j \in Jobs, WriteMessage(j)
  PROVE  IntentInv'
  <1>1. /\ UNCHANGED <<queue, cloud, sync, clock, lapse>>
        /\ job[j].at = "message" /\ Proceed(j)
    BY DEF WriteMessage
  <1>2. job[j].kind \in {"turn", "reply"} /\ job[j].msg \in Messages
    BY <1>1, JobTypes, NoJobIsJob DEF IInv, JobsAreShaped, JobIsShaped, Free, Stamped
  <1>3. local'[Conversation] = local[Conversation]
    <2>1. \/ UNCHANGED local
          \/ \E c \in Version : local' = [local EXCEPT ![job[j].msg] = c]
      <3> DEFINE c == [stamp |-> job[j].stamp, live |-> TRUE, born |-> job[j].stamp]
      <3>1. job[j].stamp \in Stamp
        BY <1>1, <1>2, JobTypes, NoJobIsJob DEF IInv, JobsAreShaped, JobIsShaped, Free,
           Stamped, Stamp
      <3>2. c \in Version
        BY <3>1 DEF Version
      <3>3. UNCHANGED local \/ local' = [local EXCEPT ![job[j].msg] = c]
        BY DEF WriteMessage
      <3>4. QED
        BY <3>2, <3>3
    <2>2. job[j].msg # Conversation /\ local \in [Rows -> Version \cup {NoRow}]
      BY <1>2 DEF IInv, TypeOK
    <2>3. QED
      BY <2>1, <2>2 DEF Rows
  <1>4. clock \in Nat
    BY DEF IInv, TypeOK
  <1>5. OwesConversation(j) => OwesConversation(j)'
    BY <1>1, <1>2, Proceeds DEF After, OwesConversation
  <1>6. QED
    BY <1>1, <1>3, <1>4, <1>5, Proceeds, ProceedsPast, CallSpares

LEMMA EnqueueMessageIntent ==
  ASSUME IInv, IntentInv, NEW j \in Jobs, EnqueueMessage(j)
  PROVE  IntentInv'
  <1>1. /\ UNCHANGED <<local, cloud, sync, clock, lapse>>
        /\ job[j].at = "enqueueMessage" /\ Proceed(j)
    BY DEF EnqueueMessage, Enqueue
  <1>2. job[j].kind \in {"turn", "reply"} /\ job[j].msg \in Messages
    BY <1>1, JobTypes, NoJobIsJob DEF IInv, JobsAreShaped, JobIsShaped, Free, Stamped
  <1>3. queue'[Conversation] = queue[Conversation]
    <2> DEFINE q == [op |-> "upsert", at |-> 1]
    <2>1. queue' = [queue EXCEPT ![job[j].msg] = q]
      BY DEF EnqueueMessage, Enqueue
    <2>2. job[j].msg # Conversation /\ queue \in [Rows -> Op \cup {NoRow}]
      BY <1>2 DEF IInv, TypeOK
    <2> HIDE DEF q
    <2>3. QED
      BY <2>1, <2>2 DEF Rows
  <1>4. clock \in Nat
    BY DEF IInv, TypeOK
  <1>5. OwesConversation(j) => OwesConversation(j)'
    BY <1>1, <1>2, Proceeds DEF After, OwesConversation
  <1>6. QED
    BY <1>1, <1>3, <1>4, <1>5, Proceeds, ProceedsPast, CallSpares

\* The op is in the queue now; what the cycle carries is behind it.
LEMMA EnqueueConversationIntent ==
  ASSUME IInv, IntentInv, NEW j \in Jobs, EnqueueConversation(j)
  PROVE  IntentInv'
  <1> DEFINE op == job[j].op
             q  == [op |-> op, at |-> IF op = "delete" THEN clock ELSE 1]
  <1>1. /\ UNCHANGED <<local, cloud, sync, clock>>
        /\ job[j].at = "enqueueConversation" /\ Proceed(j)
        /\ queue' = [queue EXCEPT ![Conversation] = q]
        /\ lapse' = IF \E o \in sync.ops : Carried(o) THEN "late" ELSE "none"
    BY DEF EnqueueConversation, Enqueue
  <1>2. /\ q.op = op /\ (op = "delete" => q.at = clock) /\ clock \in Nat
    BY DEF IInv, TypeOK
  <1>3. q # NoRow
    <2>1. job[j].kind \in {"edit", "turn", "reply"} /\ JobIsShaped(j)
      BY <1>1, JobTypes, NoJobIsJob DEF IInv, JobsAreShaped, JobIsShaped, Free
    <2>2. clock \in Stamp /\ 1 \in Stamp /\ op \in {"upsert", "delete"}
      BY <1>1, <2>1, JobTypes DEF JobIsShaped, Stamped, Stamp, IInv, TypeOK
    <2> HIDE DEF op
    <2>3. q \in Op
      BY <2>2 DEF Op
    <2>4. QED
      BY <2>3
  <1> HIDE DEF q
  <1>4. queue'[Conversation] = q
    BY <1>1 DEF IInv, TypeOK, Rows
  <1>5. Keeps
    BY <1>1, LogKept
  <1>6. NewerIsForeign'
    BY <1>1, <1>5, LatestIsNat DEF NewerIsForeign, IntentInv, IInv, Keeps, Latest
  <1>7. CallsArePast'
    BY <1>1, <1>2, Proceeds, ProceedsPast, OneJobPast DEF IInv, IntentInv
  <1>8. DeletionIsCurrent'
    BY <1>1, <1>2, <1>4, <1>6 DEF NewerIsForeign, DeletionIsCurrent
  <1>9. CarriedIsCurrent'
    BY <1>1 DEF CarriedIsCurrent, Carried
  <1>10. EditLostOnlyInRace'
    BY <1>3, <1>4 DEF EditLostOnlyInRace
  <1>11. QED
    BY <1>6, <1>7, <1>8, <1>9, <1>10 DEF IntentInv

LEMMA EnqueueFailsIntent ==
  ASSUME IInv, IntentInv, NEW j \in Jobs, EnqueueFails(j)
  PROVE  IntentInv'
  <1>1. /\ UNCHANGED <<local, queue, cloud, sync, clock>>
        /\ job[j].at \in {"enqueueConversation", "enqueueMessage"} /\ Proceed(j)
        /\ lapse' = IF job[j].at = "enqueueConversation" THEN "failed" ELSE lapse
    BY DEF EnqueueFails, LapseOf
  <1>2. job[j].kind \in {"edit", "turn", "reply"} /\ JobIsShaped(j)
    BY <1>1, JobTypes, NoJobIsJob DEF IInv, JobsAreShaped, JobIsShaped, Free
  <1>3. clock \in Nat
    BY DEF IInv, TypeOK
  <1>4. OwesConversation(j) => OwesConversation(j)' \/ lapse' = "failed"
    BY <1>1, <1>2, Proceeds DEF After, OwesConversation, JobIsShaped
  <1>5. QED
    BY <1>1, <1>3, <1>4, Proceeds, ProceedsPast, CallSpares

LEMMA JobFailsIntent ==
  ASSUME IInv, IntentInv, NEW j \in Jobs, JobFails(j)
  PROVE  IntentInv'
  <1>1. /\ UNCHANGED <<local, queue, cloud, sync, clock>>
        /\ job' = [job EXCEPT ![j] = NoJob]
        /\ lapse' = IF OwesConversation(j) THEN "failed" ELSE lapse
    BY DEF JobFails, Leave, LapseOf
  <1>2. job'[j] = NoJob /\ \A k \in Jobs \ {j} : job'[k] = job[k]
    BY <1>1, Moved
  <1>3. clock \in Nat /\ NoJob.stamp = 0
    BY DEF IInv, TypeOK, NoJob
  <1>4. QED
    BY <1>1, <1>2, <1>3, CallSpares

LEMMA ClaudeFailsIntent ==
  ASSUME IInv, IntentInv, NEW j \in Jobs, ClaudeFails(j)
  PROVE  IntentInv'
  <1>1. /\ UNCHANGED <<local, queue, cloud, sync, clock, lapse>>
        /\ job' = [job EXCEPT ![j] = NoJob] /\ job[j].at = "claude"
    BY DEF ClaudeFails, Leave
  <1>2. job'[j] = NoJob /\ \A k \in Jobs \ {j} : job'[k] = job[k]
    BY <1>1, Moved
  <1>3. clock \in Nat /\ NoJob.stamp = 0
    BY DEF IInv, TypeOK, NoJob
  <1>4. ~OwesConversation(j)
    BY <1>1 DEF OwesConversation, IInv, JobsAreShaped, JobIsShaped
  <1>5. QED
    BY <1>1, <1>2, <1>3, <1>4, CallSpares

LEMMA CheckIntent ==
  ASSUME IInv, IntentInv, NEW j \in Jobs, Check(j)
  PROVE  IntentInv'
  <1> DEFINE x == [job[j] EXCEPT !.at = "claude"]
  <1>1. /\ UNCHANGED <<local, queue, cloud, sync, clock, lapse>> /\ job[j].at = "check"
        /\ job' = [job EXCEPT ![j] = NoJob] \/ job' = [job EXCEPT ![j] = x]
    BY DEF Check, Leave, history
  <1>2. x.at = "claude"
    BY JobTypes DEF IInv, Job
  <1> HIDE DEF x
  <1>3. job'[j] \in {x, NoJob} /\ \A k \in Jobs \ {j} : job'[k] = job[k]
    BY <1>1, Moved
  <1>4. clock \in Nat /\ NoJob.stamp = 0
    BY DEF IInv, TypeOK, NoJob
  <1>5. ~OwesConversation(j)
    BY <1>1 DEF OwesConversation, IInv, JobsAreShaped, JobIsShaped
  <1>6. QED
    BY <1>1, <1>2, <1>3, <1>4, <1>5, CallSpares

LEMMA ClaudeAnswersIntent ==
  ASSUME IInv, IntentInv, NEW j \in Jobs, NEW r \in Replies, ClaudeAnswers(j, r)
  PROVE  IntentInv'
  <1> DEFINE x == [job[j] EXCEPT !.at = After("reply", "claude"), !.msg = r, !.stamp = clock + 1]
  <1>1. /\ UNCHANGED <<local, queue, cloud, sync, lapse>> /\ job[j].at = "claude"
        /\ job' = [job EXCEPT ![j] = x] /\ clock' = clock + 1
    BY DEF ClaudeAnswers, history
  <1>2. x.stamp = clock + 1
    BY JobTypes DEF IInv, Job
  <1> HIDE DEF x
  <1>3. job'[j] = x /\ \A k \in Jobs \ {j} : job'[k] = job[k]
    BY <1>1, Moved
  <1>4. clock \in Nat
    BY DEF IInv, TypeOK
  <1>5. ~OwesConversation(j)
    BY <1>1 DEF OwesConversation, IInv, JobsAreShaped, JobIsShaped
  <1>6. QED
    BY <1>1, <1>2, <1>3, <1>4, <1>5, CallSpares

-----------------------------------------------------------------------------
(* The cycle and the cloud.                                                 *)

\* The ops of the new cycle are the rows of the queue.
LEMMA FullSyncIntent ==
  ASSUME IInv, IntentInv, FullSync
  PROVE  IntentInv'
  <1> DEFINE ops == {[row |-> r, op |-> queue[r].op, at |-> queue[r].at] :
                       r \in {x \in Rows : queue[x] # NoRow}}
  <1>1. /\ UNCHANGED <<local, queue, cloud, job, clock>>
        /\ sync' = [NoSync EXCEPT !.ops = ops, !.unread = ops,
                                  !.pc = IF ops = {} THEN "pull" ELSE "read"]
        /\ lapse' = IF lapse = "late" /\ queue[Conversation] # NoRow THEN "none" ELSE lapse
    BY DEF FullSync
  <1>2. \A o \in ops : o.row = Conversation =>
          queue[Conversation] # NoRow /\ o.op = queue[Conversation].op /\ o.at = queue[Conversation].at
    OBVIOUS
  <1> HIDE DEF ops
  <1>3. sync'.ops = ops /\ sync'.unread = ops
    BY <1>1 DEF NoSync
  <1>4. Owed' <=> Owed
    BY <1>1 DEF Owed, OwesConversation
  <1>5. \A stamp : CloudHas(stamp)' <=> CloudHas(stamp)
    BY <1>1 DEF CloudHas
  <1>6. NewerIsForeign' /\ CallsArePast' /\ DeletionIsCurrent'
    BY <1>1, <1>4, <1>5 DEF IntentInv, NewerIsForeign, CallsArePast, DeletionIsCurrent
  <1>7. CarriedIsCurrent'
    <2> SUFFICES ASSUME NEW o \in ops, o.row = Conversation, o.op = "delete",
                        local[Conversation] # NoRow, ~Owed', ~CloudHas(Latest)'
                 PROVE  o.at >= Latest
      BY <1>1, <1>3 DEF CarriedIsCurrent, Carried, Latest
    <2>1. ~CloudHas(Latest)
      BY <1>1, <1>5 DEF Latest
    <2>2. QED
      BY <1>2, <1>4, <2>1 DEF IntentInv, DeletionIsCurrent, Latest
  <1>8. EditLostOnlyInRace'
    BY <1>1, <1>5 DEF IntentInv, EditLostOnlyInRace, OwesConversation
  <1>9. QED
    BY <1>6, <1>7, <1>8 DEF IntentInv

\* The row as it is read, or the deletion, becomes an item.
LEMMA ReadLocalIntent ==
  ASSUME IInv, IntentInv, NEW o \in sync.unread, ReadLocal(o)
  PROVE  IntentInv'
  <1> DEFINE items == sync.unsent \cup ItemsOf(o)
             left  == sync.unread \ {o}
             pc    == IF left = {} THEN "post" ELSE "read"
  <1>1. /\ UNCHANGED <<local, queue, cloud, job, clock, lapse>>
        /\ sync' = [sync EXCEPT !.unread = left, !.unsent = items, !.pc = pc]
    BY DEF ReadLocal, history
  <1> HIDE DEF items, left, pc
  <1>2. sync'.ops = sync.ops /\ sync'.unread = left /\ sync'.unsent = items
    BY <1>1, SyncTypes DEF IInv, Sync
  <1>3. Keeps /\ OwedOn /\ clock \in Nat /\ TypeOK /\ (Owed' <=> Owed)
    BY <1>1, LogKept, JobsKept DEF IInv, TypeOK, Owed, OwesConversation
  <1>4. CarriedIsCurrent'
    <2> SUFFICES ASSUME NEW p \in sync.ops, p.row = Conversation,
                        p \notin left \/ p.op = "delete", local[Conversation] # NoRow,
                        ~Owed, lapse # "late", ~CloudHas(Latest)
                 PROVE  \/ p \in left /\ p.at >= Latest
                        \/ \E it \in items : it.row = Conversation /\ it.stamp >= Latest
      BY <1>1, <1>2, <1>3, LatestIsNat DEF CarriedIsCurrent, Carried, Keeps, Latest, CloudHas
    <2>1. Carried(p) => \/ p \in sync.unread /\ p.at >= Latest
                        \/ \E it \in sync.unsent : it.row = Conversation /\ it.stamp >= Latest
      BY DEF IntentInv, CarriedIsCurrent, Latest
    <2>2. CASE p = o /\ p.op # "delete"
      <3> DEFINE v  == local[Conversation]
                 it == [row |-> o.row, stamp |-> v.stamp, live |-> v.live, born |-> v.born]
      <3>1. it \in ItemsOf(o)
        BY <2>2 DEF ItemsOf
      <3>2. it.row = Conversation /\ it.stamp >= Latest
        BY <1>3, <2>2, LatestIsNat DEF Latest
      <3>3. QED
        BY <3>1, <3>2 DEF items
    <2>3. CASE p = o /\ p.op = "delete"
      <3> DEFINE it == [row |-> o.row, stamp |-> o.at, live |-> FALSE, born |-> 1]
      <3>1. it \in ItemsOf(o) /\ it.row = Conversation /\ it.stamp = o.at
        BY <2>3 DEF ItemsOf
      <3>2. Carried(p)
        BY <2>3 DEF Carried
      <3> HIDE DEF it
      <3>3. QED
        BY <2>1, <2>3, <3>1, <3>2 DEF items
    <2>4. CASE p # o
      <3>1. Carried(p) /\ (p \in sync.unread => p \in left)
        BY <2>4 DEF Carried, left
      <3>2. QED
        BY <2>1, <3>1 DEF items
    <2>5. QED
      BY <2>2, <2>3, <2>4
  <1>5. CallsArePast'
    BY <1>1 DEF IntentInv, CallsArePast
  <1>6. QED
    BY <1>1, <1>3, <1>4, <1>5, IntentSpared

LEMMA CloudTakesIntent ==
  ASSUME IInv, IntentInv, NEW it \in sync.unsent, CloudTakes(it)
  PROVE  IntentInv'
  <1> DEFINE rest == sync.unsent \ {it}
  <1>1. /\ UNCHANGED <<local, queue, job, clock, lapse>> /\ cloud' = Append(cloud, it)
        /\ sync' = [sync EXCEPT !.unsent = rest]
    BY DEF CloudTakes, history
  <1>2. sync'.ops = sync.ops /\ sync'.unread = sync.unread /\ sync'.unsent = rest /\ it \in Item
    BY <1>1, SyncTypes DEF IInv, Sync
  <1>3. OwedOn /\ clock \in Nat /\ TypeOK /\ (Owed' <=> Owed)
    BY <1>1, JobsKept DEF IInv, TypeOK, Owed, OwesConversation
  <1>4. Keeps /\ (it.row = Conversation => CloudHas(it.stamp)')
    BY <1>1, <1>2, <1>3, LogAppends
  <1>5. CarriedIsCurrent'
    <2> SUFFICES ASSUME NEW p \in sync.ops, Carried(p), local[Conversation] # NoRow,
                        ~Owed, lapse # "late", ~CloudHas(Latest)'
                 PROVE  \/ p \in sync.unread /\ p.at >= Latest
                        \/ \E i \in rest : i.row = Conversation /\ i.stamp >= Latest
      BY <1>1, <1>2, <1>3 DEF CarriedIsCurrent, Carried, Latest
    <2>1. Latest \in Nat /\ Latest' = Latest
      BY <1>1, <1>3, LatestIsNat DEF Latest
    <2>2. \/ p \in sync.unread /\ p.at >= Latest
          \/ \E i \in sync.unsent : i.row = Conversation /\ i.stamp >= Latest
      BY <1>4, <2>1 DEF IntentInv, CarriedIsCurrent, Keeps, Latest
    <2>3. it.row = Conversation => ~(it.stamp >= Latest)
      <3> SUFFICES ASSUME it.row = Conversation, it.stamp >= Latest
                   PROVE  FALSE
        OBVIOUS
      <3>1. PICK i \in 1..Len(cloud') : cloud'[i].row = Conversation /\ cloud'[i].stamp >= it.stamp
        BY <1>4 DEF CloudHas
      <3>2. cloud' \in Seq(Item)
        BY <1>1, <1>2, <1>3, CloudAppends
      <3>3. cloud'[i].stamp \in Nat /\ it.stamp \in Nat
        <4>1. cloud'[i] \in Item
          BY <3>1, <3>2
        <4>2. QED
          BY <1>2, <4>1 DEF Item, Stamp
      <3>4. cloud'[i].stamp >= Latest
        BY <2>1, <3>1, <3>3
      <3>5. QED
        BY <2>1, <3>1, <3>4 DEF CloudHas
    <2>4. QED
      BY <2>2, <2>3
  <1>6. CallsArePast'
    BY <1>1 DEF IntentInv, CallsArePast
  <1> HIDE DEF rest
  <1>7. QED
    BY <1>1, <1>3, <1>4, <1>5, <1>6, IntentSpared

\* What the queue forgets the cloud has, or a call owes.
LEMMA ClearOpsIntent ==
  ASSUME IInv, IntentInv, ClearOps
  PROVE  IntentInv'
  <1>1. /\ UNCHANGED <<local, cloud, job, clock, lapse>>
        /\ sync' = [NoSync EXCEPT !.pc = "pull"] /\ sync.pc = "post" /\ sync.unsent = {}
        /\ queue' = [r \in Rows |-> IF \E o \in sync.ops : o.row = r THEN NoRow ELSE queue[r]]
    BY DEF ClearOps, history
  <1>2. sync'.ops = {}
    BY <1>1 DEF NoSync
  <1>3. (Owed' <=> Owed) /\ \A stamp : CloudHas(stamp)' <=> CloudHas(stamp)
    BY <1>1 DEF Owed, OwesConversation, CloudHas
  <1>4. NewerIsForeign' /\ CallsArePast' /\ CarriedIsCurrent'
    BY <1>1, <1>2, <1>3 DEF IntentInv, NewerIsForeign, CallsArePast, CarriedIsCurrent
  <1>5. Conversation \in Rows
    BY DEF Rows
  <1>6. CASE \E o \in sync.ops : o.row = Conversation
    <2> PICK o \in sync.ops : o.row = Conversation
      BY <1>6
    <2>1. sync.unread = {}
      BY <1>1 DEF IInv, ReadIsCarried
    <2>2. Carried(o)
      BY <2>1 DEF Carried
    <2>3. local[Conversation] # NoRow => Owed \/ lapse = "late" \/ CloudHas(Latest)
      BY <1>1, <2>1, <2>2 DEF IntentInv, CarriedIsCurrent, Latest
    <2>4. queue'[Conversation] = NoRow
      BY <1>1, <1>5
    <2>5. DeletionIsCurrent'
      BY <2>4 DEF DeletionIsCurrent
    <2>6. EditLostOnlyInRace'
      BY <1>1, <1>3, <2>3 DEF EditLostOnlyInRace, Owed, OwesConversation, Latest
    <2>7. QED
      BY <1>4, <2>5, <2>6 DEF IntentInv
  <1>7. CASE ~ \E o \in sync.ops : o.row = Conversation
    <2>1. queue'[Conversation] = queue[Conversation]
      BY <1>1, <1>5, <1>7
    <2>2. DeletionIsCurrent' /\ EditLostOnlyInRace'
      BY <1>1, <1>3, <2>1 DEF IntentInv, DeletionIsCurrent, EditLostOnlyInRace, OwesConversation
    <2>3. QED
      BY <1>4, <2>2 DEF IntentInv
  <1>8. QED
    BY <1>6, <1>7

LEMMA PhonePushesIntent ==
  ASSUME IInv, IntentInv, NEW r \in Rows \cup Others, NEW t \in Stamp, NEW live \in BOOLEAN,
         PhonePushes(r, t, live)
  PROVE  IntentInv'
  <1> DEFINE it == [row |-> r, stamp |-> t, live |-> live, born |-> BornOf(r, t)]
  <1>1. /\ UNCHANGED <<local, queue, job, clock, lapse, sync>> /\ cloud' = Append(cloud, it)
    BY DEF PhonePushes, history
  <1>2. it \in Item
    BY BornIsStamp DEF IInv, Item
  <1> HIDE DEF it
  <1>3. OwedOn /\ clock \in Nat /\ TypeOK /\ Keeps
    BY <1>1, <1>2, JobsKept, LogAppends DEF IInv, TypeOK
  <1>4. CallsArePast'
    BY <1>1 DEF IntentInv, CallsArePast
  <1>5. CarriedIsCurrent'
    BY <1>1, <1>3, CarriedKept DEF IntentInv
  <1>6. QED
    BY <1>1, <1>3, <1>4, <1>5, IntentSpared

\* A conversation that is applied is the cloud's.
LEMMA AppliedIsClouds ==
  ASSUME IInv, NEW it \in Item, it.row = Conversation, Applied(it) # local[Conversation]
  PROVE  Applied(it) = NoRow \/ Applied(it).stamp = it.stamp
  BY DEF Applied

LEMMA ApplyItemIntent ==
  ASSUME IInv, IntentInv, ApplyItem
  PROVE  IntentInv'
  <1> DEFINE n  == sync.pos + 1
             it == cloud[n]
  <1>1. /\ UNCHANGED <<queue, cloud, clock, lapse>> /\ sync.pc = "apply" /\ NextPos
        /\ local' = IF it.row \in Rows THEN [local EXCEPT ![it.row] = Applied(it)] ELSE local
        /\ IF it.row \in Turns /\ it.live THEN Dispatch(it) ELSE UNCHANGED job
    BY DEF ApplyItem
  <1>2. n \in 1..Len(cloud) /\ it \in Item
    BY <1>1, ItemApplied
  <1>3. sync'.ops = sync.ops /\ sync'.unread = sync.unread /\ sync'.unsent = sync.unsent
    <2> DEFINE pc == IF n = sync.upto THEN "save" ELSE "apply"
    <2>1. sync' = [sync EXCEPT !.pos = n, !.pc = pc]
      BY <1>1 DEF NextPos
    <2> HIDE DEF n, pc
    <2>2. QED
      BY <2>1, SyncTypes DEF IInv, Sync
  <1> HIDE DEF it
  <1>4. UNCHANGED job \/ \E j \in Jobs : /\ Free(j) /\ job'[j].at = "check"
                                         /\ \A k \in Jobs \ {j} : job'[k] = job[k]
    <2>1. CASE UNCHANGED job
      BY <2>1
    <2>2. CASE ~UNCHANGED job
      <3> DEFINE x == [NoJob EXCEPT !.kind = "reply", !.at = "check", !.for = it.row,
                                    !.stamp = it.born]
      <3>1. PICK j \in Jobs : Free(j) /\ job' = [job EXCEPT ![j] = x]
        BY <1>1, <2>2 DEF Dispatch
      <3>2. x.at = "check"
        BY DEF NoJob
      <3> HIDE DEF x
      <3>3. job'[j] = x /\ \A k \in Jobs \ {j} : job'[k] = job[k]
        BY <3>1, Moved
      <3>4. QED
        BY <3>1, <3>2, <3>3
    <2>3. QED
      BY <2>1, <2>2
  <1>5. clock \in Nat /\ TypeOK /\ Keeps
    BY <1>1, LogKept DEF IInv, TypeOK
  <1>6. OwedOn /\ CallsArePast'
    <2>1. CASE UNCHANGED job
      BY <1>1, <2>1, JobsKept DEF IntentInv, CallsArePast
    <2>2. CASE ~UNCHANGED job
      <3> PICK j \in Jobs : /\ Free(j) /\ job'[j].at = "check"
                            /\ \A k \in Jobs \ {j} : job'[k] = job[k]
        BY <1>4, <2>2
      <3>1. ~OwesConversation(j)
        BY DEF Free, OwesConversation
      <3>2. QED
        BY <1>1, <1>5, <3>1, OneJobOwes, OneJobPast DEF IntentInv
    <2>3. QED
      BY <2>1, <2>2
  <1>7. CASE local'[Conversation] = local[Conversation]
    <2>1. CarriedIsCurrent'
      BY <1>1, <1>3, <1>5, <1>6, <1>7, CarriedKept DEF IntentInv
    <2>2. QED
      BY <1>1, <1>5, <1>6, <1>7, <2>1, IntentSpared
  <1>8. CASE local'[Conversation] # local[Conversation]
    <2>1. local \in [Rows -> Version \cup {NoRow}] /\ Conversation \in Rows
      BY DEF IInv, TypeOK, Rows
    <2>2. it.row = Conversation /\ local'[Conversation] = Applied(it)
      BY <1>1, <1>8, <2>1
    <2>3. local'[Conversation] = NoRow \/ Latest' = it.stamp
      BY <1>2, <1>8, <2>2, AppliedIsClouds DEF Latest
    <2>4. it.stamp \in Nat
      BY <1>2 DEF Item, Stamp
    <2>5. cloud' = cloud /\ cloud[n] = it
      BY <1>1 DEF it
    <2>6. CASE local'[Conversation] = NoRow
      BY <1>6, <2>6, CloudExcuses
    <2>7. CASE local'[Conversation] # NoRow
      <3>1. PICK t \in Nat : t = it.stamp
        BY <2>4
      <3>2. PICK i \in 1..Len(cloud) : cloud'[i].row = Conversation /\ cloud'[i].stamp = t
        BY <1>2, <2>2, <2>5, <3>1
      <3>3. Latest' = t
        BY <2>3, <2>7, <3>1
      <3>4. CloudHas(Latest)'
        BY <2>5, <3>2, <3>3 DEF CloudHas
      <3>5. QED
        BY <1>6, <3>4, CloudExcuses
    <2>8. QED
      BY <2>6, <2>7
  <1>9. QED
    BY <1>7, <1>8

\* A stop drops the calls, and with them what they owe.
LEMMA StopIntent ==
  ASSUME IInv, IntentInv, Stop
  PROVE  IntentInv'
  <1>1. /\ UNCHANGED <<local, queue, cloud, clock>> /\ sync' = NoSync
        /\ job' = [j \in Jobs |-> NoJob]
        /\ lapse' = IF \E j \in Jobs : OwesConversation(j) THEN "failed" ELSE lapse
    BY DEF Stop, LapseOf
  <1>2. clock \in Nat /\ TypeOK /\ Keeps /\ NoJob.stamp = 0 /\ NoSync.ops = {}
    BY <1>1, LogKept DEF IInv, TypeOK, NoJob, NoSync
  <1>3. OwedOn
    BY <1>1 DEF OwedOn, Owed
  <1>4. CallsArePast'
    BY <1>1, <1>2 DEF CallsArePast
  <1>5. CarriedIsCurrent'
    BY <1>1, <1>2, NothingCarried
  <1>6. lapse' = lapse \/ lapse' = "failed"
    BY <1>1
  <1>7. QED
    BY <1>1, <1>2, <1>3, <1>4, <1>5, <1>6, IntentSpared

\* The other steps of the cycle, which leave it with no ops.
LEMMA CycleIntent ==
  ASSUME IInv, IntentInv,
         \/ PushFails \/ SyncThrows \/ PullEnds \/ SetLastSeq
         \/ \E n \in 1..Len(cloud) : PullPage(n)
  PROVE  IntentInv'
  <1>1. UNCHANGED <<local, queue, cloud, job, clock, lapse>>
    BY DEF PushFails, SyncThrows, PullEnds, SetLastSeq, PullPage, history
  <1>2. sync'.ops = {}
    <2>1. CASE PushFails
      BY <2>1 DEF PushFails, NoSync
    <2>2. CASE SyncThrows \/ PullEnds
      BY <2>2 DEF SyncThrows, PullEnds, NoSync
    <2>3. CASE SetLastSeq
      <3> DEFINE pc == IF sync.more THEN "pull" ELSE "idle"
      <3>1. sync' = [NoSync EXCEPT !.pc = pc]
        BY <2>3 DEF SetLastSeq
      <3> HIDE DEF pc
      <3>2. QED
        BY <3>1 DEF NoSync
    <2>4. CASE \E n \in 1..Len(cloud) : PullPage(n)
      <3>1. PICK n \in 1..Len(cloud) : PullPage(n)
        BY <2>4
      <3> DEFINE more == n < Len(cloud)
      <3>2. sync' = [NoSync EXCEPT !.pc = "apply", !.pos = cursor, !.upto = n, !.more = more]
        BY <3>1 DEF PullPage
      <3> HIDE DEF more
      <3>3. QED
        BY <3>2 DEF NoSync
    <2>5. QED
      BY <2>1, <2>2, <2>3, <2>4
  <1>3. QED
    BY <1>1, <1>2, CycleSparesIntent

LEMMA ApplyFailsIntent ==
  ASSUME IInv, IntentInv, ApplyFails
  PROVE  IntentInv'
  <1>1. /\ UNCHANGED <<local, queue, cloud, job, clock, lapse>>
        /\ sync' = [sync EXCEPT !.pc = "save", !.more = FALSE]
    BY DEF ApplyFails, history
  <1>2. sync'.ops = sync.ops /\ sync'.unread = sync.unread /\ sync'.unsent = sync.unsent
    BY <1>1, SyncTypes DEF IInv, Sync
  <1>3. OwedOn /\ clock \in Nat /\ TypeOK /\ Keeps
    BY <1>1, JobsKept, LogKept DEF IInv, TypeOK
  <1>4. CallsArePast' /\ CarriedIsCurrent'
    BY <1>1, <1>2, <1>3, CarriedKept DEF IntentInv, CallsArePast
  <1>5. QED
    BY <1>1, <1>3, <1>4, IntentSpared

-----------------------------------------------------------------------------
(* The theorems.                                                            *)

LEMMA InitIntentInv == Init => IntentInv
  <1> SUFFICES ASSUME Init
               PROVE  IntentInv
    OBVIOUS
  <1>1. NoSync.ops = {} /\ NoJob.stamp = 0 /\ Conversation \in Rows
    BY DEF NoSync, NoJob, Rows
  <1>2. QED
    BY <1>1 DEF Init, IntentInv, NewerIsForeign, CallsArePast, DeletionIsCurrent,
                CarriedIsCurrent, EditLostOnlyInRace

LEMMA NextIntentInv == IInv /\ IntentInv /\ [Next]_vars => IntentInv'
  <1> SUFFICES ASSUME IInv, IntentInv, [Next]_vars
               PROVE  IntentInv'
    OBVIOUS
  <1>1. CASE UNCHANGED vars \/ SignOut \/ StartSync
    <2>1. UNCHANGED <<local, queue, cloud, sync, job, clock, lapse>>
      BY <1>1 DEF vars, SignOut, StartSync, history
    <2>2. QED
      BY <2>1, CycleSparesIntent
  <1>2. CASE User
    <2>1. CASE \E j \in Jobs, live \in BOOLEAN : Edit(j, live)
      BY <2>1, EditIntent
    <2>2. CASE \E j \in Jobs, m \in Messages : Mirror(j, m)
      BY <2>2, MirrorIntent
    <2>3. CASE \E r \in PhoneRows \cap Rows, t \in Stamp, live \in BOOLEAN : PhonePushes(r, t, live)
      BY <2>3, PhonePushesIntent
    <2>4. CASE \E r \in PhoneRows \cap Others : PhonePushes(r, 1, TRUE)
      <3>1. 1 \in Stamp
        BY DEF Stamp
      <3>2. QED
        BY <2>4, <3>1, PhonePushesIntent
    <2>5. CASE Stop
      BY <2>5, StopIntent
    <2>6. QED
      BY <1>1, <1>2, <2>1, <2>2, <2>3, <2>4, <2>5 DEF User, Phone
  <1>3. CASE FullSync
    BY <1>3, FullSyncIntent
  <1>4. CASE PushStep
    <2>1. CASE ClearOps
      BY <2>1, ClearOpsIntent
    <2>2. CASE \E o \in sync.unread : ReadLocal(o)
      BY <2>2, ReadLocalIntent
    <2>3. CASE \E it \in sync.unsent : CloudTakes(it)
      BY <2>3, CloudTakesIntent
    <2>4. QED
      BY <1>4, <2>1, <2>2, <2>3, CycleIntent DEF PushStep
  <1>5. CASE PullStep
    BY <1>5, CycleIntent, ApplyItemIntent, ApplyFailsIntent DEF PullStep
  <1>6. ASSUME NEW j \in Jobs, JobStep(j)
        PROVE  IntentInv'
    <2>1. CASE WriteConversation(j) \/ WriteMessage(j)
      BY <2>1, WriteConversationIntent, WriteMessageIntent
    <2>2. CASE EnqueueConversation(j) \/ EnqueueMessage(j) \/ EnqueueFails(j)
      BY <2>2, EnqueueConversationIntent, EnqueueMessageIntent, EnqueueFailsIntent
    <2>3. CASE JobFails(j) \/ ClaudeFails(j)
      BY <2>3, JobFailsIntent, ClaudeFailsIntent
    <2>4. CASE Check(j) \/ \E r \in Replies : ClaudeAnswers(j, r)
      BY <2>4, CheckIntent, ClaudeAnswersIntent
    <2>5. QED
      BY <1>6, <2>1, <2>2, <2>3, <2>4 DEF JobStep
  <1>7. QED
    BY <1>1, <1>2, <1>3, <1>4, <1>5, <1>6 DEF Next

\* The inductive invariant: the latest edit of the conversation, from the call that made
\* it to the cloud's log.
THEOREM IntentInvariant == Spec => []IntentInv
  BY InitIntentInv, NextIntentInv, SyncInvariant, PTL DEF Spec

\* No failed cycle, lost answer, applied page or deletion loses an edit of the conversation:
\* only a call that fails before it queues the edit does, or one that queues it while the
\* cycle under way has its item already, which clearOps then takes for the edit.
THEOREM EditsAreKept == Spec => []EditLostOnlyInRace
  <1>1. IntentInv => EditLostOnlyInRace
    BY DEF IntentInv
  <1>2. QED
    BY IntentInvariant, <1>1, PTL
=============================================================================
