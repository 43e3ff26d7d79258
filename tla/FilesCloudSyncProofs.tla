------------------------ MODULE FilesCloudSyncProofs ------------------------
(***************************************************************************)
(* The versions and the commits only grow, and a step is the step of one   *)
(* device: what the invariant says of the others it goes on saying         *)
(* (OthersKeep).  Of the acting device most steps change only the session, *)
(* the operation and the work in hand (Bookkeeping).                       *)
(***************************************************************************)
EXTENDS FilesCloudSync, TLAPS

USE BoundsAssumption

Extends ==
  /\ Len(ver) <= Len(ver') /\ \A v \in Versions : ver'[v] = ver[v]
  /\ Len(cloud) <= Len(cloud') /\ \A n \in Seqs : cloud'[n] = cloud[n]
  /\ raced \subseteq raced'

Applying(d) == step[d].pc \in {"apply", "fork", "land"}

\* No deletion of d is undone.
Spares(d) == \A w \in undone' \ undone : ver[w].device # d

Same(d) ==
  /\ current'[d] = current[d] /\ has'[d] = has[d] /\ known'[d] = known[d]
  /\ heads'[d] = heads[d] /\ lastSeq'[d] = lastSeq[d] /\ session'[d] = session[d]
  /\ op'[d] = op[d] /\ fresh'[d] = fresh[d] /\ step'[d] = step[d]
  /\ Spares(d)

LEMMA Types ==
  ASSUME TypeOK
  PROVE  /\ Len(ver) \in Nat /\ Len(cloud) \in Nat
         /\ \A v \in Versions : /\ ver[v] \in FileVersion /\ FileOf(v) \in Files
                                /\ ver[v].parent \in Nat /\ ver[v].device \in Devices
         /\ \A n \in Seqs : cloud[n] \in Commit /\ cloud[n].version \in Nat /\ cloud[n].base \in Nat
  <1>1. ver \in Seq(FileVersion) /\ cloud \in Seq(Commit)
    BY DEF TypeOK
  <1>2. \A v \in Versions : ver[v] \in FileVersion
    BY <1>1 DEF Versions
  <1>3. \A n \in Seqs : cloud[n] \in Commit
    BY <1>1 DEF Seqs
  <1>4. \A v \in Versions : /\ FileOf(v) \in Files /\ ver[v].parent \in Nat
                            /\ ver[v].device \in Devices
    BY <1>2 DEF FileOf, FileVersion
  <1>5. \A n \in Seqs : cloud[n].version \in Nat /\ cloud[n].base \in Nat
    BY <1>3 DEF Commit
  <1>6. Len(ver) \in Nat /\ Len(cloud) \in Nat
    BY <1>1
  <1>7. QED
    BY <1>2, <1>3, <1>4, <1>5, <1>6

LEMMA DeviceTypes ==
  ASSUME TypeOK, NEW d \in Devices
  PROVE  /\ lastSeq[d] \in Nat /\ lastSeq[d] <= Len(cloud)
         /\ has[d] \subseteq Versions /\ known[d] \subseteq Versions
         /\ \A f \in Files : heads[d][f] \in Nat /\ heads[d][f] <= Len(cloud)
                             /\ current[d][f] \in 0..Len(ver)
         /\ session[d] \in Session
         /\ session[d].version \in 0..Len(ver) /\ session[d].open \in BOOLEAN
         /\ session[d].seq \in Nat
         /\ op[d] \in Operation
         /\ op[d].kind \in {"none", "upload-open", "commit"} /\ op[d].version \in 0..Len(ver)
         /\ op[d].base \in Nat /\ op[d].state \in [Files -> Nat] /\ op[d].attempts \in Nat
         /\ step[d] \in Work
         /\ step[d].pc \in {"idle", "apply", "fork", "land", "save", "queue", "answer", "complete"}
         /\ step[d].upto \in Nat /\ step[d].pos \in Nat /\ step[d].saw \in 0..Len(ver)
         /\ fresh[d] \in BOOLEAN
  <1>1. Len(ver) \in Nat /\ Len(cloud) \in Nat
    BY Types
  <1>2. /\ lastSeq[d] \in 0..Len(cloud) /\ has[d] \in SUBSET Versions /\ known[d] \in SUBSET Versions
        /\ heads[d] \in [Files -> 0..Len(cloud)] /\ current[d] \in [Files -> 0..Len(ver)]
        /\ fresh[d] \in BOOLEAN
    BY DEF TypeOK
  <1>3. session[d] \in Session /\ op[d] \in Operation /\ step[d] \in Work
    BY DEF TypeOK
  <1>4. \A f \in Files : heads[d][f] \in Nat /\ heads[d][f] <= Len(cloud)
                         /\ current[d][f] \in 0..Len(ver)
    BY <1>1, <1>2
  <1>5. /\ session[d].version \in 0..Len(ver) /\ session[d].open \in BOOLEAN
        /\ session[d].seq \in Nat
    BY <1>3 DEF Session
  <1>6. /\ op[d].kind \in {"none", "upload-open", "commit"} /\ op[d].version \in 0..Len(ver)
        /\ op[d].base \in Nat /\ op[d].state \in [Files -> Nat] /\ op[d].attempts \in Nat
    BY <1>3 DEF Operation
  <1>7. /\ step[d].pc \in {"idle", "apply", "fork", "land", "save", "queue", "answer", "complete"}
        /\ step[d].upto \in Nat /\ step[d].pos \in Nat /\ step[d].saw \in 0..Len(ver)
    BY <1>3 DEF Work
  <1>8. lastSeq[d] \in Nat /\ lastSeq[d] <= Len(cloud)
    BY <1>1, <1>2
  <1>9. QED
    BY <1>2, <1>3, <1>4, <1>5, <1>6, <1>7, <1>8

LEMMA PassedIsSeq ==
  ASSUME IInv, NEW d \in Devices
  PROVE  Passed(d) \in Nat /\ Passed(d) <= Len(cloud) /\ lastSeq[d] <= Passed(d)
  <1>1. CASE Pulling(d)
    BY <1>1, DeviceTypes, Types DEF Passed, IInv, DeviceInv, StepIsShaped
  <1>2. CASE ~Pulling(d)
    BY <1>2, DeviceTypes, Types DEF Passed, IInv
  <1>3. QED
    BY <1>1, <1>2

\* What was written and committed stays as it was.
LEMMA PastIsKept ==
  ASSUME IInv, TypeOK', Extends
  PROVE  /\ \A v \in Versions : v \in Versions' /\ FileOf(v)' = FileOf(v)
         /\ \A n \in Seqs : n \in Seqs' /\ FileAt(n)' = FileAt(n)
         /\ \A v : InCloud(v) => InCloud(v)' /\ v \in Versions
         /\ Len(ver) \in Nat /\ Len(ver') \in Nat /\ Len(cloud) \in Nat /\ Len(cloud') \in Nat
  <1>1. Len(ver) \in Nat /\ Len(ver') \in Nat /\ Len(cloud) \in Nat /\ Len(cloud') \in Nat
    BY DEF IInv, TypeOK
  <1>2. \A v \in Versions : v \in Versions' /\ FileOf(v)' = FileOf(v)
    BY <1>1 DEF Extends, Versions, FileOf
  <1>3. \A n \in Seqs : n \in Seqs' /\ cloud[n].version \in Versions
    BY <1>1 DEF Extends, Seqs, IInv, ChainIsHashed
  <1>4. \A n \in Seqs : FileAt(n)' = FileAt(n)
    BY <1>2, <1>3 DEF FileAt, Extends, FileOf
  <1>5. \A v : InCloud(v) => InCloud(v)' /\ v \in Versions
    BY <1>3 DEF InCloud, Extends
  <1>6. QED
    BY <1>1, <1>2, <1>3, <1>4, <1>5

-----------------------------------------------------------------------------
(* The parts of the invariant, each from what it speaks about.              *)

LEMMA SameParts ==
  ASSUME NEW d \in Devices, Same(d)
  PROVE  /\ Pulling(d)' = Pulling(d) /\ Passed(d)' = Passed(d) /\ Claims(d)' = Claims(d)
  BY DEF Same, Pulling, Passed, Claims

LEMMA LandedStays ==
  ASSUME IInv, TypeOK', Extends, NEW d \in Devices, op'[d].base = op[d].base,
         op'[d].version = op[d].version, Landed(op[d])
  PROVE  Landed(op[d])'
  <1>1. op[d].base + 1 \in Seqs /\ op[d].base \in Nat
    BY DeviceTypes, Types DEF Landed, Seqs, IInv
  <1>2. cloud'[op[d].base + 1] = cloud[op[d].base + 1]
    BY <1>1 DEF Extends
  <1>3. QED
    BY <1>1, <1>2, PastIsKept DEF Landed, Extends

LEMMA StepStays ==
  ASSUME IInv, TypeOK', Extends, NEW d \in Devices, lastSeq'[d] = lastSeq[d],
         session'[d] = session[d], op'[d] = op[d], fresh'[d] = fresh[d], step'[d] = step[d]
  PROVE  StepIsShaped(d)'
  <1>1. StepIsShaped(d)
    BY DEF IInv, DeviceInv
  <1>2. Landed(op[d]) => Landed(op[d])'
    BY LandedStays
  <1>3. Len(cloud) <= Len(cloud') /\ Len(cloud) \in Nat /\ Len(cloud') \in Nat
    BY PastIsKept DEF Extends
  <1>4. Pulling(d)' = Pulling(d) /\ Claims(d)' = Claims(d)
    BY DEF Pulling, Claims
  <1>5. QED
    BY <1>1, <1>2, <1>3, <1>4, DeviceTypes DEF StepIsShaped, IInv

LEMMA OpStays ==
  ASSUME IInv, TypeOK', Extends, NEW d \in Devices, heads'[d] = heads[d],
         lastSeq'[d] = lastSeq[d], session'[d] = session[d], op'[d] = op[d]
  PROVE  OpIsShaped(d)'
  <1>1. OpIsShaped(d)
    BY DEF IInv, DeviceInv
  <1>2. session[d].version \in Versions => FileOf(session[d].version)' = FileOf(session[d].version)
    BY PastIsKept
  <1>3. session[d].version # 0 => session[d].version \in Versions
    BY DeviceTypes, Types DEF IInv, Versions
  <1>4. session[d].version # 0 => CommitOf(d, session[d].version)' = CommitOf(d, session[d].version)
    BY <1>2, <1>3 DEF CommitOf, FileOf, Extends
  <1>5. QED
    BY <1>1, <1>4 DEF OpIsShaped

LEMMA HeadsKept ==
  ASSUME IInv, TypeOK', Extends, NEW d \in Devices, heads'[d] = heads[d],
         Passed(d)' <= Passed(d), Passed(d)' \in Nat,
         Pulling(d)' => Pulling(d) /\ step'[d].upto = step[d].upto,
         Claims(d)' => Claims(d) /\ lastSeq'[d] = lastSeq[d]
  PROVE  HeadsCover(d)'
  <1>1. HeadsCover(d)
    BY DEF IInv, DeviceInv
  <1>2. \A m \in 1..Passed(d)' : m \in 1..Passed(d) /\ m \in Seqs
    BY PassedIsSeq, Types DEF Seqs, IInv
  <1>3. \A n \in Seqs : n \in Seqs' /\ FileAt(n)' = FileAt(n)
    BY PastIsKept
  <1>4. QED
    BY <1>1, <1>2, <1>3 DEF HeadsCover

LEMMA KnownKept ==
  ASSUME IInv, TypeOK', Extends, NEW d \in Devices, known'[d] = known[d], has'[d] = has[d],
         Passed(d)' <= Passed(d), Passed(d)' \in Nat,
         session'[d].version \in {session[d].version, 0}
  PROVE  KnownCovers(d)'
  <1>1. KnownCovers(d)
    BY DEF IInv, DeviceInv
  <1>2. \A m \in 1..Passed(d)' : m \in 1..Passed(d) /\ m \in Seqs
    BY PassedIsSeq, Types DEF Seqs, IInv
  <1>3. \A v : InCloud(v) => InCloud(v)'
    BY PastIsKept
  <1>4. \A v \in has[d] : ver'[v] = ver[v]
    BY DeviceTypes DEF IInv, Extends
  <1>5. QED
    BY <1>1, <1>2, <1>3, <1>4 DEF KnownCovers, Extends

LEMMA RowsKept ==
  ASSUME IInv, TypeOK', Extends, NEW d \in Devices, current'[d] = current[d], has'[d] = has[d]
  PROVE  RowsAreHeld(d)'
  <1>1. RowsAreHeld(d)
    BY DEF IInv, DeviceInv
  <1>2. \A f \in Files : current[d][f] # 0 => current[d][f] \in Versions
    BY DeviceTypes, Types DEF IInv, Versions
  <1>3. \A v \in Versions : ver'[v] = ver[v] /\ FileOf(v)' = FileOf(v)
    BY PastIsKept DEF Extends
  <1>4. QED
    BY <1>1, <1>2, <1>3 DEF RowsAreHeld, FileOf

\* What was kept stays kept, as long as the row is.
LEMMA KeptStays ==
  ASSUME IInv, TypeOK', Extends, NEW d \in Devices, has[d] \subseteq has'[d], NEW v \in has[d],
         Kept(d, v), current'[d][FileOf(v)] = current[d][FileOf(v)], Spares(d)
  PROVE  Kept(d, v)'
  <1>1. v \in Versions /\ \A w \in has[d] : w \in has'[d] /\ ver'[w] = ver[w]
    BY DeviceTypes DEF IInv, Extends
  <1>2. ver'[v] = ver[v] /\ FileOf(v)' = FileOf(v)
    BY <1>1, PastIsKept
  <1>3. InCloud(v) => InCloud(v)'
    BY PastIsKept
  <1>4. ASSUME NEW w \in has[d], ver[w].device = d, w \notin undone
        PROVE  w \notin undone'
    BY <1>4 DEF Spares
  <1>5. ASSUME NEW w \in has[d], ver[w].device = d,
               (ver[w].parent = v /\ w \notin undone) \/ ver[w].copy = v
        PROVE  /\ w \in has'[d] /\ ver'[w].device = d
               /\ (ver'[w].parent = v /\ w \notin undone') \/ ver'[w].copy = v
    BY <1>1, <1>4, <1>5
  <1>6. QED
    BY <1>2, <1>3, <1>5 DEF Kept

LEMMA IncomingIsVersion ==
  ASSUME IInv, NEW d \in Devices, Applying(d)
  PROVE  /\ step[d].pos + 1 \in Seqs /\ Incoming(d) \in Versions /\ InCloud(Incoming(d))
         /\ FileAt(step[d].pos + 1) = FileOf(Incoming(d)) /\ step[d].pos + 1 <= step[d].upto
         /\ Pulling(d)
  <1>1. step[d].pos + 1 \in Seqs /\ step[d].pos + 1 <= step[d].upto /\ Pulling(d)
    <2>1. Pulling(d) /\ step[d].pc # "save"
      BY DEF Applying, Pulling
    <2>2. /\ step[d].pos <= step[d].upto /\ step[d].upto <= Len(cloud)
          /\ step[d].pc = "save" <=> step[d].pos = step[d].upto
      BY <2>1 DEF IInv, DeviceInv, StepIsShaped
    <2>3. step[d].pos \in Nat /\ step[d].upto \in Nat /\ Len(cloud) \in Nat
      BY DeviceTypes, Types DEF IInv
    <2>4. QED
      BY <2>1, <2>2, <2>3 DEF Seqs
  <1>2. QED
    BY <1>1 DEF IInv, ChainIsHashed, Incoming, FileAt, InCloud

LEMMA SafeKept ==
  ASSUME IInv, TypeOK', Extends, NEW d \in Devices, current'[d] = current[d], has'[d] = has[d],
         Spares(d), step'[d].pc \in {"fork", "land"} => step'[d] = step[d] /\ known'[d] = known[d]
  PROVE  LandIsSafe(d)'
  <1>1. LandIsSafe(d) /\ StepIsShaped(d)
    BY DEF IInv, DeviceInv
  <1>2. \A v \in has[d] : ver'[v] = ver[v] /\ v \in Versions
    BY DeviceTypes DEF IInv, Extends
  <1>3. \A v \in has'[d] : ver'[v].device = d => Kept(d, v)' \/ v \in raced'
    BY <1>1, <1>2, KeptStays DEF LandIsSafe, Extends
  <1>4. ASSUME step'[d].pc = "land"
        PROVE  (~Unpushed(d, step[d].saw) \/ Forked(d, step[d].saw))'
    <2>1. step[d].pc = "land" /\ step'[d] = step[d] /\ known'[d] = known[d]
      BY <1>4
    <2>2. Incoming(d)' = Incoming(d) /\ Incoming(d) \in Versions
      BY <2>1, IncomingIsVersion DEF Incoming, Extends, Applying
    <2>3. step[d].saw # 0 => step[d].saw \in Versions
      BY DeviceTypes, Types DEF IInv, Versions
    <2>4. Unpushed(d, step[d].saw)' => Unpushed(d, step[d].saw)
      BY <2>1, <2>2, <2>3 DEF Unpushed, Extends
    <2>5. Forked(d, step[d].saw) => Forked(d, step[d].saw)'
      BY <2>1, <1>2 DEF Forked
    <2>6. QED
      BY <1>1, <2>1, <2>4, <2>5 DEF LandIsSafe
  <1>5. ASSUME step'[d].pc \in {"fork", "land"}
        PROVE  Incoming(d)' \notin has'[d]
    <2>1. step'[d] = step[d] /\ Applying(d)
      BY <1>5 DEF Applying
    <2>2. Incoming(d)' = Incoming(d)
      BY <2>1, IncomingIsVersion DEF Incoming, Extends
    <2>3. QED
      BY <1>1, <1>5, <2>1, <2>2 DEF LandIsSafe
  <1>6. QED
    BY <1>3, <1>4, <1>5 DEF LandIsSafe

\* A step of one device leaves what the invariant says of the others.
LEMMA OthersKeep ==
  ASSUME IInv, TypeOK', Extends, NEW e \in Devices, Same(e)
  PROVE  DeviceInv(e)'
  <1>1. Passed(e)' = Passed(e) /\ Passed(e) \in Nat /\ Pulling(e)' = Pulling(e) /\ Claims(e)' = Claims(e)
    BY SameParts, PassedIsSeq
  <1>2. StepIsShaped(e)' /\ OpIsShaped(e)'
    BY StepStays, OpStays DEF Same
  <1>3. HeadsCover(e)'
    BY <1>1, HeadsKept DEF Same
  <1>4. KnownCovers(e)'
    BY <1>1, KnownKept DEF Same
  <1>5. RowsAreHeld(e)' /\ LandIsSafe(e)'
    BY RowsKept, SafeKept DEF Same
  <1>6. QED
    BY <1>2, <1>3, <1>4, <1>5 DEF DeviceInv

\* What the invariant says of all devices together, while no version and no commit is added.
LEMMA PastIsShaped ==
  ASSUME IInv, UNCHANGED <<ver, cloud>>, \A d \in Devices : has[d] \subseteq has'[d]
  PROVE  ChainIsHashed' /\ CommittedOnce' /\ \A v \in Versions' : ParentIsHeld(v)'
  <1>1. ChainIsHashed'
    BY Types DEF IInv, ChainIsHashed, Seqs, Versions, HeadAt, FileAt, FileOf
  <1>2. CommittedOnce'
    BY DEF IInv, CommittedOnce, Seqs
  <1>3. \A v \in Versions' : ParentIsHeld(v)'
    BY Types DEF IInv, ParentIsHeld, Versions, FileOf
  <1>4. QED
    BY <1>1, <1>2, <1>3

\* A step of one device that adds no version and no commit.
LEMMA OneDeviceActs ==
  ASSUME IInv, TypeOK', UNCHANGED <<ver, cloud>>, raced \subseteq raced',
         NEW d \in Devices, \A e \in Devices \ {d} : Same(e),
         has[d] \subseteq has'[d], DeviceInv(d)'
  PROVE  IInv'
  <1>1. Extends
    BY Types DEF Extends, IInv
  <1>2. \A e \in Devices : has[e] \subseteq has'[e]
    BY DEF Same
  <1>3. ChainIsHashed' /\ CommittedOnce' /\ \A v \in Versions' : ParentIsHeld(v)'
    BY <1>2, PastIsShaped
  <1>4. \A e \in Devices : DeviceInv(e)'
    BY <1>1, OthersKeep
  <1>5. QED
    BY <1>3, <1>4 DEF IInv

\* Such a step that writes no row of a file.
LEMMA OneDeviceWorks ==
  ASSUME IInv, TypeOK', UNCHANGED <<ver, cloud, current, has, raced, undone>>,
         NEW d \in Devices, \A e \in Devices \ {d} : Same(e),
         step'[d].pc \in {"fork", "land"} => step'[d] = step[d] /\ known'[d] = known[d],
         StepIsShaped(d)', OpIsShaped(d)', HeadsCover(d)', KnownCovers(d)'
  PROVE  IInv'
  <1>1. Extends
    BY Types DEF Extends, IInv
  <1>2. DeviceInv(d)'
    BY <1>1, RowsKept, SafeKept DEF DeviceInv, Spares
  <1>3. QED
    BY <1>2, OneDeviceActs

\* A step that changes only the session, the operation and the work in hand.
LEMMA Bookkeeping ==
  ASSUME IInv, TypeOK', UNCHANGED <<ver, cloud, current, has, known, heads, lastSeq, raced, undone>>,
         NEW d \in Devices, \A e \in Devices \ {d} : Same(e),
         ~Pulling(d)', Claims(d)' => Claims(d),
         session'[d].version \in {session[d].version, 0},
         StepIsShaped(d)', OpIsShaped(d)'
  PROVE  IInv'
  <1>1. Extends
    BY Types DEF Extends, IInv
  <1>2. Passed(d)' = lastSeq[d] /\ Passed(d)' <= Passed(d) /\ Passed(d)' \in Nat
    BY PassedIsSeq, DeviceTypes DEF Passed, IInv
  <1>3. HeadsCover(d)' /\ KnownCovers(d)'
    BY <1>1, <1>2, HeadsKept, KnownKept
  <1>4. QED
    BY <1>3, OneDeviceWorks DEF Pulling

-----------------------------------------------------------------------------
(* The steps of bookkeeping.                                                *)

Pcs == {"idle", "apply", "fork", "land", "save", "queue", "answer", "complete"}

LEMMA WorkTypes ==
  ASSUME TypeOK, UNCHANGED <<ver, cloud, disk, heads, lastSeq, cursor, history>>,
         skips' \in [Devices -> [{"parked", "due"} -> SUBSET Versions]],
         session' \in [Devices -> Session], op' \in [Devices -> Operation],
         fresh' \in [Devices -> BOOLEAN], step' \in [Devices -> Work],
         faults' \in Nat
  PROVE  TypeOK'
  BY DEF TypeOK, disk, history, Versions, Row, Session, Operation, Work

LEMMA Goes ==
  ASSUME TypeOK, NEW d \in Devices, NEW pc \in Pcs, Goto(d, pc)
  PROVE  /\ step' \in [Devices -> Work] /\ step'[d].pc = pc /\ step'[d].upto = step[d].upto
         /\ step'[d].pos = step[d].pos /\ step'[d].saw = step[d].saw
         /\ \A e \in Devices \ {d} : step'[e] = step[e]
  <1> DEFINE x == [step[d] EXCEPT !.pc = pc]
  <1>1. step \in [Devices -> Work] /\ step' = [step EXCEPT ![d] = x]
    BY DEF TypeOK, Goto
  <1>2. /\ x \in Work /\ x.pc = pc /\ x.upto = step[d].upto /\ x.pos = step[d].pos
        /\ x.saw = step[d].saw
    BY <1>1 DEF Work, Pcs
  <1> HIDE DEF x
  <1>3. QED
    BY <1>1, <1>2

LEMMA Rests ==
  ASSUME TypeOK, NEW d \in Devices, Rest(d)
  PROVE  /\ step' \in [Devices -> Work] /\ step'[d].pc = "idle"
         /\ \A e \in Devices \ {d} : step'[e] = step[e]
  <1>1. step \in [Devices -> Work] /\ Idle \in Work /\ Idle.pc = "idle"
    BY Types DEF TypeOK, Idle, Work
  <1>2. QED
    BY <1>1 DEF Rest

LEMMA NoneAreTyped ==
  ASSUME TypeOK
  PROVE  /\ NoSession \in Session /\ NoSession.version = 0 /\ NoSession.open = FALSE
         /\ NoOp \in Operation /\ NoOp.kind = "none"
  BY Types DEF NoSession, Session, NoOp, Operation

LEMMA Drops ==
  ASSUME TypeOK, NEW d \in Devices, DropSession(d)
  PROVE  /\ session' \in [Devices -> Session] /\ session'[d] = NoSession
         /\ op' \in [Devices -> Operation] /\ op'[d] = NoOp
         /\ \A e \in Devices \ {d} : session'[e] = session[e] /\ op'[e] = op[e]
  <1>1. session \in [Devices -> Session] /\ op \in [Devices -> Operation]
    BY DEF TypeOK
  <1>2. session' = [session EXCEPT ![d] = NoSession] /\ op' = [op EXCEPT ![d] = NoOp]
    BY DEF DropSession
  <1>3. QED
    BY <1>1, <1>2, NoneAreTyped

\* The operation goes on as it is, or with one attempt more.
LEMMA OpKept ==
  ASSUME IInv, NEW d \in Devices, UNCHANGED <<ver, heads, lastSeq>>, session'[d] = session[d],
         op'[d] = op[d] \/ op'[d] = [op[d] EXCEPT !.attempts = @ + 1]
  PROVE  OpIsShaped(d)'
  <1>1. OpIsShaped(d) /\ op[d] \in Operation
    BY DeviceTypes DEF IInv, DeviceInv
  <1>2. CASE op'[d] = op[d]
    BY <1>1, <1>2 DEF OpIsShaped, CommitOf, FileOf
  <1>3. CASE op'[d] = [op[d] EXCEPT !.attempts = @ + 1]
    <2>1. /\ op'[d].kind = op[d].kind /\ op'[d].version = op[d].version
          /\ op'[d].base = op[d].base /\ op'[d].state = op[d].state
      BY <1>1, <1>3 DEF Operation
    <2>2. CASE op[d].kind = "commit" /\ session[d].version # 0
      <3> DEFINE v == session[d].version
      <3>1. op[d] = [CommitOf(d, v) EXCEPT !.attempts = op[d].attempts]
        BY <1>1, <2>2 DEF OpIsShaped
      <3>2. op'[d] = [CommitOf(d, v) EXCEPT !.attempts = op'[d].attempts]
        BY <1>3, <3>1 DEF CommitOf
      <3>3. CommitOf(d, v)' = CommitOf(d, v)
        BY DEF CommitOf, FileOf
      <3>4. QED
        BY <1>1, <2>1, <2>2, <3>2, <3>3 DEF OpIsShaped
    <2>3. CASE op[d].kind # "commit" \/ session[d].version = 0
      BY <1>1, <2>1, <2>3 DEF OpIsShaped
    <2>4. QED
      BY <2>2, <2>3
  <1>4. QED
    BY <1>2, <1>3

\* Only the skips change.
LEMMA SkipsOnly ==
  ASSUME IInv, UNCHANGED <<ver, cloud, disk, heads, lastSeq, cursor, work, history>>,
         skips' \in [Devices -> [{"parked", "due"} -> SUBSET Versions]], faults' \in Nat
  PROVE  IInv'
  <1>1. TypeOK'
    BY WorkTypes DEF IInv, TypeOK, work
  <1>2. Extends
    BY Types DEF Extends, IInv, history
  <1>3. \A d \in Devices : Same(d)
    BY DEF Same, Spares, disk, work, history
  <1>4. ChainIsHashed' /\ CommittedOnce' /\ \A v \in Versions' : ParentIsHeld(v)'
    BY PastIsShaped DEF disk
  <1>5. QED
    BY <1>1, <1>2, <1>3, <1>4, OthersKeep DEF IInv

LEMMA SkipIsDueKeeps ==
  ASSUME IInv, NEW d \in Devices, SkipIsDue(d)
  PROVE  IInv'
  <1> DEFINE x == [s \in {"parked", "due"} |->
                     IF s = "due" THEN skips[d]["due"] \cup skips[d]["parked"] ELSE {}]
  <1>1. skips \in [Devices -> [{"parked", "due"} -> SUBSET Versions]] /\ faults \in Nat
    BY DEF IInv, TypeOK
  <1>2. x \in [{"parked", "due"} -> SUBSET Versions]
    BY <1>1
  <1>3. skips' = [skips EXCEPT ![d] = x]
    BY DEF SkipIsDue
  <1> HIDE DEF x
  <1>4. skips' \in [Devices -> [{"parked", "due"} -> SUBSET Versions]]
    BY <1>1, <1>2, <1>3
  <1>5. QED
    BY <1>1, <1>4, SkipsOnly DEF SkipIsDue

LEMMA ParkTypes ==
  ASSUME TypeOK, NEW d \in Devices, NEW v \in Versions
  PROVE  Skip(d, v) => skips' \in [Devices -> [{"parked", "due"} -> SUBSET Versions]]
  <1>1. [skips EXCEPT ![d]["parked"] = @ \cup {v}, ![d]["due"] = @ \ {v}]
          \in [Devices -> [{"parked", "due"} -> SUBSET Versions]]
    BY DEF TypeOK
  <1>2. QED
    BY <1>1 DEF Skip

LEMMA RowIsTyped ==
  ASSUME TypeOK, NEW d \in Devices
  PROVE  /\ Len(journal[d]) \in Nat /\ DOMAIN journal[d] = 1..Len(journal[d])
         /\ \A j \in DOMAIN journal[d] : /\ journal[d][j] \in Row /\ j \in Nat
                                        /\ RowVersion(d, j) \in Versions
  <1>1. journal[d] \in Seq(Row)
    BY DEF TypeOK
  <1>2. /\ Len(journal[d]) \in Nat /\ DOMAIN journal[d] = 1..Len(journal[d])
        /\ \A j \in DOMAIN journal[d] : journal[d][j] \in Row
    BY <1>1
  <1>3. QED
    BY <1>2 DEF Row, RowVersion

LEMMA SkipKeeps ==
  ASSUME IInv, NEW d \in Devices, NEW j \in DOMAIN journal[d], Skip(d, RowVersion(d, j)),
         UNCHANGED <<ver, cloud, disk, heads, lastSeq, cursor, work, history>>, faults' \in Nat
  PROVE  IInv'
  <1>1. RowVersion(d, j) \in Versions
    BY RowIsTyped DEF IInv
  <1>2. skips' \in [Devices -> [{"parked", "due"} -> SUBSET Versions]]
    BY <1>1, ParkTypes DEF IInv
  <1>3. QED
    BY <1>2, SkipsOnly

LEMMA StageFailsKeeps ==
  ASSUME IInv, NEW d \in Devices, NEW j \in DOMAIN journal[d], StageFails(d, j)
  PROVE  IInv'
  <1>1. faults' \in Nat
    BY DEF StageFails, Fault, IInv, TypeOK
  <1>2. QED
    BY <1>1, SkipKeeps DEF StageFails

LEMMA StageRefusesKeeps ==
  ASSUME IInv, NEW d \in Devices, NEW j \in DOMAIN journal[d], StageRefuses(d, j)
  PROVE  IInv'
  <1>1. faults' \in Nat
    BY DEF StageRefuses, IInv, TypeOK
  <1>2. QED
    BY <1>1, SkipKeeps DEF StageRefuses

LEMMA PullFailsKeeps ==
  ASSUME IInv, NEW d \in Devices, PullFails(d)
  PROVE  IInv'
  <1>1. /\ UNCHANGED <<ver, cloud, disk, account, session, op, fresh, history>>
        /\ faults' = faults + 1
    BY DEF PullFails, Fault
  <1>2. /\ step' \in [Devices -> Work] /\ step'[d].pc = "idle"
        /\ \A e \in Devices \ {d} : step'[e] = step[e]
    BY Rests DEF PullFails, IInv
  <1>3. TypeOK'
    <2>1. faults' \in Nat
      BY <1>1 DEF IInv, TypeOK
    <2>2. QED
      BY <1>1, <1>2, <2>1, WorkTypes DEF IInv, TypeOK, account
  <1>4. \A e \in Devices \ {d} : Same(e)
    BY <1>1, <1>2 DEF Same, Spares, disk, account, history
  <1>5. StepIsShaped(d)' /\ ~Pulling(d)'
    BY <1>2 DEF StepIsShaped, Pulling
  <1>6. OpIsShaped(d)'
    BY <1>1, OpKept DEF account
  <1>7. QED
    BY <1>1, <1>3, <1>4, <1>5, <1>6, Bookkeeping DEF disk, account, history, Claims

LEMMA PullIsDueKeeps ==
  ASSUME IInv, NEW d \in Devices, PullIsDue(d)
  PROVE  IInv'
  <1>1. /\ UNCHANGED <<ver, cloud, disk, account, session, op, step, faults, history>>
        /\ fresh' = [fresh EXCEPT ![d] = FALSE] /\ step[d].pc = "idle"
    BY DEF PullIsDue, Free
  <1>2. /\ fresh' \in [Devices -> BOOLEAN] /\ fresh'[d] = FALSE
        /\ \A e \in Devices \ {d} : fresh'[e] = fresh[e]
    BY <1>1 DEF IInv, TypeOK
  <1>3. TypeOK'
    BY <1>1, <1>2, WorkTypes DEF IInv, TypeOK, account
  <1>4. \A e \in Devices \ {d} : Same(e)
    BY <1>1, <1>2 DEF Same, Spares, disk, account, history
  <1>5. StepIsShaped(d)' /\ ~Pulling(d)'
    BY <1>1 DEF StepIsShaped, Pulling
  <1>6. OpIsShaped(d)'
    BY <1>1, OpKept DEF account
  <1>7. QED
    BY <1>1, <1>2, <1>3, <1>4, <1>5, <1>6, Bookkeeping DEF disk, account, history, Claims

\* The session and the operation are given up, while nothing is under way.
LEMMA DropKeeps ==
  ASSUME IInv, NEW d \in Devices, DropSession(d),
         UNCHANGED <<ver, cloud, disk, heads, lastSeq, cursor, history>>,
         step' \in [Devices -> Work], step'[d].pc = "idle",
         \A e \in Devices \ {d} : step'[e] = step[e],
         fresh' \in [Devices -> BOOLEAN], fresh'[d] => fresh[d],
         \A e \in Devices \ {d} : fresh'[e] = fresh[e],
         skips' \in [Devices -> [{"parked", "due"} -> SUBSET Versions]], faults' \in Nat
  PROVE  IInv'
  <1>1. /\ session' \in [Devices -> Session] /\ session'[d] = NoSession
        /\ op' \in [Devices -> Operation] /\ op'[d] = NoOp
        /\ \A e \in Devices \ {d} : session'[e] = session[e] /\ op'[e] = op[e]
    BY Drops DEF IInv
  <1>2. TypeOK'
    BY <1>1, WorkTypes DEF IInv, TypeOK
  <1>3. \A e \in Devices \ {d} : Same(e)
    BY <1>1 DEF Same, Spares, disk, history
  <1>4. StepIsShaped(d)' /\ ~Pulling(d)'
    BY DEF StepIsShaped, Pulling
  <1>5. /\ OpIsShaped(d)' /\ session'[d].version = 0 /\ op'[d].kind = "none"
    BY <1>1, NoneAreTyped DEF OpIsShaped, IInv
  <1>6. Claims(d)' => Claims(d)
    BY <1>5 DEF Claims
  <1>7. QED
    BY <1>2, <1>3, <1>4, <1>5, <1>6, Bookkeeping DEF disk, history

LEMMA ParkKeeps ==
  ASSUME IInv, NEW d \in Devices, Park(d)
  PROVE  DropSession(d) /\ skips' \in [Devices -> [{"parked", "due"} -> SUBSET Versions]]
  <1>1. DropSession(d)
    BY DEF Park
  <1>2. skips \in [Devices -> [{"parked", "due"} -> SUBSET Versions]]
    BY DEF IInv, TypeOK
  <1>3. CASE session[d].version = 0
    BY <1>1, <1>2, <1>3 DEF Park
  <1>4. CASE session[d].version # 0
    <2>1. session[d].version \in Versions
      BY <1>4, DeviceTypes, Types DEF IInv, Versions
    <2>2. QED
      BY <1>1, <1>4, <2>1, ParkTypes DEF Park, IInv
  <1>5. QED
    BY <1>3, <1>4

LEMMA DropUploadKeeps ==
  ASSUME IInv, NEW d \in Devices, DropUpload(d)
  PROVE  IInv'
  <1>1. /\ DropSession(d) /\ step[d].pc = "idle"
        /\ UNCHANGED <<ver, cloud, disk, account, fresh, step, faults, history>>
    BY DEF DropUpload, Free
  <1>2. QED
    BY <1>1, DropKeeps DEF IInv, TypeOK, account

LEMMA HeadMovedKeeps ==
  ASSUME IInv, NEW d \in Devices, HeadMoved(d)
  PROVE  IInv'
  <1>1. /\ DropSession(d) /\ step[d].pc = "idle" /\ fresh' = [fresh EXCEPT ![d] = FALSE]
        /\ UNCHANGED <<ver, cloud, disk, account, step, faults, history>>
    BY DEF HeadMoved, Sendable
  <1>2. /\ fresh' \in [Devices -> BOOLEAN] /\ fresh'[d] = FALSE
        /\ \A e \in Devices \ {d} : fresh'[e] = fresh[e]
    BY <1>1 DEF IInv, TypeOK
  <1>3. QED
    BY <1>1, <1>2, DropKeeps DEF IInv, TypeOK, account

LEMMA UploadIsGoneKeeps ==
  ASSUME IInv, NEW d \in Devices, UploadIsGone(d)
  PROVE  IInv'
  <1>1. /\ DropSession(d) /\ step[d].pc = "idle"
        /\ UNCHANGED <<ver, cloud, disk, account, fresh, step, history>>
    BY DEF UploadIsGone
  <1>2. /\ step' \in [Devices -> Work] /\ fresh' \in [Devices -> BOOLEAN]
        /\ skips' \in [Devices -> [{"parked", "due"} -> SUBSET Versions]]
    BY <1>1 DEF IInv, TypeOK, account
  <1>3. faults' \in Nat
    BY DEF UploadIsGone, Fault, IInv, TypeOK
  <1>4. QED
    BY <1>1, <1>2, <1>3, DropKeeps DEF account

LEMMA RefusedKeeps ==
  ASSUME IInv, NEW d \in Devices, Refused(d)
  PROVE  IInv'
  <1>1. /\ step[d].pc = "idle"
        /\ UNCHANGED <<ver, cloud, disk, heads, lastSeq, cursor, fresh, step, history>>
    BY DEF Refused
  <1>2. DropSession(d) /\ skips' \in [Devices -> [{"parked", "due"} -> SUBSET Versions]]
    BY ParkKeeps DEF Refused
  <1>3. step' \in [Devices -> Work] /\ fresh' \in [Devices -> BOOLEAN]
    BY <1>1 DEF IInv, TypeOK
  <1>4. faults' \in Nat
    BY DEF Refused, Fault, IInv, TypeOK
  <1>5. QED
    BY <1>1, <1>2, <1>3, <1>4, DropKeeps

LEMMA SendFailsKeeps ==
  ASSUME IInv, NEW d \in Devices, SendFails(d)
  PROVE  IInv'
  <1>1. /\ UNCHANGED <<ver, cloud, disk, heads, lastSeq, cursor, fresh, history>>
        /\ faults' \in Nat
    BY DEF SendFails, Fault, IInv, TypeOK
  <1>2. /\ step' \in [Devices -> Work] /\ step'[d].pc = "idle"
        /\ \A e \in Devices \ {d} : step'[e] = step[e]
    BY Rests DEF SendFails, IInv
  <1>3. CASE Park(d)
    <2>1. DropSession(d) /\ skips' \in [Devices -> [{"parked", "due"} -> SUBSET Versions]]
      BY <1>3, ParkKeeps
    <2>2. fresh' \in [Devices -> BOOLEAN]
      BY <1>1 DEF IInv, TypeOK
    <2>3. QED
      BY <1>1, <1>2, <2>1, <2>2, DropKeeps
  <1>4. CASE op' = [op EXCEPT ![d].attempts = @ + 1] /\ UNCHANGED <<session, skips>>
    <2> DEFINE x == [op[d] EXCEPT !.attempts = @ + 1]
    <2>1. op \in [Devices -> Operation] /\ op' = [op EXCEPT ![d] = x]
      BY <1>4 DEF IInv, TypeOK
    <2>2. x \in Operation /\ x.kind = op[d].kind
      <3>1. op[d] \in Operation /\ op[d].attempts + 1 \in Nat
        BY DeviceTypes DEF IInv
      <3>2. QED
        BY <3>1 DEF Operation
    <2>3. op'[d] = [op[d] EXCEPT !.attempts = @ + 1]
      BY <2>1
    <2> HIDE DEF x
    <2>4. /\ op' \in [Devices -> Operation] /\ op'[d].kind = op[d].kind
          /\ \A e \in Devices \ {d} : op'[e] = op[e]
      BY <2>1, <2>2
    <2>5. TypeOK'
      <3>1. /\ session' \in [Devices -> Session] /\ fresh' \in [Devices -> BOOLEAN]
            /\ skips' \in [Devices -> [{"parked", "due"} -> SUBSET Versions]]
        BY <1>1, <1>4 DEF IInv, TypeOK
      <3>2. QED
        BY <1>1, <1>2, <2>4, <3>1, WorkTypes DEF IInv
    <2>6. \A e \in Devices \ {d} : Same(e)
      BY <1>1, <1>2, <1>4, <2>4 DEF Same, Spares, disk, history
    <2>7. StepIsShaped(d)' /\ ~Pulling(d)'
      BY <1>2 DEF StepIsShaped, Pulling
    <2>8. OpIsShaped(d)'
      BY <1>1, <1>4, <2>3, OpKept
    <2>9. QED
      BY <1>1, <1>4, <2>4, <2>5, <2>6, <2>7, <2>8, Bookkeeping DEF disk, history, Claims
  <1>5. QED
    BY <1>3, <1>4 DEF SendFails

LEMMA CrashKeeps ==
  ASSUME IInv, NEW d \in Devices, Crash(d)
  PROVE  IInv'
  <1>1. /\ UNCHANGED <<ver, cloud, disk, account, session, op, history>>
        /\ faults' \in Nat
    BY DEF Crash, Fault, IInv, TypeOK
  <1>2. /\ step' \in [Devices -> Work] /\ step'[d].pc = "idle"
        /\ \A e \in Devices \ {d} : step'[e] = step[e]
    BY Rests DEF Crash, IInv
  <1>3. /\ fresh' \in [Devices -> BOOLEAN] /\ fresh'[d] = FALSE
        /\ \A e \in Devices \ {d} : fresh'[e] = fresh[e]
    BY DEF Crash, IInv, TypeOK
  <1>4. TypeOK'
    BY <1>1, <1>2, <1>3, WorkTypes DEF IInv, TypeOK, account
  <1>5. \A e \in Devices \ {d} : Same(e)
    BY <1>1, <1>2, <1>3 DEF Same, Spares, disk, account, history
  <1>6. StepIsShaped(d)' /\ ~Pulling(d)'
    BY <1>2 DEF StepIsShaped, Pulling
  <1>7. OpIsShaped(d)'
    BY <1>1, OpKept DEF account
  <1>8. QED
    BY <1>1, <1>3, <1>4, <1>5, <1>6, <1>7, Bookkeeping DEF disk, account, history, Claims

LEMMA QueueOperationKeeps ==
  ASSUME IInv, NEW d \in Devices, QueueOperation(d)
  PROVE  IInv'
  <1> DEFINE v == session[d].version
             x == IF ver[v].deleted \/ session[d].open THEN CommitOf(d, v)
                  ELSE [NoOp EXCEPT !.kind = "upload-open", !.version = v]
  <1>1. /\ UNCHANGED <<ver, cloud, disk, account, session, fresh, faults, history>>
        /\ op' = [op EXCEPT ![d] = x] /\ step[d].pc = "queue"
    BY DEF QueueOperation
  <1>2. v # 0 /\ v \in Versions /\ v \in 0..Len(ver) /\ FileOf(v) \in Files
    BY <1>1, DeviceTypes, Types DEF IInv, DeviceInv, StepIsShaped, Versions
  <1>3. heads[d] \in [Files -> Nat] /\ lastSeq[d] \in Nat
    BY DeviceTypes DEF IInv, TypeOK
  <1>4. CommitOf(d, v) \in Operation /\ CommitOf(d, v).kind = "commit"
    BY <1>2, <1>3 DEF CommitOf, Operation
  <1>5. /\ [NoOp EXCEPT !.kind = "upload-open", !.version = v] \in Operation
        /\ [NoOp EXCEPT !.kind = "upload-open", !.version = v].kind = "upload-open"
    BY <1>2, NoneAreTyped DEF IInv, Operation
  <1>6. x \in Operation /\ (x.kind = "upload-open" \/ x = CommitOf(d, v))
    BY <1>4, <1>5
  <1> HIDE DEF x
  <1>7. /\ op' \in [Devices -> Operation] /\ op'[d] = x
        /\ \A e \in Devices \ {d} : op'[e] = op[e]
    BY <1>1, <1>6 DEF IInv, TypeOK
  <1>8. /\ step' \in [Devices -> Work] /\ step'[d].pc = "idle"
        /\ \A e \in Devices \ {d} : step'[e] = step[e]
    BY Rests DEF QueueOperation, IInv
  <1>9. TypeOK'
    BY <1>1, <1>7, <1>8, WorkTypes DEF IInv, TypeOK, account
  <1>10. \A e \in Devices \ {d} : Same(e)
    BY <1>1, <1>7, <1>8 DEF Same, Spares, disk, account, history
  <1>11. StepIsShaped(d)' /\ ~Pulling(d)'
    BY <1>8 DEF StepIsShaped, Pulling
  <1>12. OpIsShaped(d)'
    <2>1. CommitOf(d, v)' = CommitOf(d, v)
      BY <1>1 DEF CommitOf, FileOf, account
    <2>2. CommitOf(d, v) = [CommitOf(d, v) EXCEPT !.attempts = CommitOf(d, v).attempts]
      BY DEF CommitOf
    <2>3. CASE x.kind = "upload-open"
      BY <1>1, <1>2, <1>7, <2>3 DEF OpIsShaped
    <2>4. CASE x = CommitOf(d, v)
      BY <1>1, <1>2, <1>4, <1>7, <2>1, <2>2, <2>4 DEF OpIsShaped
    <2>5. QED
      BY <1>6, <2>3, <2>4
  <1>13. Claims(d)
    BY <1>2 DEF Claims
  <1>14. QED
    BY <1>1, <1>9, <1>10, <1>11, <1>12, <1>13, Bookkeeping DEF disk, account, history

LEMMA ContinueUploadKeeps ==
  ASSUME IInv, NEW d \in Devices, ContinueUpload(d)
  PROVE  IInv'
  <1>1. /\ UNCHANGED <<ver, cloud, disk, account, session, op, fresh, faults, history>>
        /\ op[d].kind = "none" /\ session[d].open /\ Goto(d, "queue")
    BY DEF ContinueUpload, Free
  <1>2. /\ step' \in [Devices -> Work] /\ step'[d].pc = "queue"
        /\ \A e \in Devices \ {d} : step'[e] = step[e]
    BY <1>1, Goes DEF IInv, Pcs
  <1>3. TypeOK'
    BY <1>1, <1>2, WorkTypes DEF IInv, TypeOK, account
  <1>4. \A e \in Devices \ {d} : Same(e)
    BY <1>1, <1>2 DEF Same, Spares, disk, account, history
  <1>5. session[d].version # 0
    BY <1>1 DEF IInv, DeviceInv, OpIsShaped
  <1>6. StepIsShaped(d)' /\ ~Pulling(d)'
    BY <1>1, <1>2, <1>5 DEF StepIsShaped, Pulling
  <1>7. OpIsShaped(d)'
    BY <1>1, OpKept DEF account
  <1>8. QED
    BY <1>1, <1>3, <1>4, <1>6, <1>7, Bookkeeping DEF disk, account, history, Claims

LEMMA UploadOpensKeeps ==
  ASSUME IInv, NEW d \in Devices, UploadOpens(d)
  PROVE  IInv'
  <1> DEFINE x == [session[d] EXCEPT !.open = session[d].version # 0]
  <1>1. /\ UNCHANGED <<ver, cloud, disk, account, fresh, step, faults, history>>
        /\ op' = [op EXCEPT ![d] = NoOp] /\ session' = [session EXCEPT ![d] = x]
        /\ step[d].pc = "idle"
    BY DEF UploadOpens, Sendable
  <1>2. (session[d].version # 0) \in BOOLEAN
    OBVIOUS
  <1>3. /\ x \in Session /\ x.version = session[d].version
        /\ x.open => session[d].version # 0
    BY <1>2, DeviceTypes DEF IInv, Session
  <1> HIDE DEF x
  <1>4. /\ session' \in [Devices -> Session] /\ session'[d] = x
        /\ op' \in [Devices -> Operation] /\ op'[d] = NoOp
        /\ \A e \in Devices \ {d} : session'[e] = session[e] /\ op'[e] = op[e]
    BY <1>1, <1>3, NoneAreTyped DEF IInv, TypeOK
  <1>5. TypeOK'
    BY <1>1, <1>4, WorkTypes DEF IInv, TypeOK, account
  <1>6. \A e \in Devices \ {d} : Same(e)
    BY <1>1, <1>4 DEF Same, Spares, disk, account, history
  <1>7. StepIsShaped(d)' /\ ~Pulling(d)'
    BY <1>1 DEF StepIsShaped, Pulling
  <1>8. OpIsShaped(d)' /\ op'[d].kind = "none"
    BY <1>3, <1>4, NoneAreTyped DEF OpIsShaped, IInv
  <1>9. Claims(d)' => Claims(d)
    BY <1>1, <1>3, <1>4, <1>8 DEF Claims
  <1>10. QED
    BY <1>1, <1>3, <1>4, <1>5, <1>6, <1>7, <1>8, <1>9, Bookkeeping DEF disk, account, history

LEMMA CommitRepeatsKeeps ==
  ASSUME IInv, NEW d \in Devices, CommitRepeats(d)
  PROVE  IInv'
  <1>1. /\ UNCHANGED <<ver, cloud, disk, account, session, op, fresh, faults, history>>
        /\ op[d].kind = "commit" /\ Landed(op[d]) /\ Goto(d, "answer")
    BY DEF CommitRepeats, Sendable
  <1>2. /\ step' \in [Devices -> Work] /\ step'[d].pc = "answer"
        /\ \A e \in Devices \ {d} : step'[e] = step[e]
    BY <1>1, Goes DEF IInv, Pcs
  <1>3. TypeOK'
    BY <1>1, <1>2, WorkTypes DEF IInv, TypeOK, account
  <1>4. \A e \in Devices \ {d} : Same(e)
    BY <1>1, <1>2 DEF Same, Spares, disk, account, history
  <1>5. StepIsShaped(d)' /\ ~Pulling(d)'
    BY <1>1, <1>2 DEF StepIsShaped, Pulling, Landed
  <1>6. OpIsShaped(d)'
    BY <1>1, OpKept DEF account
  <1>7. QED
    BY <1>1, <1>3, <1>4, <1>5, <1>6, Bookkeeping DEF disk, account, history, Claims

LEMMA CommitUnexpectedKeeps ==
  ASSUME IInv, NEW d \in Devices, CommitUnexpected(d)
  PROVE  IInv'
  <1>1. /\ UNCHANGED <<ver, cloud, disk, account, session, op, faults, history>>
        /\ fresh' = [fresh EXCEPT ![d] = FALSE]
        /\ step[d].pc = "answer" /\ session[d].version = 0 /\ Goto(d, "complete")
    BY DEF CommitUnexpected
  <1>2. /\ step' \in [Devices -> Work] /\ step'[d].pc = "complete"
        /\ \A e \in Devices \ {d} : step'[e] = step[e]
    BY <1>1, Goes DEF IInv, Pcs
  <1>3. /\ fresh' \in [Devices -> BOOLEAN] /\ fresh'[d] = FALSE
        /\ \A e \in Devices \ {d} : fresh'[e] = fresh[e]
    BY <1>1 DEF IInv, TypeOK
  <1>4. TypeOK'
    BY <1>1, <1>2, <1>3, WorkTypes DEF IInv, TypeOK, account
  <1>5. \A e \in Devices \ {d} : Same(e)
    BY <1>1, <1>2, <1>3 DEF Same, Spares, disk, account, history
  <1>6. op[d].kind = "commit"
    BY <1>1 DEF IInv, DeviceInv, StepIsShaped
  <1>7. StepIsShaped(d)' /\ ~Pulling(d)'
    BY <1>1, <1>2, <1>6 DEF StepIsShaped, Pulling
  <1>8. OpIsShaped(d)'
    BY <1>1, OpKept DEF account
  <1>9. QED
    BY <1>1, <1>3, <1>4, <1>5, <1>7, <1>8, Bookkeeping DEF disk, account, history, Claims

LEMMA CompleteOperationKeeps ==
  ASSUME IInv, NEW d \in Devices, CompleteOperation(d)
  PROVE  IInv'
  <1>1. /\ UNCHANGED <<ver, cloud, disk, account, session, fresh, faults, history>>
        /\ op' = [op EXCEPT ![d] = NoOp]
    BY DEF CompleteOperation
  <1>2. /\ step' \in [Devices -> Work] /\ step'[d].pc = "idle"
        /\ \A e \in Devices \ {d} : step'[e] = step[e]
    BY Rests DEF CompleteOperation, IInv
  <1>3. /\ op' \in [Devices -> Operation] /\ op'[d] = NoOp
        /\ \A e \in Devices \ {d} : op'[e] = op[e]
    BY <1>1, NoneAreTyped DEF IInv, TypeOK
  <1>4. TypeOK'
    BY <1>1, <1>2, <1>3, WorkTypes DEF IInv, TypeOK, account
  <1>5. \A e \in Devices \ {d} : Same(e)
    BY <1>1, <1>2, <1>3 DEF Same, Spares, disk, account, history
  <1>6. StepIsShaped(d)' /\ ~Pulling(d)'
    BY <1>2 DEF StepIsShaped, Pulling
  <1>7. OpIsShaped(d)' /\ op'[d].kind = "none"
    BY <1>1, <1>3, NoneAreTyped DEF OpIsShaped, IInv, DeviceInv
  <1>8. Claims(d)' => Claims(d)
    BY <1>1, <1>7 DEF Claims
  <1>9. QED
    BY <1>1, <1>4, <1>5, <1>6, <1>7, <1>8, Bookkeeping DEF disk, account, history

-----------------------------------------------------------------------------
(* The steps of the pull and of the push.                                   *)

LEMMA PullKeeps ==
  ASSUME IInv, NEW d \in Devices, Pull(d)
  PROVE  IInv'
  <1> DEFINE x == [pc |-> "apply", upto |-> Len(cloud), pos |-> lastSeq[d], saw |-> 0]
  <1>1. /\ UNCHANGED <<ver, cloud, disk, account, session, op, faults, history>>
        /\ step[d].pc = "idle" /\ op[d].kind = "none" /\ session[d].version = 0 /\ ~fresh[d]
    BY DEF Pull, Free
  <1>2. /\ Len(cloud) \in Nat /\ Len(ver) \in Nat /\ lastSeq[d] \in Nat
        /\ lastSeq[d] <= Len(cloud)
    BY DeviceTypes, Types DEF IInv
  <1>3. x \in Work /\ x.pc = "apply" /\ x.upto = Len(cloud) /\ x.pos = lastSeq[d]
    BY <1>2 DEF Work
  <1>4. \/ step' = step /\ fresh' = [fresh EXCEPT ![d] = TRUE] /\ lastSeq[d] = Len(cloud)
        \/ step' = [step EXCEPT ![d] = x] /\ fresh' = fresh /\ lastSeq[d] # Len(cloud)
    BY DEF Pull
  <1> HIDE DEF x
  <1>5. /\ step' \in [Devices -> Work] /\ fresh' \in [Devices -> BOOLEAN]
        /\ \A e \in Devices \ {d} : step'[e] = step[e] /\ fresh'[e] = fresh[e]
        /\ \/ step'[d] = step[d] /\ fresh'[d] /\ lastSeq[d] = Len(cloud)
           \/ step'[d] = x /\ ~fresh'[d] /\ lastSeq[d] # Len(cloud)
    <2>1. step \in [Devices -> Work] /\ fresh \in [Devices -> BOOLEAN]
      BY DEF IInv, TypeOK
    <2>2. QED
      BY <1>1, <1>3, <1>4, <2>1
  <1>6. TypeOK'
    BY <1>1, <1>5, WorkTypes DEF IInv, TypeOK, account
  <1>7. \A e \in Devices \ {d} : Same(e)
    BY <1>1, <1>5 DEF Same, Spares, disk, account, history
  <1>8. OpIsShaped(d)'
    BY <1>1, OpKept DEF account
  <1>9. step'[d].pc \in {"idle", "apply"} /\ Passed(d)' = lastSeq[d] /\ Passed(d) = lastSeq[d]
    BY <1>1, <1>3, <1>5 DEF Passed, Pulling, account
  <1>10. StepIsShaped(d)'
    BY <1>1, <1>2, <1>3, <1>5 DEF StepIsShaped, Pulling, Claims, account
  <1>11. HeadsCover(d)'
    <2>1. HeadsCover(d) /\ \A f \in Files : heads[d][f] \in Nat /\ heads[d][f] <= Len(cloud)
      BY DeviceTypes DEF IInv, DeviceInv
    <2>2. Pulling(d)' => step'[d].upto = Len(cloud)
      BY <1>1, <1>3, <1>5 DEF Pulling
    <2>3. Claims(d)' => lastSeq[d] = Len(cloud)
      BY <1>1, <1>5 DEF Claims
    <2>4. QED
      BY <1>1, <1>9, <2>1, <2>2, <2>3 DEF HeadsCover, Seqs, FileAt, FileOf, account
  <1>12. Extends
    BY <1>1, Types DEF Extends, IInv, history
  <1>13. KnownCovers(d)'
    BY <1>1, <1>2, <1>6, <1>9, <1>12, KnownKept DEF disk
  <1>14. QED
    BY <1>1, <1>6, <1>7, <1>8, <1>9, <1>10, <1>11, <1>13, OneDeviceWorks DEF disk, history

LEMMA UpsertRaises ==
  ASSUME IInv, NEW d \in Devices, NEW n \in Seqs, Upsert(d, n)
  PROVE  /\ heads' \in [Devices -> [Files -> 0..Len(cloud)]]
         /\ \A e \in Devices \ {d} : heads'[e] = heads[e]
         /\ \A f \in Files : f # FileAt(n) => heads'[d][f] = heads[d][f]
         /\ heads[d][FileAt(n)] <= n => heads'[d][FileAt(n)] = n
         /\ ~(heads[d][FileAt(n)] <= n) => heads'[d][FileAt(n)] = heads[d][FileAt(n)]
         /\ FileAt(n) \in Files /\ n \in Nat
  <1>1. heads \in [Devices -> [Files -> 0..Len(cloud)]] /\ n \in 0..Len(cloud)
    BY Types DEF IInv, TypeOK, Seqs
  <1>2. FileAt(n) \in Files
    BY Types DEF IInv, ChainIsHashed, FileAt
  <1> DEFINE y == IF heads[d][FileAt(n)] <= n THEN n ELSE heads[d][FileAt(n)]
             x == [heads[d] EXCEPT ![FileAt(n)] = y]
  <1>3. heads' = [heads EXCEPT ![d] = x]
    BY DEF Upsert
  <1>4. y \in 0..Len(cloud)
    BY <1>1, <1>2
  <1>5. /\ x \in [Files -> 0..Len(cloud)] /\ x[FileAt(n)] = y
        /\ \A f \in Files : f # FileAt(n) => x[f] = heads[d][f]
    BY <1>1, <1>2, <1>4
  <1> HIDE DEF x
  <1>6. /\ heads' \in [Devices -> [Files -> 0..Len(cloud)]] /\ heads'[d] = x
        /\ \A e \in Devices \ {d} : heads'[e] = heads[e]
    BY <1>1, <1>3, <1>5
  <1>7. QED
    BY <1>1, <1>2, <1>5, <1>6

\* A version has been taken over: its head and its place, whatever became of its row.
LEMMA AppliedMoves ==
  ASSUME IInv, NEW d \in Devices, Applying(d), Upsert(d, step[d].pos + 1), Applied(d),
         UNCHANGED <<ver, cloud, lastSeq, session, op, fresh>>
  PROVE  /\ heads' \in [Devices -> [Files -> 0..Len(cloud)]] /\ step' \in [Devices -> Work]
         /\ \A e \in Devices \ {d} : heads'[e] = heads[e] /\ step'[e] = step[e]
         /\ step'[d].pc \in {"apply", "save"} /\ Passed(d)' = step[d].pos + 1
         /\ StepIsShaped(d)' /\ OpIsShaped(d)' /\ HeadsCover(d)'
         /\ session[d].version = 0
  <1> DEFINE n == step[d].pos + 1
             pc == IF n = step[d].upto THEN "save" ELSE "apply"
             x == [step[d] EXCEPT !.pos = @ + 1, !.pc = pc]
  <1>1. /\ n \in Seqs /\ n \in Nat /\ n <= step[d].upto /\ step[d].upto \in Nat
        /\ step[d].upto <= Len(cloud) /\ lastSeq[d] \in Nat /\ lastSeq[d] <= step[d].pos
        /\ Len(cloud) \in Nat /\ step[d].pos \in Nat /\ Pulling(d)
    BY IncomingIsVersion, DeviceTypes, Types DEF IInv, DeviceInv, StepIsShaped
  <1>2. ~fresh[d] /\ session[d].version = 0 /\ op[d].kind = "none" /\ OpIsShaped(d)
    BY <1>1, DeviceTypes DEF IInv, DeviceInv, StepIsShaped, Claims
  <1>3. /\ x \in Work /\ x.pc = pc /\ x.pos = n /\ x.upto = step[d].upto
    BY <1>1, DeviceTypes DEF IInv, Work
  <1>4. pc \in {"apply", "save"} /\ (pc = "save" <=> n = step[d].upto)
    OBVIOUS
  <1>5. step' = [step EXCEPT ![d] = x]
    BY DEF Applied
  <1> HIDE DEF x, pc
  <1>6. /\ step' \in [Devices -> Work] /\ step'[d] = x
        /\ \A e \in Devices \ {d} : step'[e] = step[e]
    BY <1>3, <1>5 DEF IInv, TypeOK
  <1>8. step'[d].pc \in {"apply", "save"} /\ Passed(d)' = n
    BY <1>3, <1>4, <1>6 DEF Passed, Pulling
  <1>9. StepIsShaped(d)'
    BY <1>1, <1>2, <1>3, <1>4, <1>6 DEF StepIsShaped, Pulling, Claims
  <1>10. OpIsShaped(d)'
    BY <1>2 DEF OpIsShaped
  <1>11. HeadsCover(d)'
    <2>1. HeadsCover(d) /\ Passed(d) = step[d].pos /\ Pulling(d)
      BY <1>1 DEF IInv, DeviceInv, Passed
    <2>2. /\ \A f \in Files : f # FileAt(n) => heads'[d][f] = heads[d][f]
          /\ heads[d][FileAt(n)] <= n => heads'[d][FileAt(n)] = n
          /\ ~(heads[d][FileAt(n)] <= n) => heads'[d][FileAt(n)] = heads[d][FileAt(n)]
          /\ \A f \in Files : heads[d][f] \in Nat
      BY <1>1, UpsertRaises, DeviceTypes DEF IInv
    <2>3. Seqs' = Seqs /\ \A m : FileAt(m)' = FileAt(m)
      BY DEF FileAt, FileOf, Seqs
    <2>4. step'[d].upto = step[d].upto /\ ~Claims(d)'
      BY <1>2, <1>3, <1>6 DEF Claims
    <2>5. \A m \in 1..n : m \in 1..step[d].pos \/ m = n
      BY <1>1
    <2> SUFFICES ASSUME NEW f \in Files
                 PROVE  LET h == heads'[d][f]
                        IN  /\ h = 0 \/ (h \in Seqs /\ FileAt(h) = f)
                            /\ \A m \in 1..n : FileAt(m) = f => m <= h
                            /\ h <= step[d].upto
      BY <1>8, <2>3, <2>4 DEF HeadsCover
    <2>6. /\ heads[d][f] = 0 \/ (heads[d][f] \in Seqs /\ FileAt(heads[d][f]) = f)
          /\ \A m \in 1..step[d].pos : FileAt(m) = f => m <= heads[d][f]
          /\ heads[d][f] <= step[d].upto /\ heads[d][f] \in Nat
      BY <2>1, <2>2 DEF HeadsCover
    <2>7. CASE f # FileAt(n)
      BY <2>2, <2>5, <2>6, <2>7
    <2>8. CASE f = FileAt(n) /\ heads[d][f] <= n
      BY <1>1, <2>2, <2>8
    <2>9. CASE f = FileAt(n) /\ ~(heads[d][f] <= n)
      BY <1>1, <2>2, <2>5, <2>6, <2>9
    <2>10. QED
      BY <2>7, <2>8, <2>9
  <1>12. /\ heads' \in [Devices -> [Files -> 0..Len(cloud)]]
         /\ \A e \in Devices \ {d} : heads'[e] = heads[e]
    BY <1>1, UpsertRaises
  <1>13. QED
    BY <1>2, <1>6, <1>8, <1>9, <1>10, <1>11, <1>12

\* saveVerifiedHead: the device has all that the page had.
LEMMA SaveVerifiedHeadKeeps ==
  ASSUME IInv, NEW d \in Devices, SaveVerifiedHead(d)
  PROVE  IInv'
  <1>1. /\ UNCHANGED <<ver, cloud, disk, heads, cursor, skips, session, op, faults, history>>
        /\ step[d].pc = "save" /\ Pulling(d) /\ Rest(d)
        /\ lastSeq' = [lastSeq EXCEPT ![d] = step[d].upto]
        /\ fresh' = [fresh EXCEPT ![d] = TRUE]
    BY DEF SaveVerifiedHead, Pulling
  <1>2. /\ step[d].pos = step[d].upto /\ step[d].upto <= Len(cloud) /\ step[d].upto \in Nat
        /\ ~Claims(d) /\ Len(cloud) \in Nat /\ Passed(d) = step[d].pos
    BY <1>1, DeviceTypes, Types DEF IInv, DeviceInv, StepIsShaped, Passed
  <1>3. /\ lastSeq' \in [Devices -> 0..Len(cloud)] /\ lastSeq'[d] = step[d].upto
        /\ fresh' \in [Devices -> BOOLEAN]
        /\ \A e \in Devices \ {d} : lastSeq'[e] = lastSeq[e] /\ fresh'[e] = fresh[e]
    BY <1>1, <1>2 DEF IInv, TypeOK
  <1>4. /\ step' \in [Devices -> Work] /\ step'[d].pc = "idle"
        /\ \A e \in Devices \ {d} : step'[e] = step[e]
    BY <1>1, Rests DEF IInv
  <1>5. TypeOK'
    BY <1>1, <1>3, <1>4 DEF IInv, TypeOK, Versions, Row, Session, Operation, Work, history,
       disk
  <1>6. \A e \in Devices \ {d} : Same(e)
    BY <1>1, <1>3, <1>4 DEF Same, Spares, disk, history
  <1>7. ~Pulling(d)' /\ Passed(d)' = Passed(d) /\ op[d].kind = "none" /\ session[d].version = 0
    BY <1>1, <1>2, <1>3, <1>4 DEF Pulling, Passed, Claims
  <1>8. StepIsShaped(d)'
    BY <1>4, <1>7 DEF StepIsShaped
  <1>9. OpIsShaped(d)'
    BY <1>1, <1>7 DEF OpIsShaped, IInv, DeviceInv
  <1>10. HeadsCover(d)'
    <2>1. HeadsCover(d)
      BY DEF IInv, DeviceInv
    <2>2. QED
      BY <1>1, <1>2, <1>3, <1>7, <2>1 DEF HeadsCover, Seqs, FileAt, FileOf
  <1>11. Extends
    BY <1>1, Types DEF Extends, IInv, history
  <1>12. KnownCovers(d)'
    BY <1>1, <1>2, <1>5, <1>7, <1>11, KnownKept DEF disk
  <1>13. QED
    BY <1>1, <1>4, <1>5, <1>6, <1>8, <1>9, <1>10, <1>12, OneDeviceWorks DEF disk, history

LEMMA KnownVersionKeeps ==
  ASSUME IInv, NEW d \in Devices, KnownVersion(d)
  PROVE  IInv'
  <1> DEFINE n == step[d].pos + 1
             v == Incoming(d)
  <1>1. /\ Applying(d) /\ Pulling(d) /\ v \in has[d] /\ known' = [known EXCEPT ![d] = @ \cup {v}]
        /\ Upsert(d, n) /\ Applied(d)
        /\ UNCHANGED <<ver, cloud, current, has, journal, lastSeq, cursor, skips, session, op,
                       fresh, faults, history>>
    BY DEF KnownVersion, Applying, Pulling
  <1>2. /\ n \in Seqs /\ v \in Versions /\ InCloud(v) /\ n \in Nat
    BY <1>1, IncomingIsVersion, DeviceTypes DEF IInv
  <1>3. /\ known' \in [Devices -> SUBSET Versions] /\ known'[d] = known[d] \cup {v}
        /\ \A e \in Devices \ {d} : known'[e] = known[e]
    BY <1>1, <1>2 DEF IInv, TypeOK
  <1>4. /\ heads' \in [Devices -> [Files -> 0..Len(cloud)]]
        /\ step' \in [Devices -> Work]
        /\ \A e \in Devices \ {d} : heads'[e] = heads[e] /\ step'[e] = step[e]
        /\ step'[d].pc \in {"apply", "save"} /\ Passed(d)' = n
        /\ StepIsShaped(d)' /\ OpIsShaped(d)' /\ HeadsCover(d)'
        /\ session[d].version = 0
    BY <1>1, AppliedMoves
  <1>5. TypeOK'
    BY <1>1, <1>3, <1>4 DEF IInv, TypeOK, Versions, Row, Session, Operation, Work, history
  <1>6. \A e \in Devices \ {d} : Same(e)
    BY <1>1, <1>3, <1>4 DEF Same, Spares, history
  <1>7. KnownCovers(d)'
    <2>1. KnownCovers(d) /\ Passed(d) = step[d].pos /\ step[d].pos \in Nat
      BY <1>1, DeviceTypes DEF IInv, DeviceInv, Passed
    <2>2. \A m \in 1..n : m \in 1..step[d].pos \/ m = n
      BY <2>1
    <2>3. /\ \A w \in known'[d] : InCloud(w) /\ w \in has[d]
          /\ \A m \in 1..n : cloud[m].version \in has[d] => cloud[m].version \in known'[d]
      BY <1>1, <1>2, <1>3, <2>1, <2>2 DEF KnownCovers, Incoming
    <2>4. QED
      BY <1>1, <1>4, <2>1, <2>3 DEF KnownCovers, InCloud, Seqs
  <1>8. QED
    BY <1>1, <1>4, <1>5, <1>6, <1>7, OneDeviceWorks DEF history

LEMMA InspectKeeps ==
  ASSUME IInv, NEW d \in Devices, Inspect(d)
  PROVE  IInv'
  <1> DEFINE v == current[d][FileOf(Incoming(d))]
             pc == IF Unpushed(d, v) THEN "fork" ELSE "land"
             x == [step[d] EXCEPT !.saw = v, !.pc = pc]
  <1>1. /\ step[d].pc = "apply" /\ Incoming(d) \notin has[d]
        /\ UNCHANGED <<ver, cloud, disk, account, session, op, fresh, faults, history>>
        /\ step' = [step EXCEPT ![d] = x]
    BY DEF Inspect
  <1>2. /\ step[d].pos + 1 \in Seqs /\ Incoming(d) \in Versions /\ Pulling(d)
        /\ FileOf(Incoming(d)) \in Files
    BY <1>1, IncomingIsVersion, Types DEF Applying, IInv
  <1>3. v \in 0..Len(ver)
    BY <1>2, DeviceTypes DEF IInv
  <1>4. /\ x \in Work /\ x.pos = step[d].pos /\ x.upto = step[d].upto /\ x.saw = v
        /\ x.pc = pc
    BY <1>3, DeviceTypes DEF IInv, Work
  <1>5. pc \in {"fork", "land"} /\ (pc = "land" <=> ~Unpushed(d, v))
    OBVIOUS
  <1> HIDE DEF x, pc, v
  <1>6. /\ step' \in [Devices -> Work] /\ step'[d] = x
        /\ \A e \in Devices \ {d} : step'[e] = step[e]
    BY <1>1, <1>4 DEF IInv, TypeOK
  <1>7. TypeOK'
    BY <1>1, <1>6, WorkTypes DEF IInv, TypeOK, account
  <1>8. \A e \in Devices \ {d} : Same(e)
    BY <1>1, <1>6 DEF Same, Spares, disk, account, history
  <1>9. Pulling(d)' /\ Passed(d)' = Passed(d) /\ Claims(d)' = Claims(d) /\ Passed(d) \in Nat
    BY <1>1, <1>2, <1>4, <1>5, <1>6, PassedIsSeq DEF Passed, Pulling, Claims
  <1>10. Extends
    BY <1>1, Types DEF Extends, IInv, history
  <1>11. Unpushed(d, v) => v # 0
    BY DEF Unpushed
  <1>12. StepIsShaped(d)'
    <2>1. StepIsShaped(d) /\ Pulling(d)
      BY <1>2 DEF IInv, DeviceInv
    <2>2. QED
      BY <1>1, <1>4, <1>5, <1>6, <1>9, <1>11, <2>1 DEF StepIsShaped, account
  <1>13. OpIsShaped(d)'
    BY <1>1, OpKept DEF account
  <1>14. HeadsCover(d)'
    BY <1>1, <1>2, <1>4, <1>6, <1>7, <1>9, <1>10, HeadsKept DEF account
  <1>15. KnownCovers(d)' /\ RowsAreHeld(d)'
    BY <1>1, <1>7, <1>9, <1>10, KnownKept, RowsKept DEF disk
  <1>16. LandIsSafe(d)'
    <2>1. Incoming(d)' = Incoming(d)
      BY <1>1, <1>4, <1>6 DEF Incoming
    <2>2. \A q : Unpushed(d, q)' => Unpushed(d, q)
      BY <1>1, <2>1 DEF Unpushed, disk
    <2>3. \A w \in has[d] : ver[w].device = d => Kept(d, w)' \/ w \in raced
      BY <1>1 DEF IInv, DeviceInv, LandIsSafe, Kept, InCloud, Seqs, FileOf, disk, history
    <2>4. step'[d].pc = "land" => ~Unpushed(d, step'[d].saw)
      BY <1>4, <1>5, <1>6
    <2>5. (step[d].pc = "land" => ~Unpushed(d, step[d].saw))'
      BY <2>2, <2>4
    <2>6. QED
      BY <1>1, <2>1, <2>3, <2>5 DEF LandIsSafe, disk, history
  <1>17. QED
    BY <1>1, <1>7, <1>8, <1>12, <1>13, <1>14, <1>15, <1>16, OneDeviceActs
       DEF DeviceInv, disk, history

LEMMA CurrentIsHeld ==
  ASSUME IInv, NEW d \in Devices, NEW v \in Versions, Current(d, v)
  PROVE  v \in has[d]
  <1>1. FileOf(v) \in Files /\ current[d][FileOf(v)] = v /\ v # 0
    BY Types DEF Current, IInv, Versions
  <1>2. QED
    BY <1>1 DEF IInv, DeviceInv, RowsAreHeld

LEMMA StageKeeps ==
  ASSUME IInv, NEW d \in Devices, NEW j \in DOMAIN journal[d], Stage(d, j)
  PROVE  IInv'
  <1> DEFINE v == RowVersion(d, j)
             x == [version |-> v, seq |-> j, open |-> FALSE]
  <1>1. /\ UNCHANGED <<ver, cloud, disk, account, op, fresh, faults, history>>
        /\ step[d].pc = "idle" /\ op[d].kind = "none" /\ fresh[d]
        /\ session' = [session EXCEPT ![d] = x] /\ Goto(d, "queue")
    BY DEF Stage, NextCandidate, Free
  <1>2. j \in Nat /\ v \in Versions
    BY RowIsTyped DEF IInv
  <1>3. v \notin known[d] /\ Current(d, v)
    BY DEF Stage, NextCandidate, Candidates
  <1> HIDE DEF v
  <1>4. v # 0 /\ v \in 0..Len(ver) /\ v \in has[d]
    BY <1>2, <1>3, CurrentIsHeld, Types DEF IInv, Versions
  <1>5. x \in Session /\ x.version = v /\ x.open = FALSE
    BY <1>2, <1>4 DEF Session
  <1> HIDE DEF x
  <1>6. /\ session' \in [Devices -> Session] /\ session'[d] = x
        /\ \A e \in Devices \ {d} : session'[e] = session[e]
    BY <1>1, <1>5 DEF IInv, TypeOK
  <1>7. /\ step' \in [Devices -> Work] /\ step'[d].pc = "queue"
        /\ \A e \in Devices \ {d} : step'[e] = step[e]
    BY <1>1, Goes DEF IInv, Pcs
  <1>8. TypeOK'
    BY <1>1, <1>6, <1>7, WorkTypes DEF IInv, TypeOK, account
  <1>9. \A e \in Devices \ {d} : Same(e)
    BY <1>1, <1>6, <1>7 DEF Same, Spares, disk, account, history
  <1>10. StepIsShaped(d)' /\ ~Pulling(d)' /\ ~Pulling(d)
    BY <1>1, <1>4, <1>5, <1>6, <1>7 DEF StepIsShaped, Pulling
  <1>11. OpIsShaped(d)'
    BY <1>1, <1>5, <1>6 DEF OpIsShaped
  <1>12. Extends
    BY <1>1, Types DEF Extends, IInv, history
  <1>13. Passed(d)' = Passed(d) /\ Passed(d) \in Nat /\ Claims(d)
    BY <1>1, <1>10, PassedIsSeq DEF Passed, Claims, account
  <1>14. HeadsCover(d)'
    BY <1>1, <1>8, <1>10, <1>12, <1>13, HeadsKept DEF account
  <1>15. KnownCovers(d)'
    BY <1>1, <1>4, <1>3, <1>5, <1>6, <1>13 DEF KnownCovers, IInv, DeviceInv, InCloud, Seqs, disk
  <1>16. QED
    BY <1>1, <1>7, <1>8, <1>9, <1>10, <1>11, <1>14, <1>15, OneDeviceWorks DEF disk, history

LEMMA FinishCommitKeeps ==
  ASSUME IInv, NEW d \in Devices, FinishCommit(d)
  PROVE  IInv'
  <1> DEFINE n == op[d].base + 1
             v == session[d].version
             y == IF heads[d][FileOf(v)] <= n THEN n ELSE heads[d][FileOf(v)]
             x == [heads[d] EXCEPT ![FileOf(v)] = y]
             c == IF cursor[d] <= session[d].seq THEN session[d].seq ELSE cursor[d]
  <1>1. /\ step[d].pc = "answer" /\ v # 0
        /\ known' = [known EXCEPT ![d] = @ \cup {v}]
        /\ heads' = [heads EXCEPT ![d] = x] /\ cursor' = [cursor EXCEPT ![d] = c]
        /\ lastSeq' = [lastSeq EXCEPT ![d] = n]
        /\ session' = [session EXCEPT ![d] = NoSession] /\ Goto(d, "complete")
        /\ UNCHANGED <<ver, cloud, current, has, journal, skips, op, fresh, faults, history>>
    BY DEF FinishCommit
  <1>2. /\ StepIsShaped(d) /\ OpIsShaped(d) /\ HeadsCover(d) /\ KnownCovers(d)
    BY DEF IInv, DeviceInv
  <1>3. op[d].kind = "commit" /\ Landed(op[d])
    BY <1>1, <1>2 DEF StepIsShaped
  <1>4. op[d].base = lastSeq[d] /\ op[d].version = v
    BY <1>1, <1>2, <1>3 DEF OpIsShaped, CommitOf
  <1>5. /\ lastSeq[d] \in Nat /\ n = lastSeq[d] + 1 /\ n \in Seqs /\ n \in Nat /\ n # 0
        /\ n \in 0..Len(cloud) /\ cloud[n].version = v
    BY <1>3, <1>4, DeviceTypes, Types DEF Landed, IInv, Seqs
  <1>6. /\ v \in Versions /\ v \in 0..Len(ver) /\ FileOf(v) \in Files /\ FileAt(n) = FileOf(v)
    BY <1>1, <1>5, DeviceTypes, Types DEF IInv, Versions, FileAt
  <1>7. Claims(d) /\ ~Pulling(d) /\ Passed(d) = lastSeq[d]
    BY <1>1 DEF Claims, Pulling, Passed
  <1>8. \A f \in Files : heads[d][f] \in Nat /\ heads[d][f] <= lastSeq[d]
    BY <1>2, <1>7, DeviceTypes DEF HeadsCover, IInv
  <1>9. y = n
    BY <1>5, <1>6, <1>8
  <1>10. /\ x \in [Files -> 0..Len(cloud)] /\ x[FileOf(v)] = n
         /\ \A f \in Files : f # FileOf(v) => x[f] = heads[d][f]
    BY <1>5, <1>6, <1>9 DEF IInv, TypeOK
  <1>11. c \in Nat
    BY DeviceTypes DEF IInv, TypeOK
  <1> HIDE DEF x, y, c
  <1>12. /\ known' \in [Devices -> SUBSET Versions] /\ known'[d] = known[d] \cup {v}
         /\ \A e \in Devices \ {d} : known'[e] = known[e]
    BY <1>1, <1>6 DEF IInv, TypeOK
  <1>13. /\ heads' \in [Devices -> [Files -> 0..Len(cloud)]] /\ heads'[d] = x
         /\ \A e \in Devices \ {d} : heads'[e] = heads[e]
    BY <1>1, <1>10 DEF IInv, TypeOK
  <1>14. /\ lastSeq' \in [Devices -> 0..Len(cloud)] /\ lastSeq'[d] = n
         /\ \A e \in Devices \ {d} : lastSeq'[e] = lastSeq[e]
    BY <1>1, <1>5 DEF IInv, TypeOK
  <1>15. /\ session' \in [Devices -> Session] /\ session'[d] = NoSession
         /\ \A e \in Devices \ {d} : session'[e] = session[e]
    BY <1>1, NoneAreTyped DEF IInv, TypeOK
  <1>16. /\ step' \in [Devices -> Work] /\ step'[d].pc = "complete"
         /\ \A e \in Devices \ {d} : step'[e] = step[e]
    BY <1>1, Goes DEF IInv, Pcs
  <1>17. cursor' \in [Devices -> Nat]
    BY <1>1, <1>11 DEF IInv, TypeOK
  <1>18. TypeOK'
    BY <1>1, <1>12, <1>13, <1>14, <1>15, <1>16, <1>17
       DEF IInv, TypeOK, Versions, Row, Session, Operation, Work, history
  <1>19. \A e \in Devices \ {d} : Same(e)
    BY <1>1, <1>12, <1>13, <1>14, <1>15, <1>16 DEF Same, Spares, history
  <1>20. session'[d].version = 0 /\ session'[d].open = FALSE /\ ~Pulling(d)' /\ Passed(d)' = n
    BY <1>14, <1>15, <1>16, NoneAreTyped DEF IInv, Pulling, Passed
  <1>21. StepIsShaped(d)' /\ OpIsShaped(d)'
    BY <1>1, <1>3, <1>14, <1>16, <1>20 DEF StepIsShaped, OpIsShaped, Pulling
  <1>22. \A m \in 1..n : m \in 1..lastSeq[d] \/ m = n
    BY <1>5
  <1>23. HeadsCover(d)'
    <2>1. /\ Seqs' = Seqs /\ \A m : FileAt(m)' = FileAt(m)
      BY <1>1 DEF FileAt, FileOf, Seqs
    <2> SUFFICES ASSUME NEW f \in Files
                 PROVE  LET h == x[f]
                        IN  /\ h = 0 \/ (h \in Seqs /\ FileAt(h) = f)
                            /\ \A m \in 1..n : FileAt(m) = f => m <= h
                            /\ h <= n
      BY <1>13, <1>14, <1>20, <2>1 DEF HeadsCover
    <2>2. CASE f = FileOf(v)
      BY <1>5, <1>6, <1>10, <2>2
    <2>3. CASE f # FileOf(v)
      <3>1. /\ heads[d][f] = 0 \/ (heads[d][f] \in Seqs /\ FileAt(heads[d][f]) = f)
            /\ \A m \in 1..lastSeq[d] : FileAt(m) = f => m <= heads[d][f]
        BY <1>2, <1>7 DEF HeadsCover
      <3>2. x[f] = heads[d][f] /\ x[f] <= n
        BY <1>5, <1>8, <1>10, <2>3
      <3>3. QED
        BY <1>6, <1>22, <2>3, <3>1, <3>2
    <2>4. QED
      BY <2>2, <2>3
  <1>24. KnownCovers(d)'
    <2>1. v \in has[d] /\ InCloud(v)
      BY <1>1, <1>2, <1>5 DEF KnownCovers, InCloud
    <2>2. /\ \A w \in known'[d] : InCloud(w) /\ w \in has[d]
          /\ \A m \in 1..n : cloud[m].version \in has[d] => cloud[m].version \in known'[d]
      BY <1>2, <1>5, <1>7, <1>12, <1>22, <2>1 DEF KnownCovers
    <2>3. QED
      BY <1>1, <1>2, <1>20, <2>2 DEF KnownCovers, InCloud, Seqs
  <1>25. QED
    BY <1>1, <1>16, <1>18, <1>19, <1>21, <1>23, <1>24, OneDeviceWorks DEF history

\* What a remote version replaces is not lost: it was its parent, which its writer had,
\* or the cloud has it, or it was forked.
LEMMA LandKeepsWhatItReplaces ==
  ASSUME IInv, NEW d \in Devices, step[d].pc = "land", NEW v \in has[d], v = step[d].saw,
         ver[v].device = d
  PROVE  InCloud(v) \/ ver[v].deleted \/ Forked(d, v)
  <1>1. v \in Versions /\ v # 0 /\ Applying(d)
    BY DeviceTypes, Types DEF IInv, Versions, Applying
  <1>2. ~Unpushed(d, v) \/ Forked(d, v)
    BY DEF IInv, DeviceInv, LandIsSafe
  <1>3. CASE v \in known[d]
    BY <1>3 DEF IInv, DeviceInv, KnownCovers
  <1>4. CASE v = ver[Incoming(d)].parent
    <2> DEFINE e == ver[Incoming(d)].device
    <2>1. Incoming(d) \in Versions /\ Incoming(d) \in has[e] /\ e \in Devices
      BY <1>1, IncomingIsVersion, Types DEF IInv, ChainIsHashed, Incoming
    <2>2. e # d
      BY <2>1 DEF IInv, DeviceInv, LandIsSafe
    <2>3. v \in has[e]
      BY <1>1, <1>4, <2>1 DEF IInv, ParentIsHeld
    <2>4. QED
      BY <2>1, <2>2, <2>3 DEF IInv, DeviceInv, KnownCovers
  <1>5. QED
    BY <1>1, <1>2, <1>3, <1>4 DEF Unpushed

LEMMA LandKeeps ==
  ASSUME IInv, NEW d \in Devices, Land(d)
  PROVE  IInv'
  <1> DEFINE n == step[d].pos + 1
             v == Incoming(d)
             f == FileOf(v)
             old == current[d][f]
  <1>1. /\ step[d].pc = "land" /\ Applying(d) /\ Pulling(d)
        /\ Upsert(d, n) /\ Applied(d)
        /\ raced' = IF old \notin {0, step[d].saw} THEN raced \cup {old} ELSE raced
        /\ UNCHANGED <<ver, cloud, lastSeq, cursor, skips, session, op, fresh, faults, undone>>
    BY DEF Land, Applying, Pulling
  <1>2. /\ n \in Seqs /\ v \in Versions /\ InCloud(v) /\ n \in Nat /\ f \in Files /\ v # 0
        /\ cloud[n].version = v /\ v \in 0..Len(ver)
    BY <1>1, IncomingIsVersion, DeviceTypes, Types DEF IInv, Versions, Incoming
  <1>3. v \notin has[d] /\ ver[v].device # d
    BY <1>1, <1>2 DEF IInv, DeviceInv, LandIsSafe, ChainIsHashed
  <1>4. /\ heads' \in [Devices -> [Files -> 0..Len(cloud)]]
        /\ step' \in [Devices -> Work]
        /\ \A e \in Devices \ {d} : heads'[e] = heads[e] /\ step'[e] = step[e]
        /\ step'[d].pc \in {"apply", "save"} /\ Passed(d)' = n
        /\ StepIsShaped(d)' /\ OpIsShaped(d)' /\ HeadsCover(d)'
        /\ session[d].version = 0
    BY <1>1, AppliedMoves
  <1>5. /\ current \in [Devices -> [Files -> 0..Len(ver)]]
        /\ has \in [Devices -> SUBSET Versions] /\ known \in [Devices -> SUBSET Versions]
    BY DEF IInv, TypeOK
  <1> HIDE DEF v, f, old, n
  <1>6. \/ UNCHANGED <<current, has, known>>
        \/ /\ current' = [current EXCEPT ![d][f] = v]
           /\ has' = [has EXCEPT ![d] = @ \cup {v}] /\ known' = [known EXCEPT ![d] = @ \cup {v}]
    BY DEF Land, Put, disk, v, f, old
  <1>7. journal' = journal
    BY DEF Land, disk
  <1>8. /\ current' \in [Devices -> [Files -> 0..Len(ver)]]
        /\ has' \in [Devices -> SUBSET Versions] /\ known' \in [Devices -> SUBSET Versions]
        /\ \A e \in Devices \ {d} : /\ current'[e] = current[e] /\ has'[e] = has[e]
                                    /\ known'[e] = known[e]
        /\ \A g \in Files : g # f => current'[d][g] = current[d][g]
        /\ \/ has'[d] = has[d] /\ known'[d] = known[d] /\ current'[d] = current[d]
           \/ /\ has'[d] = has[d] \cup {v} /\ known'[d] = known[d] \cup {v}
              /\ current'[d][f] = v
    <2>1. CASE UNCHANGED <<current, has, known>>
      BY <1>5, <2>1
    <2>2. CASE /\ current' = [current EXCEPT ![d][f] = v]
               /\ has' = [has EXCEPT ![d] = @ \cup {v}]
               /\ known' = [known EXCEPT ![d] = @ \cup {v}]
      BY <1>2, <1>5, <2>2
    <2>3. QED
      BY <1>6, <2>1, <2>2
  <1>9. raced' \subseteq Versions /\ raced \subseteq raced'
    <2>1. old \in 0..Len(ver) /\ raced \subseteq Versions
      BY <1>2, <1>5 DEF IInv, TypeOK, old
    <2>2. old # 0 => old \in Versions
      BY <2>1, Types DEF IInv, Versions
    <2>3. QED
      BY <1>1, <2>1, <2>2
  <1>10. TypeOK'
    <2>1. relanded' \subseteq relanded \cup {<<d, v>>} /\ relanded \subseteq Devices \X Versions
      BY DEF Land, IInv, TypeOK, v
    <2>2. relanded' \subseteq Devices \X Versions
      BY <1>2, <2>1
    <2>3. QED
      BY <1>1, <1>4, <1>7, <1>8, <1>9, <2>2
         DEF IInv, TypeOK, Versions, Row, Session, Operation, Work
  <1>11. \A e \in Devices \ {d} : Same(e)
    BY <1>1, <1>4, <1>8 DEF Same, Spares
  <1>12. \A w \in has[d] : w \in has'[d] /\ w # v
    BY <1>3, <1>8
  <1>13. KnownCovers(d)'
    <2>1. KnownCovers(d) /\ Passed(d) = step[d].pos /\ step[d].pos \in Nat
      BY <1>1, DeviceTypes DEF IInv, DeviceInv, Passed
    <2>2. \A m \in 1..n : m \in 1..step[d].pos \/ m = n
      BY <2>1 DEF n
    <2>3. /\ \A w \in known'[d] : InCloud(w) /\ w \in has'[d]
          /\ \A m \in 1..n : cloud[m].version \in has'[d] => cloud[m].version \in known'[d]
          /\ \A w \in has'[d] : ver[w].device # d => InCloud(w)
      BY <1>2, <1>3, <1>8, <2>1, <2>2 DEF KnownCovers
    <2>4. QED
      BY <1>1, <1>4, <2>3 DEF KnownCovers, InCloud, Seqs
  <1>14. RowsAreHeld(d)'
    <2>1. RowsAreHeld(d)
      BY DEF IInv, DeviceInv
    <2>2. \A g \in Files : current'[d][g] # 0 =>
            FileOf(current'[d][g]) = g /\ current'[d][g] \in has'[d]
      BY <1>8, <2>1 DEF RowsAreHeld, f
    <2>3. QED
      BY <1>1, <2>2 DEF RowsAreHeld, FileOf
  <1>15. LandIsSafe(d)'
    <2>1. ASSUME NEW w \in has'[d], ver[w].device = d
          PROVE  Kept(d, w)' \/ w \in raced'
      <3>1. w \in has[d] /\ w \in Versions /\ FileOf(w) \in Files
        BY <1>3, <1>8, <2>1, DeviceTypes, Types DEF IInv
      <3>2. Kept(d, w) \/ w \in raced
        BY <2>1, <3>1 DEF IInv, DeviceInv, LandIsSafe
      <3>3. /\ InCloud(w) \/ ver[w].deleted \/ Forked(d, w) => Kept(d, w)'
            /\ Kept(d, w) /\ current'[d][FileOf(w)] = current[d][FileOf(w)] => Kept(d, w)'
            /\ Kept(d, w) /\ current[d][FileOf(w)] # w => Kept(d, w)'
        BY <1>1, <1>12 DEF Kept, InCloud, Forked, Seqs, FileOf
      <3>4. CASE current[d][FileOf(w)] = w /\ FileOf(w) = f
        <4>1. old = w /\ w # 0
          BY <3>1, <3>4, Types DEF old, IInv, Versions
        <4>2. CASE w = step[d].saw
          BY <1>1, <2>1, <3>1, <3>3, <4>2, LandKeepsWhatItReplaces
        <4>3. CASE w # step[d].saw
          BY <1>1, <4>1, <4>3
        <4>4. QED
          BY <4>2, <4>3
      <3>5. CASE FileOf(w) # f
        BY <1>8, <1>9, <3>1, <3>2, <3>3, <3>5
      <3>6. QED
        BY <1>9, <3>2, <3>3, <3>4, <3>5
    <2>2. QED
      BY <1>1, <1>4, <2>1 DEF LandIsSafe
  <1>16. QED
    BY <1>1, <1>4, <1>9, <1>10, <1>11, <1>12, <1>13, <1>14, <1>15, OneDeviceActs DEF DeviceInv

\* The commit a device may land is the one of its session, on top of all it has
\* verified, of a version nobody has committed.
LEMMA CommitIsNew ==
  ASSUME IInv, NEW d \in Devices, Sendable(d, "commit"), op[d].base = Len(cloud)
  PROVE  /\ lastSeq[d] = Len(cloud) /\ op[d].version = session[d].version
         /\ op[d].state = [heads[d] EXCEPT ![FileOf(op[d].version)] = Len(cloud) + 1]
         /\ op[d].version \in has[d] /\ op[d].version \in Versions /\ ~InCloud(op[d].version)
         /\ ver[op[d].version].device = d /\ Passed(d) = Len(cloud)
  <1>1. /\ OpIsShaped(d) /\ KnownCovers(d) /\ op[d].kind = "commit" /\ step[d].pc = "idle"
    BY DEF IInv, DeviceInv, Sendable
  <1>2. Len(cloud) \in Nat /\ lastSeq[d] \in Nat /\ lastSeq[d] <= Len(cloud)
    BY DeviceTypes, Types DEF IInv
  <1>3. session[d].version # 0
    BY <1>1, <1>2 DEF OpIsShaped
  <1>4. op[d] = [CommitOf(d, session[d].version) EXCEPT !.attempts = op[d].attempts]
    BY <1>1, <1>3 DEF OpIsShaped
  <1>5. /\ op[d].base = lastSeq[d] /\ op[d].version = session[d].version
        /\ op[d].state = [heads[d] EXCEPT ![FileOf(session[d].version)] = lastSeq[d] + 1]
    BY <1>4 DEF CommitOf
  <1>6. Passed(d) = Len(cloud)
    BY <1>1, <1>5 DEF Passed, Pulling
  <1>7. op[d].version \in has[d] /\ op[d].version \notin known[d]
    BY <1>1, <1>3, <1>5 DEF KnownCovers
  <1>8. ~InCloud(op[d].version)
    BY <1>1, <1>6, <1>7 DEF KnownCovers, InCloud, Seqs
  <1>9. op[d].version \in Versions
    BY <1>7, DeviceTypes DEF IInv
  <1>10. ver[op[d].version].device = d
    BY <1>1, <1>7, <1>8 DEF KnownCovers
  <1>11. QED
    BY <1>5, <1>6, <1>7, <1>8, <1>9, <1>10

LEMMA CommitLandsKeeps ==
  ASSUME IInv, NEW d \in Devices, CommitLands(d)
  PROVE  IInv'
  <1>1. PICK N \in Nat : N = Len(cloud)
    BY Types DEF IInv
  <1>2. PICK v \in Versions : v = op[d].version
    BY <1>1, CommitIsNew DEF CommitLands
  <1>3. PICK s \in [Files -> Nat] : s = op[d].state
    BY DeviceTypes DEF IInv
  <1>4. PICK r \in Commit : r = [version |-> v, base |-> N, state |-> s]
    <2>1. v \in Nat
      BY Types DEF IInv, Versions
    <2>2. [version |-> v, base |-> N, state |-> s] \in Commit
      BY <2>1 DEF Commit
    <2>3. QED
      BY <2>2
  <1>5. /\ Sendable(d, "commit") /\ op[d].base = N /\ cloud' = Append(cloud, r)
        /\ UNCHANGED <<ver, disk, account, session, op, fresh, faults, history>>
        /\ Goto(d, "answer") /\ op[d].kind = "commit" /\ step[d].pc = "idle"
    BY <1>1, <1>2, <1>3, <1>4 DEF CommitLands, Sendable
  <1>6. /\ lastSeq[d] = N /\ s = [heads[d] EXCEPT ![FileOf(v)] = N + 1]
        /\ v \in has[d] /\ ~InCloud(v) /\ ver[v].device = d /\ Passed(d) = N
    BY <1>1, <1>2, <1>3, <1>5, CommitIsNew
  <1>7. /\ cloud' \in Seq(Commit) /\ Len(cloud') = N + 1 /\ cloud'[N + 1] = r
        /\ \A m \in Seqs : cloud'[m] = cloud[m]
        /\ \A m : m \in Seqs' <=> m \in Seqs \/ m = N + 1
        /\ \A m \in Seqs : m \in 1..N
        /\ \A m \in 1..N : m \in Seqs
    <2>1. cloud \in Seq(Commit)
      BY DEF IInv, TypeOK
    <2>2. /\ cloud' \in Seq(Commit) /\ Len(cloud') = N + 1 /\ cloud'[N + 1] = r
          /\ \A m \in 1..N : cloud'[m] = cloud[m]
      BY <1>1, <1>5, <2>1
    <2>3. QED
      BY <1>1, <2>2 DEF Seqs
  <1>8. /\ step' \in [Devices -> Work] /\ step'[d].pc = "answer"
        /\ \A e \in Devices \ {d} : step'[e] = step[e]
    BY <1>5, Goes DEF IInv, Pcs
  <1>9. TypeOK'
    <2>1. /\ heads' \in [Devices -> [Files -> 0..Len(cloud')]]
          /\ lastSeq' \in [Devices -> 0..Len(cloud')]
      <3>1. \A q \in 0..Len(cloud) : q \in 0..Len(cloud')
        BY <1>1, <1>7
      <3>2. heads \in [Devices -> [Files -> 0..Len(cloud')]]
        BY <3>1 DEF IInv, TypeOK
      <3>3. lastSeq \in [Devices -> 0..Len(cloud')]
        BY <3>1 DEF IInv, TypeOK
      <3>4. QED
        BY <1>5, <3>2, <3>3 DEF account
    <2>2. QED
      BY <1>5, <1>7, <1>8, <2>1
         DEF IInv, TypeOK, disk, account, history, Versions, Row, Session, Operation, Work
  <1>10. Extends
    <2>1. Len(cloud) <= Len(cloud') /\ \A n \in Seqs : cloud'[n] = cloud[n]
      BY <1>1, <1>7
    <2>2. Len(ver) <= Len(ver') /\ (\A w \in Versions : ver'[w] = ver[w]) /\ raced' = raced
      BY <1>5, Types DEF IInv, history
    <2>3. QED
      BY <2>1, <2>2 DEF Extends
  <1>11. \A e \in Devices \ {d} : Same(e)
    BY <1>5, <1>8 DEF Same, Spares, disk, account, history
  <1>12. \A m \in Seqs : FileAt(m)' = FileAt(m)
    BY <1>9, <1>10, PastIsKept
  <1>13. FileAt(N + 1)' = FileOf(v) /\ r.version = v /\ r.base = N /\ r.state = s
    BY <1>4, <1>5, <1>7 DEF FileAt, FileOf
  <1>14. ChainIsHashed'
    <2>1. ASSUME NEW m \in Seqs
          PROVE  /\ cloud'[m].base = m - 1 /\ cloud'[m].version \in Versions
                 /\ cloud'[m].version \in has[ver[cloud'[m].version].device]
                 /\ \A f \in Files : HeadAt(f, cloud[m].state[f], m)'
      <3>1. /\ cloud[m].base = m - 1 /\ cloud[m].version \in Versions
            /\ cloud[m].version \in has[ver[cloud[m].version].device]
            /\ \A f \in Files : HeadAt(f, cloud[m].state[f], m)
        BY DEF IInv, ChainIsHashed
      <3>2. \A q \in 1..m : FileAt(q)' = FileAt(q)
        BY <1>7, <1>12
      <3>3. \A f \in Files : HeadAt(f, cloud[m].state[f], m)'
        BY <1>7, <3>1, <3>2 DEF HeadAt
      <3>4. QED
        BY <1>7, <3>1, <3>3
    <2>2. ASSUME NEW f \in Files
          PROVE  HeadAt(f, s[f], N + 1)'
      <3>1. \A q \in 1..(N + 1) : q = N + 1 \/ q \in 1..N
        BY <1>1
      <3>2. heads[d] \in [Files -> 0..Len(cloud)] /\ heads[d][f] \in Nat
        BY DeviceTypes DEF IInv, TypeOK
      <3>3. PICK k \in Nat : k = heads[d][f]
        BY <3>2
      <3>4. HeadsCover(d)
        BY DEF IInv, DeviceInv
      <3>5. /\ k = 0 \/ (k \in 1..N /\ FileAt(k)' = f)
            /\ \A m \in 1..N : FileAt(m)' = f => m <= k
        BY <1>6, <1>7, <1>12, <3>3, <3>4 DEF HeadsCover
      <3>6. PICK h \in Nat : h = s[f]
        OBVIOUS
      <3>7. CASE f = FileOf(v)
        <4>1. h = N + 1
          BY <1>6, <3>2, <3>6, <3>7
        <4>2. FileAt(h)' = f /\ h \in 1..(N + 1) /\ \A q \in 1..(N + 1) : q <= h
          BY <1>1, <1>13, <3>7, <4>1
        <4>3. QED
          BY <1>3, <3>6, <4>2 DEF HeadAt
      <3>8. CASE f # FileOf(v)
        <4>1. h = k
          BY <1>6, <3>2, <3>3, <3>6, <3>8
        <4>2. h = 0 \/ (h \in 1..(N + 1) /\ FileAt(h)' = f)
          BY <1>1, <3>5, <4>1
        <4>3. \A q \in 1..(N + 1) : FileAt(q)' = f => q <= h
          BY <1>13, <3>1, <3>5, <3>8, <4>1
        <4>4. QED
          BY <1>3, <3>6, <4>2, <4>3 DEF HeadAt
      <3>9. QED
        BY <3>7, <3>8
    <2>3. N + 1 - 1 = N
      OBVIOUS
    <2>4. has' = has /\ ver' = ver /\ Versions' = Versions
      BY <1>5 DEF disk, Versions
    <2>5. /\ cloud'[N + 1].base = N + 1 - 1 /\ cloud'[N + 1].version \in Versions
          /\ cloud'[N + 1].version \in has[ver[cloud'[N + 1].version].device]
          /\ \A f \in Files : HeadAt(f, cloud[N + 1].state[f], N + 1)'
      BY <1>6, <1>7, <1>13, <2>2, <2>3
    <2>6. QED
      BY <1>7, <2>1, <2>4, <2>5 DEF ChainIsHashed
  <1>15. CommittedOnce'
    <2>1. cloud'[N + 1].version = v /\ \A m \in Seqs : cloud'[m].version # v
      BY <1>6, <1>7, <1>13 DEF InCloud
    <2>2. QED
      BY <1>7, <2>1 DEF CommittedOnce, IInv
  <1>16. \A w \in Versions' : ParentIsHeld(w)'
    BY <1>5, Types DEF IInv, ParentIsHeld, Versions, FileOf, disk
  <1>17. DeviceInv(d)'
    <2>1. Landed(op[d])'
      BY <1>1, <1>2, <1>5, <1>7, <1>13 DEF Landed
    <2>2. ~Pulling(d)' /\ ~Pulling(d)
      BY <1>5, <1>8 DEF Pulling
    <2>3. StepIsShaped(d)'
      BY <1>5, <1>8, <2>1, <2>2 DEF StepIsShaped
    <2>4. OpIsShaped(d)'
      BY <1>5, OpKept DEF account
    <2>5. Passed(d)' = Passed(d) /\ Claims(d)' = Claims(d) /\ Passed(d) \in Nat
      BY <1>5, <2>2, PassedIsSeq DEF Passed, Claims, account
    <2>6. HeadsCover(d)'
      BY <1>5, <1>9, <1>10, <2>2, <2>5, HeadsKept DEF account
    <2>7. KnownCovers(d)' /\ RowsAreHeld(d)' /\ LandIsSafe(d)'
      BY <1>5, <1>8, <1>9, <1>10, <2>5, KnownKept, RowsKept, SafeKept DEF disk, Spares,
         history
    <2>8. QED
      BY <2>3, <2>4, <2>6, <2>7 DEF DeviceInv
  <1>18. QED
    BY <1>9, <1>10, <1>11, <1>14, <1>15, <1>16, <1>17, OthersKeep DEF IInv

-----------------------------------------------------------------------------
(* Local writes.                                                            *)

\* Device d writes version w to the row of file f, on top of what the row holds.
LEMMA OwnRow ==
  ASSUME IInv, TypeOK', Extends, cloud' = cloud, NEW d \in Devices, NEW f \in Files, NEW w,
         w \notin has[d], ~InCloud(w), FileOf(w)' = f, ver'[w].device = d,
         current[d][f] = 0 \/ ver'[w].parent = current[d][f],
         current'[d][f] = w, \A g \in Files \ {f} : current'[d][g] = current[d][g],
         has'[d] = has[d] \cup {w}, known'[d] = known[d],
         heads'[d] = heads[d], lastSeq'[d] = lastSeq[d], session'[d] = session[d],
         op'[d] = op[d], fresh'[d] = fresh[d],
         StepIsShaped(d)', Pulling(d)' = Pulling(d), step'[d].pos = step[d].pos,
         step'[d].upto = step[d].upto, step'[d].saw = step[d].saw,
         step'[d] = step[d] \/ (step[d].pc = "fork" /\ ver'[w].copy = step[d].saw),
         undone' = undone, w \notin undone
  PROVE  DeviceInv(d)'
  <1>1. Passed(d)' = Passed(d) /\ Passed(d) \in Nat /\ (Claims(d)' => Claims(d))
    BY PassedIsSeq DEF Passed, Claims
  <1>2. OpIsShaped(d)' /\ HeadsCover(d)'
    BY <1>1, OpStays, HeadsKept
  <1>3. \A v \in has[d] : v \in Versions /\ ver'[v] = ver[v] /\ FileOf(v)' = FileOf(v)
    BY DeviceTypes, PastIsKept DEF IInv, Extends
  <1>4. \A v : InCloud(v)' = InCloud(v)
    BY DEF InCloud, Seqs
  <1>5. KnownCovers(d)'
    <2>1. KnownCovers(d)
      BY DEF IInv, DeviceInv
    <2>2. \A n \in 1..Passed(d) : cloud[n].version # w
      BY PassedIsSeq, Types DEF InCloud, Seqs, IInv
    <2>3. QED
      BY <1>1, <1>3, <1>4, <2>1, <2>2 DEF KnownCovers
  <1>6. RowsAreHeld(d)'
    <2>1. RowsAreHeld(d)
      BY DEF IInv, DeviceInv
    <2>2. ASSUME NEW g \in Files, current'[d][g] # 0
          PROVE  ver'[current'[d][g]].file = g /\ current'[d][g] \in has'[d]
      <3>1. CASE g = f
        BY <3>1 DEF FileOf
      <3>2. CASE g # f
        <4>1. /\ current'[d][g] = current[d][g] /\ current[d][g] \in has[d]
              /\ FileOf(current[d][g]) = g
          BY <2>1, <2>2, <3>2 DEF RowsAreHeld
        <4>2. QED
          BY <1>3, <4>1 DEF FileOf
      <3>3. QED
        BY <3>1, <3>2
    <2>3. QED
      BY <2>2 DEF RowsAreHeld, FileOf
  <1>7. ASSUME step'[d].pc \in {"fork", "land"}
        PROVE  Incoming(d)' = Incoming(d) /\ Incoming(d) \in Versions /\ Incoming(d) \notin has'[d]
    <2>1. Applying(d) /\ step[d].pc \in {"fork", "land"}
      BY <1>7 DEF Pulling, Applying
    <2>2. Incoming(d)' = Incoming(d)
      BY DEF Incoming
    <2>3. Incoming(d) \notin has[d] /\ Incoming(d) \in Versions /\ InCloud(Incoming(d))
      BY <2>1, IncomingIsVersion DEF IInv, DeviceInv, LandIsSafe
    <2>4. QED
      BY <2>2, <2>3
  <1>8. ASSUME step'[d].pc = "land"
        PROVE  (~Unpushed(d, step[d].saw) \/ Forked(d, step[d].saw))'
    <2>1. CASE step'[d] = step[d]
      <3>1. ~Unpushed(d, step[d].saw) \/ Forked(d, step[d].saw)
        BY <1>8, <2>1 DEF IInv, DeviceInv, LandIsSafe
      <3>2. step[d].saw # 0 => step[d].saw \in Versions
        BY DeviceTypes, Types DEF IInv, Versions
      <3>3. Unpushed(d, step[d].saw)' => Unpushed(d, step[d].saw)
        BY <1>7, <1>8, <2>1, <3>2 DEF Unpushed, Extends
      <3>4. Forked(d, step[d].saw) => Forked(d, step[d].saw)'
        BY <1>3, <2>1 DEF Forked
      <3>5. QED
        BY <3>1, <3>3, <3>4
    <2>2. CASE ver'[w].copy = step[d].saw
      BY <2>2 DEF Forked
    <2>3. QED
      BY <2>1, <2>2
  <1>9. ASSUME NEW v \in has'[d], ver'[v].device = d
        PROVE  Kept(d, v)' \/ v \in raced'
    <2>1. CASE v = w
      BY <2>1 DEF Kept
    <2>2. CASE v \in has[d]
      <3>1. /\ ver'[v] = ver[v] /\ FileOf(v)' = FileOf(v) /\ v # 0 /\ FileOf(v) \in Files
        BY <1>3, <2>2, DeviceTypes, Types DEF IInv, Versions
      <3>2. Kept(d, v) \/ v \in raced
        BY <1>9, <2>2, <3>1 DEF IInv, DeviceInv, LandIsSafe
      <3>3. Kept(d, v) /\ current[d][FileOf(v)] # v => Kept(d, v)'
        BY <1>3, <1>4, <3>1 DEF Kept
      <3>4. CASE FileOf(v) = f /\ current[d][f] = v
        <4>1. ver'[w].parent = v
          BY <3>1, <3>4
        <4>2. QED
          BY <4>1 DEF Kept
      <3>5. CASE FileOf(v) # f
        BY <2>2, <3>1, <3>2, <3>5, KeptStays DEF Extends, Spares
      <3>6. QED
        BY <3>2, <3>3, <3>4, <3>5 DEF Extends
    <2>3. QED
      BY <2>1, <2>2
  <1>10. LandIsSafe(d)'
    BY <1>7, <1>8, <1>9 DEF LandIsSafe
  <1>11. QED
    BY <1>2, <1>5, <1>6, <1>10 DEF DeviceInv

\* One version more.
LEMMA VerGrows ==
  ASSUME IInv, NEW r \in FileVersion, ver' = Append(ver, r), UNCHANGED <<cloud, raced>>
  PROVE  /\ ver' \in Seq(FileVersion) /\ Len(ver') = Len(ver) + 1 /\ ver'[Len(ver) + 1] = r
         /\ Extends /\ Len(ver) \in Nat
         /\ \A v : v \in Versions' <=> v \in Versions \/ v = Len(ver) + 1
         /\ Len(ver) + 1 \notin Versions /\ ~InCloud(Len(ver) + 1)
         /\ \A q \in 0..Len(ver) : q \in 0..Len(ver')
         /\ Len(ver) + 1 \in 0..Len(ver')
         /\ \A v \in Versions : v < Len(ver) + 1
  <1>1. ver \in Seq(FileVersion) /\ Len(ver) \in Nat
    BY Types DEF IInv, TypeOK
  <1>2. /\ ver' \in Seq(FileVersion) /\ Len(ver') = Len(ver) + 1 /\ ver'[Len(ver) + 1] = r
        /\ \A v \in 1..Len(ver) : ver'[v] = ver[v]
    BY <1>1
  <1>3. /\ \A v : v \in Versions' <=> v \in Versions \/ v = Len(ver) + 1
        /\ Len(ver) + 1 \notin Versions /\ \A v \in Versions : v < Len(ver) + 1
        /\ \A q \in 0..Len(ver) : q \in 0..Len(ver')
        /\ Len(ver) + 1 \in 0..Len(ver')
    BY <1>1, <1>2 DEF Versions
  <1>4. ~InCloud(Len(ver) + 1)
    BY <1>3 DEF InCloud, IInv, ChainIsHashed
  <1>5. Len(cloud) <= Len(cloud') /\ \A n \in Seqs : cloud'[n] = cloud[n]
    BY Types DEF IInv
  <1>6. Len(ver) <= Len(ver') /\ \A v \in Versions : ver'[v] = ver[v]
    BY <1>1, <1>2 DEF Versions
  <1>7. Extends
    BY <1>5, <1>6 DEF Extends
  <1>8. QED
    BY <1>1, <1>2, <1>3, <1>4, <1>7

LEMMA TypesGrow ==
  ASSUME IInv, ver' \in Seq(FileVersion), \A q \in 0..Len(ver) : q \in 0..Len(ver'),
         \A v \in Versions : v \in Versions',
         UNCHANGED <<cloud, known, account, session, op, fresh, faults, history>>,
         current' \in [Devices -> [Files -> 0..Len(ver')]],
         has' \in [Devices -> SUBSET Versions'],
         journal' \in [Devices -> Seq(Row)'], step' \in [Devices -> Work]
  PROVE  TypeOK'
  <1>1. TypeOK
    BY DEF IInv
  <1>2. /\ known' \in [Devices -> SUBSET Versions'] /\ cursor' \in [Devices -> Nat]
        /\ raced' \subseteq Versions' /\ undone' \subseteq Versions'
        /\ relanded' \subseteq Devices \X Versions'
    BY <1>1 DEF TypeOK, account, history
  <1>3. skips' \in [Devices -> [{"parked", "due"} -> SUBSET Versions']]
    <2>1. \A x \in [{"parked", "due"} -> SUBSET Versions] :
            x \in [{"parked", "due"} -> SUBSET Versions']
      OBVIOUS
    <2>2. QED
      BY <1>1, <2>1 DEF TypeOK, account
  <1>4. session' \in [Devices -> Session']
    <2>1. \A x \in Session : x \in Session'
      BY DEF Session
    <2>2. QED
      BY <1>1, <2>1 DEF TypeOK
  <1>5. op' \in [Devices -> Operation']
    <2>1. \A x \in Operation : x \in Operation'
      BY DEF Operation
    <2>2. QED
      BY <1>1, <2>1 DEF TypeOK
  <1>6. step' \in [Devices -> Work']
    <2>1. \A x \in Work : x \in Work'
      BY DEF Work
    <2>2. QED
      BY <2>1
  <1>7. /\ cloud' \in Seq(Commit) /\ heads' \in [Devices -> [Files -> 0..Len(cloud')]]
        /\ lastSeq' \in [Devices -> 0..Len(cloud')] /\ fresh' \in [Devices -> BOOLEAN]
        /\ faults' \in Nat
    BY <1>1 DEF TypeOK, account
  <1>8. QED
    BY <1>2, <1>3, <1>4, <1>5, <1>6, <1>7 DEF TypeOK

\* What the invariant says of all devices together, when a device writes a version.
LEMMA OneDeviceWrites ==
  ASSUME IInv, TypeOK', Extends, cloud' = cloud, NEW d \in Devices,
         \A e \in Devices \ {d} : Same(e), has[d] \subseteq has'[d],
         \A v \in Versions' : v \in Versions \/ ParentIsHeld(v)',
         DeviceInv(d)'
  PROVE  IInv'
  <1>1. \A e \in Devices : has[e] \subseteq has'[e]
    BY DEF Same
  <1>2. \A v \in Versions : ver'[v] = ver[v] /\ ver[v].device \in Devices /\ v \in Versions'
    BY Types, PastIsKept DEF Extends, IInv
  <1>3. ChainIsHashed'
    <2>1. Seqs' = Seqs /\ \A m \in Seqs : FileAt(m)' = FileAt(m)
      BY PastIsKept DEF Seqs
    <2>2. ASSUME NEW n \in Seqs
          PROVE  /\ cloud[n].base = n - 1 /\ cloud[n].version \in Versions'
                 /\ cloud[n].version \in has'[ver'[cloud[n].version].device]
                 /\ \A f \in Files : HeadAt(f, cloud[n].state[f], n)'
      <3>1. /\ cloud[n].base = n - 1 /\ cloud[n].version \in Versions
            /\ cloud[n].version \in has[ver[cloud[n].version].device]
            /\ \A f \in Files : HeadAt(f, cloud[n].state[f], n)
        BY DEF IInv, ChainIsHashed
      <3>2. \A m \in 1..n : m \in Seqs
        BY Types DEF Seqs, IInv
      <3>3. \A f \in Files : HeadAt(f, cloud[n].state[f], n)'
        BY <2>1, <3>1, <3>2 DEF HeadAt
      <3>4. QED
        BY <1>1, <1>2, <3>1, <3>3
    <2>3. QED
      BY <2>1, <2>2 DEF ChainIsHashed
  <1>4. CommittedOnce'
    BY DEF IInv, CommittedOnce, Seqs
  <1>5. ASSUME NEW v \in Versions
        PROVE  ParentIsHeld(v)'
    <2>1. ParentIsHeld(v) /\ ver'[v] = ver[v] /\ ver[v].device \in Devices
      BY <1>2 DEF IInv
    <2>2. ASSUME ver[v].parent # 0
          PROVE  ver[v].parent \in Versions
      BY <2>1, <2>2, DeviceTypes DEF ParentIsHeld, IInv
    <2>3. QED
      BY <1>1, <1>2, <2>1, <2>2 DEF ParentIsHeld, FileOf
  <1>6. \A e \in Devices : DeviceInv(e)'
    BY OthersKeep
  <1>7. QED
    BY <1>3, <1>4, <1>5, <1>6 DEF IInv

LEMMA PutsRow ==
  ASSUME IInv, NEW N \in Nat, Len(ver) <= N,
         NEW d \in Devices, NEW f \in Files, NEW w \in 0..N, Put(f, w, d)
  PROVE  /\ current' \in [Devices -> [Files -> 0..N]]
         /\ current'[d][f] = w /\ \A g \in Files \ {f} : current'[d][g] = current[d][g]
         /\ \A e \in Devices \ {d} : current'[e] = current[e]
  <1>1. current \in [Devices -> [Files -> 0..Len(ver)]] /\ Len(ver) \in Nat
    BY Types DEF IInv, TypeOK
  <1>2. \A q \in 0..Len(ver) : q \in 0..N
    BY <1>1
  <1>3. current \in [Devices -> [Files -> 0..N]]
    BY <1>1, <1>2
  <1>4. QED
    BY <1>3 DEF Put

LEMMA JournalGrows ==
  ASSUME TypeOK, NEW d \in Devices, NEW v \in Versions', NEW sealable \in BOOLEAN,
         \A x \in Versions : x \in Versions', Journal(d, v, sealable)
  PROVE  /\ journal' \in [Devices -> Seq(Row)']
         /\ journal'[d] = Append(journal[d], [version |-> v, sealable |-> sealable])
         /\ \A e \in Devices \ {d} : journal'[e] = journal[e]
  <1> DEFINE r == [version |-> v, sealable |-> sealable]
  <1>1. r \in Row' /\ \A x \in Row : x \in Row'
    BY DEF Row
  <1> HIDE DEF r
  <1>2. journal \in [Devices -> Seq(Row)]
    BY DEF TypeOK
  <1>3. \A s \in Seq(Row) : s \in Seq(Row)'
    BY <1>1
  <1>4. journal \in [Devices -> Seq(Row)'] /\ Append(journal[d], r) \in Seq(Row)'
    BY <1>1, <1>2, <1>3
  <1>5. journal' = [journal EXCEPT ![d] = Append(journal[d], r)]
    BY DEF Journal, r
  <1>6. QED
    BY <1>4, <1>5 DEF r

LEMMA WriteKeeps ==
  ASSUME IInv, NEW d \in Devices, NEW f \in Files, NEW deleted \in BOOLEAN,
         NEW sealable \in BOOLEAN, Write(d, f, deleted, 0, sealable),
         UNCHANGED <<cloud, known, account, work, faults, history>>
  PROVE  IInv'
  <1>1. PICK w \in Nat : w = Len(ver) + 1
    BY Types DEF IInv
  <1>2. PICK p \in Nat : p = current[d][f] /\ p \in 0..Len(ver)
    BY DeviceTypes, Types DEF IInv
  <1>3. PICK r \in FileVersion : /\ r.file = f /\ r.device = d /\ r.parent = p /\ r.copy = 0
                                 /\ ver' = Append(ver, r)
    <2>1. [file |-> f, deleted |-> deleted, device |-> d, copy |-> 0, parent |-> p] \in FileVersion
      BY DEF FileVersion
    <2>2. ver' = Append(ver, [file |-> f, deleted |-> deleted, device |-> d, copy |-> 0,
                              parent |-> p])
      BY <1>2 DEF Write
    <2>3. QED
      BY <2>1, <2>2
  <1>4. /\ UNCHANGED <<cloud, known, account, work, faults, history>>
        /\ Put(f, w, d) /\ has' = [has EXCEPT ![d] = @ \cup {w}]
        /\ Journal(d, w, sealable)
    BY <1>1 DEF Write
  <1>5. /\ ver' \in Seq(FileVersion) /\ Len(ver') = Len(ver) + 1 /\ ver'[w] = r
        /\ Extends /\ Len(ver) \in Nat
        /\ \A v : v \in Versions' <=> v \in Versions \/ v = w
        /\ w \notin Versions /\ ~InCloud(w)
        /\ \A q \in 0..Len(ver) : q \in 0..Len(ver')
        /\ w \in 0..Len(ver') /\ \A v \in Versions : v < w
    BY <1>1, <1>3, <1>4, VerGrows DEF history
  <1>6. /\ current' \in [Devices -> [Files -> 0..Len(ver')]]
        /\ current'[d][f] = w /\ \A g \in Files \ {f} : current'[d][g] = current[d][g]
        /\ \A e \in Devices \ {d} : current'[e] = current[e]
    <2>1. Len(ver') \in Nat /\ Len(ver) <= Len(ver')
      BY <1>5
    <2>2. QED
      BY <1>4, <1>5, <2>1, PutsRow
  <1>7. /\ has' \in [Devices -> SUBSET Versions'] /\ has'[d] = has[d] \cup {w}
        /\ \A e \in Devices \ {d} : has'[e] = has[e]
    BY <1>4, <1>5 DEF IInv, TypeOK
  <1>8. journal' \in [Devices -> Seq(Row)']
    BY <1>4, <1>5, JournalGrows DEF IInv
  <1>9. TypeOK'
    BY <1>4, <1>5, <1>6, <1>7, <1>8, TypesGrow DEF IInv, TypeOK, work
  <1>10. \A e \in Devices \ {d} : Same(e)
    BY <1>4, <1>6, <1>7 DEF Same, Spares, account, work, history
  <1>11. p # 0 => p \in has[d] /\ p \in Versions /\ FileOf(p) = f
    BY <1>2, DeviceTypes DEF IInv, DeviceInv, RowsAreHeld
  <1>12. ParentIsHeld(w)'
    <2>1. p # 0 => p \in has'[d] /\ p < w /\ FileOf(p)' = f
      BY <1>5, <1>7, <1>9, <1>11, PastIsKept
    <2>2. QED
      BY <1>3, <1>5, <2>1 DEF ParentIsHeld, FileOf
  <1>13. DeviceInv(d)'
    <2>1. w \notin has[d] /\ w \notin undone
      BY <1>5, DeviceTypes DEF IInv, TypeOK
    <2>2. /\ cloud' = cloud /\ known'[d] = known[d] /\ heads'[d] = heads[d]
          /\ lastSeq'[d] = lastSeq[d] /\ session'[d] = session[d] /\ op'[d] = op[d]
          /\ fresh'[d] = fresh[d] /\ step'[d] = step[d] /\ undone' = undone
      BY <1>4 DEF account, work, history
    <2>3. StepIsShaped(d)'
      BY <1>5, <1>9, <2>2, StepStays
    <2>4. FileOf(w)' = f /\ ver'[w].device = d /\ ver'[w].parent = current[d][f]
      BY <1>2, <1>3, <1>5 DEF FileOf
    <2>5. Pulling(d)' = Pulling(d)
      BY <1>4 DEF Pulling, work
    <2>6. QED
      BY <1>5, <1>6, <1>7, <1>9, <2>1, <2>2, <2>3, <2>4, <2>5, OwnRow
  <1>14. QED
    BY <1>4, <1>5, <1>7, <1>9, <1>10, <1>12, <1>13, OneDeviceWrites

LEMMA EditKeeps ==
  ASSUME IInv, NEW d \in Devices, NEW f \in Files, Edit(d, f)
  PROVE  IInv'
  BY WriteKeeps DEF Edit

LEMMA RestoreVersionKeeps ==
  ASSUME IInv, NEW d \in Devices, NEW f \in Files, RestoreVersion(d, f)
  PROVE  IInv'
  BY WriteKeeps DEF RestoreVersion

LEMMA TrashFileKeeps ==
  ASSUME IInv, NEW d \in Devices, NEW f \in Files, TrashFile(d, f)
  PROVE  IInv'
  BY WriteKeeps DEF TrashFile

LEMMA ForkKeeps ==
  ASSUME IInv, NEW d \in Devices, NEW f \in Files, Fork(d, f)
  PROVE  IInv'
  <1>1. PICK w \in Nat : w = Len(ver) + 1
    BY Types DEF IInv
  <1>2. PICK c \in Nat : c = step[d].saw /\ c # 0
    BY DeviceTypes, Types DEF Fork, IInv, DeviceInv, StepIsShaped
  <1>3. PICK r \in FileVersion : /\ r.file = f /\ r.device = d /\ r.parent = 0 /\ r.copy = c
                                 /\ ver' = Append(ver, r)
    <2>1. [file |-> f, deleted |-> FALSE, device |-> d, copy |-> c, parent |-> 0] \in FileVersion
      BY DEF FileVersion
    <2>2. ver' = Append(ver, [file |-> f, deleted |-> FALSE, device |-> d, copy |-> c,
                              parent |-> 0])
      BY <1>2 DEF Fork, Write
    <2>3. QED
      BY <2>1, <2>2
  <1>4. /\ UNCHANGED <<cloud, known, account, session, op, fresh, faults, history>>
        /\ step[d].pc = "fork" /\ Unused(f) /\ Goto(d, "land")
        /\ Put(f, w, d) /\ has' = [has EXCEPT ![d] = @ \cup {w}] /\ Journal(d, w, TRUE)
    BY <1>1 DEF Fork, NewId, Write
  <1>5. /\ ver' \in Seq(FileVersion) /\ Len(ver') = Len(ver) + 1 /\ ver'[w] = r
        /\ Extends /\ Len(ver) \in Nat
        /\ \A v : v \in Versions' <=> v \in Versions \/ v = w
        /\ w \notin Versions /\ ~InCloud(w)
        /\ \A q \in 0..Len(ver) : q \in 0..Len(ver')
        /\ w \in 0..Len(ver')
    BY <1>1, <1>3, <1>4, VerGrows DEF history
  <1>6. /\ current' \in [Devices -> [Files -> 0..Len(ver')]]
        /\ current'[d][f] = w /\ \A g \in Files \ {f} : current'[d][g] = current[d][g]
        /\ \A e \in Devices \ {d} : current'[e] = current[e]
    <2>1. Len(ver') \in Nat /\ Len(ver) <= Len(ver')
      BY <1>5
    <2>2. QED
      BY <1>4, <1>5, <2>1, PutsRow
  <1>7. /\ has' \in [Devices -> SUBSET Versions'] /\ has'[d] = has[d] \cup {w}
        /\ \A e \in Devices \ {d} : has'[e] = has[e]
    BY <1>4, <1>5 DEF IInv, TypeOK
  <1>8. journal' \in [Devices -> Seq(Row)']
    BY <1>4, <1>5, JournalGrows DEF IInv
  <1>9. /\ step' \in [Devices -> Work] /\ step'[d].pc = "land" /\ step'[d].upto = step[d].upto
        /\ step'[d].pos = step[d].pos /\ step'[d].saw = step[d].saw
        /\ \A e \in Devices \ {d} : step'[e] = step[e]
    BY <1>4, Goes DEF IInv, Pcs
  <1>10. TypeOK'
    BY <1>4, <1>5, <1>6, <1>7, <1>8, <1>9, TypesGrow
  <1>11. \A e \in Devices \ {d} : Same(e)
    BY <1>4, <1>6, <1>7, <1>9 DEF Same, Spares, account, history
  <1>12. ParentIsHeld(w)'
    BY <1>3, <1>5 DEF ParentIsHeld
  <1>13. DeviceInv(d)'
    <2>1. w \notin has[d] /\ w \notin undone
      BY <1>5, DeviceTypes DEF IInv, TypeOK
    <2>2. current[d][f] = 0
      <3>1. current[d][f] # 0 => FileOf(current[d][f]) = f /\ current[d][f] \in Versions
        BY DeviceTypes DEF IInv, DeviceInv, RowsAreHeld
      <3>2. QED
        BY <1>4, <3>1 DEF Unused
    <2>3. Pulling(d)' = Pulling(d) /\ Claims(d)' = Claims(d) /\ Pulling(d)
      BY <1>4, <1>9 DEF Pulling, Claims
    <2>4. StepIsShaped(d)'
      BY <1>4, <1>9, <2>3 DEF StepIsShaped, IInv, DeviceInv, account
    <2>5. FileOf(w)' = f /\ ver'[w].device = d /\ ver'[w].copy = step[d].saw
      BY <1>2, <1>3, <1>5 DEF FileOf
    <2>6. QED
      BY <1>4, <1>5, <1>6, <1>7, <1>9, <1>10, <2>1, <2>2, <2>3, <2>4, <2>5, OwnRow
         DEF account, history
  <1>14. QED
    BY <1>4, <1>5, <1>7, <1>10, <1>11, <1>12, <1>13, OneDeviceWrites

\* The row goes back to the version before its deletion.
LEMMA UndoTrashKeeps ==
  ASSUME IInv, NEW d \in Devices, NEW f \in Files, UndoTrash(d, f)
  PROVE  IInv'
  <1>1. PICK t \in Versions : t = current[d][f] /\ t \in has[d] /\ FileOf(t) = f
    BY DeviceTypes, Types DEF UndoTrash, IInv, DeviceInv, RowsAreHeld, Versions
  <1>2. PICK w : w = ver[t].parent
    OBVIOUS
  <1>3. /\ UNCHANGED <<ver, cloud, has, known, account, work, faults, raced, relanded>>
        /\ Put(f, w, d) /\ undone' = undone \cup {t}
        /\ ver[t].deleted /\ ver[t].device = d /\ w # 0
    BY <1>1, <1>2 DEF UndoTrash
  <1>4. w \in has[d] /\ w \in Versions /\ FileOf(w) = f
    BY <1>1, <1>2, <1>3, DeviceTypes DEF IInv, ParentIsHeld
  <1>5. PICK named \in BOOLEAN : Journal(d, w, named)
    BY <1>1, <1>2 DEF UndoTrash
  <1>6. w \in 0..Len(ver) /\ Len(ver) \in Nat
    BY <1>4, Types DEF IInv, Versions
  <1>7. /\ current' \in [Devices -> [Files -> 0..Len(ver)]]
        /\ current'[d][f] = w /\ \A g \in Files \ {f} : current'[d][g] = current[d][g]
        /\ \A e \in Devices \ {d} : current'[e] = current[e]
    BY <1>3, <1>6, PutsRow
  <1>8. Versions' = Versions /\ journal' \in [Devices -> Seq(Row)']
    <2>1. Versions' = Versions
      BY <1>3 DEF Versions
    <2>2. QED
      BY <1>4, <1>5, <2>1, JournalGrows DEF IInv
  <1>9. TypeOK'
    <2>1. undone' \subseteq Versions
      BY <1>3 DEF IInv, TypeOK
    <2>2. QED
      BY <1>3, <1>7, <1>8, <2>1 DEF IInv, TypeOK, account, work, Session, Operation, Work
  <1>10. \A e \in Devices \ {d} : Same(e)
    BY <1>3, <1>7 DEF Same, Spares, account, work
  <1>11. Extends
    BY <1>3, Types DEF Extends, IInv
  <1>12. StepIsShaped(d)' /\ OpIsShaped(d)'
    BY <1>3, <1>9, <1>11, StepStays, OpStays DEF account, work
  <1>13. HeadsCover(d)' /\ KnownCovers(d)'
    <2>1. /\ Passed(d)' = Passed(d) /\ Passed(d) \in Nat /\ Pulling(d)' = Pulling(d)
          /\ Claims(d)' = Claims(d)
      BY <1>3, PassedIsSeq DEF Passed, Pulling, Claims, account, work
    <2>2. QED
      BY <1>3, <1>9, <1>11, <2>1, HeadsKept, KnownKept DEF account, work
  <1>14. RowsAreHeld(d)'
    <2>1. RowsAreHeld(d)
      BY DEF IInv, DeviceInv
    <2>2. QED
      BY <1>3, <1>4, <1>7, <2>1 DEF RowsAreHeld, FileOf
  <1>15. LandIsSafe(d)'
    <2>1. ASSUME NEW v \in has[d], ver[v].device = d
          PROVE  Kept(d, v)' \/ v \in raced
      <3>1. Kept(d, v) \/ v \in raced
        BY <2>1 DEF IInv, DeviceInv, LandIsSafe
      <3>2. FileOf(v) \in Files
        BY DeviceTypes, Types DEF IInv
      <3>3. CASE FileOf(v) = f /\ v \in {t, w}
        BY <1>3, <1>7, <3>3 DEF Kept, FileOf
      <3>4. CASE FileOf(v) # f \/ v \notin {t, w}
        <4>1. current[d][FileOf(v)] = v => current'[d][FileOf(v)] = v
          BY <1>1, <1>7, <3>2, <3>4
        <4>2. ver[t].parent = v => FALSE
          BY <1>2, <1>4, <3>4
        <4>3. Kept(d, v) => Kept(d, v)'
          BY <1>3, <4>1, <4>2 DEF Kept, FileOf, InCloud, Seqs
        <4>4. QED
          BY <3>1, <4>3
      <3>5. QED
        BY <3>3, <3>4
    <2>2. Incoming(d)' = Incoming(d)
      BY <1>3 DEF Incoming, work
    <2>3. \A v : (Unpushed(d, v)' <=> Unpushed(d, v)) /\ (Forked(d, v)' <=> Forked(d, v))
      BY <1>3, <2>2 DEF Unpushed, Forked
    <2>4. QED
      BY <1>3, <2>1, <2>2, <2>3 DEF LandIsSafe, IInv, DeviceInv, work
  <1>16. QED
    BY <1>3, <1>9, <1>10, <1>12, <1>13, <1>14, <1>15, OneDeviceActs DEF DeviceInv

-----------------------------------------------------------------------------
(* The invariant.                                                           *)

LEMMA InitIInv ==
  ASSUME Init
  PROVE  IInv
  <1>1. Len(ver) = 0 /\ Len(cloud) = 0 /\ Versions = {} /\ Seqs = {}
    BY DEF Init, Versions, Seqs
  <1>2. NoSession \in Session /\ NoOp \in Operation /\ Idle \in Work
    BY <1>1 DEF NoSession, Session, NoOp, Operation, Idle, Work
  <1>3. TypeOK
    <2>1. ver \in Seq(FileVersion) /\ cloud \in Seq(Commit)
      BY DEF Init
    <2>2. /\ current \in [Devices -> [Files -> 0..Len(ver)]]
          /\ has \in [Devices -> SUBSET Versions] /\ known \in [Devices -> SUBSET Versions]
          /\ heads \in [Devices -> [Files -> 0..Len(cloud)]]
          /\ lastSeq \in [Devices -> 0..Len(cloud)] /\ cursor \in [Devices -> Nat]
          /\ skips \in [Devices -> [{"parked", "due"} -> SUBSET Versions]]
      BY <1>1 DEF Init
    <2>3. /\ session \in [Devices -> Session] /\ op \in [Devices -> Operation]
          /\ fresh \in [Devices -> BOOLEAN] /\ step \in [Devices -> Work]
          /\ journal \in [Devices -> Seq(Row)] /\ faults \in Nat
          /\ raced \subseteq Versions /\ undone \subseteq Versions
          /\ relanded \subseteq Devices \X Versions
      BY <1>1, <1>2 DEF Init
    <2>4. QED
      BY <2>1, <2>2, <2>3 DEF TypeOK
  <1>4. ChainIsHashed /\ CommittedOnce /\ \A v \in Versions : ParentIsHeld(v)
    BY <1>1 DEF ChainIsHashed, CommittedOnce
  <1>5. ASSUME NEW d \in Devices
        PROVE  DeviceInv(d)
    <2>1. /\ step[d] = Idle /\ session[d] = NoSession /\ op[d] = NoOp /\ fresh[d] = FALSE
          /\ lastSeq[d] = 0 /\ has[d] = {} /\ known[d] = {}
          /\ \A f \in Files : heads[d][f] = 0 /\ current[d][f] = 0
      BY DEF Init
    <2>2. Idle.pc = "idle" /\ NoSession.version = 0 /\ NoSession.open = FALSE /\ NoOp.kind = "none"
      BY DEF Idle, NoSession, NoOp
    <2>3. ~Pulling(d) /\ ~Claims(d) /\ Passed(d) = 0
      BY <2>1, <2>2 DEF Pulling, Claims, Passed
    <2>4. StepIsShaped(d) /\ OpIsShaped(d)
      BY <2>1, <2>2, <2>3 DEF StepIsShaped, OpIsShaped
    <2>5. HeadsCover(d) /\ KnownCovers(d) /\ RowsAreHeld(d) /\ LandIsSafe(d)
      BY <2>1, <2>2, <2>3 DEF HeadsCover, KnownCovers, RowsAreHeld, LandIsSafe
    <2>6. QED
      BY <2>4, <2>5 DEF DeviceInv
  <1>6. QED
    BY <1>3, <1>4, <1>5 DEF IInv

LEMMA NextIInv ==
  ASSUME IInv, [Next]_vars
  PROVE  IInv'
  <1>1. CASE UNCHANGED vars
    <2>1. UNCHANGED <<ver, cloud, disk, heads, lastSeq, cursor, work, history>>
      BY <1>1 DEF vars, disk, work, history
    <2>2. skips' \in [Devices -> [{"parked", "due"} -> SUBSET Versions]] /\ faults' \in Nat
      BY <1>1 DEF vars, IInv, TypeOK
    <2>3. QED
      BY <2>1, <2>2, SkipsOnly
  <1>2. ASSUME NEW d \in Devices, LocalWrite(d)
        PROVE  IInv'
    BY <1>2, EditKeeps, RestoreVersionKeeps, TrashFileKeeps, UndoTrashKeeps DEF LocalWrite
  <1>3. ASSUME NEW d \in Devices, Advance(d)
        PROVE  IInv'
    BY <1>3, PullKeeps, SaveVerifiedHeadKeeps, KnownVersionKeeps, InspectKeeps, LandKeeps, ForkKeeps,
       StageKeeps, StageRefusesKeeps,
       QueueOperationKeeps, ContinueUploadKeeps, DropUploadKeeps, FinishCommitKeeps,
       CommitUnexpectedKeeps, CompleteOperationKeeps DEF Advance
  <1>4. ASSUME NEW d \in Devices, Send(d) \/ CommitRepeats(d)
        PROVE  IInv'
    BY <1>4, UploadOpensKeeps, CommitLandsKeeps, HeadMovedKeeps, CommitRepeatsKeeps DEF Send
  <1>5. ASSUME NEW d \in Devices, PullIsDue(d) \/ SkipIsDue(d)
        PROVE  IInv'
    BY <1>5, PullIsDueKeeps, SkipIsDueKeeps
  <1>6. ASSUME NEW d \in Devices, Failure(d)
        PROVE  IInv'
    BY <1>6, PullFailsKeeps, UploadIsGoneKeeps, SendFailsKeeps, RefusedKeeps, CrashKeeps,
       StageFailsKeeps DEF Failure
  <1>7. QED
    BY <1>1, <1>2, <1>3, <1>4, <1>5, <1>6 DEF Next

\* The inductive invariant holds of every run.
THEOREM FilesInvariant == Spec => []IInv
  <1>1. Init => IInv
    BY InitIInv
  <1>2. IInv /\ [Next]_vars => IInv'
    BY NextIInv
  <1>3. QED
    BY <1>1, <1>2, PTL DEF Spec

-----------------------------------------------------------------------------
(* The properties.                                                          *)

\* The head of a file after n commits is one.
LEMMA HeadIsUnique ==
  ASSUME NEW f \in Files, NEW n \in Nat, NEW h \in Nat, NEW k \in Nat,
         HeadAt(f, h, n), HeadAt(f, k, n)
  PROVE  h = k
  <1>1. CASE h = 0 /\ k = 0
    BY <1>1
  <1>2. CASE h # 0
    <2>1. h \in 1..n /\ FileAt(h) = f /\ h <= k
      BY <1>2 DEF HeadAt
    <2>2. k # 0
      BY <2>1
    <2>3. k <= h
      BY <2>2 DEF HeadAt
    <2>4. QED
      BY <2>1, <2>3
  <1>3. CASE k # 0
    <2>1. k \in 1..n /\ FileAt(k) = f /\ k <= h
      BY <1>3 DEF HeadAt
    <2>2. h # 0
      BY <2>1
    <2>3. QED
      BY <1>2, <2>2
  <1>4. QED
    BY <1>1, <1>2, <1>3

LEMMA HashesAgree ==
  ASSUME IInv
  PROVE  HashNeverLies
  <1> SUFFICES ASSUME NEW d \in Devices, cloud # <<>>
               PROVE  Projected(d) = cloud[Len(cloud)].state
    BY DEF HashNeverLies, HashAgrees
  <1> DEFINE N == Len(cloud)
             s == cloud[N].state
  <1>1. N \in Nat /\ N \in Seqs /\ s \in [Files -> Nat]
    <2>1. N \in Nat /\ N # 0
      BY Types DEF IInv, TypeOK
    <2>2. N \in Seqs
      BY <2>1 DEF Seqs
    <2>3. cloud[N] \in Commit
      BY <2>2, Types DEF IInv
    <2>4. QED
      BY <2>1, <2>2, <2>3 DEF Commit
  <1>2. \A f \in Files : HeadAt(f, s[f], N)
    BY <1>1 DEF IInv, ChainIsHashed
  <1>3. HeadsCover(d) /\ Passed(d) \in Nat /\ lastSeq[d] <= Passed(d) /\ lastSeq[d] \in Nat
    BY PassedIsSeq, DeviceTypes DEF IInv, DeviceInv
  <1> HIDE DEF N, s
  <1>4. ASSUME NEW f \in Files
        PROVE  LET later == {n \in (lastSeq[d] + 1)..Len(cloud) : FileAt(n) = f}
               IN  s[f] = IF later = {} THEN heads[d][f]
                          ELSE CHOOSE n \in later : \A m \in later : m <= n
    <2> DEFINE later == {n \in (lastSeq[d] + 1)..Len(cloud) : FileAt(n) = f}
    <2>1. /\ s[f] \in Nat
          /\ s[f] = 0 \/ (s[f] \in 1..N /\ FileAt(s[f]) = f)
          /\ \A m \in 1..N : FileAt(m) = f => m <= s[f]
      BY <1>1, <1>2 DEF HeadAt
    <2>2. CASE later = {}
      <3>1. \A m \in 1..N : m \in 1..Passed(d) \/ m \in (lastSeq[d] + 1)..Len(cloud)
        BY <1>1, <1>3 DEF N
      <3>2. /\ heads[d][f] \in Nat
            /\ heads[d][f] = 0 \/ (heads[d][f] \in 1..N /\ FileAt(heads[d][f]) = f)
            /\ \A m \in 1..Passed(d) : FileAt(m) = f => m <= heads[d][f]
        BY <1>3, DeviceTypes DEF HeadsCover, Seqs, N, IInv
      <3>3. \A m \in 1..N : FileAt(m) = f => m <= heads[d][f]
        BY <2>2, <3>1, <3>2
      <3>4. HeadAt(f, heads[d][f], N)
        BY <3>2, <3>3 DEF HeadAt
      <3>5. s[f] = heads[d][f]
        BY <1>1, <1>2, <2>1, <3>2, <3>4, HeadIsUnique
      <3>6. QED
        BY <2>2, <3>5
    <2>3. CASE later # {}
      <3>1. PICK m \in later : TRUE
        BY <2>3
      <3>2. m \in 1..N /\ FileAt(m) = f /\ lastSeq[d] < m
        BY <1>1, <1>3 DEF N
      <3>3. m <= s[f] /\ s[f] \in 1..N /\ FileAt(s[f]) = f
        BY <2>1, <3>2
      <3>4. s[f] \in later
        BY <1>1, <1>3, <3>2, <3>3 DEF N
      <3>5. \A n \in later : n \in 1..N /\ FileAt(n) = f
        BY <1>1, <1>3 DEF N
      <3>6. \A n \in later : n <= s[f]
        BY <2>1, <3>5
      <3> HIDE DEF later
      <3> DEFINE x == CHOOSE n \in later : \A k \in later : k <= n
      <3>7. x \in later /\ \A k \in later : k <= x
        BY <3>4, <3>6
      <3> HIDE DEF x
      <3>8. x <= s[f] /\ s[f] <= x /\ x \in Nat
        BY <3>4, <3>5, <3>6, <3>7
      <3>9. x = s[f]
        BY <2>1, <3>8
      <3>10. QED
        BY <2>3, <3>9 DEF x, later
    <2>4. QED
      BY <2>2, <2>3
  <1>5. s = [f \in Files |-> s[f]]
    BY <1>1
  <1>6. QED
    BY <1>4, <1>5 DEF Projected, s, N

\* assertStateHash raises no alarm of its own: the head of the cloud hashes what every
\* device makes of the heads it has and the commits it has not seen (pull.ts).
THEOREM HashesAreTrue == Spec => []HashNeverLies
  BY FilesInvariant, HashesAgree, PTL

\* A version is committed once, whatever answers were lost (service.ts,
\* handleCommitResponse; repository.ts, finishCommit, nextPushCandidate).
THEOREM CommitsAreSingle == Spec => []CommittedOnce
  <1>1. IInv => CommittedOnce
    BY DEF IInv
  <1>2. QED
    BY <1>1, FilesInvariant, PTL

\* A local version is lost only when it was written while the remote one was being
\* fetched (pull.ts, applyOne).
THEOREM LossNeedsRace == Spec => []LostOnlyInRace
  <1>1. IInv => LostOnlyInRace
    BY DEF IInv, DeviceInv, LandIsSafe, LostOnlyInRace
  <1>2. QED
    BY <1>1, FilesInvariant, PTL

-----------------------------------------------------------------------------
(* The log of the cloud implements SharedLog.                               *)

LEMMA VersionsOf ==
  ASSUME NEW s \in Seq(Commit)
  PROVE  /\ [n \in 1..Len(s) |-> s[n].version] \in Seq(Nat)
         /\ Len([n \in 1..Len(s) |-> s[n].version]) = Len(s)
  <1>1. \A n \in 1..Len(s) : s[n] \in Commit
    OBVIOUS
  <1>2. \A n \in 1..Len(s) : s[n].version \in Nat
    BY <1>1 DEF Commit
  <1>3. Len(s) \in Nat
    OBVIOUS
  <1>4. QED
    BY <1>2, <1>3

LEMMA LogLength ==
  ASSUME IInv
  PROVE  Len(Committed) = Len(cloud)
  BY VersionsOf DEF IInv, TypeOK, Committed

LEMMA SavedHeadLearns ==
  ASSUME IInv, NEW d \in Devices, SaveVerifiedHead(d)
  PROVE  [Log!Next]_Log!vars
  <1>1. Committed' = Committed /\ lastSeq' = [lastSeq EXCEPT ![d] = step[d].upto]
    BY DEF SaveVerifiedHead, Committed
  <1>2. lastSeq[d] <= step[d].upto /\ step[d].upto <= Len(cloud) /\ step[d].upto \in Nat
    BY DeviceTypes DEF IInv, DeviceInv, StepIsShaped, SaveVerifiedHead, Pulling
  <1>3. CASE lastSeq[d] = step[d].upto
    <2>1. lastSeq' = lastSeq
      BY <1>1, <1>3 DEF IInv, TypeOK
    <2>2. QED
      BY <1>1, <2>1 DEF Log!vars
  <1>4. CASE lastSeq[d] # step[d].upto
    <2>1. lastSeq[d] < step[d].upto /\ step[d].upto \in 1..Len(cloud)
      BY <1>2, <1>4, DeviceTypes, Types DEF IInv
    <2>2. Log!Learn(d, step[d].upto)
      BY <1>1, <2>1, LogLength DEF Log!Learn
    <2>3. QED
      BY <2>1, <2>2, LogLength DEF Log!Next
  <1>5. QED
    BY <1>3, <1>4

LEMMA LogStep ==
  ASSUME IInv, [Next]_vars
  PROVE  [Log!Next]_Log!vars
  <1>1. CASE UNCHANGED <<cloud, lastSeq>>
    BY <1>1 DEF Log!vars, Committed
  <1>2. ASSUME NEW d \in Devices, CommitLands(d)
        PROVE  Log!Write(d)
    <2>1. Len(cloud) \in Nat /\ cloud \in Seq(Commit) /\ lastSeq[d] = Len(cloud)
      BY <1>2, Types, CommitIsNew DEF IInv, TypeOK, CommitLands
    <2>2. PICK r : cloud' = Append(cloud, r) /\ r.version = op[d].version
      BY <1>2 DEF CommitLands
    <2>3. /\ Len(cloud') = Len(cloud) + 1 /\ \A n \in 1..Len(cloud) : cloud'[n] = cloud[n]
      BY <2>1, <2>2
    <2>4. cloud' \in Seq(Commit)
      BY <1>2, CommitLandsKeeps DEF IInv, TypeOK
    <2>5. /\ Len(Committed') = Len(cloud') /\ Len(Committed) = Len(cloud)
          /\ Committed' \in Seq(Nat) /\ Committed \in Seq(Nat)
      BY <2>1, <2>4, VersionsOf DEF Committed
    <2>6. \A n \in 1..Len(cloud) : Committed'[n] = Committed[n]
      BY <2>1, <2>3 DEF Committed
    <2>7. SubSeq(Committed', 1, Len(Committed)) = Committed
      BY <2>1, <2>3, <2>5, <2>6
    <2>8. lastSeq' = lastSeq
      BY <1>2 DEF CommitLands, account
    <2>9. QED
      BY <2>1, <2>3, <2>5, <2>7, <2>8 DEF Log!Write
  <1>3. ASSUME NEW d \in Devices, FinishCommit(d)
        PROVE  \E n \in 1..Len(Committed) : Log!Learn(d, n)
    <2> DEFINE n == op[d].base + 1
    <2>1. step[d].pc = "answer" /\ session[d].version # 0
      BY <1>3 DEF FinishCommit
    <2>2. op[d].kind = "commit" /\ Landed(op[d]) /\ OpIsShaped(d)
      BY <2>1 DEF IInv, DeviceInv, StepIsShaped
    <2>3. op[d].base = lastSeq[d]
      BY <2>1, <2>2 DEF OpIsShaped, CommitOf
    <2>4. lastSeq[d] < n /\ n <= Len(cloud) /\ n \in 1..Len(cloud)
      BY <2>2, <2>3, DeviceTypes, Types DEF Landed, IInv
    <2>5. lastSeq' = [lastSeq EXCEPT ![d] = n] /\ Committed' = Committed
      BY <1>3 DEF FinishCommit, Committed
    <2> HIDE DEF n
    <2>6. QED
      BY <2>4, <2>5, LogLength DEF Log!Learn
  <1>4. ASSUME NEW d \in Devices, SaveVerifiedHead(d)
        PROVE  [Log!Next]_Log!vars
    BY <1>4, SavedHeadLearns
  <1>5. ASSUME NEW d \in Devices, LocalWrite(d) \/ PullIsDue(d) \/ SkipIsDue(d) \/ Failure(d)
        PROVE  UNCHANGED <<cloud, lastSeq>>
    BY <1>5 DEF LocalWrite, Edit, RestoreVersion, TrashFile, UndoTrash, PullIsDue, SkipIsDue, Failure,
       PullFails, UploadIsGone, SendFails, Refused, Crash, StageFails, account
  <1>6. ASSUME NEW d \in Devices, Send(d) \/ CommitRepeats(d)
        PROVE  CommitLands(d) \/ UNCHANGED <<cloud, lastSeq>>
    BY <1>6 DEF Send, UploadOpens, HeadMoved, CommitRepeats, account
  <1>7. ASSUME NEW d \in Devices, Advance(d)
        PROVE  FinishCommit(d) \/ SaveVerifiedHead(d) \/ UNCHANGED <<cloud, lastSeq>>
    BY <1>7 DEF Advance, Pull, KnownVersion, Land, Inspect, Fork, Stage, StageRefuses,
       QueueOperation, ContinueUpload, DropUpload, CommitUnexpected, CompleteOperation, account
  <1>8. CASE UNCHANGED vars
    BY <1>1, <1>8 DEF vars
  <1>9. CASE Next
    BY <1>1, <1>2, <1>3, <1>4, <1>5, <1>6, <1>7, <1>9 DEF Next, Log!Next
  <1>10. QED
    BY <1>8, <1>9

\* The log of the cloud with what each device has taken over is the shared log: every
\* commit is made on top of all there is (push.ts buildCommitBatch, head_moved).
THEOREM LogIsShared == Spec => CommitsOnTop
  <1>1. Init => Log!Init
    <2>1. ASSUME Init
          PROVE  Committed = <<>>
      BY <2>1 DEF Init, Committed
    <2>2. QED
      BY <2>1 DEF Init, Log!Init
  <1>2. IInv /\ [Next]_vars => [Log!Next]_Log!vars
    BY LogStep
  <1>3. QED
    BY <1>1, <1>2, FilesInvariant, PTL DEF Spec, CommitsOnTop, Log!Spec
=============================================================================
