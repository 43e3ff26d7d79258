--------------------------- MODULE FilesRestProofs ---------------------------
(***************************************************************************)
(* What a device at rest can lack.  RestInv relates the rows of a device   *)
(* to the heads it knows; it is proved on top of IInv, which               *)
(* FilesCloudSyncProofs has of every run.  A step that changes no row, no  *)
(* head and no known version is quiet, and keeps it (QuietKeeps); the      *)
(* others each have their lemma: those that take over a commit, those that *)
(* write a row, those that move the session.                               *)
(***************************************************************************)
EXTENDS FilesCloudSyncProofs

Skipped(d) == skips[d]["parked"] \cup skips[d]["due"]

Grows ==
  /\ Extends /\ relanded \subseteq relanded'
  /\ faults # 0 => faults' # 0

SessionGoesOn(d) ==
  \/ session'[d].version = session[d].version /\ session'[d].seq = session[d].seq
  \/ session'[d].version = 0 /\ session'[d].seq = 0

Quiet(d) ==
  /\ current'[d] = current[d] /\ has'[d] = has[d] /\ known'[d] = known[d]
  /\ journal'[d] = journal[d] /\ cursor'[d] = cursor[d]
  /\ heads'[d] = heads[d] /\ lastSeq[d] <= lastSeq'[d]
  /\ SessionGoesOn(d) /\ Skipped(d) \subseteq Skipped(d)'
  /\ \A n \in Seqs' \ Seqs : ver'[cloud'[n].version].device # d
  /\ Passed(d) <= Passed(d)' \/ faults' # 0

\* The parts of the invariant that speak of a file, a version, a file.
HeadPart(d, f) ==
  LET h == heads[d][f]
  IN  /\ current[d][f] = 0 => \A v \in has[d] : FileOf(v) # f
      /\ current[d][f] = 0 /\ h # 0 => ver[cloud[h].version].deleted
      /\ \A c \in known[d] : Shown(d, f, c) =>
           \/ h # 0 /\ (cloud[h].version = c \/ Deletes(d, cloud[h].version, c))
           \/ Relanded(d, c)

PendingPart(d, v) ==
  /\ current[d][FileOf(v)] # 0
  /\ \A c \in Versions :
       Shown(d, FileOf(v), c) => c \in {v} \cup (has[d] \ known[d]) \/ Deletes(d, v, c)

HasRow(d, v) ==
  \E j \in DOMAIN journal[d] : RowVersion(d, j) = v /\ j > cursor[d] /\ j >= session[d].seq

LEMMA Parts ==
  ASSUME NEW d \in Devices
  PROVE  /\ CurrentIsHead(d) <=> \A f \in Files : HeadPart(d, f)
         /\ PendingIsCurrent(d) <=>
              \A v \in has[d] \ known[d] : v = session[d].version \/ InCloud(v) => PendingPart(d, v)
         /\ SkipsCover(d) <=>
              \A f \in Files : current[d][f] \in has[d] \ known[d] =>
                                 current[d][f] \in Skipped(d) \/ HasRow(d, current[d][f])
  <1>1. CurrentIsHead(d) <=> \A f \in Files : HeadPart(d, f)
    BY DEF CurrentIsHead, HeadPart
  <1>2. PendingIsCurrent(d) <=>
              \A v \in has[d] \ known[d] : v = session[d].version \/ InCloud(v) => PendingPart(d, v)
    BY DEF PendingIsCurrent, PendingPart
  <1>3. SkipsCover(d) <=>
              \A f \in Files : current[d][f] \in has[d] \ known[d] =>
                                 current[d][f] \in Skipped(d) \/ HasRow(d, current[d][f])
    BY DEF SkipsCover, HasRow, Skipped
  <1>4. QED
    BY <1>1, <1>2, <1>3

LEMMA HeadsAreSeqs ==
  ASSUME IInv, NEW d \in Devices
  PROVE  /\ \A f \in Files : /\ heads[d][f] \in Nat /\ heads[d][f] \in 0..Len(cloud)
                             /\ heads[d][f] # 0 => heads[d][f] \in Seqs
                                                   /\ cloud[heads[d][f]].version \in Versions
                                                   /\ FileAt(heads[d][f]) = f
         /\ \A f \in Files : current[d][f] # 0 => current[d][f] \in has[d]
                               /\ FileOf(current[d][f]) = f /\ current[d][f] \in Versions
         /\ \A v \in has[d] : v \in Versions /\ v # 0 /\ v \in Nat /\ FileOf(v) \in Files
         /\ \A n \in Seqs : /\ cloud[n].version \in Versions /\ n \in Nat /\ n # 0
                            /\ FileAt(n) \in Files /\ FileAt(n) = FileOf(cloud[n].version)
  <1>1. HeadsCover(d) /\ RowsAreHeld(d) /\ ChainIsHashed /\ TypeOK
    BY DEF IInv, DeviceInv
  <1>2. \A n \in Seqs : cloud[n].version \in Versions /\ n \in Nat /\ n # 0
    BY <1>1, Types DEF ChainIsHashed, Seqs
  <1>3. \A v \in Versions : v # 0 /\ v \in Nat /\ FileOf(v) \in Files
    BY <1>1, Types DEF Versions
  <1>4. /\ has[d] \subseteq Versions
        /\ \A f \in Files : heads[d][f] \in Nat /\ heads[d][f] <= Len(cloud)
    BY <1>1, DeviceTypes
  <1>5. Len(cloud) \in Nat
    BY <1>1, Types
  <1>6. QED
    BY <1>1, <1>2, <1>3, <1>4, <1>5 DEF HeadsCover, RowsAreHeld, FileAt

\* A version a row shows is here, and of its file.
LEMMA ShownIsHeld ==
  ASSUME IInv, NEW d \in Devices, NEW f \in Files, NEW c, Shown(d, f, c)
  PROVE  c \in has[d] /\ FileOf(c) = f /\ c # 0 /\ current[d][f] # 0
  <1>1. CASE c = current[d][f]
    BY <1>1, HeadsAreSeqs DEF Shown
  <1>2. CASE Deletes(d, current[d][f], c)
    <2>1. PICK t \in Versions : t = current[d][f] /\ FileOf(t) = f
      BY <1>2, HeadsAreSeqs DEF Deletes
    <2>2. ver[t].parent = c /\ ver[t].device = d /\ c # 0
      BY <1>2, <2>1 DEF Deletes
    <2>3. ParentIsHeld(t)
      BY <2>1 DEF IInv
    <2>4. QED
      BY <1>2, <2>1, <2>2, <2>3 DEF ParentIsHeld, Deletes
  <1>3. QED
    BY <1>1, <1>2 DEF Shown

\* What is said of a version already written goes on being so.
LEMMA PastIsRead ==
  ASSUME IInv, IInv', Grows, NEW d \in Devices
  PROVE  /\ \A v \in Versions : v \in Versions' /\ ver'[v] = ver[v] /\ FileOf(v)' = FileOf(v)
         /\ \A n \in Seqs : n \in Seqs' /\ FileAt(n)' = FileAt(n) /\ cloud'[n] = cloud[n]
         /\ \A v \in Versions \cup {0} : \A c : Deletes(d, v, c)' <=> Deletes(d, v, c)
         /\ \A v \in Versions : Relanded(d, v) => Relanded(d, v)'
  <1>1. /\ \A v \in Versions : v \in Versions' /\ ver'[v] = ver[v] /\ FileOf(v)' = FileOf(v)
        /\ \A n \in Seqs : n \in Seqs' /\ FileAt(n)' = FileAt(n) /\ cloud'[n] = cloud[n]
    BY PastIsKept DEF IInv, Grows, Extends
  <1>2. \A v \in Versions \cup {0} : \A c : Deletes(d, v, c)' <=> Deletes(d, v, c)
    BY <1>1 DEF Deletes
  <1>3. \A v \in Versions : Relanded(d, v) => Relanded(d, v)'
    BY <1>1 DEF Relanded, Grows
  <1>4. QED
    BY <1>1, <1>2, <1>3

\* A row that stays shows what it has shown.
LEMMA ShownStays ==
  ASSUME IInv, IInv', Grows, NEW d \in Devices, NEW f \in Files,
         current'[d][f] = current[d][f]
  PROVE  \A c : Shown(d, f, c)' <=> Shown(d, f, c)
  <1>1. current[d][f] \in Versions \cup {0}
    BY HeadsAreSeqs
  <1>2. \A c : Deletes(d, current[d][f], c)' <=> Deletes(d, current[d][f], c)
    BY <1>1, PastIsRead DEF Deletes
  <1>3. QED
    BY <1>2 DEF Shown

\* The head stays; no version but of other files is new here or newly known.
LEMMA HeadPartStays ==
  ASSUME IInv, IInv', Grows, NEW d \in Devices, NEW f \in Files, HeadPart(d, f),
         current'[d][f] = current[d][f], heads'[d][f] = heads[d][f],
         \A v \in has'[d] : FileOf(v)' = f => v \in has[d],
         \A c \in known'[d] : Shown(d, f, c) => c \in known[d]
  PROVE  HeadPart(d, f)'
  <1>1. PICK h, w : h = heads[d][f] /\ w = cloud[h].version
    OBVIOUS
  <1>2. /\ heads'[d][f] = h
        /\ h # 0 => w \in Versions /\ cloud'[h].version = w
        /\ \A v \in has[d] : v \in Versions /\ FileOf(v)' = FileOf(v)
        /\ known[d] \subseteq has[d]
    BY <1>1, PastIsRead, HeadsAreSeqs DEF IInv, DeviceInv, KnownCovers
  <1>3. /\ current[d][f] = 0 => \A v \in has[d] : FileOf(v) # f
        /\ current[d][f] = 0 /\ h # 0 => ver[w].deleted
        /\ \A c \in known[d] : Shown(d, f, c) =>
             (h # 0 /\ (w = c \/ Deletes(d, w, c))) \/ Relanded(d, c)
    BY <1>1 DEF HeadPart
  <1>4. current[d][f] = 0 => \A v \in has'[d] : FileOf(v)' # f
    BY <1>2, <1>3
  <1>5. current[d][f] = 0 /\ h # 0 => ver'[w].deleted
    BY <1>2, <1>3, PastIsRead
  <1>6. ASSUME NEW c \in known'[d], Shown(d, f, c)'
        PROVE  (h # 0 /\ (w = c \/ Deletes(d, w, c)')) \/ Relanded(d, c)'
    <2>1. Shown(d, f, c) /\ c \in known[d] /\ c \in Versions
      BY <1>2, <1>6, ShownStays
    <2>2. QED
      BY <1>2, <1>3, <2>1, PastIsRead
  <1>7. QED
    BY <1>2, <1>4, <1>5, <1>6 DEF HeadPart, Deletes

\* The row stays; none of the versions it shows has become known.
LEMMA PendingPartStays ==
  ASSUME IInv, IInv', Grows, NEW d \in Devices, NEW v \in has[d], PendingPart(d, v),
         current'[d][FileOf(v)] = current[d][FileOf(v)],
         has[d] \subseteq has'[d], known'[d] = known[d]
  PROVE  PendingPart(d, v)'
  <1>1. v \in Versions /\ FileOf(v)' = FileOf(v) /\ FileOf(v) \in Files
    BY PastIsRead, HeadsAreSeqs
  <1>2. current[d][FileOf(v)] # 0
    BY DEF PendingPart
  <1>3. ASSUME NEW c, Shown(d, FileOf(v), c)'
        PROVE  c \in {v} \cup (has'[d] \ known'[d]) \/ Deletes(d, v, c)'
    <2>1. current'[d][FileOf(v)] = current[d][FileOf(v)] /\ Shown(d, FileOf(v), c)
      BY <1>1, <1>3, ShownStays DEF Shown
    <2>2. c \in Versions
      BY <1>1, <2>1, ShownIsHeld, HeadsAreSeqs
    <2>3. c \in {v} \cup (has[d] \ known[d]) \/ Deletes(d, v, c)
      BY <2>1, <2>2 DEF PendingPart
    <2>4. Deletes(d, v, c) => Deletes(d, v, c)'
      BY <1>1, PastIsRead
    <2>5. QED
      BY <2>3, <2>4
  <1>4. QED
    BY <1>1, <1>2, <1>3 DEF PendingPart

\* A quiet step: of another device, or one that moves only the work of this one.
LEMMA QuietKeeps ==
  ASSUME IInv, IInv', Grows, NEW d \in Devices, RestInv(d), Quiet(d)
  PROVE  RestInv(d)'
  <1>1. /\ \A v \in Versions : v \in Versions' /\ ver'[v] = ver[v] /\ FileOf(v)' = FileOf(v)
        /\ \A n \in Seqs : n \in Seqs' /\ FileAt(n)' = FileAt(n) /\ cloud'[n] = cloud[n]
    BY PastIsRead
  <1>2. \A v \in has[d] : v \in Versions
    BY HeadsAreSeqs
  <1>3. ASSUME NEW n \in Seqs', n \notin Seqs
        PROVE  cloud'[n].version \notin has[d]
    <2>1. SUFFICES ASSUME cloud'[n].version \in has[d] PROVE FALSE
      OBVIOUS
    <2> DEFINE v == cloud'[n].version
    <2>2. v \in Versions /\ ver[v].device # d
      BY <1>1, <1>2, <1>3, <2>1 DEF Quiet
    <2>3. InCloud(v)
      BY <2>1, <2>2 DEF IInv, DeviceInv, KnownCovers
    <2>4. PICK m \in Seqs : cloud[m].version = v
      BY <2>3 DEF InCloud
    <2>5. m \in Seqs' /\ cloud'[m].version = v
      BY <1>1, <2>4
    <2>6. QED
      BY <1>3, <2>4, <2>5 DEF IInv, CommittedOnce
  <1>4. KnownIsPassed(d)'
    <2>1. KnownIsPassed(d) /\ lastSeq[d] \in Nat /\ lastSeq'[d] \in Nat /\ lastSeq[d] <= lastSeq'[d]
      BY DeviceTypes DEF RestInv, IInv, Quiet, TypeOK, Seqs
    <2>2. ASSUME NEW n \in Seqs'
          PROVE  LET v == cloud'[n].version
                 IN  /\ v \in has[d] => (v \in known[d] <=> n <= heads[d][FileAt(n)'])
                     /\ n <= heads[d][FileAt(n)'] => v \in known[d] \/ ver'[v].deleted
                     /\ ver'[v].device = d => n <= lastSeq'[d] + 1
      <3>1. CASE n \in Seqs
        <4>1. /\ cloud'[n] = cloud[n] /\ FileAt(n)' = FileAt(n) /\ n \in Nat
              /\ ver'[cloud[n].version] = ver[cloud[n].version]
          BY <1>1, <3>1, HeadsAreSeqs
        <4>2. LET v == cloud[n].version
              IN  /\ v \in has[d] => (v \in known[d] <=> n <= heads[d][FileAt(n)])
                  /\ n <= heads[d][FileAt(n)] => v \in known[d] \/ ver[v].deleted
                  /\ ver[v].device = d => n <= lastSeq[d] + 1
          BY <2>1, <3>1 DEF KnownIsPassed
        <4>3. QED
          BY <2>1, <4>1, <4>2
      <3>2. CASE n \notin Seqs
        <4>1. cloud'[n].version \notin has[d] /\ ver'[cloud'[n].version].device # d
          BY <1>3, <2>2, <3>2 DEF Quiet
        <4>2. ~(n <= heads[d][FileAt(n)'])
          <5>1. n \in Nat /\ n > Len(cloud) /\ Len(cloud) \in Nat
            BY <2>2, <3>2, Types DEF Seqs, IInv
          <5>2. FileAt(n)' \in Files
            <6>1. cloud'[n].version \in 1..Len(ver') /\ ver' \in Seq(FileVersion)
              BY <2>2 DEF IInv, ChainIsHashed, TypeOK, Versions
            <6>2. ver'[cloud'[n].version] \in FileVersion
              BY <6>1
            <6>3. QED
              BY <6>2 DEF FileAt, FileOf, FileVersion
          <5>3. heads[d][FileAt(n)'] \in Nat /\ heads[d][FileAt(n)'] <= Len(cloud)
            BY <5>2, DeviceTypes DEF IInv
          <5>4. QED
            BY <5>1, <5>3
        <4>3. QED
          BY <4>1, <4>2
      <3>3. QED
        BY <3>1, <3>2
    <2>3. \A v \in has[d] : ver'[v].device # d => v \in known[d]
      BY <1>1, <1>2, <2>1 DEF KnownIsPassed
    <2>4. faults' = 0 => \A f \in Files : heads[d][f] <= Passed(d)'
      <3>1. SUFFICES ASSUME faults' = 0, NEW f \in Files
                     PROVE  heads[d][f] <= Passed(d)'
        OBVIOUS
      <3>2. heads[d][f] <= Passed(d) /\ Passed(d) <= Passed(d)'
        BY <2>1, <3>1 DEF KnownIsPassed, Grows, Quiet
      <3>3. heads[d][f] \in Nat /\ Passed(d) \in Nat /\ Passed(d)' \in Nat
        <4>1. step'[d] \in Work' /\ lastSeq'[d] \in 0..Len(cloud')
          BY DEF IInv, TypeOK
        <4>2. step'[d].pos \in Nat /\ lastSeq'[d] \in Nat
          BY <4>1 DEF Work
        <4>3. QED
          BY <4>2, PassedIsSeq, DeviceTypes DEF IInv, Passed
      <3>4. QED
        BY <3>2, <3>3
    <2>5. QED
      BY <2>2, <2>3, <2>4 DEF KnownIsPassed, Quiet
  <1>5. CurrentIsHead(d)'
    <2>1. \A f \in Files : HeadPart(d, f)
      BY Parts DEF RestInv
    <2>2. \A f \in Files : HeadPart(d, f)'
      BY <2>1, HeadPartStays DEF Quiet
    <2>3. QED
      BY <2>2 DEF CurrentIsHead, HeadPart
  <1>6. PendingIsCurrent(d)'
    <2>1. ASSUME NEW v \in has[d] \ known[d], v = session'[d].version \/ InCloud(v)'
          PROVE  PendingPart(d, v)'
      <3>1. v \in Versions /\ v # 0 /\ FileOf(v) \in Files
        BY HeadsAreSeqs
      <3>2. InCloud(v)' => InCloud(v)
        BY <1>1, <1>3 DEF InCloud
      <3>3. v = session'[d].version => v = session[d].version
        BY <3>1 DEF Quiet, SessionGoesOn
      <3>4. PendingPart(d, v)
        BY <2>1, <3>2, <3>3, Parts DEF RestInv
      <3>5. QED
        BY <3>4, PendingPartStays DEF Quiet
    <2>2. QED
      BY <2>1 DEF Quiet, PendingIsCurrent, PendingPart
  <1>7. JournalIsHeld(d)'
    BY DEF RestInv, JournalIsHeld, Quiet, SessionGoesOn, RowVersion
  <1>8. SkipsCover(d)'
    <2>1. SUFFICES ASSUME NEW f \in Files, current[d][f] \in has[d] \ known[d],
                          current[d][f] \notin Skipped(d)'
                   PROVE  HasRow(d, current[d][f])'
      BY DEF SkipsCover, HasRow, Quiet, Skipped
    <2>2. HasRow(d, current[d][f])
      BY <2>1, Parts DEF RestInv, Quiet
    <2>3. PICK j \in DOMAIN journal[d] :
            RowVersion(d, j) = current[d][f] /\ j > cursor[d] /\ j >= session[d].seq
      BY <2>2 DEF HasRow
    <2>4. j \in Nat
      BY RowIsTyped DEF IInv
    <2>5. QED
      BY <2>3, <2>4 DEF HasRow, Quiet, SessionGoesOn, RowVersion
  <1>9. QED
    BY <1>4, <1>5, <1>6, <1>7, <1>8 DEF RestInv

-----------------------------------------------------------------------------
(* The steps that take over a commit: KnownVersion, Land, FinishCommit.     *)

\* A version of this device that the cloud has and the device does not know is the
\* commit after those it has passed.
LEMMA PendingIsNext ==
  ASSUME IInv, NEW d \in Devices, RestInv(d), NEW m \in Seqs,
         cloud[m].version \in has[d] \ known[d]
  PROVE  m = Passed(d) + 1
  <1>1. m <= lastSeq[d] + 1
    BY DEF RestInv, KnownIsPassed
  <1>2. ~(m \in 1..Passed(d))
    BY DEF IInv, DeviceInv, KnownCovers
  <1>3. m \in Nat /\ m # 0 /\ lastSeq[d] \in Nat /\ Passed(d) \in Nat /\ lastSeq[d] <= Passed(d)
    BY HeadsAreSeqs, PassedIsSeq, DeviceTypes DEF IInv
  <1>4. QED
    BY <1>1, <1>2, <1>3

\* The commit after those passed becomes known, or was the deletion of a file not here.
LEMMA TakesOver ==
  ASSUME IInv, IInv', NEW d \in Devices, RestInv(d), UNCHANGED <<ver, cloud>>,
         NEW n \in Seqs, n = Passed(d) + 1, Passed(d)' = n,
         \/ known'[d] = known[d] \cup {cloud[n].version} /\ has'[d] = has[d] \cup {cloud[n].version}
         \/ /\ known'[d] = known[d] /\ has'[d] = has[d] /\ cloud[n].version \notin has[d]
            /\ ver[cloud[n].version].deleted,
         \A f \in Files : f # FileAt(n) => heads'[d][f] = heads[d][f],
         heads[d][FileAt(n)] <= n => heads'[d][FileAt(n)] = n,
         ~(heads[d][FileAt(n)] <= n) => heads'[d][FileAt(n)] = heads[d][FileAt(n)],
         lastSeq[d] <= lastSeq'[d], session'[d].version = 0, faults' = faults
  PROVE  KnownIsPassed(d)' /\ PendingIsCurrent(d)'
  <1> DEFINE v == cloud[n].version
             F == FileAt(n)
  <1>1. /\ \A f \in Files : heads[d][f] \in Nat /\ heads'[d][f] \in Nat
        /\ n \in Nat /\ F \in Files /\ v \in Versions /\ lastSeq[d] \in Nat /\ lastSeq'[d] \in Nat
        /\ Passed(d) \in Nat
    <2>1. \A f \in Files : heads'[d][f] \in Nat
      BY HeadsAreSeqs
    <2>2. lastSeq'[d] \in Nat
      BY DEF IInv, TypeOK
    <2>3. QED
      BY <2>1, <2>2, HeadsAreSeqs, PassedIsSeq, DeviceTypes DEF IInv
  <1>2. Seqs' = Seqs /\ \A m : FileAt(m)' = FileAt(m)
    BY DEF Seqs, FileAt, FileOf
  <1>3. KnownIsPassed(d) /\ HeadsCover(d) /\ KnownCovers(d)
    BY DEF RestInv, IInv, DeviceInv
  <1>4. ASSUME NEW m \in Seqs
        PROVE  LET w == cloud[m].version
               IN  /\ w \in has'[d] => (w \in known'[d] <=> m <= heads'[d][FileAt(m)])
                   /\ m <= heads'[d][FileAt(m)] => w \in known'[d] \/ ver[w].deleted
                   /\ ver[w].device = d => m <= lastSeq'[d] + 1
    <2> DEFINE w == cloud[m].version
    <2>1. /\ w \in has[d] => (w \in known[d] <=> m <= heads[d][FileAt(m)])
          /\ m <= heads[d][FileAt(m)] => w \in known[d] \/ ver[w].deleted
          /\ ver[w].device = d => m <= lastSeq[d] + 1
      BY <1>3 DEF KnownIsPassed
    <2>2. m \in Nat /\ m # 0 /\ FileAt(m) \in Files
      BY HeadsAreSeqs
    <2>3. CASE m = n
      <3>1. n <= heads'[d][FileAt(n)]
        BY <1>1
      <3>2. QED
        BY <1>1, <2>1, <2>3, <3>1
    <2>4. CASE m # n
      <3>1. w # v
        BY <2>4 DEF IInv, CommittedOnce
      <3>2. (w \in known'[d] <=> w \in known[d]) /\ (w \in has'[d] <=> w \in has[d])
        BY <3>1
      <3>3. m <= Passed(d) => m <= heads[d][FileAt(m)]
        BY <1>1, <1>3, <2>2 DEF HeadsCover
      <3>4. m <= heads'[d][FileAt(m)] <=> m <= heads[d][FileAt(m)]
        BY <1>1, <2>2, <2>4, <3>3
      <3>5. QED
        BY <1>1, <2>1, <2>2, <3>2, <3>4
    <2>5. QED
      BY <2>3, <2>4
  <1>5. \A u \in has'[d] : ver[u].device # d => u \in known'[d]
    BY <1>3 DEF KnownIsPassed
  <1>6. faults' = 0 => \A f \in Files : heads'[d][f] <= Passed(d)'
    BY <1>1, <1>3 DEF KnownIsPassed
  <1>7. KnownIsPassed(d)'
    BY <1>2, <1>4, <1>5, <1>6 DEF KnownIsPassed
  <1>8. ASSUME NEW u \in has'[d] \ known'[d], u = session'[d].version \/ InCloud(u)'
        PROVE  FALSE
    <2>1. u \in has[d] \ known[d] /\ u # v
      BY <1>8
    <2>2. PICK m \in Seqs : cloud[m].version = u
      BY <1>2, <1>8, <2>1, HeadsAreSeqs DEF InCloud
    <2>3. m = n
      BY <2>1, <2>2, PendingIsNext
    <2>4. QED
      BY <2>1, <2>2, <2>3
  <1>9. PendingIsCurrent(d)'
    BY <1>8 DEF PendingIsCurrent
  <1>10. QED
    BY <1>7, <1>9

\* The head of the file becomes v, which a row of it shows, or a version of d its deletion
\* would undo.
LEMMA HeadPartMoves ==
  ASSUME IInv, NEW d \in Devices, NEW v, NEW n \in Nat, NEW f \in Files, UNCHANGED <<ver, cloud>>,
         n # 0, cloud[n].version = v, heads'[d][f] = n, current'[d][f] # 0,
         \A c \in known'[d] : Shown(d, f, c)' => c = v \/ Deletes(d, v, c)
  PROVE  HeadPart(d, f)'
  BY DEF HeadPart, Deletes

\* Once the cloud has v, every version a row shows but v is unknown or deleted by v.
LEMMA PendingIsShown ==
  ASSUME IInv, NEW d \in Devices, RestInv(d), NEW v \in has[d] \ known[d],
         v = session[d].version \/ InCloud(v)
  PROVE  /\ current[d][FileOf(v)] # 0
         /\ \A c \in known[d] : Shown(d, FileOf(v), c) => Deletes(d, v, c)
  <1>1. PendingPart(d, v)
    BY Parts DEF RestInv
  <1>2. \A c \in known[d] : c \in Versions
    BY DeviceTypes DEF IInv
  <1>3. \A c \in known[d] : Shown(d, FileOf(v), c) => Deletes(d, v, c)
    BY <1>1, <1>2 DEF PendingPart
  <1>4. QED
    BY <1>1, <1>3 DEF PendingPart

LEMMA GrowsAlone ==
  ASSUME IInv, UNCHANGED <<ver, cloud, faults>>, raced \subseteq raced',
         relanded \subseteq relanded'
  PROVE  Grows
  BY Types DEF IInv, Grows, Extends

LEMMA KnownVersionRests ==
  ASSUME IInv, IInv', NEW d \in Devices, RestInv(d), KnownVersion(d)
  PROVE  RestInv(d)'
  <1> DEFINE n == step[d].pos + 1
             v == Incoming(d)
  <1>1. /\ Applying(d) /\ v \in has[d] /\ known' = [known EXCEPT ![d] = @ \cup {v}]
        /\ Upsert(d, n) /\ Applied(d)
        /\ UNCHANGED <<ver, cloud, current, has, journal, lastSeq, cursor, skips, session, op,
                       fresh, faults, history>>
    BY DEF KnownVersion, Applying
  <1>2. /\ n \in Seqs /\ v \in Versions /\ InCloud(v) /\ n \in Nat /\ cloud[n].version = v
        /\ FileAt(n) = FileOf(v) /\ Pulling(d) /\ Passed(d) = step[d].pos /\ n # 0
    BY <1>1, IncomingIsVersion, HeadsAreSeqs DEF Incoming, Passed
  <1>3. known'[d] = known[d] \cup {v}
    BY <1>1 DEF IInv, TypeOK
  <1>4. Passed(d)' = n /\ session[d].version = 0
    BY <1>1, AppliedMoves
  <1>5. /\ \A f \in Files : f # FileAt(n) => heads'[d][f] = heads[d][f]
        /\ heads[d][FileAt(n)] <= n => heads'[d][FileAt(n)] = n
        /\ ~(heads[d][FileAt(n)] <= n) => heads'[d][FileAt(n)] = heads[d][FileAt(n)]
    BY <1>1, <1>2, UpsertRaises
  <1>6. lastSeq[d] <= lastSeq'[d]
    BY <1>1, DeviceTypes DEF IInv
  <1> HIDE DEF n, v
  <1>7. KnownIsPassed(d)' /\ PendingIsCurrent(d)'
    <2>1. n = Passed(d) + 1
      BY <1>2 DEF n
    <2>2. QED
      BY <1>1, <1>2, <1>3, <1>4, <1>5, <1>6, <2>1, TakesOver
  <1>8. ASSUME NEW f \in Files
        PROVE  HeadPart(d, f)'
    <2>1. HeadPart(d, f) /\ Grows
      BY <1>1, Parts, GrowsAlone DEF RestInv, history
    <2>2. CASE f # FileOf(v) \/ v \in known[d]
      <3>1. heads'[d][f] = heads[d][f]
        <4>1. CASE f # FileOf(v)
          BY <1>2, <1>5, <4>1
        <4>2. CASE f = FileOf(v) /\ v \in known[d]
          <5>1. n <= heads[d][f] /\ heads[d][f] \in Nat
            BY <1>1, <1>2, <4>2, HeadsAreSeqs DEF RestInv, KnownIsPassed
          <5>2. QED
            BY <1>2, <1>5, <4>2, <5>1
        <4>3. QED
          BY <2>2, <4>1, <4>2
      <3>2. \A u \in has[d] : FileOf(u)' = f => u \in has[d]
        OBVIOUS
      <3>3. \A c \in known'[d] : Shown(d, f, c) => c \in known[d]
        BY <1>3, <2>2, ShownIsHeld
      <3>4. QED
        BY <1>1, <2>1, <3>1, <3>2, <3>3, HeadPartStays
    <2>3. CASE f = FileOf(v) /\ v \notin known[d]
      <3>1. current[d][f] # 0 /\ \A c \in known[d] : Shown(d, f, c) => Deletes(d, v, c)
        BY <1>1, <1>2, <2>3, PendingIsShown
      <3>2. heads'[d][f] = n
        <4>1. ~(n <= heads[d][f]) /\ heads[d][f] \in Nat
          BY <1>1, <1>2, <2>3, HeadsAreSeqs DEF RestInv, KnownIsPassed
        <4>2. QED
          BY <1>2, <1>5, <2>3, <4>1
      <3>3. \A c : Shown(d, f, c)' <=> Shown(d, f, c)
        BY <1>1, <2>1, ShownStays
      <3>4. QED
        BY <1>1, <1>2, <1>3, <3>1, <3>2, <3>3, HeadPartMoves
    <2>4. QED
      BY <2>2, <2>3
  <1>9. CurrentIsHead(d)'
    BY <1>8 DEF CurrentIsHead, HeadPart
  <1>10. JournalIsHeld(d)' /\ SkipsCover(d)'
    BY <1>1, <1>3 DEF RestInv, JournalIsHeld, SkipsCover, RowVersion, history
  <1>11. QED
    BY <1>7, <1>9, <1>10 DEF RestInv

LEMMA LandRests ==
  ASSUME IInv, IInv', NEW d \in Devices, RestInv(d), Land(d)
  PROVE  RestInv(d)'
  <1> DEFINE n == step[d].pos + 1
             v == Incoming(d)
             F == FileOf(v)
             old == current[d][F]
             lag == old # 0 /\ heads[d][F] > n
  <1>1. /\ step[d].pc = "land" /\ Applying(d) /\ Upsert(d, n) /\ Applied(d)
        /\ relanded' = IF lag THEN relanded \cup {<<d, v>>} ELSE relanded
        /\ UNCHANGED <<ver, cloud, journal, lastSeq, cursor, skips, session, op, fresh, faults,
                       undone>>
        /\ raced \subseteq raced'
        /\ \/ ver[v].deleted /\ old = 0 /\ UNCHANGED disk
           \/ /\ ~(ver[v].deleted /\ old = 0) /\ Put(F, v, d)
              /\ has' = [has EXCEPT ![d] = @ \cup {v}] /\ known' = [known EXCEPT ![d] = @ \cup {v}]
    BY DEF Land, Applying, disk
  <1>2. /\ n \in Seqs /\ v \in Versions /\ InCloud(v) /\ n \in Nat /\ cloud[n].version = v
        /\ FileAt(n) = F /\ Pulling(d) /\ Passed(d) = step[d].pos /\ F \in Files /\ v # 0
    <2>1. /\ n \in Seqs /\ v \in Versions /\ InCloud(v) /\ cloud[n].version = v
          /\ FileAt(n) = F /\ Pulling(d)
      BY <1>1, IncomingIsVersion DEF Incoming
    <2> HIDE DEF n, v
    <2>2. /\ FileOf(v) \in Files /\ Len(ver) \in Nat /\ Len(cloud) \in Nat
      BY <2>1, Types DEF IInv
    <2>3. n \in Nat /\ v # 0
      BY <2>1, <2>2 DEF Seqs, Versions
    <2>4. Passed(d) = step[d].pos
      BY <2>1 DEF Passed
    <2>5. QED
      BY <2>1, <2>2, <2>3, <2>4
  <1>3. v \notin has[d]
    BY <1>1 DEF IInv, DeviceInv, LandIsSafe
  <1>4. Passed(d)' = n /\ session[d].version = 0
    BY <1>1, AppliedMoves
  <1>5. /\ \A f \in Files : f # FileAt(n) => heads'[d][f] = heads[d][f]
        /\ heads[d][FileAt(n)] <= n => heads'[d][FileAt(n)] = n
        /\ ~(heads[d][FileAt(n)] <= n) => heads'[d][FileAt(n)] = heads[d][FileAt(n)]
    BY <1>1, <1>2, UpsertRaises
  <1>6. lastSeq[d] <= lastSeq'[d] /\ n = Passed(d) + 1
    BY <1>1, <1>2, DeviceTypes DEF IInv
  <1> HIDE DEF n, v, F, old, lag
  <1>7. /\ \A g \in Files : g # F => current'[d][g] = current[d][g]
        /\ \/ /\ known'[d] = known[d] /\ has'[d] = has[d] /\ current'[d] = current[d]
              /\ ver[v].deleted /\ old = 0
           \/ /\ known'[d] = known[d] \cup {v} /\ has'[d] = has[d] \cup {v}
              /\ current'[d][F] = v /\ ~(ver[v].deleted /\ old = 0)
    <2>1. CASE UNCHANGED disk /\ ver[v].deleted /\ old = 0
      BY <2>1 DEF disk
    <2>2. CASE /\ ~(ver[v].deleted /\ old = 0) /\ Put(F, v, d)
               /\ has' = [has EXCEPT ![d] = @ \cup {v}] /\ known' = [known EXCEPT ![d] = @ \cup {v}]
      BY <1>2, <2>2 DEF Put, IInv, TypeOK
    <2>3. QED
      BY <1>1, <2>1, <2>2
  <1>8. KnownIsPassed(d)' /\ PendingIsCurrent(d)'
    BY <1>1, <1>2, <1>3, <1>4, <1>5, <1>6, <1>7, TakesOver
  <1>9. ASSUME NEW f \in Files
        PROVE  HeadPart(d, f)'
    <2>1. HeadPart(d, f) /\ Grows
      <3>1. relanded \subseteq relanded'
        BY <1>1
      <3>2. QED
        BY <1>1, <3>1, Parts, GrowsAlone DEF RestInv
    <2>2. ver[v].device # d /\ heads[d][f] \in Nat
      BY <1>2, <1>3, HeadsAreSeqs DEF IInv, ChainIsHashed
    <2>3. CASE f # F
      <3>1. heads'[d][f] = heads[d][f] /\ current'[d][f] = current[d][f]
        BY <1>2, <1>5, <1>7, <2>3
      <3>2. \A u \in has'[d] : FileOf(u)' = f => u \in has[d]
        BY <1>1, <1>7, <2>3 DEF F, FileOf
      <3>3. \A c \in known'[d] : Shown(d, f, c) => c \in known[d]
        BY <1>3, <1>7, ShownIsHeld
      <3>4. QED
        BY <2>1, <3>1, <3>2, <3>3, HeadPartStays
    <2>4. CASE f = F /\ current'[d] = current[d] /\ old = 0 /\ ver[v].deleted /\ has'[d] = has[d]
      <3>1. /\ current[d][f] = 0 /\ \A u \in has[d] : FileOf(u) # f
            /\ heads[d][f] # 0 => ver[cloud[heads[d][f]].version].deleted
        BY <2>1, <2>4 DEF HeadPart, old
      <3>2. heads'[d][f] \in {n, heads[d][f]}
        BY <1>2, <1>5, <2>4
      <3>3. \A c : ~Shown(d, f, c)'
        BY <2>4, <3>1 DEF Shown, Deletes
      <3>4. QED
        BY <1>1, <1>2, <2>4, <3>1, <3>2, <3>3 DEF HeadPart, FileOf
    <2>5. CASE f = F /\ current'[d][F] = v
      <3>1. \A c : Shown(d, f, c)' => c = v
        BY <1>1, <2>2, <2>5 DEF Shown, Deletes
      <3>2. CASE heads[d][f] <= n
        <4>1. heads'[d][f] = n /\ n # 0
          BY <1>2, <1>5, <2>5, <3>2, HeadsAreSeqs
        <4>2. QED
          BY <1>1, <1>2, <2>5, <3>1, <4>1, HeadPartMoves
      <3>3. CASE ~(heads[d][f] <= n) /\ ~(ver[v].deleted /\ old = 0)
        <4>1. n <= heads[d][f] /\ Passed(d) < heads[d][f] /\ heads[d][f] > n
          BY <1>2, <1>6, <2>2, <3>3, PassedIsSeq
        <4>2. ver[v].deleted
          <5>1. known[d] \subseteq has[d]
            BY DEF IInv, DeviceInv, KnownCovers
          <5>2. QED
            BY <1>2, <1>3, <2>5, <4>1, <5>1 DEF RestInv, KnownIsPassed
        <4>3. faults # 0
          <5>1. Passed(d) \in Nat
            BY PassedIsSeq
          <5>2. ~(heads[d][f] <= Passed(d))
            BY <2>2, <4>1, <5>1
          <5>3. QED
            BY <5>2 DEF RestInv, KnownIsPassed
        <4>4. lag
          BY <2>5, <3>3, <4>1, <4>2 DEF lag
        <4>5. <<d, v>> \in relanded' /\ ver'[v].deleted /\ faults' # 0
          BY <1>1, <4>2, <4>3, <4>4
        <4>6. current'[d][f] # 0
          BY <1>2, <2>5
        <4>7. QED
          BY <3>1, <4>5, <4>6 DEF HeadPart, Relanded
      <3>4. QED
        BY <1>7, <2>5, <3>2, <3>3, <2>4
    <2>6. QED
      BY <1>7, <2>3, <2>4, <2>5
  <1>10. CurrentIsHead(d)'
    BY <1>9 DEF CurrentIsHead, HeadPart
  <1>11. SkipsCover(d)'
    <2>1. ASSUME NEW f \in Files, current'[d][f] \in has'[d] \ known'[d]
          PROVE  current'[d][f] = current[d][f] /\ current[d][f] \in has[d] \ known[d]
      BY <1>7, <2>1
    <2>2. QED
      BY <1>1, <2>1 DEF RestInv, SkipsCover, RowVersion
  <1>12. JournalIsHeld(d)'
    BY <1>1 DEF RestInv, JournalIsHeld, RowVersion
  <1>13. QED
    BY <1>8, <1>10, <1>11, <1>12 DEF RestInv

LEMMA FinishCommitRests ==
  ASSUME IInv, IInv', NEW d \in Devices, RestInv(d), FinishCommit(d)
  PROVE  RestInv(d)'
  <1> DEFINE n == op[d].base + 1
             v == session[d].version
             q == session[d].seq
             F == FileOf(v)
  <1>1. /\ step[d].pc = "answer" /\ v # 0
        /\ known' = [known EXCEPT ![d] = @ \cup {v}]
        /\ heads' = [heads EXCEPT ![d][F] = IF @ <= n THEN n ELSE @]
        /\ cursor' = [cursor EXCEPT ![d] = IF @ <= q THEN q ELSE @]
        /\ lastSeq' = [lastSeq EXCEPT ![d] = n]
        /\ session' = [session EXCEPT ![d] = NoSession]
        /\ Goto(d, "complete")
        /\ UNCHANGED <<ver, cloud, current, has, journal, skips, op, fresh, faults, history>>
    BY DEF FinishCommit
  <1>2. op[d].kind = "commit" /\ Landed(op[d]) /\ OpIsShaped(d)
    BY <1>1 DEF IInv, DeviceInv, StepIsShaped
  <1>3. op[d].base = lastSeq[d] /\ op[d].version = v
    BY <1>1, <1>2 DEF OpIsShaped, CommitOf
  <1>4. v \in has[d] \ known[d]
    BY <1>1 DEF IInv, DeviceInv, KnownCovers
  <1>5. /\ n \in Seqs /\ cloud[n].version = v /\ n \in Nat /\ v \in Versions /\ v \in Nat
        /\ FileAt(n) = F /\ F \in Files
    BY <1>2, <1>3, <1>4, HeadsAreSeqs, DeviceTypes, Types DEF Landed, IInv, Seqs
  <1>6. Passed(d) = lastSeq[d] /\ Claims(d)
    BY <1>1, <1>2 DEF Passed, Pulling, Claims
  <1>7. /\ n = Passed(d) + 1 /\ \A f \in Files : heads[d][f] \in Nat /\ heads[d][f] <= n
    BY <1>3, <1>6, HeadsAreSeqs, DeviceTypes DEF IInv, DeviceInv, HeadsCover
  <1>8. /\ known'[d] = known[d] \cup {v} /\ cursor'[d] = (IF cursor[d] <= q THEN q ELSE cursor[d])
        /\ lastSeq'[d] = n /\ session'[d].version = 0 /\ session'[d].seq = 0
        /\ step'[d].pc = "complete"
        /\ \A f \in Files : heads'[d][f] = IF f = F THEN n ELSE heads[d][f]
    <2>1. /\ known'[d] = known[d] \cup {v} /\ cursor'[d] = (IF cursor[d] <= q THEN q ELSE cursor[d])
          /\ lastSeq'[d] = n /\ session'[d].version = 0 /\ session'[d].seq = 0
      <3>1. /\ DOMAIN known = Devices /\ DOMAIN cursor = Devices
            /\ DOMAIN lastSeq = Devices /\ DOMAIN session = Devices
        BY DEF IInv, TypeOK
      <3>2. NoSession.version = 0 /\ NoSession.seq = 0
        BY DEF NoSession
      <3>3. QED
        BY <1>1, <3>1, <3>2
    <2>2. step'[d].pc = "complete"
      BY <1>1, Goes DEF IInv, Pcs
    <2>3. \A f \in Files : heads'[d][f] = IF f = F THEN n ELSE heads[d][f]
      BY <1>1, <1>5, <1>7 DEF IInv, TypeOK
    <2>4. QED
      BY <2>1, <2>2, <2>3
  <1> HIDE DEF n, v, q, F
  <1>9. Passed(d)' = n /\ lastSeq[d] <= lastSeq'[d]
    <2>1. Passed(d)' = n
      BY <1>8 DEF Passed, Pulling
    <2>2. QED
      BY <1>6, <1>7, <1>8, <2>1, PassedIsSeq
  <1>10. KnownIsPassed(d)' /\ PendingIsCurrent(d)'
    BY <1>1, <1>4, <1>5, <1>7, <1>8, <1>9, TakesOver
  <1>11. ASSUME NEW f \in Files
         PROVE  HeadPart(d, f)'
    <2>1. HeadPart(d, f) /\ Grows
      BY <1>1, Parts, GrowsAlone DEF RestInv, history
    <2>2. \A c : Shown(d, f, c)' <=> Shown(d, f, c)
      BY <1>1, <2>1, ShownStays
    <2>3. CASE f # F
      <3>1. heads'[d][f] = heads[d][f]
        BY <1>8, <2>3
      <3>2. \A c \in known'[d] : Shown(d, f, c) => c \in known[d]
        BY <1>8, <2>3, ShownIsHeld DEF F
      <3>3. QED
        BY <1>1, <2>1, <3>1, <3>2, HeadPartStays
    <2>4. CASE f = F
      <3>1. current[d][f] # 0 /\ \A c \in known[d] : Shown(d, f, c) => Deletes(d, v, c)
        BY <1>4, <2>4, PendingIsShown DEF F, v
      <3>2. heads'[d][f] = n /\ n # 0
        BY <1>5, <1>8, <2>4, HeadsAreSeqs
      <3>3. QED
        BY <1>1, <1>5, <1>8, <2>2, <3>1, <3>2, HeadPartMoves
    <2>5. QED
      BY <2>3, <2>4
  <1>12. CurrentIsHead(d)'
    BY <1>11 DEF CurrentIsHead, HeadPart
  <1>13. /\ q \in DOMAIN journal[d] /\ RowVersion(d, q) = v /\ cursor[d] <= Len(journal[d])
         /\ DOMAIN journal[d] = 1..Len(journal[d]) /\ Len(journal[d]) \in Nat /\ cursor[d] \in Nat
    BY <1>1, RowIsTyped DEF RestInv, JournalIsHeld, q, v, IInv, TypeOK
  <1>14. JournalIsHeld(d)'
    <2>1. cursor'[d] <= Len(journal[d])
      BY <1>8, <1>13
    <2>2. QED
      BY <1>1, <1>8, <2>1 DEF JournalIsHeld
  <1>15. SkipsCover(d)'
    <2>1. SUFFICES ASSUME NEW f \in Files, current[d][f] \in has[d] \ known'[d],
                          current[d][f] \notin Skipped(d)
                   PROVE  HasRow(d, current[d][f])'
      BY <1>1, <1>8 DEF SkipsCover, HasRow, Skipped
    <2>2. current[d][f] # v /\ HasRow(d, current[d][f])
      BY <1>8, <2>1, Parts DEF RestInv
    <2>3. PICK j \in DOMAIN journal[d] :
            RowVersion(d, j) = current[d][f] /\ j > cursor[d] /\ j >= q
      BY <2>2 DEF HasRow, q
    <2>4. j \in Nat /\ j # q
      BY <1>13, <2>2, <2>3
    <2>5. j > cursor'[d] /\ j >= session'[d].seq
      BY <1>8, <1>13, <2>3, <2>4
    <2>6. QED
      BY <1>1, <2>3, <2>5 DEF HasRow, RowVersion
  <1>16. QED
    BY <1>10, <1>12, <1>14, <1>15 DEF RestInv

-----------------------------------------------------------------------------
(* The steps that write a row here, and its row in the journal: Edit,       *)
(* RestoreVersion, TrashFile, Fork; UndoTrash.                              *)

\* The rows there are keep their places before the new one, which is after the cursor and
\* the session.
LEMMA RowIsAppended ==
  ASSUME IInv, NEW d \in Devices, JournalIsHeld(d), NEW w, NEW sealable,
         journal'[d] = Append(journal[d], [version |-> w, sealable |-> sealable]),
         cursor'[d] = cursor[d], session'[d] = session[d]
  PROVE  /\ JournalIsHeld(d)' /\ HasRow(d, w)' /\ \A v : HasRow(d, v) => HasRow(d, v)'
  <1>1. /\ journal[d] \in Seq(Row) /\ Len(journal[d]) \in Nat
        /\ DOMAIN journal[d] = 1..Len(journal[d])
    BY RowIsTyped DEF IInv, TypeOK
  <1>2. PICK N \in Nat : N = Len(journal[d])
    BY <1>1
  <1>3. /\ DOMAIN journal'[d] = 1..(N + 1) /\ Len(journal'[d]) = N + 1
        /\ journal'[d][N + 1].version = w
        /\ \A j \in 1..N : journal'[d][j] = journal[d][j]
    BY <1>1, <1>2
  <1>4. /\ cursor[d] \in Nat /\ cursor[d] <= N
        /\ session[d].seq \in Nat /\ session[d].seq <= N
        /\ session[d].version # 0 =>
             session[d].seq \in 1..N /\ RowVersion(d, session[d].seq) = session[d].version
    BY <1>1, <1>2, DeviceTypes DEF JournalIsHeld, IInv, TypeOK
  <1>5. JournalIsHeld(d)'
    BY <1>3, <1>4 DEF JournalIsHeld, RowVersion
  <1>6. \A v : HasRow(d, v) => HasRow(d, v)'
    BY <1>1, <1>2, <1>3 DEF HasRow, RowVersion
  <1>7. HasRow(d, w)'
    BY <1>3, <1>4 DEF HasRow, RowVersion
  <1>8. QED
    BY <1>5, <1>6, <1>7

\* A row moves to a new version, with a row of it in the journal.
LEMMA NewCurrent ==
  ASSUME IInv, IInv', Grows, NEW d \in Devices, RestInv(d), cloud' = cloud,
         NEW f \in Files, NEW w \in Versions', w \notin has[d], ~InCloud(w), w # 0,
         FileOf(w)' = f, ver'[w].device = d,
         ver'[w].deleted => ver'[w].parent = current[d][f],
         current'[d][f] = w, \A g \in Files \ {f} : current'[d][g] = current[d][g],
         has'[d] = has[d] \cup {w}, NEW sealable,
         journal'[d] = Append(journal[d], [version |-> w, sealable |-> sealable]),
         known'[d] = known[d], heads'[d] = heads[d], lastSeq'[d] = lastSeq[d],
         cursor'[d] = cursor[d], session'[d] = session[d],
         Skipped(d)' = Skipped(d), faults' = faults, Passed(d)' = Passed(d)
  PROVE  RestInv(d)'
  <1>1. /\ \A v \in Versions : v \in Versions' /\ ver'[v] = ver[v] /\ FileOf(v)' = FileOf(v)
        /\ Seqs' = Seqs /\ \A n \in Seqs : FileAt(n)' = FileAt(n)
        /\ \A n \in Seqs : cloud[n].version # w /\ cloud[n].version \in Versions
    BY PastIsRead, HeadsAreSeqs DEF Seqs, InCloud
  <1>2. /\ \A v \in has[d] : v \in Versions
        /\ known[d] \subseteq has[d] /\ w \notin known[d]
        /\ session[d].version # 0 => session[d].version \in has[d] \ known[d]
    BY HeadsAreSeqs DEF IInv, DeviceInv, KnownCovers
  <1>3. KnownIsPassed(d)'
    BY <1>1, <1>2 DEF RestInv, KnownIsPassed
  <1>4. ASSUME NEW c, Shown(d, f, c)'
        PROVE  c = w \/ Shown(d, f, c)
    BY <1>4 DEF Shown, Deletes
  <1>5. ASSUME NEW g \in Files
        PROVE  HeadPart(d, g)'
    <2>1. HeadPart(d, g)
      BY Parts DEF RestInv
    <2>2. CASE g # f
      <3>1. current'[d][g] = current[d][g] /\ \A v \in has'[d] : FileOf(v)' = g => v \in has[d]
        BY <2>2
      <3>2. QED
        BY <2>1, <3>1, HeadPartStays
    <2>3. CASE g = f
      <3>1. PICK h, u : h = heads[d][f] /\ u = cloud[h].version
        OBVIOUS
      <3>2. h # 0 => u \in Versions
        BY <3>1, HeadsAreSeqs
      <3>3. ASSUME NEW c \in known'[d], Shown(d, f, c)'
            PROVE  (h # 0 /\ (u = c \/ Deletes(d, u, c)')) \/ Relanded(d, c)'
        <4>1. Shown(d, f, c) /\ c \in known[d] /\ c \in Versions
          BY <1>2, <1>4, <3>3
        <4>2. (h # 0 /\ (u = c \/ Deletes(d, u, c))) \/ Relanded(d, c)
          BY <2>1, <2>3, <3>1, <4>1 DEF HeadPart
        <4>3. QED
          BY <3>2, <4>1, <4>2, PastIsRead
      <3>4. current'[d][f] # 0 /\ heads'[d][f] = h /\ (h # 0 => cloud'[h].version = u)
        BY <3>1
      <3>5. QED
        BY <2>3, <3>3, <3>4 DEF HeadPart, Deletes
    <2>4. QED
      BY <2>2, <2>3
  <1>6. CurrentIsHead(d)'
    BY <1>5 DEF CurrentIsHead, HeadPart
  <1>7. ASSUME NEW v \in has'[d] \ known[d], v = session[d].version \/ InCloud(v)'
        PROVE  PendingPart(d, v)'
    <2>1. InCloud(v)' <=> InCloud(v)
      BY <1>1 DEF InCloud
    <2>2. v \in has[d]
      <3>1. CASE v = w
        BY <1>2, <1>7, <2>1, <3>1
      <3>2. QED
        BY <1>7, <3>1
    <2>3. PendingPart(d, v) /\ FileOf(v) \in Files /\ FileOf(v)' = FileOf(v) /\ v \in Versions
      BY <1>1, <1>2, <1>7, <2>1, <2>2, Parts, HeadsAreSeqs DEF RestInv
    <2>4. CASE FileOf(v) # f
      <3>1. current'[d][FileOf(v)] = current[d][FileOf(v)] /\ has[d] \subseteq has'[d]
        BY <2>3, <2>4
      <3>2. QED
        BY <2>2, <2>3, <3>1, PendingPartStays
    <2>5. CASE FileOf(v) = f
      <3>1. ASSUME NEW c, Shown(d, f, c)'
            PROVE  c \in {v} \cup (has'[d] \ known'[d]) \/ Deletes(d, v, c)'
        <4>1. CASE c = w
          BY <1>2, <4>1
        <4>2. CASE Shown(d, f, c)
          <5>1. c \in Versions
            BY <1>2, <4>2, ShownIsHeld
          <5>2. c \in {v} \cup (has[d] \ known[d]) \/ Deletes(d, v, c)
            BY <2>3, <2>5, <4>2, <5>1 DEF PendingPart
          <5>3. QED
            BY <2>3, <5>2, PastIsRead
        <4>3. QED
          BY <1>4, <3>1, <4>1, <4>2
      <3>2. FileOf(v)' = f /\ current'[d][f] # 0
        BY <2>3, <2>5
      <3>3. QED
        BY <3>1, <3>2 DEF PendingPart
    <2>6. QED
      BY <2>4, <2>5
  <1>8. PendingIsCurrent(d)'
    BY <1>7 DEF PendingIsCurrent, PendingPart
  <1>9. JournalIsHeld(d)' /\ HasRow(d, w)' /\ \A v : HasRow(d, v) => HasRow(d, v)'
    BY RowIsAppended DEF RestInv
  <1>10. SkipsCover(d)'
    <2>1. ASSUME NEW g \in Files, current'[d][g] \in has'[d] \ known[d],
                 current'[d][g] \notin Skipped(d)
          PROVE  \E v : v = current'[d][g] /\ HasRow(d, v)'
      <3>1. CASE g = f
        BY <1>9, <3>1
      <3>2. CASE g # f
        <4>1. PICK v : v = current[d][g] /\ current'[d][g] = v
          BY <3>2
        <4>2. v \in has[d] \ known[d]
          BY <1>1, <1>2, <2>1, <3>2, <4>1, HeadsAreSeqs
        <4>3. HasRow(d, v)
          BY <2>1, <4>1, <4>2, Parts DEF RestInv
        <4>4. QED
          BY <1>9, <4>1, <4>3
      <3>3. QED
        BY <3>1, <3>2
    <2>2. QED
      BY <2>1 DEF SkipsCover, HasRow, Skipped
  <1>11. QED
    BY <1>3, <1>6, <1>8, <1>9, <1>10 DEF RestInv

LEMMA NewVersionGrows ==
  ASSUME IInv, NEW d \in Devices, NEW r \in FileVersion, ver' = Append(ver, r),
         UNCHANGED <<cloud, faults, history>>
  PROVE  /\ Grows /\ Len(ver) + 1 \in Versions' /\ Len(ver) + 1 \notin has[d]
         /\ ~InCloud(Len(ver) + 1) /\ Len(ver) + 1 # 0 /\ ver'[Len(ver) + 1] = r
         /\ Len(ver) \in Nat /\ \A v \in Versions : v \in Versions'
  <1>1. /\ Extends /\ ~InCloud(Len(ver) + 1) /\ Len(ver) \in Nat /\ ver'[Len(ver) + 1] = r
        /\ Len(ver) + 1 \notin Versions
        /\ \A v : v \in Versions' <=> v \in Versions \/ v = Len(ver) + 1
    BY VerGrows DEF history
  <1>2. Grows
    BY <1>1 DEF Grows, history
  <1>3. Len(ver) + 1 \notin has[d]
    BY <1>1, HeadsAreSeqs
  <1>4. QED
    BY <1>1, <1>2, <1>3

LEMMA WriteRests ==
  ASSUME IInv, IInv', NEW d \in Devices, RestInv(d), NEW f \in Files, NEW deleted \in BOOLEAN,
         NEW copy \in Nat, NEW sealable \in BOOLEAN, Write(d, f, deleted, copy, sealable),
         deleted => copy = 0, Passed(d)' = Passed(d),
         UNCHANGED <<cloud, known, account, session, faults, history>>
  PROVE  RestInv(d)'
  <1>1. PICK w \in Nat : w = Len(ver) + 1
    BY Types DEF IInv
  <1>2. PICK p \in Nat : p = IF copy = 0 THEN current[d][f] ELSE 0
    BY DeviceTypes, Types DEF IInv
  <1>3. PICK r \in FileVersion : /\ r.file = f /\ r.device = d /\ r.parent = p
                                 /\ r.deleted = deleted /\ ver' = Append(ver, r)
    <2>1. [file |-> f, deleted |-> deleted, device |-> d, copy |-> copy, parent |-> p]
            \in FileVersion
      BY DEF FileVersion
    <2>2. ver' = Append(ver, [file |-> f, deleted |-> deleted, device |-> d, copy |-> copy,
                              parent |-> p])
      BY <1>2 DEF Write
    <2>3. QED
      BY <2>1, <2>2
  <1>4. /\ Put(f, w, d) /\ has' = [has EXCEPT ![d] = @ \cup {w}] /\ Journal(d, w, sealable)
    BY <1>1 DEF Write
  <1>5. /\ Grows /\ w \in Versions' /\ w \notin has[d] /\ ~InCloud(w) /\ w # 0 /\ ver'[w] = r
        /\ \A v \in Versions : v \in Versions'
    BY <1>1, <1>3, NewVersionGrows
  <1>6. current'[d][f] = w /\ \A g \in Files \ {f} : current'[d][g] = current[d][g]
    BY <1>1, <1>4, PutsRow, Types DEF IInv
  <1>7. has'[d] = has[d] \cup {w} /\ Skipped(d)' = Skipped(d)
    BY <1>4 DEF IInv, TypeOK, account, Skipped
  <1>8. FileOf(w)' = f /\ ver'[w].device = d /\ (ver'[w].deleted => ver'[w].parent = current[d][f])
    BY <1>2, <1>3, <1>5 DEF FileOf
  <1>9. journal'[d] = Append(journal[d], [version |-> w, sealable |-> sealable])
    BY <1>4, <1>5, JournalGrows DEF IInv
  <1>10. QED
    BY <1>5, <1>6, <1>7, <1>8, <1>9, NewCurrent DEF account

LEMMA LocalWriteRests ==
  ASSUME IInv, IInv', NEW d \in Devices, RestInv(d), NEW f \in Files,
         Edit(d, f) \/ RestoreVersion(d, f) \/ TrashFile(d, f)
  PROVE  RestInv(d)'
  <1>1. /\ UNCHANGED <<cloud, known, account, session, faults, history>>
        /\ \E deleted, sealable \in BOOLEAN : Write(d, f, deleted, 0, sealable)
    BY DEF Edit, RestoreVersion, TrashFile, work
  <1>2. Passed(d)' = Passed(d)
    BY DEF Edit, RestoreVersion, TrashFile, work, account, Passed, Pulling
  <1>3. QED
    BY <1>1, <1>2, WriteRests

LEMMA ForkRests ==
  ASSUME IInv, IInv', NEW d \in Devices, RestInv(d), NEW f \in Files, Fork(d, f)
  PROVE  RestInv(d)'
  <1>1. /\ UNCHANGED <<cloud, known, account, session, op, fresh, faults, history>>
        /\ Write(d, f, FALSE, step[d].saw, TRUE) /\ Goto(d, "land") /\ step[d].pc = "fork"
    BY DEF Fork
  <1>2. Passed(d)' = Passed(d)
    BY <1>1, Goes DEF Passed, Pulling, IInv, Pcs, account
  <1>3. step[d].saw \in Nat
    BY DeviceTypes, Types DEF IInv
  <1>4. QED
    BY <1>1, <1>2, <1>3, WriteRests

\* The version a row goes back to is one it has shown: a version its deletion would delete.
LEMMA UndoTrashRests ==
  ASSUME IInv, IInv', NEW d \in Devices, RestInv(d), NEW f \in Files, UndoTrash(d, f)
  PROVE  RestInv(d)'
  <1>1. PICK t \in Versions : t = current[d][f] /\ t # 0 /\ ver[t].deleted /\ ver[t].device = d
    BY HeadsAreSeqs DEF UndoTrash
  <1>2. PICK w : w = ver[t].parent
    OBVIOUS
  <1>3. /\ UNCHANGED <<ver, cloud, has, known, account, work, faults, raced, relanded>>
        /\ Put(f, w, d) /\ w # 0 /\ ~ver[w].deleted
    BY <1>1, <1>2 DEF UndoTrash
  <1>4. PICK sealable \in BOOLEAN : Journal(d, w, sealable)
    BY <1>1, <1>2 DEF UndoTrash
  <1>5. Shown(d, f, w)
    BY <1>1, <1>2, <1>3 DEF Shown, Deletes
  <1>6. w \in has[d] /\ w \in Versions /\ w \in 0..Len(ver) /\ Len(ver) \in Nat
    BY <1>5, ShownIsHeld, HeadsAreSeqs, Types DEF IInv, Versions
  <1>7. current'[d][f] = w /\ \A g \in Files \ {f} : current'[d][g] = current[d][g]
    BY <1>3, <1>6, PutsRow
  <1>8. journal'[d] = Append(journal[d], [version |-> w, sealable |-> sealable])
    <2>1. Versions' = Versions
      BY <1>3 DEF Versions
    <2>2. QED
      BY <1>4, <1>6, <2>1, JournalGrows DEF IInv
  <1>9. JournalIsHeld(d)' /\ HasRow(d, w)' /\ \A v : HasRow(d, v) => HasRow(d, v)'
    BY <1>3, <1>8, RowIsAppended DEF RestInv, account, work
  <1>10. Grows
    BY <1>3, GrowsAlone
  <1>11. /\ \A v \in Versions : FileOf(v)' = FileOf(v)
         /\ \A v, c : Deletes(d, v, c)' <=> Deletes(d, v, c)
    BY <1>3 DEF FileOf, Deletes
  <1>12. \A g \in Files : \A c : Shown(d, g, c)' => Shown(d, g, c)
    <2>1. \A c : Shown(d, f, c)' => Shown(d, f, c)
      BY <1>3, <1>5, <1>7 DEF Shown, Deletes
    <2>2. QED
      BY <1>7, <1>10, <2>1, ShownStays
  <1>13. KnownIsPassed(d)'
    BY <1>3 DEF RestInv, KnownIsPassed, Passed, Pulling, Seqs, FileAt, FileOf, account, work
  <1>14. ASSUME NEW g \in Files
         PROVE  HeadPart(d, g)'
    <2>1. HeadPart(d, g)
      BY Parts DEF RestInv
    <2>2. current'[d][g] = 0 => current[d][g] = 0
      BY <1>3, <1>7
    <2>3. \A c : Relanded(d, c)' <=> Relanded(d, c)
      BY <1>3 DEF Relanded
    <2>4. QED
      BY <1>3, <1>12, <2>1, <2>2, <2>3 DEF HeadPart, FileOf, Deletes, account
  <1>15. CurrentIsHead(d)'
    BY <1>14 DEF CurrentIsHead, HeadPart
  <1>16. ASSUME NEW v \in has[d] \ known[d], v = session[d].version \/ InCloud(v)
         PROVE  PendingPart(d, v)'
    <2>1. PendingPart(d, v) /\ v \in Versions /\ FileOf(v) \in Files
      BY <1>16, Parts, HeadsAreSeqs DEF RestInv
    <2>2. current'[d][FileOf(v)] # 0
      BY <1>3, <1>7, <2>1 DEF PendingPart
    <2>3. Versions' = Versions
      BY <1>3 DEF Versions
    <2>4. QED
      BY <1>3, <1>11, <1>12, <2>1, <2>2, <2>3 DEF PendingPart
  <1>17. PendingIsCurrent(d)'
    BY <1>3, <1>16 DEF PendingIsCurrent, PendingPart, InCloud, Seqs, work
  <1>18. SkipsCover(d)'
    <2>1. ASSUME NEW g \in Files, current'[d][g] \in has[d] \ known[d],
                 current'[d][g] \notin Skipped(d)
          PROVE  \E v : v = current'[d][g] /\ HasRow(d, v)'
      <3>1. CASE g = f
        BY <1>7, <1>9, <3>1
      <3>2. CASE g # f
        <4>1. PICK v : v = current[d][g] /\ current'[d][g] = v
          BY <1>7, <3>2
        <4>2. HasRow(d, v)
          BY <2>1, <4>1, Parts DEF RestInv
        <4>3. QED
          BY <1>9, <4>1, <4>2
      <3>3. QED
        BY <3>1, <3>2
    <2>2. QED
      BY <1>3, <2>1 DEF SkipsCover, HasRow, Skipped, account
  <1>19. QED
    BY <1>9, <1>13, <1>15, <1>17, <1>18 DEF RestInv

-----------------------------------------------------------------------------
(* The steps that move the session: Stage, CommitLands.                     *)

LEMMA StageRests ==
  ASSUME IInv, IInv', NEW d \in Devices, RestInv(d), NEW j \in DOMAIN journal[d], Stage(d, j)
  PROVE  RestInv(d)'
  <1>1. PICK v \in Versions : v = RowVersion(d, j)
    BY RowIsTyped DEF IInv
  <1>2. /\ UNCHANGED <<ver, cloud, disk, account, op, fresh, faults, history>>
        /\ step[d].pc = "idle" /\ session[d].version = 0 /\ Goto(d, "queue")
        /\ j \in Candidates(d) /\ \A i \in Candidates(d) : j <= i
        /\ session' = [session EXCEPT ![d] = [version |-> v, seq |-> j, open |-> FALSE]]
    BY <1>1 DEF Stage, NextCandidate, Free
  <1>3. session'[d].version = v /\ session'[d].seq = j
    BY <1>2 DEF IInv, TypeOK
  <1>4. Passed(d)' = Passed(d)
    BY <1>2, Goes DEF Passed, Pulling, IInv, Pcs, account
  <1>5. v \in has[d] \ known[d] /\ current[d][FileOf(v)] = v /\ v # 0 /\ FileOf(v) \in Files
    <2>1. v \notin known[d] /\ Current(d, v)
      BY <1>1, <1>2 DEF Candidates
    <2>2. v \in has[d]
      BY <2>1, CurrentIsHeld
    <2>3. QED
      BY <2>1, <2>2, HeadsAreSeqs DEF Current
  <1>6. KnownIsPassed(d)' /\ CurrentIsHead(d)'
    <2>1. KnownIsPassed(d)'
      BY <1>2, <1>4 DEF RestInv, KnownIsPassed, Seqs, FileAt, FileOf, disk, account
    <2>2. Grows
      BY <1>2, GrowsAlone DEF history
    <2>3. \A f \in Files : HeadPart(d, f)'
      BY <1>2, <2>2, Parts, HeadPartStays DEF RestInv, disk, account
    <2>4. QED
      BY <2>1, <2>3 DEF CurrentIsHead, HeadPart
  <1>7. PendingIsCurrent(d)'
    <2>1. ASSUME NEW u \in has[d] \ known[d], u = v \/ InCloud(u)
          PROVE  PendingPart(d, u)
      <3>1. CASE u = v
        BY <1>5, <3>1 DEF PendingPart, Shown
      <3>2. CASE InCloud(u)
        BY <3>2, Parts DEF RestInv
      <3>3. QED
        BY <2>1, <3>1, <3>2
    <2>2. QED
      BY <1>2, <1>3, <2>1 DEF PendingIsCurrent, PendingPart, Shown, Deletes, InCloud, Seqs,
         Versions, FileOf, disk
  <1>8. Len(journal[d]) \in Nat /\ DOMAIN journal[d] = 1..Len(journal[d])
    BY RowIsTyped DEF IInv
  <1>9. JournalIsHeld(d)'
    BY <1>1, <1>2, <1>3, <1>8 DEF RestInv, JournalIsHeld, RowVersion, disk, account
  <1>10. SkipsCover(d)'
    <2>1. SUFFICES ASSUME NEW f \in Files, current[d][f] \in has[d] \ known[d],
                          current[d][f] \notin Skipped(d)
                   PROVE  HasRow(d, current[d][f])'
      BY <1>2 DEF SkipsCover, HasRow, Skipped, disk, account
    <2>2. HasRow(d, current[d][f]) /\ FileOf(current[d][f]) = f
      BY <2>1, Parts, HeadsAreSeqs DEF RestInv
    <2>3. PICK i \in DOMAIN journal[d] :
            RowVersion(d, i) = current[d][f] /\ i > cursor[d] /\ i >= session[d].seq
      BY <2>2 DEF HasRow
    <2>4. i \in Candidates(d)
      BY <2>1, <2>2, <2>3 DEF Candidates, Current, Skipped
    <2>5. j <= i /\ i \in Nat /\ j \in Nat
      BY <1>2, <1>8, <2>3, <2>4
    <2>6. QED
      BY <1>2, <1>3, <2>3, <2>5 DEF HasRow, RowVersion, disk, account
  <1>11. QED
    BY <1>6, <1>7, <1>9, <1>10 DEF RestInv

LEMMA CommitLandsRests ==
  ASSUME IInv, IInv', NEW d \in Devices, RestInv(d), CommitLands(d)
  PROVE  RestInv(d)'
  <1>1. PICK N \in Nat : N = Len(cloud)
    BY Types DEF IInv
  <1>2. PICK v \in Versions : v = op[d].version
    BY CommitIsNew DEF CommitLands
  <1>3. /\ Sendable(d, "commit") /\ op[d].base = N
        /\ UNCHANGED <<ver, disk, account, session, op, fresh, faults, history>>
        /\ Goto(d, "answer") /\ step[d].pc = "idle"
    BY <1>1 DEF CommitLands, Sendable
  <1>4. /\ lastSeq[d] = N /\ v = session[d].version /\ v \in has[d] /\ ~InCloud(v)
    BY <1>1, <1>2, <1>3, CommitIsNew
  <1>5. v \notin known[d]
    BY <1>4 DEF IInv, DeviceInv, KnownCovers
  <1>6. /\ N \in Nat /\ Len(cloud') = N + 1 /\ cloud'[N + 1].version = v
        /\ \A m \in Seqs : cloud'[m] = cloud[m]
        /\ \A m : m \in Seqs' <=> m \in Seqs \/ m = N + 1
    <2>1. cloud \in Seq(Commit) /\ N = Len(cloud)
      BY <1>1 DEF IInv, TypeOK
    <2>2. PICK r : cloud' = Append(cloud, r) /\ r.version = v
      BY <1>2 DEF CommitLands
    <2>3. /\ Len(cloud') = N + 1 /\ cloud'[N + 1] = r
          /\ \A m \in 1..N : cloud'[m] = cloud[m]
      BY <2>1, <2>2
    <2>4. QED
      BY <2>1, <2>2, <2>3 DEF Seqs
  <1>7. Passed(d)' = Passed(d)
    BY <1>3, Goes DEF Passed, Pulling, IInv, Pcs, account
  <1>8. \A m \in Seqs : FileAt(m)' = FileAt(m)
    BY <1>3, <1>6 DEF FileAt, FileOf
  <1>9. FileAt(N + 1)' = FileOf(v) /\ FileOf(v) \in Files
    <2>1. FileAt(N + 1)' = FileOf(v)
      BY <1>3, <1>6 DEF FileAt, FileOf
    <2>2. QED
      BY <1>2, <2>1, Types DEF IInv
  <1>10. KnownIsPassed(d)'
    <2>1. ASSUME NEW n \in Seqs'
          PROVE  LET u == cloud'[n].version
                 IN  /\ u \in has[d] => (u \in known[d] <=> n <= heads[d][FileAt(n)'])
                     /\ n <= heads[d][FileAt(n)'] => u \in known[d] \/ ver[u].deleted
                     /\ ver[u].device = d => n <= lastSeq[d] + 1
      <3>1. CASE n \in Seqs
        BY <1>6, <1>8, <3>1 DEF RestInv, KnownIsPassed
      <3>2. CASE n = N + 1
        <4>1. heads[d][FileOf(v)] \in Nat /\ heads[d][FileOf(v)] <= N
          BY <1>1, <1>9, DeviceTypes DEF IInv
        <4>2. FileAt(n)' = FileOf(v) /\ cloud'[n].version = v
          BY <1>6, <1>9, <3>2
        <4>3. ~(n <= heads[d][FileOf(v)])
          BY <1>6, <3>2, <4>1
        <4>4. n <= lastSeq[d] + 1
          BY <1>4, <1>6, <3>2
        <4>5. QED
          BY <1>4, <1>5, <4>2, <4>3, <4>4
      <3>3. QED
        BY <1>6, <3>1, <3>2
    <2>2. QED
      BY <1>3, <1>7, <2>1 DEF RestInv, KnownIsPassed, disk, account
  <1>11. CurrentIsHead(d)'
    <2>1. \A f \in Files : heads[d][f] # 0 => cloud'[heads[d][f]] = cloud[heads[d][f]]
      BY <1>6, HeadsAreSeqs
    <2>2. QED
      BY <1>3, <2>1 DEF RestInv, CurrentIsHead, Shown, Deletes, Relanded, FileOf, disk, account,
         history
  <1>12. PendingIsCurrent(d)'
    <2>1. \A u : InCloud(u)' => InCloud(u) \/ u = session[d].version
      BY <1>4, <1>6 DEF InCloud
    <2>2. QED
      BY <1>3, <2>1 DEF RestInv, PendingIsCurrent, Shown, Deletes, Versions, FileOf, disk
  <1>13. JournalIsHeld(d)' /\ SkipsCover(d)'
    BY <1>3 DEF RestInv, JournalIsHeld, SkipsCover, RowVersion, disk, account
  <1>14. QED
    BY <1>10, <1>11, <1>12, <1>13 DEF RestInv

-----------------------------------------------------------------------------
(* The quiet steps.                                                         *)

\* Neither the session nor a version it has skipped is forgotten while nothing is pulled.
LEMMA WorkIsQuiet ==
  ASSUME IInv, NEW d \in Devices, UNCHANGED <<cloud, disk, heads, lastSeq, cursor>>,
         SessionGoesOn(d), Skipped(d) \subseteq Skipped(d)',
         (~Pulling(d) /\ ~Pulling(d)') \/ faults' # 0
  PROVE  Quiet(d)
  <1>1. lastSeq[d] <= lastSeq'[d] /\ (Passed(d) <= Passed(d)' \/ faults' # 0)
    BY DeviceTypes DEF IInv, Passed
  <1>2. QED
    BY <1>1 DEF Quiet, disk, Seqs

LEMMA FaultCounts ==
  ASSUME IInv, Fault
  PROVE  faults' # 0
  BY DEF Fault, IInv, TypeOK

LEMMA DropsQuietly ==
  ASSUME IInv, NEW d \in Devices, DropSession(d)
  PROVE  SessionGoesOn(d)
  BY Drops DEF SessionGoesOn, NoSession, IInv

LEMMA SkipIsKept ==
  ASSUME IInv, NEW d \in Devices, NEW v, Skip(d, v)
  PROVE  Skipped(d) \subseteq Skipped(d)'
  <1>1. skips \in [Devices -> [{"parked", "due"} -> SUBSET Versions]]
    BY DEF IInv, TypeOK
  <1>2. QED
    BY <1>1 DEF Skip, Skipped

LEMMA ParkSkips ==
  ASSUME IInv, NEW d \in Devices, Park(d)
  PROVE  SessionGoesOn(d) /\ Skipped(d) \subseteq Skipped(d)'
  <1>1. SessionGoesOn(d)
    BY DropsQuietly DEF Park
  <1>2. skips \in [Devices -> [{"parked", "due"} -> SUBSET Versions]]
    BY DEF IInv, TypeOK
  <1>3. CASE session[d].version = 0
    BY <1>1, <1>3 DEF Park, Skipped
  <1>4. CASE session[d].version # 0
    BY <1>1, <1>2, <1>4 DEF Park, Skip, Skipped
  <1>5. QED
    BY <1>3, <1>4

\* The bookkeeping of a device is quiet for the device itself.
LEMMA SendsQuietly ==
  ASSUME IInv, NEW d \in Devices,
         \/ QueueOperation(d) \/ ContinueUpload(d) \/ DropUpload(d) \/ CommitUnexpected(d)
         \/ CompleteOperation(d) \/ UploadOpens(d) \/ HeadMoved(d) \/ CommitRepeats(d)
         \/ PullIsDue(d)
  PROVE  Quiet(d)
  <1>1. /\ UNCHANGED <<cloud, disk, account>>
        /\ ~Pulling(d) \/ UNCHANGED step
        /\ \/ UNCHANGED step \/ Rest(d) \/ Goto(d, "queue") \/ Goto(d, "complete")
           \/ Goto(d, "answer")
        /\ \/ UNCHANGED session \/ DropSession(d)
           \/ session' = [session EXCEPT ![d].open = session[d].version # 0]
    BY DEF QueueOperation, ContinueUpload, DropUpload, CommitUnexpected, CompleteOperation,
       UploadOpens, HeadMoved, CommitRepeats, PullIsDue, Free, Sendable, Pulling,
       account, work
  <1>2. SessionGoesOn(d)
    <2>1. CASE DropSession(d)
      BY <2>1, DropsQuietly
    <2>2. CASE session' = [session EXCEPT ![d].open = session[d].version # 0]
      BY <2>2 DEF SessionGoesOn, IInv, TypeOK, Session
    <2>3. CASE UNCHANGED session
      BY <2>3 DEF SessionGoesOn
    <2>4. QED
      BY <1>1, <2>1, <2>2, <2>3
  <1>3. UNCHANGED step \/ step'[d].pc \in {"idle", "queue", "complete", "answer"}
    BY <1>1, Goes, Rests DEF IInv, Pcs, Idle
  <1>4. Pulling(d)' <=> Pulling(d)
    BY <1>1, <1>3 DEF Pulling
  <1>5. Passed(d)' = Passed(d)
    BY <1>1, <1>4 DEF Passed, account
  <1>6. Passed(d) <= Passed(d)' /\ lastSeq[d] <= lastSeq'[d]
    BY <1>1, <1>5, PassedIsSeq, DeviceTypes DEF IInv, account
  <1>7. QED
    BY <1>1, <1>2, <1>6 DEF Quiet, disk, account, Skipped, Seqs

LEMMA FailsQuietly ==
  ASSUME IInv, NEW d \in Devices, Failure(d)
  PROVE  Quiet(d)
  <1>1. faults' # 0 /\ UNCHANGED <<cloud, disk, heads, lastSeq, cursor>>
    BY FaultCounts DEF Failure, PullFails, UploadIsGone, SendFails, Refused, Crash, StageFails,
       account
  <1>2. SessionGoesOn(d) /\ Skipped(d) \subseteq Skipped(d)'
    <2>1. CASE PullFails(d) \/ Crash(d)
      BY <2>1 DEF PullFails, Crash, SessionGoesOn, account, Skipped
    <2>2. CASE UploadIsGone(d)
      BY <2>2, DropsQuietly DEF UploadIsGone, account, Skipped
    <2>3. CASE SendFails(d) \/ Refused(d)
      BY <2>3, ParkSkips DEF SendFails, Refused, SessionGoesOn, Skipped
    <2>4. CASE \E j \in DOMAIN journal[d] : StageFails(d, j)
      BY <2>4, SkipIsKept DEF StageFails, SessionGoesOn, work
    <2>5. QED
      BY <2>1, <2>2, <2>3, <2>4 DEF Failure
  <1>3. QED
    BY <1>1, <1>2, WorkIsQuiet

LEMMA PullsQuietly ==
  ASSUME IInv, NEW d \in Devices, Pull(d) \/ Inspect(d) \/ SaveVerifiedHead(d)
  PROVE  Quiet(d)
  <1>1. /\ UNCHANGED <<cloud, disk, heads, cursor, skips, session>>
        /\ step \in [Devices -> Work] /\ lastSeq \in [Devices -> 0..Len(cloud)]
    BY DEF Pull, Inspect, SaveVerifiedHead, account, IInv, TypeOK
  <1>2. lastSeq[d] <= lastSeq'[d] /\ Passed(d) <= Passed(d)'
    <2>1. /\ lastSeq[d] \in Nat /\ step[d].pos \in Nat /\ step[d].upto \in Nat
          /\ lastSeq[d] <= Passed(d) /\ Passed(d) \in Nat
      BY PassedIsSeq, DeviceTypes DEF IInv
    <2>2. CASE Pull(d)
      <3>1. lastSeq' = lastSeq /\ ~Pulling(d)
        BY <2>2 DEF Pull, Free, Pulling, account
      <3>2. step' = step \/ step'[d].pos = lastSeq[d]
        BY <1>1, <2>2 DEF Pull
      <3>3. Passed(d) = lastSeq[d] /\ Passed(d)' = lastSeq[d]
        BY <3>1, <3>2 DEF Passed, Pulling
      <3>4. QED
        BY <2>1, <3>1, <3>3
    <2>3. CASE Inspect(d)
      <3>1. lastSeq' = lastSeq /\ Pulling(d)
        BY <2>3 DEF Inspect, Pulling, account
      <3>2. step'[d].pos = step[d].pos /\ step'[d].pc \in {"fork", "land"}
        BY <1>1, <2>3 DEF Inspect, Work
      <3>3. Passed(d)' = Passed(d)
        BY <3>1, <3>2 DEF Passed, Pulling
      <3>4. QED
        BY <2>1, <3>1, <3>3
    <2>4. CASE SaveVerifiedHead(d)
      <3>1. /\ step[d].pc = "save" /\ lastSeq'[d] = step[d].upto /\ step'[d].pc = "idle"
        BY <1>1, <2>4, Rests DEF SaveVerifiedHead, IInv
      <3>2. step[d].pos = step[d].upto /\ Pulling(d)
        BY <3>1 DEF IInv, DeviceInv, StepIsShaped, Pulling
      <3>3. Passed(d) = step[d].upto /\ Passed(d)' = step[d].upto
        BY <3>1, <3>2 DEF Passed, Pulling
      <3>4. QED
        BY <2>1, <3>1, <3>3
    <2>5. QED
      BY <2>2, <2>3, <2>4
  <1>3. QED
    BY <1>1, <1>2 DEF Quiet, SessionGoesOn, disk, Skipped, Seqs

LEMMA SkipIsDueQuietly ==
  ASSUME IInv, NEW d \in Devices, SkipIsDue(d)
  PROVE  Quiet(d)
  <1>1. /\ UNCHANGED <<cloud, disk, heads, lastSeq, cursor, session, step>>
        /\ skips \in [Devices -> [{"parked", "due"} -> SUBSET Versions]]
        /\ skips' = [skips EXCEPT ![d] = [s \in {"parked", "due"} |->
                       IF s = "due" THEN @["due"] \cup @["parked"] ELSE {}]]
    BY DEF SkipIsDue, IInv, TypeOK, work
  <1>2. skips'[d]["due"] = skips[d]["due"] \cup skips[d]["parked"]
    BY <1>1
  <1>3. Skipped(d) \subseteq Skipped(d)'
    BY <1>2 DEF Skipped
  <1>4. Passed(d) <= Passed(d)' /\ lastSeq[d] <= lastSeq'[d]
    BY <1>1, PassedIsSeq, DeviceTypes DEF IInv, Passed, Pulling
  <1>5. QED
    BY <1>1, <1>3, <1>4 DEF Quiet, SessionGoesOn, disk, Seqs

LEMMA StageRefusesQuietly ==
  ASSUME IInv, NEW d \in Devices, NEW j \in DOMAIN journal[d], StageRefuses(d, j)
  PROVE  Quiet(d)
  <1>1. /\ UNCHANGED <<cloud, disk, heads, lastSeq, cursor, session, step>> /\ ~Pulling(d)
        /\ Skip(d, RowVersion(d, j))
    BY DEF StageRefuses, NextCandidate, Free, Pulling, work
  <1>2. Skipped(d) \subseteq Skipped(d)' /\ ~Pulling(d)' /\ SessionGoesOn(d)
    BY <1>1, SkipIsKept DEF Pulling, SessionGoesOn
  <1>3. QED
    BY <1>1, <1>2, WorkIsQuiet

\* A step of one device is quiet for the others.
Apart(e) ==
  Same(e) /\ cursor'[e] = cursor[e] /\ skips'[e] = skips[e] /\ journal'[e] = journal[e]

LEMMA ApartIsQuiet ==
  ASSUME IInv, NEW e \in Devices, Apart(e),
         \A n \in Seqs' \ Seqs : ver'[cloud'[n].version].device # e
  PROVE  Quiet(e)
  <1>1. Passed(e)' = Passed(e) /\ Passed(e) \in Nat /\ lastSeq[e] \in Nat
    BY SameParts, PassedIsSeq, DeviceTypes DEF Apart, IInv
  <1>2. QED
    BY <1>1 DEF Quiet, SessionGoesOn, Apart, Same, Skipped

LEMMA AtOne ==
  ASSUME IInv
  PROVE  /\ current \in [Devices -> [Files -> 0..Len(ver)]]
         /\ has \in [Devices -> SUBSET Versions] /\ known \in [Devices -> SUBSET Versions]
         /\ heads \in [Devices -> [Files -> 0..Len(cloud)]]
         /\ lastSeq \in [Devices -> 0..Len(cloud)] /\ cursor \in [Devices -> Nat]
         /\ skips \in [Devices -> [{"parked", "due"} -> SUBSET Versions]]
         /\ session \in [Devices -> Session] /\ op \in [Devices -> Operation]
         /\ fresh \in [Devices -> BOOLEAN] /\ step \in [Devices -> Work]
         /\ journal \in [Devices -> Seq(Row)]
  BY DEF IInv, TypeOK

LEMMA WriteIsApart ==
  ASSUME IInv, NEW d \in Devices, NEW e \in Devices \ {d},
         NEW f, NEW deleted, NEW copy, NEW sealable, Write(d, f, deleted, copy, sealable)
  PROVE  current'[e] = current[e] /\ has'[e] = has[e] /\ journal'[e] = journal[e]
  BY AtOne DEF Write, Put, Journal

LEMMA WritesApart ==
  ASSUME IInv, NEW d \in Devices, NEW e \in Devices \ {d}, LocalWrite(d)
  PROVE  Apart(e)
  <1>1. ASSUME NEW f \in Files, Edit(d, f) \/ RestoreVersion(d, f) \/ TrashFile(d, f)
        PROVE  Apart(e)
    BY <1>1, WriteIsApart DEF Edit, RestoreVersion, TrashFile, Apart, Same, Spares, account, work,
       history
  <1>2. ASSUME NEW f \in Files, UndoTrash(d, f)
        PROVE  Apart(e)
    <2>1. PICK t : t = current[d][f] /\ ver[t].device = d /\ undone' = undone \cup {t}
      BY <1>2 DEF UndoTrash
    <2>2. Spares(e)
      BY <2>1 DEF Spares
    <2>3. /\ UNCHANGED <<has, known, account, work>>
          /\ \E v : Put(f, v, d) /\ \E sealable : Journal(d, v, sealable)
      BY <1>2 DEF UndoTrash
    <2>4. current'[e] = current[e] /\ journal'[e] = journal[e]
      BY <2>3, AtOne DEF Put, Journal
    <2>5. QED
      BY <2>2, <2>3, <2>4 DEF Apart, Same, account, work
  <1>3. QED
    BY <1>1, <1>2 DEF LocalWrite

LEMMA PullsApart ==
  ASSUME IInv, NEW d \in Devices, NEW e \in Devices \ {d},
         \/ Pull(d) \/ KnownVersion(d) \/ Inspect(d) \/ Land(d) \/ (\E f \in Files : Fork(d, f))
         \/ SaveVerifiedHead(d) \/ PullIsDue(d)
  PROVE  Apart(e)
  <1>1. CASE Pull(d)
    BY <1>1, AtOne DEF Pull, Apart, Same, Spares, history, disk, account
  <1>2. CASE KnownVersion(d)
    BY <1>2, AtOne DEF KnownVersion, Upsert, Applied, Apart, Same, Spares, history
  <1>3. CASE Inspect(d)
    BY <1>3, AtOne DEF Inspect, Apart, Same, Spares, history, disk, account
  <1>4. CASE Land(d)
    <2>1. /\ UNCHANGED <<lastSeq, cursor, skips, session, op, fresh, journal, undone>>
          /\ Upsert(d, step[d].pos + 1) /\ Applied(d)
          /\ \/ UNCHANGED disk
             \/ \E f, v : /\ Put(f, v, d) /\ has' = [has EXCEPT ![d] = @ \cup {v}]
                          /\ known' = [known EXCEPT ![d] = @ \cup {v}]
      BY <1>4 DEF Land, disk
    <2>2. current'[e] = current[e] /\ has'[e] = has[e] /\ known'[e] = known[e]
      BY <2>1, AtOne DEF disk, Put
    <2>3. heads'[e] = heads[e] /\ step'[e] = step[e]
      BY <2>1, AtOne DEF Upsert, Applied
    <2>4. QED
      BY <2>1, <2>2, <2>3 DEF Apart, Same, Spares, history
  <1>5. ASSUME NEW f \in Files, Fork(d, f)
        PROVE  Apart(e)
    BY <1>5, AtOne, WriteIsApart DEF Fork, Goto, Apart, Same, Spares, account, history
  <1>6. CASE SaveVerifiedHead(d)
    BY <1>6, AtOne DEF SaveVerifiedHead, Rest, Apart, Same, Spares, history, disk
  <1>7. CASE PullIsDue(d)
    BY <1>7, AtOne DEF PullIsDue, Apart, Same, Spares, history, disk, account
  <1>8. QED
    BY <1>1, <1>2, <1>3, <1>4, <1>5, <1>6, <1>7

LEMMA PushesApart ==
  ASSUME IInv, NEW d \in Devices, NEW e \in Devices \ {d},
         \/ (\E j \in DOMAIN journal[d] : Stage(d, j) \/ StageRefuses(d, j))
         \/ QueueOperation(d) \/ ContinueUpload(d) \/ DropUpload(d) \/ FinishCommit(d)
         \/ CommitUnexpected(d) \/ CompleteOperation(d)
  PROVE  Apart(e)
  <1>1. ASSUME NEW j \in DOMAIN journal[d], Stage(d, j) \/ StageRefuses(d, j)
        PROVE  Apart(e)
    BY <1>1, AtOne DEF Stage, StageRefuses, Skip, Goto, work, Apart, Same, Spares, history, disk,
       account
  <1>2. CASE QueueOperation(d)
    BY <1>2, AtOne DEF QueueOperation, Rest, Apart, Same, Spares, history, disk, account
  <1>3. CASE ContinueUpload(d)
    BY <1>3, AtOne DEF ContinueUpload, Goto, Apart, Same, Spares, history, disk, account
  <1>4. CASE DropUpload(d)
    BY <1>4, AtOne DEF DropUpload, DropSession, Apart, Same, Spares, history, disk, account
  <1>5. CASE FinishCommit(d)
    BY <1>5, AtOne DEF FinishCommit, Goto, Apart, Same, Spares, history
  <1>6. CASE CommitUnexpected(d)
    BY <1>6, AtOne DEF CommitUnexpected, Goto, Apart, Same, Spares, history, disk, account
  <1>7. CASE CompleteOperation(d)
    BY <1>7, AtOne DEF CompleteOperation, Rest, Apart, Same, Spares, history, disk, account
  <1>8. QED
    BY <1>1, <1>2, <1>3, <1>4, <1>5, <1>6, <1>7

LEMMA SendsApart ==
  ASSUME IInv, NEW d \in Devices, NEW e \in Devices \ {d},
         Send(d) \/ CommitRepeats(d) \/ SkipIsDue(d)
  PROVE  Apart(e)
  <1>1. CASE UploadOpens(d)
    BY <1>1, AtOne DEF UploadOpens, Apart, Same, Spares, history, disk, account
  <1>2. CASE CommitLands(d) \/ CommitRepeats(d)
    BY <1>2, AtOne DEF CommitLands, CommitRepeats, Goto, Apart, Same, Spares, history, disk, account
  <1>3. CASE HeadMoved(d)
    BY <1>3, AtOne DEF HeadMoved, DropSession, Apart, Same, Spares, history, disk, account
  <1>4. CASE SkipIsDue(d)
    BY <1>4, AtOne DEF SkipIsDue, Apart, Same, Spares, history, disk, work
  <1>5. QED
    BY <1>1, <1>2, <1>3, <1>4 DEF Send

LEMMA FailsApart ==
  ASSUME IInv, NEW d \in Devices, NEW e \in Devices \ {d}, Failure(d)
  PROVE  Apart(e)
  <1>1. CASE PullFails(d) \/ Crash(d)
    BY <1>1, AtOne DEF PullFails, Crash, Rest, Apart, Same, Spares, history, disk, account
  <1>2. CASE UploadIsGone(d)
    BY <1>2, AtOne DEF UploadIsGone, DropSession, Apart, Same, Spares, history, disk, account
  <1>3. CASE SendFails(d)
    BY <1>3, AtOne DEF SendFails, Park, Skip, DropSession, Rest, Apart, Same, Spares, history, disk
  <1>4. CASE Refused(d)
    BY <1>4, AtOne DEF Refused, Park, Skip, DropSession, Apart, Same, Spares, history, disk
  <1>5. ASSUME NEW j \in DOMAIN journal[d], StageFails(d, j)
        PROVE  Apart(e)
    BY <1>5, AtOne DEF StageFails, Skip, Apart, Same, Spares, history, disk, work
  <1>6. QED
    BY <1>1, <1>2, <1>3, <1>4, <1>5 DEF Failure


-----------------------------------------------------------------------------
(* Every step.                                                              *)

Acts(d) ==
  \/ LocalWrite(d) \/ Advance(d) \/ Send(d) \/ CommitRepeats(d)
  \/ PullIsDue(d) \/ SkipIsDue(d) \/ Failure(d)

LEMMA PastGrows ==
  ASSUME IInv, NEW d \in Devices, Acts(d)
  PROVE  /\ UNCHANGED ver \/ \E r : ver' = Append(ver, r)
         /\ UNCHANGED cloud \/ CommitLands(d)
         /\ raced \subseteq raced' /\ relanded \subseteq relanded'
         /\ faults # 0 => faults' # 0
  <1>1. CASE LocalWrite(d)
    BY <1>1 DEF LocalWrite, Edit, RestoreVersion, TrashFile, UndoTrash, Write, history
  <1>2. CASE Advance(d)
    <2>1. UNCHANGED ver \/ \E f \in Files : Fork(d, f)
      BY <1>2 DEF Advance, Pull, KnownVersion, Inspect, Land, SaveVerifiedHead, Stage,
         StageRefuses,
         QueueOperation, ContinueUpload, DropUpload, FinishCommit, CommitUnexpected,
         CompleteOperation
    <2>2. \A f \in Files : Fork(d, f) => \E r : ver' = Append(ver, r)
      BY DEF Fork, Write
    <2>3. UNCHANGED <<cloud, faults>> /\ (UNCHANGED <<raced, relanded>> \/ Land(d))
      BY <1>2 DEF Advance, Pull, KnownVersion, Inspect, Land, Fork, SaveVerifiedHead, Stage,
         StageRefuses,
         QueueOperation, ContinueUpload, DropUpload, FinishCommit, CommitUnexpected,
         CompleteOperation, history
    <2>4. Land(d) => raced \subseteq raced' /\ relanded \subseteq relanded'
      BY DEF Land
    <2>5. QED
      BY <2>1, <2>2, <2>3, <2>4
  <1>3. CASE Send(d) \/ CommitRepeats(d) \/ PullIsDue(d) \/ SkipIsDue(d)
    BY <1>3 DEF Send, UploadOpens, HeadMoved, CommitLands, CommitRepeats, PullIsDue, SkipIsDue,
       history
  <1>4. CASE Failure(d)
    <2>1. UNCHANGED <<ver, cloud, history>>
      BY <1>4 DEF Failure, PullFails, UploadIsGone, SendFails, Refused, Crash, StageFails
    <2>2. Fault
      BY <1>4 DEF Failure, PullFails, UploadIsGone, SendFails, Refused, Crash, StageFails
    <2>3. QED
      BY <2>1, <2>2, FaultCounts DEF history
  <1>5. QED
    BY <1>1, <1>2, <1>3, <1>4 DEF Acts

LEMMA CommitIsAppended ==
  ASSUME IInv, NEW d \in Devices, CommitLands(d)
  PROVE  /\ Len(cloud') = Len(cloud) + 1 /\ \A n \in Seqs : cloud'[n] = cloud[n]
         /\ \A n \in Seqs' \ Seqs : ver'[cloud'[n].version].device = d
  <1>1. cloud \in Seq(Commit) /\ Len(cloud) \in Nat
    BY Types DEF IInv, TypeOK
  <1>2. PICK r : cloud' = Append(cloud, r) /\ r.version = op[d].version
    BY DEF CommitLands
  <1>3. /\ Len(cloud') = Len(cloud) + 1 /\ cloud'[Len(cloud) + 1] = r
        /\ \A n \in 1..Len(cloud) : cloud'[n] = cloud[n]
    BY <1>1, <1>2
  <1>4. ver' = ver /\ ver[op[d].version].device = d
    BY CommitIsNew DEF CommitLands
  <1>5. \A n \in Seqs' \ Seqs : n = Len(cloud) + 1
    BY <1>1, <1>3 DEF Seqs
  <1>6. QED
    BY <1>2, <1>3, <1>4, <1>5 DEF Seqs

LEMMA ActsGrow ==
  ASSUME IInv, NEW d \in Devices, Acts(d)
  PROVE  Grows
  <1>1. ver \in Seq(FileVersion) /\ Len(ver) \in Nat /\ Len(cloud) \in Nat
    BY Types DEF IInv, TypeOK
  <1>2. Len(ver) <= Len(ver') /\ \A v \in Versions : ver'[v] = ver[v]
    <2>1. CASE ver' = ver
      BY <1>1, <2>1
    <2>2. ASSUME NEW r, ver' = Append(ver, r)
          PROVE  Len(ver') = Len(ver) + 1 /\ \A v \in 1..Len(ver) : ver'[v] = ver[v]
      BY <1>1, <2>2
    <2>3. QED
      BY <1>1, <2>1, <2>2, PastGrows DEF Versions
  <1>3. Len(cloud) <= Len(cloud') /\ \A n \in Seqs : cloud'[n] = cloud[n]
    BY <1>1, PastGrows, CommitIsAppended
  <1>4. QED
    BY <1>2, <1>3, PastGrows DEF Grows, Extends

LEMMA ActsApart ==
  ASSUME IInv, NEW d \in Devices, NEW e \in Devices \ {d}, Acts(d)
  PROVE  Quiet(e)
  <1>1. Apart(e)
    BY WritesApart, PullsApart, PushesApart, SendsApart, FailsApart DEF Acts, Advance
  <1>2. \A n \in Seqs' \ Seqs : ver'[cloud'[n].version].device # e
    BY PastGrows, CommitIsAppended DEF Seqs
  <1>3. QED
    BY <1>1, <1>2, ApartIsQuiet

LEMMA ActsRest ==
  ASSUME IInv, IInv', NEW d \in Devices, RestInv(d), Acts(d)
  PROVE  RestInv(d)'
  <1>1. Grows
    BY ActsGrow
  <1>2. CASE Quiet(d)
    BY <1>1, <1>2, QuietKeeps
  <1>3. CASE LocalWrite(d)
    BY <1>3, LocalWriteRests, UndoTrashRests DEF LocalWrite
  <1>4. CASE Advance(d)
    BY <1>2, <1>4, PullsQuietly, SendsQuietly, KnownVersionRests, LandRests, ForkRests, StageRests,
       StageRefusesQuietly, FinishCommitRests DEF Advance
  <1>5. CASE Send(d) \/ CommitRepeats(d) \/ PullIsDue(d)
    BY <1>2, <1>5, SendsQuietly, CommitLandsRests DEF Send
  <1>6. CASE SkipIsDue(d) \/ Failure(d)
    BY <1>2, <1>6, SkipIsDueQuietly, FailsQuietly
  <1>7. QED
    BY <1>3, <1>4, <1>5, <1>6 DEF Acts

LEMMA InitRests ==
  ASSUME Init, NEW d \in Devices
  PROVE  RestInv(d)
  <1>1. /\ has[d] = {} /\ known[d] = {} /\ Seqs = {} /\ lastSeq[d] = 0 /\ step[d].pc = "idle"
        /\ \A f \in Files : current[d][f] = 0 /\ heads[d][f] = 0
    BY DEF Init, Seqs, Idle
  <1>2. Passed(d) = 0
    BY <1>1 DEF Passed, Pulling
  <1>3. KnownIsPassed(d) /\ PendingIsCurrent(d)
    BY <1>1, <1>2 DEF KnownIsPassed, PendingIsCurrent
  <1>4. CurrentIsHead(d) /\ SkipsCover(d)
    BY <1>1 DEF CurrentIsHead, SkipsCover
  <1>5. JournalIsHeld(d)
    <2>1. /\ cursor[d] = 0 /\ journal[d] = <<>> /\ session[d].version = 0 /\ session[d].seq = 0
      BY DEF Init, NoSession
    <2>2. QED
      BY <2>1 DEF JournalIsHeld
  <1>6. QED
    BY <1>3, <1>4, <1>5 DEF RestInv

LEMMA NextHInv ==
  ASSUME HInv, [Next]_vars
  PROVE  HInv'
  <1>1. IInv /\ IInv'
    BY NextIInv DEF HInv
  <1>2. CASE UNCHANGED vars
    <2>1. ASSUME NEW d \in Devices
          PROVE  RestInv(d)'
      <3>1. Passed(d)' = Passed(d) /\ Passed(d) \in Nat /\ lastSeq[d] \in Nat
        BY <1>1, <1>2, PassedIsSeq, DeviceTypes DEF vars, Passed, Pulling, IInv
      <3>2. Quiet(d)
        BY <1>2, <3>1 DEF vars, Quiet, SessionGoesOn, Skipped, Seqs
      <3>3. Grows
        BY <1>1, <1>2, GrowsAlone DEF vars
      <3>4. QED
        BY <1>1, <2>1, <3>2, <3>3, QuietKeeps DEF HInv
    <2>2. QED
      BY <1>1, <2>1 DEF HInv
  <1>3. ASSUME NEW d \in Devices, Acts(d)
        PROVE  HInv'
    <2>1. ASSUME NEW e \in Devices
          PROVE  RestInv(e)'
      <3>1. CASE e = d
        BY <1>1, <1>3, <3>1, ActsRest DEF HInv
      <3>2. CASE e # d
        BY <1>1, <1>3, <3>2, ActsApart, ActsGrow, QuietKeeps DEF HInv
      <3>3. QED
        BY <3>1, <3>2
    <2>2. QED
      BY <1>1, <2>1 DEF HInv
  <1>4. QED
    BY <1>2, <1>3 DEF Next, Acts

\* What a device has, has committed and has passed by fits together in every run:
\* RestInv on top of IInv (repository.ts, pull.ts, push.ts).
THEOREM RestInvariant == Spec => []HInv
  <1>1. Init => HInv
    BY InitIInv, InitRests DEF HInv
  <1>2. HInv /\ [Next]_vars => HInv'
    BY NextHInv
  <1>3. QED
    BY <1>1, <1>2, PTL DEF Spec

-----------------------------------------------------------------------------
(* At rest.                                                                 *)

LEMMA RestLags ==
  ASSUME HInv
  PROVE  LagIsExplained
  <1> SUFFICES ASSUME NEW d \in Devices, AtRest(d), NEW f \in Files
               PROVE  LET c == current[d][f]
                      IN  RestsOn(d, f) \/ Relanded(d, c) \/ Deletes(d, HeadOf(f), c)
                          \/ (c # 0 /\ c \notin known[d] /\ Unsealable(d, c))
    BY DEF LagIsExplained
  <1> DEFINE c == current[d][f]
             h == heads[d][f]
             at == {n \in Seqs : FileAt(n) = f}
  <1>1. IInv /\ RestInv(d) /\ HeadsCover(d)
    BY DEF HInv, IInv, DeviceInv
  <1>2. Passed(d) = Len(cloud) /\ Len(cloud) \in Nat /\ h \in Nat
    BY <1>1, HeadsAreSeqs, Types DEF AtRest, Passed, Pulling, IInv
  <1>3. /\ h = 0 \/ (h \in Seqs /\ FileAt(h) = f)
        /\ \A m \in Seqs : FileAt(m) = f => m <= h
    BY <1>1, <1>2 DEF HeadsCover, Seqs
  <1>4. HeadOf(f) = IF h = 0 THEN 0 ELSE cloud[h].version
    <2>1. CASE h = 0
      <3>1. at = {}
        BY <1>1, <1>3, <2>1, HeadsAreSeqs DEF Seqs
      <3>2. QED
        BY <2>1, <3>1 DEF HeadOf
    <2>2. CASE h # 0
      <3>1. h \in at /\ \A m \in at : m <= h
        BY <1>3, <2>2
      <3>2. \A m \in at : m \in Nat
        BY <1>1, HeadsAreSeqs
      <3> HIDE DEF at, h
      <3> DEFINE x == CHOOSE n \in at : \A m \in at : m <= n
      <3>3. HeadOf(f) = IF at = {} THEN 0 ELSE cloud[x].version
        BY DEF HeadOf, at
      <3>4. x \in at /\ \A m \in at : m <= x
        BY <3>1
      <3> HIDE DEF x
      <3>5. x = h
        BY <3>1, <3>2, <3>4
      <3>6. at # {}
        BY <3>1
      <3>7. QED
        BY <2>2, <3>3, <3>5, <3>6
    <2>3. QED
      BY <2>1, <2>2
  <1>5. /\ c = 0 /\ h # 0 => ver[cloud[h].version].deleted
        /\ c \in known[d] /\ c # 0 =>
             \/ h # 0 /\ (cloud[h].version = c \/ Deletes(d, cloud[h].version, c))
             \/ Relanded(d, c)
    BY <1>1, Parts DEF RestInv, HeadPart, Shown
  <1>6. c # 0 => c \in has[d] /\ c \in Versions /\ FileOf(c) = f
    BY <1>1, HeadsAreSeqs
  <1>7. CASE c = 0
    BY <1>4, <1>5, <1>7 DEF RestsOn
  <1>8. CASE c \in known[d] /\ c # 0
    BY <1>4, <1>5, <1>8 DEF RestsOn
  <1>9. CASE c \in has[d] \ known[d] /\ c # 0
    <2>1. Current(d, c)
      BY <1>6, <1>9 DEF Current
    <2>2. /\ \A v \in skips[d]["parked"] : Unsealable(d, v) \/ ~Current(d, v) \/ v \in known[d]
          /\ \A j \in Candidates(d) : Unsealable(d, RowVersion(d, j))
      BY DEF AtRest
    <2>3. CASE c \in skips[d]["parked"]
      BY <1>9, <2>1, <2>2, <2>3
    <2>4. CASE c \in skips[d]["due"] /\ c \notin skips[d]["parked"]
      <3>1. \A j \in DOMAIN journal[d] : RowVersion(d, j) = c => Unsealable(d, c)
        <4>1. \A j \in DOMAIN journal[d] : RowVersion(d, j) = c => j \in Candidates(d)
          BY <1>9, <2>1, <2>4 DEF Candidates
        <4>2. QED
          BY <2>2, <4>1
      <3>2. QED
        BY <1>9, <3>1 DEF Unsealable
    <2>5. CASE HasRow(d, c) /\ c \notin skips[d]["parked"]
      <3>1. PICK j \in DOMAIN journal[d] : RowVersion(d, j) = c /\ j > cursor[d]
        BY <2>5 DEF HasRow
      <3>2. j \in Candidates(d)
        BY <1>9, <2>1, <2>5, <3>1 DEF Candidates
      <3>3. QED
        BY <1>9, <2>2, <3>1, <3>2
    <2>6. QED
      BY <1>1, <1>9, <2>3, <2>4, <2>5, Parts DEF RestInv, Skipped
  <1>10. QED
    BY <1>6, <1>7, <1>8, <1>9

\* A device at rest has the head of every file, but for a deletion undone after it had gone
\* to the cloud, an old version restored without naming it, and a deletion applied again
\* over a later version (pull.ts, service.ts, repository.ts, databaseOperations.ts).
THEOREM RestLagIsExplained == Spec => []LagIsExplained
  BY RestInvariant, RestLags, PTL
=============================================================================
