------------------------- MODULE RunAdmissionProofs -------------------------
(***************************************************************************)
(* Every step but Commit is quiet: no row becomes active, a row that is    *)
(* being taken stays as it is, and nobody's key changes once it has a row. *)
(* What a transaction has looked up therefore holds until its own Commit,  *)
(* the lock keeping the other Commits out.                                 *)
(***************************************************************************)
EXTENDS RunAdmission, FiniteSetTheorems, TLAPS

\* The part of IInv that speaks of one call.
CallInv(c) ==
  /\ call[c].pc \in InTx <=> lock = c
  /\ call[c].limit <= peak
  /\ run[c].status # "none" => call[c].pc \in {"launch"} \cup Final
  /\ IF c \in ServiceCalls THEN call[c].from = NoCall ELSE call[c].key = NoKey
  /\ call[c].took \/ call[c].pc = "supersede" => call[c].from # NoCall
  /\ call[c].took => call[c].pc \in {"count", "commit", "launch"} \cup Final
  /\ call[c].from # NoCall =>
       /\ run[call[c].from].status \in {"live", "ended"}
       /\ call[c].took /\ call[c].pc \in InTx => run[call[c].from].status = "live"
  /\ call[c].pc \in {"count", "commit"} => ~Fired(call[c].key)
  /\ call[c].pc = "commit" => Cardinality(Counted(c)) < call[c].limit
  /\ call[c].pc # "conflict"

\* No row becomes active, and none ends while it is being taken.
RowsAdvance ==
  \A c \in Calls :
    /\ run'[c].heir = run[c].heir
    /\ \/ run'[c].status = run[c].status
       \/ run[c].status = "queued" /\ run'[c].status \in {"live", "ended"}
       \/ run[c].status = "live" /\ run'[c].status = "ended"
    /\ run[c].status = "live" /\ Held(c) => run'[c].status = "live"

Quiet ==
  /\ TypeOK' /\ limit' <= peak' /\ peak <= peak'
  /\ RowsAdvance
  /\ \A c \in Committed : call'[c].key = call[c].key /\ call'[c].from = call[c].from

-----------------------------------------------------------------------------
(* IInv by calls.                                                           *)

LEMMA ByCall ==
  IInv <=> /\ TypeOK /\ limit <= peak /\ LimitRespected /\ StolenOnlyByHeir
           /\ \A c \in Calls : CallInv(c)
  BY DEF IInv, LockIsHeldInside, LimitsAreBounded, RowIsCommitted, TakenIsActive, KeyIsFree,
         SlotIsFree, NoSpuriousConflict, CallInv

LEMMA ByCallNext ==
  ASSUME TypeOK', limit' <= peak', LimitRespected', StolenOnlyByHeir',
         \A c \in Calls : CallInv(c)'
  PROVE  IInv'
  BY DEF IInv, LockIsHeldInside, LimitsAreBounded, RowIsCommitted, TakenIsActive, KeyIsFree,
         SlotIsFree, NoSpuriousConflict, CallInv

LEMMA CallTypes ==
  ASSUME TypeOK, NEW c \in Calls
  PROVE  /\ run[c] \in Run /\ call[c] \in Call
         /\ run[c].status \in {"none", "queued", "live", "ended"}
         /\ run[c].heir \in Calls \cup {NoCall}
         /\ call[c].from \in Calls \cup {NoCall}
         /\ call[c].limit \in Nat /\ peak \in Nat /\ limit \in Nat
  BY LimitsAssumption DEF TypeOK, Run, Call

\* The actives are a finite set, and so are its parts.
LEMMA ActiveIsFinite ==
  ASSUME NEW S, S \subseteq Calls
  PROVE  IsFiniteSet(S) /\ Cardinality(S) \in Nat
  BY CallsAssumption, FS_Subset, FS_CardinalityType

-----------------------------------------------------------------------------
(* Quiet steps.                                                             *)

LEMMA QuietRows ==
  ASSUME IInv, Quiet
  PROVE  /\ Committed' = Committed
         /\ Active' \subseteq Active
         /\ \A k : Fired(k)' <=> Fired(k)
  <1>1. \A c \in Calls : run'[c].status # "none" <=> run[c].status # "none"
    BY DEF Quiet, RowsAdvance
  <1>2. Committed' = Committed
    BY <1>1 DEF Committed
  <1>3. Active' \subseteq Active
    BY DEF Quiet, RowsAdvance, Active
  <1>4. \A k : Fired(k)' <=> Fired(k)
    BY <1>2 DEF Fired, Quiet, RowsAdvance, Committed
  <1>5. QED
    BY <1>2, <1>3, <1>4

\* A call that does not move keeps its part of the invariant.
LEMMA OthersKeep ==
  ASSUME IInv, Quiet, NEW c \in Calls, call'[c] = call[c],
         call[c].pc \in InTx <=> lock' = c
  PROVE  CallInv(c)'
  <1>1. CallInv(c) /\ TypeOK
    BY ByCall
  <1>2. /\ call[c].limit \in Nat /\ peak \in Nat /\ peak' \in Nat
        /\ call[c].from \in Calls \cup {NoCall}
    BY <1>1, CallTypes, LimitsAssumption DEF Quiet, RowsAdvance, TypeOK
  <1>3. call[c].limit <= peak'
    BY <1>1, <1>2 DEF CallInv, Quiet, RowsAdvance
  <1>4. run'[c].status # "none" => run[c].status # "none"
    BY DEF Quiet, RowsAdvance
  <1>5. ASSUME call[c].from # NoCall
        PROVE  /\ run'[call[c].from].status \in {"live", "ended"}
               /\ call[c].took /\ call[c].pc \in InTx => run'[call[c].from].status = "live"
    <2>1. call[c].from \in Calls
      BY <1>2, <1>5
    <2>2. call[c].took /\ call[c].pc \in InTx => Held(call[c].from)
      BY DEF Held
    <2>3. QED
      BY <1>1, <1>5, <2>1, <2>2 DEF CallInv, Quiet, RowsAdvance
  <1>6. ~Fired(call[c].key) => ~Fired(call[c].key)'
    BY QuietRows
  <1>7. ASSUME call[c].pc = "commit"
        PROVE  Cardinality(Counted(c)') < call[c].limit
    <2>1. Counted(c)' \subseteq Counted(c) /\ Counted(c) \subseteq Calls
      BY QuietRows DEF Counted, Active
    <2>2. Cardinality(Counted(c)') <= Cardinality(Counted(c))
      BY <2>1, ActiveIsFinite, FS_Subset
    <2>3. /\ Cardinality(Counted(c)') \in Nat /\ Cardinality(Counted(c)) \in Nat
          /\ Cardinality(Counted(c)) < call[c].limit
      BY <1>1, <1>7, <2>1, ActiveIsFinite DEF CallInv
    <2>4. QED
      BY <1>2, <2>2, <2>3
  <1>8. (Fired(call[c].key))' <=> Fired(call[c].key)
    BY QuietRows DEF Fired
  <1>9. QED
    BY <1>1, <1>3, <1>4, <1>5, <1>7, <1>8 DEF CallInv

LEMMA QuietKeeps ==
  ASSUME IInv, Quiet, \A c \in Calls : CallInv(c)'
  PROVE  IInv'
  <1>1. TypeOK /\ TypeOK' /\ LimitRespected /\ StolenOnlyByHeir
    BY ByCall DEF Quiet, RowsAdvance
  <1>2. LimitRespected'
    <2>1. /\ Cardinality(Active') \in Nat /\ Cardinality(Active) \in Nat
          /\ Cardinality(Active') <= Cardinality(Active)
      BY QuietRows, ActiveIsFinite, FS_Subset DEF Active
    <2>2. peak \in Nat /\ peak' \in Nat /\ peak <= peak'
      BY <1>1, LimitsAssumption DEF Quiet, RowsAdvance, TypeOK
    <2>3. QED
      BY <1>1, <2>1, <2>2 DEF LimitRespected
  <1>3. StolenOnlyByHeir'
    <2> SUFFICES ASSUME NEW c \in Calls, run'[c].heir # NoCall
                 PROVE  /\ run'[c].status = "ended"
                        /\ run'[c].heir \in Committed' /\ call'[run'[c].heir].from = c
      BY DEF StolenOnlyByHeir
    <2>1. run[c].heir = run'[c].heir
      BY DEF Quiet, RowsAdvance
    <2>2. /\ run[c].status = "ended"
          /\ run[c].heir \in Committed /\ call[run[c].heir].from = c
      BY <1>1, <2>1 DEF StolenOnlyByHeir
    <2>3. call'[run[c].heir].from = c
      BY <2>2 DEF Quiet, RowsAdvance, Committed
    <2>4. QED
      BY <2>1, <2>2, <2>3, QuietRows DEF Quiet, RowsAdvance
  <1>4. QED
    BY <1>1, <1>2, <1>3, ByCallNext DEF Quiet, RowsAdvance

\* A step that moves no call.
LEMMA CallsStay ==
  ASSUME IInv, Quiet, UNCHANGED <<call, lock>>
  PROVE  IInv'
  <1>1. ASSUME NEW c \in Calls PROVE CallInv(c)'
    <2>1. call[c].pc \in InTx <=> lock' = c
      BY ByCall DEF CallInv
    <2>2. QED
      BY <2>1, OthersKeep
  <1>2. QED
    BY <1>1, QuietKeeps

\* A step that moves one call, and grants or frees no other call's lock.
LEMMA OneMoves ==
  ASSUME IInv, Quiet, NEW c \in Calls, CallInv(c)',
         \A d \in Calls \ {c} : call'[d] = call[d] /\ (lock' = d <=> lock = d)
  PROVE  IInv'
  <1>1. ASSUME NEW d \in Calls \ {c} PROVE CallInv(d)'
    <2>1. call[d].pc \in InTx <=> lock' = d
      BY ByCall DEF CallInv
    <2>2. QED
      BY <2>1, OthersKeep
  <1>2. QED
    BY <1>1, QuietKeeps

\* A step that touches no row is quiet, if a call's key is not changed after Commit.
LEMMA RowsStay ==
  ASSUME IInv, UNCHANGED <<run, archived, limit, peak, edits>>,
         retiring' \subseteq retiring, up' \in BOOLEAN, crashes' \in Nat,
         lock' \in Calls \cup {NoCall}, call' \in [Calls -> Call],
         \A c \in Committed : call'[c].key = call[c].key /\ call'[c].from = call[c].from
  PROVE  Quiet
  <1>1. TypeOK /\ limit <= peak
    BY ByCall
  <1>2. TypeOK'
    BY <1>1 DEF TypeOK
  <1>3. peak <= peak
    BY <1>1, LimitsAssumption DEF TypeOK
  <1>4. RowsAdvance
    BY DEF RowsAdvance
  <1>5. QED
    BY <1>1, <1>2, <1>3, <1>4 DEF Quiet

\* Runs end, but not while they are being taken.
LEMMA RowsEnd ==
  ASSUME TypeOK, NEW S, S \subseteq Active, EndRuns(S),
         \A c \in S : run[c].status = "queued" \/ ~Held(c)
  PROVE  RowsAdvance /\ run' \in [Calls -> Run]
  <1>1. ASSUME NEW c \in Calls
        PROVE  /\ run'[c] = IF c \in S THEN [run[c] EXCEPT !.status = "ended"] ELSE run[c]
               /\ run[c] \in Run
    BY DEF EndRuns, TypeOK
  <1>2. run' \in [Calls -> Run]
    BY <1>1 DEF EndRuns, Run
  <1>3. ASSUME NEW c \in Calls
        PROVE  /\ run'[c].heir = run[c].heir
               /\ run'[c].status = IF c \in S THEN "ended" ELSE run[c].status
    BY <1>1 DEF Run
  <1>4. \A c \in S : run[c].status \in {"queued", "live"}
    BY DEF Active
  <1>5. QED
    BY <1>2, <1>3, <1>4 DEF RowsAdvance

\* A step of one call, which touches no row.
LEMMA CallMoves ==
  ASSUME IInv, NEW c \in Calls, UNCHANGED <<run, workflow, processes>>,
         lock' \in Calls \cup {NoCall}, call' \in [Calls -> Call],
         \A d \in Calls \ {c} : call'[d] = call[d] /\ (lock' = d <=> lock = d),
         c \in Committed => call'[c].key = call[c].key /\ call'[c].from = call[c].from,
         CallInv(c)'
  PROVE  IInv' /\ Quiet
  <1>1. TypeOK
    BY ByCall
  <1>2. Quiet
    BY <1>1, RowsStay DEF Committed, workflow, processes, TypeOK
  <1>3. QED
    BY <1>2, OneMoves


-----------------------------------------------------------------------------
(* The steps of a call before its Commit.                                   *)

LEMMA StartQuiet ==
  ASSUME IInv, NEW c \in Calls, NEW k \in Keys \cup {NoKey}, Start(c, k) \/ AlreadyFired(c, k)
  PROVE  IInv' /\ Quiet
  <1>1. TypeOK /\ CallInv(c) /\ limit <= peak
    BY ByCall
  <1>2. /\ c \in ServiceCalls /\ call[c].pc = "idle"
        /\ UNCHANGED <<run, lock, workflow, processes>>
    BY DEF Start, AlreadyFired
  <1>3. run[c].status = "none" /\ ~call[c].took /\ call[c].from = NoCall /\ lock # c
    BY <1>1, <1>2 DEF CallInv, Final, InTx
  <1>4. /\ call' \in [Calls -> Call] /\ \A d \in Calls \ {c} : call'[d] = call[d]
        /\ call'[c].pc \in {"refused", "reconcile", "deduplicated"}
        /\ call'[c].from = NoCall /\ call'[c].took = FALSE /\ call'[c].limit <= peak
    BY <1>1, <1>2, <1>3 DEF Start, AlreadyFired, Goto, TypeOK, Call, Final, CallInv
  <1>5. CallInv(c)'
    BY <1>2, <1>3, <1>4 DEF CallInv, InTx, Final, workflow
  <1>6. c \notin Committed
    BY <1>3 DEF Committed
  <1>7. QED
    BY <1>1, <1>2, <1>4, <1>5, <1>6, CallMoves DEF TypeOK

LEMMA ExecuteQuiet ==
  ASSUME IInv, NEW c \in Calls, NEW from \in Calls \cup {NoCall},
         Execute(c, from) \/ RestartFromCheckpoint(c, from)
  PROVE  IInv' /\ Quiet
  <1>1. TypeOK /\ CallInv(c) /\ limit <= peak
    BY ByCall
  <1>2. /\ c \in DesktopCalls /\ c \notin ServiceCalls /\ call[c].pc = "idle"
        /\ from = NoCall \/ Resumable(from)
        /\ UNCHANGED <<run, lock, workflow, processes>>
    BY CallsAssumption DEF Execute, RestartFromCheckpoint
  <1>3. run[c].status = "none" /\ ~call[c].took /\ call[c].key = NoKey /\ lock # c
    BY <1>1, <1>2 DEF CallInv, Final, InTx
  <1>4. from # NoCall => call[from].limit <= peak /\ call[from].limit \in Limits
    BY <1>1, ByCall DEF CallInv, TypeOK, Call
  <1>5. /\ call' \in [Calls -> Call] /\ \A d \in Calls \ {c} : call'[d] = call[d]
        /\ call'[c].pc \in {"refused", "lock"} /\ call'[c].key = NoKey
        /\ call'[c].from = from /\ call'[c].took = FALSE /\ call'[c].limit <= peak
    <2>1. call[c] \in Call /\ limit \in Limits /\ call \in [Calls -> Call]
      BY <1>1 DEF TypeOK
    <2>2. PICK x \in Call : /\ call' = [call EXCEPT ![c] = x]
                            /\ x.pc \in {"refused", "lock"} /\ x.from = from /\ x.limit <= peak
                            /\ x.key = call[c].key /\ x.took = call[c].took
      <3>1. CASE Execute(c, from)
        <4> DEFINE pc == IF archived THEN "refused" ELSE "lock"
                   x == [call[c] EXCEPT !.pc = pc, !.limit = limit, !.from = from]
        <4>1. call' = [call EXCEPT ![c] = x]
          BY <3>1 DEF Execute
        <4>2. pc \in {"refused", "lock"}
          OBVIOUS
        <4> HIDE DEF pc
        <4>3. /\ x \in Call /\ x.pc = pc /\ x.from = from /\ x.limit = limit
              /\ x.key = call[c].key /\ x.took = call[c].took
          BY <2>1, <4>2 DEF Call, Final
        <4> HIDE DEF x
        <4>4. QED
          BY <1>1, <4>1, <4>2, <4>3
      <3>2. CASE RestartFromCheckpoint(c, from)
        <4> DEFINE l == IF archived THEN call[from].limit ELSE limit
                   x == [call[c] EXCEPT !.pc = "lock", !.from = from, !.limit = l]
        <4>1. call' = [call EXCEPT ![c] = x] /\ from # NoCall
          BY <3>2, CallsAssumption DEF RestartFromCheckpoint, Resumable
        <4>2. l \in Limits /\ l <= peak
          BY <1>1, <1>4, <2>1, <4>1
        <4> HIDE DEF l
        <4>3. /\ x \in Call /\ x.pc = "lock" /\ x.from = from /\ x.limit = l
              /\ x.key = call[c].key /\ x.took = call[c].took
          BY <2>1, <4>2 DEF Call, Final
        <4> HIDE DEF x
        <4>4. QED
          BY <4>1, <4>2, <4>3
      <3>3. QED
        BY <3>1, <3>2
    <2>3. call'[c] = x /\ call' \in [Calls -> Call] /\ \A d \in Calls \ {c} : call'[d] = call[d]
      BY <2>1, <2>2
    <2>4. QED
      BY <1>3, <2>2, <2>3
  <1>6. from # NoCall => run'[from].status \in {"live", "ended"}
    BY <1>2 DEF Resumable
  <1>7. CallInv(c)'
    BY <1>2, <1>3, <1>5, <1>6 DEF CallInv, InTx, Final, workflow
  <1>8. c \notin Committed
    BY <1>3 DEF Committed
  <1>9. QED
    BY <1>1, <1>2, <1>5, <1>7, <1>8, CallMoves DEF TypeOK

\* A step of a transaction that only moves on.
LEMMA MovesOn ==
  ASSUME IInv, NEW c \in Calls, call[c].pc \in {"lock"} \cup InTx,
         UNCHANGED <<run, workflow, processes>>,
         NEW pc, Goto(c, pc), pc \in InTx \cup {"refused", "deduplicated"},
         lock' = IF pc \in InTx THEN c ELSE NoCall, lock \in {NoCall, c},
         pc = "supersede" => call[c].from # NoCall,
         call[c].took => pc \in {"count", "commit"} \cup Final,
         pc \in {"count", "commit"} => ~Fired(call[c].key),
         call[c].took /\ pc \in InTx => call[c].pc \in InTx,
         pc = "commit" => Cardinality(Counted(c)) < call[c].limit
  PROVE  IInv' /\ Quiet
  <1>1. TypeOK /\ CallInv(c)
    BY ByCall
  <1>2. /\ call' \in [Calls -> Call] /\ \A d \in Calls \ {c} : call'[d] = call[d]
        /\ call'[c] = [call[c] EXCEPT !.pc = pc] /\ call[c] \in Call
    BY <1>1 DEF Goto, TypeOK, Call, InTx, Final
  <1>3. /\ call'[c].pc = pc /\ call'[c].limit = call[c].limit /\ call'[c].key = call[c].key
        /\ call'[c].from = call[c].from /\ call'[c].took = call[c].took
    BY <1>2 DEF Call
  <1>4. run[c].status = "none"
    BY <1>1, CallTypes DEF CallInv, InTx, Final
  <1>5. c \notin Committed
    BY <1>4 DEF Committed
  <1>6. Fired(call[c].key)' <=> Fired(call[c].key)
    BY <1>2, <1>3, <1>5 DEF Fired, Committed
  <1>7. Counted(c)' = Counted(c)
    BY <1>3 DEF Counted, Active
  <1>8. lock' = c <=> pc \in InTx
    BY CallsAssumption DEF InTx
  <1>9. CallInv(c)'
    BY <1>1, <1>3, <1>4, <1>6, <1>7, <1>8 DEF CallInv, InTx, Final, workflow
  <1>10. /\ lock' \in Calls \cup {NoCall}
         /\ \A d \in Calls \ {c} : lock' = d <=> lock = d
    BY CallsAssumption
  <1>11. QED
    BY <1>2, <1>3, <1>5, <1>8, <1>9, <1>10, CallMoves

LEMMA LockQuiet ==
  ASSUME IInv, NEW c \in Calls, Lock(c)
  PROVE  IInv' /\ Quiet
  <1> DEFINE pc == IF call[c].key # NoKey THEN "dedupe"
                   ELSE IF call[c].from # NoCall THEN "supersede" ELSE "count"
  <1>1. CallInv(c)
    BY ByCall
  <1>2. /\ call[c].pc = "lock" /\ lock = NoCall /\ lock' = c /\ Goto(c, pc)
        /\ UNCHANGED <<run, workflow, processes>>
    BY DEF Lock
  <1>3. /\ pc \in {"dedupe", "supersede", "count"} /\ pc \in InTx
        /\ pc = "supersede" => call[c].from # NoCall
        /\ pc = "count" => ~Fired(call[c].key)
    BY DEF InTx, Fired
  <1>4. ~call[c].took
    BY <1>1, <1>2 DEF CallInv, Final
  <1> HIDE DEF pc
  <1>5. QED
    BY <1>2, <1>3, <1>4, MovesOn

LEMMA DedupeQuiet ==
  ASSUME IInv, NEW c \in Calls, Dedupe(c)
  PROVE  IInv' /\ Quiet
  <1>1. CallInv(c)
    BY ByCall
  <1>2. /\ call[c].pc = "dedupe" /\ call[c].pc \in InTx
        /\ UNCHANGED <<run, workflow, processes>>
    BY DEF Dedupe, InTx
  <1>3. lock = c /\ ~call[c].took
    BY <1>1, <1>2 DEF CallInv, Final
  <1>4. CASE Fired(call[c].key)
    <2>1. Goto(c, "deduplicated") /\ lock' = NoCall
      BY <1>4 DEF Dedupe, Leave
    <2>2. "deduplicated" \notin InTx
      BY DEF InTx
    <2>3. QED
      BY <1>2, <1>3, <2>1, <2>2, MovesOn
  <1>5. CASE ~Fired(call[c].key)
    <2>1. Goto(c, "count") /\ lock' = lock
      BY <1>5 DEF Dedupe
    <2>2. "count" \in InTx
      BY DEF InTx
    <2>3. QED
      BY <1>2, <1>3, <1>5, <2>1, <2>2, MovesOn
  <1>6. QED
    BY <1>4, <1>5

LEMMA CountQuiet ==
  ASSUME IInv, NEW c \in Calls, Count(c)
  PROVE  IInv' /\ Quiet
  <1>1. TypeOK /\ CallInv(c)
    BY ByCall
  <1>2. /\ call[c].pc = "count" /\ call[c].pc \in InTx
        /\ UNCHANGED <<run, workflow, processes>>
    BY DEF Count, InTx
  <1>3. lock = c /\ ~Fired(call[c].key)
    BY <1>1, <1>2 DEF CallInv
  <1>4. CASE Cardinality(Counted(c)) >= call[c].limit
    <2>1. Goto(c, "refused") /\ lock' = NoCall
      BY <1>4 DEF Count, Leave
    <2>2. "refused" \notin InTx /\ "refused" \in Final
      BY DEF InTx, Final
    <2>3. QED
      BY <1>2, <1>3, <2>1, <2>2, MovesOn
  <1>5. CASE ~(Cardinality(Counted(c)) >= call[c].limit)
    <2>1. Goto(c, "commit") /\ lock' = lock
      BY <1>5 DEF Count
    <2>2. "commit" \in InTx
      BY DEF InTx
    <2>3. Cardinality(Counted(c)) \in Nat /\ call[c].limit \in Nat
      BY <1>1, ActiveIsFinite, CallTypes DEF Counted, Active
    <2>4. Cardinality(Counted(c)) < call[c].limit
      BY <1>5, <2>3
    <2>5. QED
      BY <1>2, <1>3, <2>1, <2>2, <2>4, MovesOn
  <1>6. QED
    BY <1>4, <1>5

LEMMA SupersedeQuiet ==
  ASSUME IInv, NEW c \in Calls, Supersede(c)
  PROVE  IInv' /\ Quiet
  <1>1. TypeOK /\ CallInv(c) /\ call[c] \in Call
    BY ByCall DEF TypeOK
  <1>2. /\ call[c].pc = "supersede" /\ UNCHANGED <<run, lock, workflow, processes>>
        /\ call' = [call EXCEPT ![c].pc = "count", ![c].took = call[c].from \in Active]
    BY DEF Supersede
  <1>3. /\ run[c].status = "none" /\ c \notin Committed /\ lock = c
        /\ call[c].from # NoCall /\ c \notin ServiceCalls /\ call[c].key = NoKey
    BY <1>1, <1>2, CallTypes DEF CallInv, InTx, Final, Committed
  <1>4. /\ call' \in [Calls -> Call] /\ \A d \in Calls \ {c} : call'[d] = call[d]
        /\ call'[c].pc = "count" /\ call'[c].limit = call[c].limit /\ call'[c].key = NoKey
        /\ call'[c].from = call[c].from /\ call'[c].took = (call[c].from \in Active)
    <2> DEFINE took == call[c].from \in Active
    <2>1. took \in BOOLEAN /\ call' = [call EXCEPT ![c].pc = "count", ![c].took = took]
      BY <1>2
    <2> HIDE DEF took
    <2>2. /\ call' \in [Calls -> Call] /\ \A d \in Calls \ {c} : call'[d] = call[d]
          /\ call'[c].pc = "count" /\ call'[c].limit = call[c].limit /\ call'[c].key = NoKey
          /\ call'[c].from = call[c].from /\ call'[c].took = took
      BY <1>1, <1>3, <2>1 DEF TypeOK, Call, InTx
    <2>3. QED
      BY <2>2 DEF took
  <1>5. /\ call[c].from \in Calls /\ run[call[c].from].status \in {"live", "ended"}
        /\ call[c].from \in Active => run[call[c].from].status = "live"
    BY <1>1, <1>3, CallTypes DEF CallInv, Active
  <1>6. (~Fired(call[c].key))'
    BY <1>4 DEF Fired
  <1>7. CallInv(c)'
    BY <1>1, <1>2, <1>3, <1>4, <1>5, <1>6 DEF CallInv, InTx, Final, workflow
  <1>8. QED
    BY <1>1, <1>2, <1>3, <1>4, <1>7, CallMoves DEF TypeOK

-----------------------------------------------------------------------------
(* The steps in which rows end or are launched.                             *)

LEMMA ReconcileQuiet ==
  ASSUME IInv, NEW c \in Calls, Reconcile(c)
  PROVE  IInv' /\ Quiet
  <1>1. TypeOK /\ CallInv(c) /\ call[c] \in Call /\ limit <= peak
    BY ByCall DEF TypeOK
  <1>2. /\ call[c].pc = "reconcile" /\ EndRuns(Abandoned)
        /\ call' = [call EXCEPT ![c].pc = "lock"]
        /\ UNCHANGED <<lock, workflow, processes>>
    BY DEF Reconcile, Goto
  <1>3. RowsAdvance /\ run' \in [Calls -> Run]
    BY <1>1, <1>2, RowsEnd DEF Abandoned
  <1>4. /\ call' \in [Calls -> Call] /\ \A d \in Calls \ {c} : call'[d] = call[d]
        /\ call'[c].pc = "lock" /\ call'[c].limit = call[c].limit
        /\ call'[c].key = call[c].key /\ call'[c].from = call[c].from
        /\ call'[c].took = call[c].took
    BY <1>1, <1>2 DEF TypeOK, Call
  <1>5. Quiet
    <2>1. TypeOK'
      BY <1>1, <1>2, <1>3, <1>4 DEF TypeOK, workflow, processes
    <2>2. limit' <= peak' /\ peak <= peak'
      BY <1>1, <1>2, CallTypes DEF workflow
    <2>3. QED
      BY <1>3, <1>4, <2>1, <2>2 DEF Quiet, Committed
  <1>6. lock # c /\ ~call[c].took /\ run[c].status = "none"
    BY <1>1, <1>2, CallTypes DEF CallInv, InTx, Final
  <1>7. run'[c].status = "none"
    BY <1>3, <1>6 DEF RowsAdvance
  <1>8. call[c].from # NoCall => run'[call[c].from].status \in {"live", "ended"}
    BY <1>1, <1>3, CallTypes DEF RowsAdvance, CallInv
  <1>9. CallInv(c)'
    BY <1>1, <1>2, <1>4, <1>6, <1>7, <1>8 DEF CallInv, InTx, Final, workflow
  <1>10. QED
    BY <1>2, <1>4, <1>5, <1>9, OneMoves

LEMMA LaunchQuiet ==
  ASSUME IInv, NEW c \in Calls, Launch(c)
  PROVE  IInv' /\ Quiet
  <1>1. TypeOK /\ CallInv(c) /\ call[c] \in Call /\ run[c] \in Run /\ limit <= peak
    BY ByCall DEF TypeOK
  <1>2. /\ call[c].pc = "launch" /\ call' = [call EXCEPT ![c].pc = "done"]
        /\ UNCHANGED <<lock, workflow, processes>>
    BY DEF Launch, Goto
  <1>3. RowsAdvance /\ run' \in [Calls -> Run]
    <2>1. CASE run[c].status = "queued" /\ run' = [run EXCEPT ![c].status = "live"]
      <3>1. run' \in [Calls -> Run]
        BY <1>1, <2>1 DEF TypeOK, Run
      <3>2. \A d \in Calls : /\ run'[d].heir = run[d].heir
                             /\ d # c => run'[d].status = run[d].status
        BY <1>1, <2>1 DEF TypeOK, Run
      <3>3. run'[c].status = "live"
        BY <1>1, <2>1 DEF TypeOK, Run
      <3>4. QED
        BY <2>1, <3>1, <3>2, <3>3 DEF RowsAdvance
    <2>2. CASE run[c].status = "queued" /\ EndRuns({c})
      BY <1>1, <2>2, RowsEnd DEF Active
    <2>3. CASE UNCHANGED run
      BY <1>1, <2>3 DEF RowsAdvance, TypeOK
    <2>4. QED
      BY <2>1, <2>2, <2>3 DEF Launch
  <1>4. /\ call' \in [Calls -> Call] /\ \A d \in Calls \ {c} : call'[d] = call[d]
        /\ call'[c].pc = "done" /\ call'[c].limit = call[c].limit
        /\ call'[c].key = call[c].key /\ call'[c].from = call[c].from
        /\ call'[c].took = call[c].took
    BY <1>1, <1>2 DEF TypeOK, Call, Final
  <1>5. Quiet
    <2>1. TypeOK'
      BY <1>1, <1>2, <1>3, <1>4 DEF TypeOK, workflow, processes
    <2>2. limit' <= peak' /\ peak <= peak'
      BY <1>1, <1>2, CallTypes DEF workflow
    <2>3. QED
      BY <1>3, <1>4, <2>1, <2>2 DEF Quiet, Committed
  <1>6. lock # c
    BY <1>1, <1>2 DEF CallInv, InTx
  <1>7. call[c].from # NoCall => run'[call[c].from].status \in {"live", "ended"}
    BY <1>1, <1>3, CallTypes DEF RowsAdvance, CallInv
  <1>8. CallInv(c)'
    BY <1>1, <1>2, <1>4, <1>6, <1>7 DEF CallInv, InTx, Final, workflow
  <1>9. QED
    BY <1>2, <1>4, <1>5, <1>8, OneMoves

\* RunEnds, Retire and ReconcileTick.
LEMMA EndQuiet ==
  ASSUME IInv, NEW S, S \subseteq Active, EndRuns(S),
         \A c \in S : run[c].status = "queued" \/ ~Held(c),
         UNCHANGED <<call, lock, archived, limit, peak, edits, up, crashes>>,
         retiring' \subseteq retiring
  PROVE  IInv' /\ Quiet
  <1>1. TypeOK /\ limit <= peak
    BY ByCall
  <1>2. RowsAdvance /\ run' \in [Calls -> Run]
    BY <1>1, RowsEnd
  <1>3. TypeOK'
    BY <1>1, <1>2 DEF TypeOK
  <1>4. peak <= peak
    BY <1>1, LimitsAssumption DEF TypeOK
  <1>5. Quiet
    BY <1>1, <1>2, <1>3, <1>4 DEF Quiet
  <1>6. QED
    BY <1>5, CallsStay

LEMMA RestartQuiet ==
  ASSUME IInv, Restart
  PROVE  IInv' /\ Quiet
  <1>1. TypeOK /\ limit <= peak
    BY ByCall
  <1>2. ASSUME NEW c \in Calls
        PROVE  /\ run'[c] \in Run /\ run'[c].heir = run[c].heir
               /\ run'[c].status = IF archived /\ c \in Active THEN "ended" ELSE run[c].status
    <2> DEFINE o == run[c].status # "none" \/ call[c].pc \in InTx \cup {"lock"}
               s == IF archived /\ c \in Active THEN "ended" ELSE run[c].status
    <2>1. run'[c] = [run[c] EXCEPT !.old = o, !.status = s]
      BY DEF Restart
    <2>2. o \in BOOLEAN
      OBVIOUS
    <2>3. run[c] \in Run /\ s \in {"none", "queued", "live", "ended"}
      BY <1>1, CallTypes
    <2> HIDE DEF o, s
    <2>4. QED
      <3>1. run'[c] \in Run /\ run'[c].heir = run[c].heir /\ run'[c].status = s
        BY <2>1, <2>2, <2>3 DEF Run
      <3>2. QED
        BY <3>1 DEF s
  <1>3. run' \in [Calls -> Run]
    <2>1. run' = [c \in Calls |-> run'[c]]
      BY DEF Restart
    <2>2. QED
      BY <1>2, <2>1
  <1>4. archived => \A c \in Active : ~Held(c)
    BY DEF Restart
  <1>5. RowsAdvance
    BY <1>2, <1>4 DEF RowsAdvance, Active
  <1>6. TypeOK'
    BY <1>1, <1>3 DEF TypeOK, Restart, workflow
  <1>7. limit' <= peak' /\ peak <= peak'
    <2>1. UNCHANGED workflow
      BY DEF Restart
    <2>2. QED
      BY <1>1, <2>1, LimitsAssumption DEF workflow, TypeOK
  <1>8. Quiet
    BY <1>5, <1>6, <1>7 DEF Quiet, Restart
  <1>9. QED
    BY <1>8, CallsStay DEF Restart

-----------------------------------------------------------------------------
(* The steps of the workflow and of the processes.                          *)

LEMMA EditQuiet ==
  ASSUME IInv, Edit \/ \E program \in {"service", "desktop"} : Archive(program)
  PROVE  IInv' /\ Quiet
  <1>1. TypeOK /\ limit <= peak
    BY ByCall
  <1>2. /\ limit' \in Limits /\ archived' \in BOOLEAN /\ edits' = edits + 1
        /\ peak' = limit' \/ peak' = peak
        /\ limit' <= peak' /\ peak <= peak'
        /\ retiring' \subseteq {"service", "desktop"}
        /\ UNCHANGED <<run, call, lock, processes>>
    <2>1. CASE Edit
      <3>1. PICK l \in Limits, a \in BOOLEAN :
              limit' = l /\ archived' = a /\ peak' = IF l > peak THEN l ELSE peak
        BY <2>1 DEF Edit
      <3>2. peak \in Nat /\ l \in Nat
        BY <1>1, LimitsAssumption DEF TypeOK
      <3>3. QED
        BY <1>1, <2>1, <3>1, <3>2 DEF Edit, TypeOK
    <2>2. CASE \E program \in {"service", "desktop"} : Archive(program)
      BY <1>1, <2>2, LimitsAssumption DEF Archive, TypeOK
    <2>3. QED
      BY <2>1, <2>2
  <1>3. TypeOK'
    BY <1>1, <1>2 DEF TypeOK, processes
  <1>4. Quiet
    BY <1>2, <1>3 DEF Quiet, RowsAdvance
  <1>5. QED
    BY <1>2, <1>4, CallsStay

LEMMA StopQuiet ==
  ASSUME IInv, NEW program, NEW side, side \subseteq Calls, Stopped(program, side),
         up' \in BOOLEAN
  PROVE  IInv' /\ Quiet
  <1> DEFINE hit(c) == c \in side /\ call[c].pc \notin {"idle"} \cup Final
  <1>1. TypeOK /\ limit <= peak
    BY ByCall
  <1>2. ASSUME NEW c \in Calls
        PROVE  /\ ~hit(c) => call'[c] = call[c]
               /\ hit(c) => call'[c] = [call[c] EXCEPT !.pc = "gone", !.took = FALSE]
               /\ call[c] \in Call
    BY <1>1 DEF Stopped, TypeOK
  <1>3. ASSUME NEW c \in Calls
        PROVE  /\ call'[c] \in Call /\ call'[c].key = call[c].key
               /\ call'[c].from = call[c].from /\ call'[c].limit = call[c].limit
               /\ hit(c) => call'[c].pc = "gone" /\ call'[c].took = FALSE
    <2>1. CASE ~hit(c)
      BY <1>2, <2>1
    <2>2. CASE hit(c)
      <3>1. call'[c] = [call[c] EXCEPT !.pc = "gone", !.took = FALSE] /\ call[c] \in Call
        BY <1>2, <2>2
      <3>2. QED
        BY <3>1 DEF Call, Final
    <2>3. QED
      BY <2>1, <2>2
  <1>4. call' \in [Calls -> Call]
    <2>1. call' = [c \in Calls |-> call'[c]]
      BY DEF Stopped
    <2>2. QED
      BY <1>3, <2>1
  <1>5. Quiet
    <2>1. /\ UNCHANGED <<run, archived, limit, peak, edits>>
          /\ retiring' \subseteq retiring /\ crashes' = crashes + 1
          /\ lock' = IF lock \in side THEN NoCall ELSE lock
      BY DEF Stopped
    <2>2. crashes' \in Nat /\ lock' \in Calls \cup {NoCall}
      BY <1>1, <2>1 DEF TypeOK
    <2>3. QED
      BY <1>3, <1>4, <2>1, <2>2, RowsStay DEF Committed
  <1>6. ASSUME NEW c \in Calls
        PROVE  CallInv(c)'
    <2>1. CallInv(c) /\ lock' = (IF lock \in side THEN NoCall ELSE lock) /\ c # NoCall
      BY ByCall, CallsAssumption DEF Stopped
    <2>2. CASE hit(c)
      <3>1. call'[c].pc \notin InTx /\ lock' # c
        BY <1>3, <2>1, <2>2 DEF InTx
      <3>2. call'[c].limit <= peak' /\ UNCHANGED run
        BY <1>3, <2>1 DEF CallInv, Stopped
      <3>3. QED
        BY <1>3, <2>1, <2>2, <3>1, <3>2 DEF CallInv, Final, InTx
    <2>3. CASE ~hit(c)
      <3>1. call[c].pc \in InTx <=> lock' = c
        BY <2>1, <2>3 DEF CallInv, InTx, Final
      <3>2. QED
        BY <1>2, <1>5, <2>3, <3>1, OthersKeep
    <2>4. QED
      BY <2>2, <2>3
  <1>7. QED
    BY <1>5, <1>6, QuietKeeps

\* Every step but Commit, in which peak grows only by an Edit.
QuietStep ==
  \/ \E c \in Calls, k \in Keys \cup {NoKey} : Start(c, k) \/ AlreadyFired(c, k)
  \/ \E c \in Calls, from \in Calls \cup {NoCall} :
       Execute(c, from) \/ RestartFromCheckpoint(c, from)
  \/ \E c \in Calls : \/ Reconcile(c) \/ Lock(c) \/ Dedupe(c) \/ Supersede(c) \/ Count(c)
                      \/ Launch(c) \/ RunEnds(c)
  \/ \E program \in {"service", "desktop"} : Archive(program) \/ Retire(program)
  \/ Edit
  \/ ServiceStops \/ DesktopStops \/ Restart \/ ReconcileTick

LEMMA NextIsQuietOrCommit == Next <=> QuietStep \/ \E c \in Calls : Commit(c)
  BY DEF Next, QuietStep, CallStep

LEMMA QuietSteps ==
  ASSUME IInv, QuietStep
  PROVE  IInv' /\ Quiet
  <1>1. CASE \E c \in Calls, k \in Keys \cup {NoKey} : Start(c, k) \/ AlreadyFired(c, k)
    BY <1>1, StartQuiet
  <1>2. CASE \E c \in Calls, from \in Calls \cup {NoCall} :
               Execute(c, from) \/ RestartFromCheckpoint(c, from)
    BY <1>2, ExecuteQuiet
  <1>3. ASSUME NEW c \in Calls,
               \/ Reconcile(c) \/ Lock(c) \/ Dedupe(c) \/ Supersede(c) \/ Count(c)
               \/ Launch(c) \/ RunEnds(c)
        PROVE  IInv' /\ Quiet
    <2>1. CASE RunEnds(c)
      BY <2>1, EndQuiet DEF RunEnds, workflow, processes, Active
    <2>2. QED
      BY <1>3, <2>1, ReconcileQuiet, LockQuiet, DedupeQuiet, SupersedeQuiet, CountQuiet,
         LaunchQuiet
  <1>4. ASSUME NEW program \in {"service", "desktop"}, Archive(program) \/ Retire(program)
        PROVE  IInv' /\ Quiet
    <2>1. CASE Archive(program)
      BY <2>1, EditQuiet
    <2>2. CASE Retire(program)
      BY <2>2, EndQuiet DEF Retire, processes
    <2>3. QED
      BY <1>4, <2>1, <2>2
  <1>5. CASE ServiceStops
    BY <1>5, StopQuiet DEF ServiceStops, Calls
  <1>6. CASE DesktopStops
    <2>1. up' \in BOOLEAN
      BY <1>6, ByCall DEF DesktopStops, TypeOK
    <2>2. QED
      BY <1>6, <2>1, StopQuiet DEF DesktopStops, Calls
  <1>7. CASE ReconcileTick
    BY <1>7, EndQuiet DEF ReconcileTick, Abandoned, workflow, processes
  <1>8. QED
    BY <1>1, <1>2, <1>3, <1>4, <1>5, <1>6, <1>7, EditQuiet, RestartQuiet DEF QuietStep

-----------------------------------------------------------------------------
(* Commit.                                                                  *)

\* What a Commit does, of which the invariant says that the key is still free,
\* the row to be taken still live, and a slot still there.
LEMMA CommitIs ==
  ASSUME IInv, NEW c \in Calls, Commit(c)
  PROVE  /\ run[c].status = "none" /\ run[c].heir = NoCall /\ lock = c
         /\ lock' = NoCall /\ call' = [call EXCEPT ![c].pc = "launch"]
         /\ UNCHANGED <<workflow, processes>>
         /\ call[c].took => call[c].from \in Calls /\ run[call[c].from].status = "live"
         /\ run' = [r \in Calls |->
                      IF r = c THEN [run[r] EXCEPT !.status = "queued"]
                      ELSE IF call[c].took /\ r = call[c].from
                           THEN [run[r] EXCEPT !.status = "ended", !.heir = c]
                      ELSE run[r]]
         /\ Cardinality(Counted(c)) < peak
  <1>1. TypeOK /\ CallInv(c) /\ StolenOnlyByHeir
    BY ByCall
  <1>2. call[c].pc = "commit" /\ call[c].pc \in InTx
    BY DEF Commit, InTx
  <1>3. lock = c /\ ~Fired(call[c].key) /\ Cardinality(Counted(c)) < call[c].limit
    BY <1>1, <1>2 DEF CallInv
  <1>4. run[c].status = "none"
    BY <1>1, <1>2, CallTypes DEF CallInv, Final
  <1>5. run[c].heir = NoCall
    BY <1>1, <1>4 DEF StolenOnlyByHeir
  <1>6. call[c].took => call[c].from \in Calls /\ run[call[c].from].status = "live"
    BY <1>1, <1>2, CallTypes DEF CallInv
  <1>7. Cardinality(Counted(c)) < peak
    <2>1. /\ call[c].limit \in Nat /\ peak \in Nat /\ Cardinality(Counted(c)) \in Nat
          /\ call[c].limit <= peak
      BY <1>1, CallTypes, ActiveIsFinite DEF Counted, Active, CallInv
    <2>2. QED
      BY <1>3, <2>1
  <1>8. /\ lock' = NoCall /\ call' = [call EXCEPT ![c].pc = "launch"]
        /\ UNCHANGED <<workflow, processes>>
        /\ run' = [r \in Calls |->
                     IF r = c THEN [run[r] EXCEPT !.status = "queued"]
                     ELSE IF call[c].took /\ r = call[c].from
                          THEN [run[r] EXCEPT !.status = "ended", !.heir = c]
                     ELSE run[r]]
    BY <1>3, Zenon DEF Commit, Leave, Goto
  <1>9. QED
    BY <1>3, <1>4, <1>5, <1>6, <1>7, <1>8

\* The same, row by row and call by call.
LEMMA CommitRows ==
  ASSUME IInv, NEW c \in Calls, Commit(c)
  PROVE  /\ TypeOK'
         /\ run'[c].status = "queued" /\ run'[c].heir = NoCall
         /\ call[c].took => /\ call[c].from \in Calls \ {c}
                            /\ run'[call[c].from].status = "ended"
                            /\ run'[call[c].from].heir = c
         /\ \A r \in Calls \ {c} : ~(call[c].took /\ r = call[c].from) => run'[r] = run[r]
         /\ \A d \in Calls \ {c} : call'[d] = call[d]
         /\ call'[c].pc = "launch" /\ call'[c].from = call[c].from
         /\ call'[c].key = call[c].key /\ call'[c].limit = call[c].limit
         /\ call'[c].took = call[c].took
  <1>1. TypeOK /\ run[c] \in Run /\ call[c] \in Call
    BY ByCall DEF TypeOK
  <1>2. /\ call' \in [Calls -> Call] /\ \A d \in Calls \ {c} : call'[d] = call[d]
        /\ call'[c].pc = "launch" /\ call'[c].from = call[c].from
        /\ call'[c].key = call[c].key /\ call'[c].limit = call[c].limit
        /\ call'[c].took = call[c].took
    <2>1. call' = [call EXCEPT ![c].pc = "launch"] /\ call[c] \in Call
      BY <1>1, CommitIs
    <2>2. QED
      BY <1>1, <2>1 DEF TypeOK, Call
  <1> DEFINE queued(r) == [run[r] EXCEPT !.status = "queued"]
             settled(r) == [run[r] EXCEPT !.status = "ended", !.heir = c]
  <1>a. /\ run' = [r \in Calls |-> IF r = c THEN queued(r)
                                 ELSE IF call[c].took /\ r = call[c].from THEN settled(r)
                                 ELSE run[r]]
        /\ run[c].status = "none"
        /\ call[c].took => call[c].from \in Calls /\ run[call[c].from].status = "live"
    BY CommitIs
  <1>b. call[c].took => call[c].from \in Calls \ {c}
    BY <1>a
  <1> HIDE DEF queued, settled
  <1>c. /\ run'[c] = queued(c)
        /\ call[c].took => run'[call[c].from] = settled(call[c].from)
        /\ \A r \in Calls \ {c} : ~(call[c].took /\ r = call[c].from) => run'[r] = run[r]
    BY <1>a, <1>b
  <1>3. run'[c] = [run[c] EXCEPT !.status = "queued"]
    BY <1>c DEF queued
  <1>4. call[c].took => /\ call[c].from \in Calls \ {c}
                        /\ run'[call[c].from]
                             = [run[call[c].from] EXCEPT !.status = "ended", !.heir = c]
    BY <1>b, <1>c DEF settled
  <1>5. \A r \in Calls \ {c} : ~(call[c].took /\ r = call[c].from) => run'[r] = run[r]
    BY <1>c
  <1>6. run'[c] \in Run /\ run'[c].status = "queued" /\ run'[c].heir = NoCall
    BY <1>1, <1>3, CommitIs DEF Run
  <1>7. ASSUME call[c].took
        PROVE  /\ run'[call[c].from] \in Run
               /\ run'[call[c].from].status = "ended" /\ run'[call[c].from].heir = c
    <2>1. run[call[c].from] \in Run
      BY <1>1, <1>4, <1>7 DEF TypeOK
    <2>2. QED
      BY <1>4, <1>7, <2>1 DEF Run
  <1>8. run' \in [Calls -> Run]
    <2>1. run' = [r \in Calls |-> run'[r]]
      BY CommitIs
    <2>2. \A r \in Calls : run'[r] \in Run
      BY <1>1, <1>5, <1>6, <1>7 DEF TypeOK
    <2>3. QED
      BY <2>1, <2>2
  <1>9. TypeOK'
    BY <1>1, <1>2, <1>8, CommitIs DEF TypeOK, workflow, processes
  <1>10. QED
    BY <1>2, <1>4, <1>5, <1>6, <1>7, <1>9

\* The new row takes the slot of the one it settles, or one that is free.
LEMMA CommitActive ==
  ASSUME IInv, NEW c \in Calls, Commit(c)
  PROVE  /\ c \notin Active /\ Active' = Counted(c) \cup {c}
         /\ Cardinality(Active') <= peak /\ peak' = peak
         /\ call[c].took => call[c].from \in Active
  <1>1. run[c].status = "none" /\ TypeOK
    BY CommitIs, ByCall
  <1>2. c \notin Active /\ (call[c].took => call[c].from \in Active)
    BY CommitIs DEF Active
  <1>3. Active' = Counted(c) \cup {c}
    BY <1>1, CommitRows DEF Active, Counted
  <1>4. c \notin Counted(c) /\ Counted(c) \subseteq Calls
    BY <1>2 DEF Counted, Active
  <1>5. IsFiniteSet(Counted(c)) /\ Cardinality(Counted(c)) \in Nat
    BY <1>4, ActiveIsFinite
  <1>6. Cardinality(Counted(c) \cup {c}) = Cardinality(Counted(c)) + 1
    BY <1>4, <1>5, FS_AddElement
  <1>7. peak \in Nat /\ Cardinality(Counted(c)) < peak /\ peak' = peak
    BY <1>1, CallTypes, CommitIs DEF workflow
  <1>8. QED
    BY <1>2, <1>3, <1>5, <1>6, <1>7

LEMMA CommitKeeps ==
  ASSUME IInv, NEW c \in Calls, Commit(c)
  PROVE  IInv'
  <1>1. TypeOK /\ TypeOK' /\ limit <= peak /\ StolenOnlyByHeir
    BY ByCall, CommitRows
  <1>2. /\ limit' <= peak' /\ peak' = peak /\ lock = c /\ lock' = NoCall
        /\ run[c].status = "none"
    BY <1>1, CommitIs DEF workflow
  <1>3. LimitRespected'
    BY <1>2, CommitActive DEF LimitRespected
  <1>4. \A r \in Calls : run[r].status \in {"live", "ended"}
                           => run'[r].status \in {"live", "ended"}
    BY <1>2, CommitRows
  <1>5. ASSUME NEW d \in Calls
        PROVE  CallInv(d)'
    <2>1. CallInv(d) /\ call[d].from \in Calls \cup {NoCall} /\ d # NoCall
      BY <1>1, ByCall, CallTypes, CallsAssumption
    <2>2. call[d].from # NoCall => run'[call[d].from].status \in {"live", "ended"}
      BY <1>4, <2>1 DEF CallInv
    <2>3. CASE d = c
      BY <1>2, <2>1, <2>2, <2>3, CommitRows DEF CallInv, InTx, Final
    <2>4. CASE d # c
      <3>1. call[d].pc \notin InTx /\ call'[d] = call[d]
        BY <1>2, <2>1, <2>4, CommitRows DEF CallInv
      <3>2. run'[d].status # "none" => run[d].status # "none"
        <4>1. CASE call[c].took /\ d = call[c].from
          BY <4>1, CommitIs
        <4>2. CASE ~(call[c].took /\ d = call[c].from)
          BY <2>4, <4>2, CommitRows
        <4>3. QED
          BY <4>1, <4>2
      <3>3. QED
        BY <1>2, <2>1, <2>2, <3>1, <3>2 DEF CallInv, InTx
    <2>5. QED
      BY <2>3, <2>4
  <1>6. StolenOnlyByHeir'
    <2> SUFFICES ASSUME NEW x \in Calls, run'[x].heir # NoCall
                 PROVE  /\ run'[x].status = "ended"
                        /\ run'[x].heir \in Committed' /\ call'[run'[x].heir].from = x
      BY DEF StolenOnlyByHeir
    <2>1. x # c
      BY CommitRows
    <2>2. CASE call[c].took /\ x = call[c].from
      BY <2>2, CommitRows DEF Committed
    <2>3. CASE ~(call[c].took /\ x = call[c].from)
      <3>1. run'[x] = run[x]
        BY <2>1, <2>3, CommitRows
      <3>2. /\ run[x].status = "ended"
            /\ run[x].heir \in Committed /\ call[run[x].heir].from = x
        BY <1>1, <3>1 DEF StolenOnlyByHeir
      <3>3. run[x].heir \in Calls /\ run[x].heir # c
        BY <1>2, <3>2 DEF Committed
      <3>4. run'[run[x].heir].status # "none" /\ call'[run[x].heir] = call[run[x].heir]
        BY <3>2, <3>3, CommitRows DEF Committed
      <3>5. QED
        BY <3>1, <3>2, <3>3, <3>4 DEF Committed
    <2>4. QED
      BY <2>2, <2>3
  <1>7. QED
    BY <1>1, <1>2, <1>3, <1>5, <1>6, ByCallNext

-----------------------------------------------------------------------------
(* The theorems.                                                            *)

LEMMA InitIInv == Init => IInv
  <1> SUFFICES ASSUME Init PROVE IInv
    OBVIOUS
  <1>1. TypeOK
    <2>1. \A c \in Calls : /\ [status |-> "none", old |-> FALSE, heir |-> NoCall] \in Run
                           /\ [pc |-> "idle", limit |-> limit, key |-> NoKey,
                               from |-> NoCall, took |-> FALSE] \in Call
      BY DEF Init, Run, Call
    <2>2. QED
      BY <2>1 DEF Init, TypeOK
  <1>2. limit <= peak /\ peak \in Nat
    BY LimitsAssumption DEF Init
  <1>3. \A c \in Calls : run[c].status = "none" /\ run[c].heir = NoCall
    BY DEF Init
  <1>4. LimitRespected
    <2>1. Active = {}
      BY <1>3 DEF Active
    <2>2. QED
      BY <1>2, <2>1, FS_EmptySet DEF LimitRespected
  <1>5. StolenOnlyByHeir
    BY <1>3 DEF StolenOnlyByHeir
  <1>6. ASSUME NEW c \in Calls PROVE CallInv(c)
    <2>1. /\ call[c].pc = "idle" /\ call[c].limit = limit /\ call[c].key = NoKey
          /\ call[c].from = NoCall /\ call[c].took = FALSE /\ lock # c
      BY CallsAssumption DEF Init
    <2>2. QED
      BY <1>2, <1>3, <2>1 DEF CallInv, InTx, Final
  <1>7. QED
    BY <1>1, <1>2, <1>4, <1>5, <1>6, ByCall

LEMMA StutterKeeps == IInv /\ UNCHANGED vars => IInv'
  <1> SUFFICES ASSUME IInv, UNCHANGED vars PROVE IInv'
    OBVIOUS
  <1>1. /\ Active' = Active /\ Committed' = Committed
        /\ \A c \in Calls : Counted(c)' = Counted(c) /\ Fired(call[c].key)' = Fired(call[c].key)
    BY DEF vars, Active, Committed, Counted, Fired
  <1>2. QED
    BY <1>1 DEF vars, IInv, TypeOK, LockIsHeldInside, LimitsAreBounded, RowIsCommitted,
                TakenIsActive, KeyIsFree, SlotIsFree, LimitRespected, NoSpuriousConflict,
                StolenOnlyByHeir

LEMMA NextIInv == IInv /\ [Next]_vars => IInv'
  BY NextIsQuietOrCommit, QuietSteps, CommitKeeps, StutterKeeps

\* The lock, the counts and the keys of two programs, for any number of calls,
\* limits, edits and stops.
THEOREM AdmissionInvariant == Spec => []IInv
  BY InitIInv, NextIInv, PTL DEF Spec

\* No more runs are active at a time than the definition has allowed.
THEOREM SlotLimit == Spec => []LimitRespected
  <1>1. IInv => LimitRespected
    BY DEF IInv
  <1>2. QED
    BY AdmissionInvariant, <1>1, PTL

\* An INSERT never meets the trigger key of another run of the workflow.
THEOREM KeysAreUnique == Spec => []NoSpuriousConflict
  <1>1. IInv => NoSpuriousConflict
    BY DEF IInv
  <1>2. QED
    BY AdmissionInvariant, <1>1, PTL

\* A run loses its row to a resume only when the resume is itself admitted.
THEOREM HeirsOnly == Spec => []StolenOnlyByHeir
  <1>1. IInv => StolenOnlyByHeir
    BY DEF IInv
  <1>2. QED
    BY AdmissionInvariant, <1>1, PTL

-----------------------------------------------------------------------------
(* The refinement: a Commit admits, an Edit may allow more, and every other *)
(* step ends the runs that are no longer active, if any.                    *)

Ended == {c \in Calls : run[c].status = "ended"}
PoolStep == [Pool!Next]_<<Active, Ended, peak>>

LEMMA PeakKept == QuietStep => peak' = peak \/ Edit
  BY DEF QuietStep, Start, AlreadyFired, Execute, RestartFromCheckpoint, Reconcile, Lock,
         Dedupe, Supersede, Count, Launch, RunEnds, Archive, Retire, ServiceStops,
         DesktopStops, Stopped, Restart, ReconcileTick, workflow

LEMMA QuietPool ==
  ASSUME IInv, QuietStep
  PROVE  PoolStep
  <1>1. Quiet /\ RowsAdvance /\ TypeOK /\ TypeOK' /\ peak <= peak'
    BY QuietSteps, ByCall DEF Quiet
  <1>2. CASE Edit
    <2>1. Active' = Active /\ Ended' = Ended
      BY <1>2 DEF Edit, Active, Ended
    <2>2. peak \in Nat /\ peak' \in Nat
      BY <1>1, LimitsAssumption DEF TypeOK
    <2>3. Pool!Allow
      BY <1>1, <2>1, <2>2 DEF Pool!Allow, Ended
    <2>4. QED
      BY <2>3 DEF PoolStep, Pool!Next
  <1>3. CASE peak' = peak
    <2> DEFINE S == Active \ Active'
    <2>1. Active' = Active \ S /\ S \subseteq Active
      BY <1>1, QuietRows
    <2>2. Ended' = Ended \cup S
      <3>1. \A c \in Calls : run[c].status \in {"none", "queued", "live", "ended"}
        BY <1>1, CallTypes
      <3>2. QED
        BY <1>1, <3>1 DEF RowsAdvance, Active, Ended
    <2> HIDE DEF S
    <2>3. \E T \in SUBSET Active : Pool!End(T)
      BY <1>3, <2>1, <2>2 DEF Pool!End, Ended
    <2>4. Pool!Next
      BY <2>3 DEF Pool!Next
    <2>5. QED
      BY <2>4 DEF PoolStep
  <1>4. QED
    BY <1>2, <1>3, PeakKept

LEMMA CommitPool ==
  ASSUME IInv, NEW c \in Calls, Commit(c)
  PROVE  PoolStep
  <1> DEFINE taken == IF call[c].took THEN {call[c].from} ELSE {}
  <1>1. /\ c \notin Active /\ Active' = (Active \ taken) \cup {c} /\ taken \subseteq Active
        /\ Cardinality(Active') <= peak /\ peak' = peak
    BY CommitActive DEF Counted
  <1>2. c \notin Ended
    BY CommitIs DEF Ended
  <1>3. Ended' = Ended \cup taken
    <2>1. CASE call[c].took
      BY <1>2, <2>1, CommitRows DEF Ended
    <2>2. CASE ~call[c].took
      BY <1>2, <2>2, CommitRows DEF Ended
    <2>3. QED
      BY <2>1, <2>2
  <1>4. taken = {} \/ \E q \in Active : taken = {q}
    BY <1>1
  <1> HIDE DEF taken
  <1>5. Pool!Cardinality(Active') = Cardinality(Active')
    BY DEF Pool!Cardinality, Cardinality
  <1>6. CASE taken = {}
    <2>1. Pool!Admit(c, {})
      BY <1>1, <1>2, <1>3, <1>5, <1>6 DEF Pool!Admit, Ended
    <2>2. QED
      BY <2>1 DEF PoolStep, Pool!Next
  <1>7. ASSUME NEW q \in Active, taken = {q}
        PROVE  PoolStep
    <2>1. Pool!Admit(c, {q})
      BY <1>1, <1>2, <1>3, <1>5, <1>7 DEF Pool!Admit, Ended
    <2>2. QED
      BY <2>1 DEF PoolStep, Pool!Next
  <1>8. QED
    BY <1>4, <1>6, <1>7

\* Both programs' statements, in any order, with any stop between two of them,
\* behave as one counter of slots.
THEOREM AdmissionRefinement == Spec => ImplementsSlotPool
  <1>1. Init => Pool!Init
    <2> SUFFICES ASSUME Init PROVE Pool!Init
      OBVIOUS
    <2>1. \A c \in Calls : run[c].status = "none"
      BY DEF Init
    <2>2. peak \in Nat
      BY LimitsAssumption DEF Init
    <2>3. QED
      BY <2>1, <2>2 DEF Pool!Init, Active
  <1>2. IInv /\ [Next]_vars => [Pool!Next]_<<Active, {c \in Calls : run[c].status = "ended"}, peak>>
    <2> SUFFICES ASSUME IInv, [Next]_vars PROVE PoolStep
      BY DEF PoolStep, Ended
    <2>1. CASE Next
      BY <2>1, NextIsQuietOrCommit, QuietPool, CommitPool
    <2>2. CASE UNCHANGED vars
      BY <2>2 DEF vars, PoolStep, Active, Ended
    <2>3. QED
      BY <2>1, <2>2
  <1>3. QED
    BY AdmissionInvariant, <1>1, <1>2, PTL DEF Spec, ImplementsSlotPool, Pool!Spec
=============================================================================
