------------------------------ MODULE SlotPool ------------------------------
(***************************************************************************)
(* What admission promises of one workflow, without transactions, locks or *)
(* processes: never more runs at a time than the definition has allowed; a *)
(* resumed run gives its slot to its replacement in one step, or keeps it; *)
(* and a run that has ended is never admitted again.                       *)
(***************************************************************************)
EXTENDS Integers, FiniteSets

CONSTANT Runs

VARIABLES active, ended, allowed

Init == active = {} /\ ended = {} /\ allowed \in Nat

\* The definition may be edited; what it once allowed has been allowed.
Allow ==
  /\ allowed' \in Nat /\ allowed' >= allowed
  /\ UNCHANGED <<active, ended>>

\* A run is admitted, in the place of another one that ends, or in a free slot.
Admit(r, replaced) ==
  /\ r \notin active \cup ended
  /\ replaced \subseteq active
  /\ active' = (active \ replaced) \cup {r}
  /\ ended' = ended \cup replaced
  /\ Cardinality(active') <= allowed
  /\ UNCHANGED allowed

End(S) ==
  /\ S \subseteq active
  /\ active' = active \ S /\ ended' = ended \cup S
  /\ UNCHANGED allowed

Next ==
  \/ Allow
  \/ \E r \in Runs : Admit(r, {}) \/ \E q \in active : Admit(r, {q})
  \/ \E S \in SUBSET active : End(S)

Spec == Init /\ [][Next]_<<active, ended, allowed>>
=============================================================================
