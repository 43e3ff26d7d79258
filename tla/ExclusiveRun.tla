---------------------------- MODULE ExclusiveRun ----------------------------
(***************************************************************************)
(* What the workflow service promises of one run, without rows, leases,    *)
(* containers or managers: it is queued for a worker, worked on by exactly *)
(* one, or parked until something happens; a worker is replaced only by    *)
(* way of parking; and once it has ended nothing happens to it any more.   *)
(***************************************************************************)
CONSTANTS Workers, Nobody

VARIABLES phase, worker

Init == phase = "queued" /\ worker = Nobody

Claim(w) ==
  /\ phase = "queued"
  /\ phase' = "working" /\ worker' = w

Park ==
  /\ phase = "working"
  /\ phase' = "parked" /\ worker' = Nobody

Wake ==
  /\ phase = "parked"
  /\ phase' = "queued" /\ UNCHANGED worker

End ==
  /\ phase # "ended"
  /\ phase' = "ended" /\ worker' = Nobody

Next == (\E w \in Workers : Claim(w)) \/ Park \/ Wake \/ End

Spec == Init /\ [][Next]_<<phase, worker>>
=============================================================================
