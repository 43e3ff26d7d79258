------------------------------ MODULE SharedLog ------------------------------
(***************************************************************************)
(* What the cloud copy of a collection promises its devices: one log of    *)
(* versions, to which a device appends only when it has seen all of it, so *)
(* no device writes over a version it does not know.                       *)
(***************************************************************************)
EXTENDS Integers, Sequences

CONSTANT Devices

VARIABLES
  log,    \* what has been committed, in order
  view    \* per device: how much of the log it has taken over

vars == <<log, view>>

Init == log = <<>> /\ view = [d \in Devices |-> 0]

\* An append on top of everything there is.
Write(d) ==
  /\ view[d] = Len(log)
  /\ Len(log') = Len(log) + 1 /\ SubSeq(log', 1, Len(log)) = log
  /\ UNCHANGED view

\* A device takes over more of the log, its own append included.
Learn(d, n) ==
  /\ view[d] < n /\ n <= Len(log)
  /\ view' = [view EXCEPT ![d] = n]
  /\ UNCHANGED log

Next == \E d \in Devices : \/ Write(d)
                           \/ \E n \in 1..Len(log) : Learn(d, n)

Spec == Init /\ [][Next]_vars
=============================================================================
