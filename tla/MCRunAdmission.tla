--------------------------- MODULE MCRunAdmission ---------------------------
(* Instances of RunAdmission for TLC. *)
EXTENDS RunAdmission, TLC

CONSTANTS s1, s2, d1, d2, k1

TwoServiceCalls == {s1, s2}
TwoDesktopCalls == {d1, d2}
OneKey == {k1}
OneOrTwo == {1, 2}
CallSymmetry == Permutations(TwoServiceCalls) \cup Permutations(TwoDesktopCalls)
=============================================================================
