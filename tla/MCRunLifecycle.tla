--------------------------- MODULE MCRunLifecycle ---------------------------
(* Instances of RunLifecycle for TLC. *)
EXTENDS RunLifecycle, TLC

CONSTANTS m1, m2
OneManager  == {m1}
TwoManagers == {m1, m2}
ManagerSymmetry == Permutations(TwoManagers)
=============================================================================
