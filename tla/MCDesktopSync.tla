--------------------------- MODULE MCDesktopSync ---------------------------
(* Instances of DesktopSync for TLC. *)
EXTENDS DesktopSync, TLC

CONSTANTS turn, reply, other, j1, j2

OneTurn   == {turn}
OneReply  == {reply}
OneOther  == {other}
TwoJobs   == {j1, j2}
MessagesAndOther == {turn, reply, other}
EveryEntity      == MessagesAndOther \cup {Conversation}
JobSymmetry == Permutations(TwoJobs)
=============================================================================
