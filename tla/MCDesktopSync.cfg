SPECIFICATION Spec
CONSTANTS
  turn = turn
  reply = reply
  other = other
  j1 = j1
  j2 = j2
  Conversation = Conversation
  NoRow = NoRow
  Turns <- OneTurn
  Replies <- OneReply
  Others <- OneOther
  PhoneRows <- MessagesAndOther
  Jobs <- TwoJobs
  MaxClock = 2
  MaxLog = 2
  MaxFaults = 1
INVARIANTS IInv IntentInv CursorCovers MessageNotLost EditLostOnlyInRace NoTurnForgotten
CHECK_DEADLOCK FALSE
SYMMETRY JobSymmetry
