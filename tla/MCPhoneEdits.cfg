SPECIFICATION Spec
CONSTANTS
  turn = turn
  reply = reply
  other = other
  j1 = j1
  j2 = j2
  Conversation = Conversation
  NoRow = NoRow
  Turns <- OneTurn
  Replies <- OneReply
  Others <- OneOther
  PhoneRows <- EveryEntity
  Jobs <- TwoJobs
  MaxClock = 2
  MaxLog = 2
  MaxFaults = 1
INVARIANTS IntentInv EditLostOnlyInRace
CHECK_DEADLOCK FALSE
SYMMETRY JobSymmetry
