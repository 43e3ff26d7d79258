SPECIFICATION Spec
CONSTANTS
  turn = turn
  reply = reply
  other = other
  j1 = j1
  j2 = j2
  Conversation = Conversation
  NoRow = NoRow
  Turns <- OneTurn
  Replies <- OneReply
  Others <- OneOther
  PhoneRows = {}
  Jobs <- TwoJobs
  MaxClock = 3
  MaxLog = 3
  MaxFaults = 0
INVARIANTS LatestIntentIsKept
CHECK_DEADLOCK FALSE
