SPECIFICATION Spec
CONSTANTS
  turn = turn
  reply = reply
  other = other
  j1 = j1
  j2 = j2
  Conversation = Conversation
  NoRow = NoRow
  Turns <- OneTurn
  Replies <- OneReply
  Others <- OneOther
  PhoneRows <- OneTurn
  Jobs <- TwoJobs
  MaxClock = 2
  MaxLog = 2
  MaxFaults = 0
INVARIANTS OneClaudePerTurn
CHECK_DEADLOCK FALSE
