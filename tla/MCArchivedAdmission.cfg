SPECIFICATION Spec
CONSTANTS
  s1 = s1
  s2 = s2
  d1 = d1
  d2 = d2
  k1 = k1
  NoCall = NoCall
  NoKey = NoKey
  ServiceCalls <- TwoServiceCalls
  DesktopCalls <- TwoDesktopCalls
  Keys <- OneKey
  Limits <- OneOrTwo
  MaxEdits = 1
  MaxCrashes = 0
PROPERTY ArchivedIsHistorical
CHECK_DEADLOCK FALSE
