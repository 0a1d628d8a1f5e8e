SPECIFICATION FairSpec
CONSTANTS
  Callers = {c1, c2, c3}
  NoRec = NoRec
  Torn = Torn
  Payloads = {r1, r2, r3}
  SyncAlways = TRUE
  BatchMax = 1
  SegmentSize = 1
  Faults = {"kill", "io"}
  MaxCrashes = 1
PROPERTY ImplementsLog
PROPERTY AppendsReturn
PROPERTY CloseReturns
CHECK_DEADLOCK FALSE
