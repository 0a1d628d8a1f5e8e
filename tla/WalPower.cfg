SPECIFICATION Spec
CONSTANTS
  Callers = {c1, c2, c3}
  NoRec = NoRec
  Torn = Torn
  Payloads = {r1, r2, r3, r4}
  SyncAlways = FALSE
  BatchMax = 2
  SegmentSize = 2
  Faults = {"power", "io"}
  MaxCrashes = 2
SYMMETRY Symmetry
INVARIANT TypeOK
INVARIANT DamageOnlyInLastSegment
INVARIANT SizeIsFileSize
PROPERTY ImplementsLog
CHECK_DEADLOCK FALSE
