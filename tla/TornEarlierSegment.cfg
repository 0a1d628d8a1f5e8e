SPECIFICATION Spec
CONSTANTS
  Callers = {c1, c2}
  NoRec = NoRec
  Torn = Torn
  Payloads = {r1, r2, r3, r4}
  SyncAlways = FALSE
  BatchMax = 2
  SegmentSize = 1
  Faults = {"kill", "power"}
  MaxCrashes = 2
SYMMETRY Symmetry
INVARIANT DamageOnlyInLastSegment
CHECK_DEADLOCK FALSE
