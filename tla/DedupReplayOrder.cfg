SPECIFICATION Spec
CONSTANTS
  Callers = {c1, c2, m}
  Maintainer = m
  NoRec = NoRec
  NoId = NoId
  NoKey = NoKey
  Ids = {i1, i2, i3}
  Keys = {k1}
  Faults = {"kill"}
  Lifo = FALSE
  PriorityOn = FALSE
  DelayOn = FALSE
  DLQ = TRUE
  VisibilityTimeout = 1
  MaxAttempts = 1
  DedupTTL = 2
  MaxItems = 2
  Priorities = {0}
  Delays = {0}
  MaxN = 1
  Lag = 0
  AppendTime = 2
  Horizon = 3
  MaxTokens = 0
  MaxDups = 0
  MaxCrashes = 1
SYMMETRY Symmetry
INVARIANT DedupWindow
CHECK_DEADLOCK FALSE
