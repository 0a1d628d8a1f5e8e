SPECIFICATION Spec
CONSTANTS
  Callers = {c1, c2, m}
  Maintainer = m
  NoRec = NoRec
  NoId = NoId
  NoKey = NoKey
  Ids = {i1, i2}
  Keys = {}
  Faults = {}
  Lifo = FALSE
  PriorityOn = FALSE
  DelayOn = FALSE
  DLQ = TRUE
  VisibilityTimeout = 1
  MaxAttempts = 2
  DedupTTL = 1
  MaxItems = 1
  Priorities = {0}
  Delays = {0}
  MaxN = 1
  Lag = 0
  AppendTime = 9
  Horizon = 3
  MaxTokens = 2
  MaxDups = 0
  MaxCrashes = 0
SYMMETRY Symmetry
INVARIANT StopsOnlyWhenDead
CHECK_DEADLOCK FALSE
