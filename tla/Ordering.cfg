SPECIFICATION Spec
CONSTANTS
  Callers = {c1, m}
  Maintainer = m
  NoRec = NoRec
  NoId = NoId
  NoKey = NoKey
  Ids = {i1, i2}
  Keys = {}
  Faults = {}
  Lifo = TRUE
  PriorityOn = TRUE
  DelayOn = TRUE
  DLQ = TRUE
  VisibilityTimeout = 1
  MaxAttempts = 2
  DedupTTL = 1
  MaxItems = 2
  Priorities = {0, 1}
  Delays = {0, 1}
  MaxN = 2
  Lag = 1
  AppendTime = 9
  Horizon = 3
  MaxTokens = 1
  MaxDups = 0
  MaxCrashes = 0
SYMMETRY Symmetry
INVARIANT NoMissedDeadline
PROPERTY DeliversInOrder
CHECK_DEADLOCK FALSE
