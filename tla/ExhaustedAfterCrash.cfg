SPECIFICATION Spec
CONSTANTS
  Callers = {c1, c2, m}
  Maintainer = m
  NoRec = NoRec
  NoId = NoId
  NoKey = NoKey
  Ids = {i1}
  Keys = {}
  Faults = {"kill"}
  Lifo = FALSE
  PriorityOn = FALSE
  DelayOn = FALSE
  DLQ = TRUE
  VisibilityTimeout = 1
  MaxAttempts = 1
  DedupTTL = 1
  MaxItems = 2
  Priorities = {0}
  Delays = {0}
  MaxN = 1
  Lag = 0
  AppendTime = 9
  Horizon = 2
  MaxTokens = 2
  MaxDups = 0
  MaxCrashes = 1
SYMMETRY Symmetry
INVARIANT ExhaustedLeavesRotation
CHECK_DEADLOCK FALSE
