SPECIFICATION FairSpec
CONSTANTS
  Callers = {c1, m}
  Maintainer = m
  NoRec = NoRec
  NoId = NoId
  NoKey = NoKey
  Ids = {i1}
  Keys = {}
  Faults = {"kill", "io"}
  Lifo = FALSE
  PriorityOn = FALSE
  DelayOn = TRUE
  DLQ = FALSE
  VisibilityTimeout = 1
  MaxAttempts = 2
  DedupTTL = 1
  MaxItems = 2
  Priorities = {0}
  Delays = {0, 1}
  MaxN = 1
  Lag = 0
  AppendTime = 9
  Horizon = 3
  MaxTokens = 4
  MaxDups = 0
  MaxCrashes = 1
INVARIANT ReplayAccepts
INVARIANT AttemptsBounded
INVARIANT MemoryIsFoldOfLog
PROPERTY NewestLeaseSettles
PROPERTY NoEarlyExpiry
PROPERTY RequestsAnswered
PROPERTY LeasesEnd
PROPERTY DelaysEnd
CHECK_DEADLOCK FALSE
