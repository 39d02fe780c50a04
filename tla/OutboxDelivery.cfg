SPECIFICATION FairSpec
CONSTANTS
  Events = {1, 2}
  Dispatchers = {d1, d2}
  Keys = {k1, k2}
  BatchSize = 2
  MaxAttempts = 2
  Lease = 2
  RetryDelay <- MCRetryDelay
  Skew = 0
  MaxFaults = 1
  None = None
INVARIANTS PublishedIsInStream DeadLetteredWasExhausted EveryReplayIsAudited
PROPERTIES PublishedIsFinal EventSettles
CHECK_DEADLOCK FALSE
