SPECIFICATION FairSpec
CONSTANTS
  Tasks = {t1}
  Collectors = {c1}
  Reconcilers = {k1}
  Runs = {r1}
  r1 = r1
  r2 = r2
  c1 = c1
  CollectorOf <- SameCollector
  Grants = {g1, g2, g3, g4}
  LeaseDuration = 1
  GrantTTL = 1
  MaximumDuration = 1
  BatchSize = 1
  Offsets <- ZeroOffset
  MaxClock = 2
  MaxFence = 4
  MaxFaults = 1
  FaultHorizon = 1
  None = None
PROPERTIES CrashWindowCloses TaskEventuallySucceeds
CHECK_DEADLOCK FALSE
