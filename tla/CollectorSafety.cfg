SPECIFICATION Spec
CONSTANTS
  Tasks = {t1}
  Collectors = {c1}
  Reconcilers = {k1}
  Runs = {r1, r2}
  r1 = r1
  r2 = r2
  c1 = c1
  CollectorOf <- SameCollector
  Grants = {g1, g2}
  LeaseDuration = 1
  GrantTTL = 1
  MaximumDuration = 1
  BatchSize = 1
  Offsets <- MCOffsets
  MaxClock = 2
  MaxFence = 2
  MaxFaults = 1
  FaultHorizon = 3
  None = None
INVARIANTS EvidenceHasSpentAuthority AcceptedResultIsCurrent OneContactPerAttempt
PROPERTY AcceptsOneCurrentResult
CHECK_DEADLOCK FALSE
SYMMETRY Symmetry
