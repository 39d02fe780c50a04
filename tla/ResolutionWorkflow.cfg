SPECIFICATION ApiSpec
CONSTANTS
  t1 = t1
  t2 = t2
  k1 = k1
  k2 = k2
  Ids = {i1, i2}
  Keys = {k1, k2}
  Digests <- MCDigests
  Clients = {c1, c2}
  Drivers = {v1}
  Planners = {p1}
  TaskIds <- MCTaskIds
  Plans <- MCPlans
  Times = {0}
  None = None
  Processes = {a, b}
  MaximumRequests = 1
  Bodies <- MCBodies
  Wants <- MCWants
INVARIANTS OneResolutionPerKey HistoryIsFaithful FanoutIsComplete AnswersAreTrue
CHECK_DEADLOCK FALSE
SYMMETRY Symmetry
