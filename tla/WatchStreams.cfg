SPECIFICATION WatchFairSpec
CONSTANTS
  t1 = t1
  Ids = {i1}
  Keys = {k1}
  Digests = {d1}
  Clients = {c1}
  Drivers = {v1}
  Planners = {p1}
  TaskIds <- MCTaskIds
  Plans <- MCPlans
  Times = {0}
  None = None
  Watchers = {w1, w2}
  BatchLimit = 2
  MaximumWatchRequests = 1
  WaitSeconds = 2
  WriteTimeout = 1
  MaxBreaks = 1
INVARIANT WatchIsExact
PROPERTY WatcherSeesEnd
CHECK_DEADLOCK FALSE
