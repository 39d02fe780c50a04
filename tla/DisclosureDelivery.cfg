SPECIFICATION DisclosureSpec
CONSTANTS
  classical = classical
  quantum = quantum
  Providers = {classical, quantum}
  Algorithm <- MCAlgorithm
  KeyRefs = {k1, k2}
  Managers <- MCManagers
  Actors = {a1}
  Evidence = {e1, e2}
  Fields = {f1, f2}
  Tainted = {f2}
  Redactions = {}
  DecisionIDs = {d1}
  Requests = {q1}
  Calls = {c1, c2}
  MaxClock = 1
  Absent = Absent
INVARIANTS ReleasedIsReceipted ReceiptsKeepVerifying
CHECK_DEADLOCK FALSE
SYMMETRY Symmetry
