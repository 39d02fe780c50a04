SPECIFICATION ApprovalSpec
CONSTANTS
  Grants = {g1, g2}
  Tasks = {t1, t2}
  Clients = {c1, c2}
  Consumptions = {u1, u2}
  Bindings = {b1, b2}
  Limits = {1, 2}
  MaxClock = 1
  Absent = Absent
INVARIANTS UsesAreCounted GrantedIsRecorded
SYMMETRY Symmetry
CHECK_DEADLOCK FALSE
