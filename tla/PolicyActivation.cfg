SPECIFICATION PolicySpec
CONSTANTS
  r1 = r1
  r2 = r2
  Bundles = {b1, b2, b3}
  Scopes = {s1, s2}
  Recipes = {r1, r2}
  Documents <- MCDocuments
  Operators = {o1, o2}
  Engines = {e1}
  MaxEvents = 3
  MaxDecisions = 1
  Nothing = Nothing
INVARIANTS TrailEndsInActive DecisionIsReproducible
CHECK_DEADLOCK FALSE
SYMMETRY Symmetry
