SPECIFICATION Spec
CONSTANTS
  Attempts = {a1}
  Manifests = {m1}
  Payloads = {p1}
  Writers = {w1, w2}
  Admins = {d1, d2}
  Deadlines = {1, 2}
  Stamps = {0}
  MaxClock = 2
  MaxVersion = 4
  Governed = {"captured"}
  None = None
INVARIANTS MetadataIsComplete LedgerIsHistory DeletionWaits
SYMMETRY Symmetry
