SPECIFICATION DialogSpec
CONSTANTS
  OpenVPN = {i1, i2}
  WireGuard = {}
  None = None
  Faults = {"network", "proxy"}
  a = a
  b = b
  Contents = {a, b}
  Unacceptable = {}
  Batches <- BatchesDef
  Calls = {c1, c2}
  MaxInspections = 2
SYMMETRY Interchangeable
INVARIANTS
  DialogTypeOK
  ReviewMatchesFiles
  OutcomeIsTrue
