SPECIFICATION DialogSpec
CONSTANTS
  OpenVPN = {i1}
  WireGuard = {}
  None = None
  Faults = {"store", "network", "proxy"}
  a = a
  b = b
  Contents = {a}
  Unacceptable = {}
  Batches <- OneBatch
  Calls = {c1, c2}
  MaxInspections = 2
PROPERTIES
  CommitSettles
