SPECIFICATION Spec
CONSTANTS
  OpenVPN = {o1, o2}
  WireGuard = {w1}
  None = None
  Copies = {1, 2, 3}
  MaxReports = 1
  Faults = {"crash", "power", "store", "start", "unproved", "stop", "exit", "observe", "cleanup", "prepare", "drop"}
  Features = {}
SYMMETRY Symmetry
INVARIANTS
  ActiveIsRecorded
  DisconnectedStaysDown
  DisconnectedLeavesNoCopies
PROPERTIES
  ConflictClearedByProof
