SPECIFICATION Spec
CONSTANTS
  OpenVPN = {o1}
  WireGuard = {w1}
  None = None
  Copies = {1, 2, 3}
  MaxReports = 1
  Faults = {"crash", "power", "store", "start", "unproved", "stop", "exit", "observe", "cleanup", "prepare", "drop"}
  Features = {"early", "library"}
INVARIANTS
  TypeOK
  AtMostOneTunnel
  SettledNetworkIsDesired
PROPERTIES
  ImplementsConnection
