SPECIFICATION FairSpec
CONSTANTS
  OpenVPN = {o1}
  WireGuard = {w1}
  None = None
  Copies = {1, 2, 3}
  MaxReports = 1
  Faults = {"external", "exit", "stop", "store", "unproved", "crash"}
  Features = {"prefs"}
PROPERTIES
  OperationsSettle
  DeadTunnelIsNoticed
