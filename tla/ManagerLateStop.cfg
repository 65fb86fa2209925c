SPECIFICATION Spec
CONSTANTS
  OpenVPN = {o1, o2}
  WireGuard = {}
  None = None
  Copies = {1, 2, 3}
  MaxReports = 1
  Faults = {"stop"}
  Features = {}
INVARIANTS
  DisconnectedReleasesOpenVPN
