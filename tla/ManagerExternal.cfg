SPECIFICATION PollSpec
CONSTANTS
  OpenVPN = {o1, o2}
  WireGuard = {w1}
  None = None
  Copies = {1, 2, 3}
  MaxReports = 1
  Faults = {"external", "crash", "store", "start", "unproved", "stop", "cleanup"}
  Features = {}
SYMMETRY Symmetry
INVARIANTS
  LiveTunnelKeepsItsCopy
  DownWasTrue
PROPERTIES
  StartsAlone
