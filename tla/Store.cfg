SPECIFICATION Spec
CONSTANTS
  OpenVPN = {v1, v2}
  WireGuard = {w}
  None = None
  Faults = {"store"}
INVARIANTS
  TypeOK
  ReferencedObjectsAreThere
  ReadersSeeThePublished
  NoFlagMeansDurable
  NoBrokenObject
PROPERTIES
  OpenLeavesNoOrphans
  ImplementsLibrary
