SPECIFICATION Spec
CONSTANTS
  OpenVPN = {i1, i2, i3}
  WireGuard = {}
  None = None
  Faults = {"store", "staging", "transition"}
  a = a
  b = b
  d = d
  x = x
  Contents = {a, b, d, x}
  Unacceptable = {x}
  Batches <- BatchesDef
  Calls = {c1, c2}
  MaxProfiles = 2
  MaxRevision = 2
  MaxInspections = 2
SYMMETRY Interchangeable
INVARIANTS
  TypeOK
  GateIsHeldInside
  RevisionIdentifiesLibrary
  NoContentTwice
  AcknowledgedSurvives
PROPERTIES
  PublishesWhatWasInspected
  ImplementsContract
