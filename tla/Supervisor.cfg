SPECIFICATION FairSpec
CONSTANTS
  Procs = {p1, p2}
  None = None
  Op = Op
  Shutdown = Shutdown
INVARIANTS
  TypeOK
  ProvedMeansGone
  NothingLeftAfterProof
PROPERTIES
  ImplementsOwnedProcess
  CallsReturn
  DeathIsNoticed
