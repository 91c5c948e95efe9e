SPECIFICATION FairSpec
CONSTANTS
  SyncRequests = {s1, s2}
  AdminRequests = {a1}
INVARIANTS
  TypeOK
  ClosedInTime
PROPERTIES
  ShutdownEnds
