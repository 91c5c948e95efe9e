SPECIFICATION FairSpec
CONSTANTS
  Kids = {k1, k2}
  Requests = {r1, r2}
  MaxEvents = 2
  NoKid = NoKid
INVARIANTS
  TypeOK
  RefetchOncePerInterval
PROPERTIES
  FinallyAccepted
  FinallyRefused
