SPECIFICATION FairSpec
CONSTANTS
  d1 = d1
  d2 = d2
  Devices = {d1, d2}
  Keys = {k1, k2}
  Versions <- MCVersions
  Source <- TwoSources
  Limit = 1
  MaxEdits = 2
  MaxFaults = 1
  NoRow = NoRow
  NoPage = NoPage
CHECK_DEADLOCK FALSE
INVARIANTS
  CursorHolds
PROPERTIES
  ServerCatchesUp
  Converge
