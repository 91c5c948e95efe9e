SPECIFICATION StartupSpec
CONSTANTS
  Procs = {p1, p2}
  Latest = 2
  Guarded = {1}
  Nobody = Nobody
  Placeholder = "placeholder"
  Nil = Nil
  Refused = Refused
  FlagSets <- MCFlagSets
  Documents <- MCDocuments
  MaxEvents = 2
  NoFile = NoFile
  Torn = Torn
  NoConfig = NoConfig
SYMMETRY Symmetry
INVARIANTS
  RecordIsTruth
  OpenIsComplete
  WholeFile
  SeedIsSound
  ServesAsConfigured
PROPERTIES
  OverwritesOnlyUnseen
