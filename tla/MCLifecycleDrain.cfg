SPECIFICATION Spec
CONSTANTS
  SyncRequests = {s1}
  AdminRequests = {a1}
INVARIANTS
  DrainedBeforeClose
