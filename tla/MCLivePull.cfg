SPECIFICATION Spec
CONSTANTS
  alice = alice
  bob = bob
  d1 = d1
  d2 = d2
  Users = {alice}
  Keys = {k1, k2}
  MaxBatch = 2
  Devices = {d1}
  UserOf <- OneDevice
  Handlers = {h1, h2}
  Pushers = {p1, p2}
  Modes = {"poll", "sse"}
  Limit = 1
  MaxSeq = 3
  NoDevice = NoDevice
  NoHandler = NoHandler
  NoUser = NoUser
SYMMETRY Symmetry
INVARIANTS
  NoLostWakeup
  CursorSound
  Inv
PROPERTIES
  NeverBackwards
