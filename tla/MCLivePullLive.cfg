SPECIFICATION FairSpec
CONSTANTS
  alice = alice
  bob = bob
  d1 = d1
  d2 = d2
  Users = {alice, bob}
  Keys = {k1, k2}
  MaxBatch = 2
  Devices = {d1}
  UserOf <- OneDevice
  Handlers = {h1}
  Pushers = {p1}
  Modes = {"plain", "poll", "sse"}
  Limit = 1
  MaxSeq = 2
  NoDevice = NoDevice
  NoHandler = NoHandler
  NoUser = NoUser
PROPERTIES
  StreamDelivers
  PullEnds
