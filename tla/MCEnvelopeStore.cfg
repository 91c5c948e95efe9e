SPECIFICATION Spec
CONSTANTS
  alice = alice
  p1 = p1
  p2 = p2
  k1 = k1
  k2 = k2
  x = x
  y = y
  Users = {alice}
  Keys = {k1, k2}
  Bodies = {x, y}
  Envelopes <- MCEnvelopes
  Pushers = {p1, p2}
  MaxBatch = 2
  MaxSeq = 4
  NoRow = NoRow
  NoUser = NoUser
INVARIANTS
  LwwWinner
  RepliesHold
  WorkingCopy
PROPERTIES
  AppliedIsTruth
  RetryIsNoop
  RowsOnlyAdvance
  ImplementsSeqLog
