SPECIFICATION DiffSpec
CONSTANTS
  k1 = k1
  k2 = k2
  x = x
  Users = {alice}
  Keys = {k1, k2}
  Bodies = {x}
  Envelopes <- MCEnvelopes
  Pushers = {p1}
  MaxBatch = 2
  MaxSeq = 4
  NoRow = NoRow
  NoUser = NoUser
  Diffs = {r1}
  DiffItems <- MCItems
INVARIANTS
  AnswerOfOneMoment
  SilentNeedsNoPush
