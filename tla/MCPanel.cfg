SPECIFICATION FairSpec
CONSTANTS
  Requests = {1, 2, 3}
  Durations = {1, 2}
  Cap = 2
  NoError = NoError
  MaxEvents = 3
  NoFrame = NoFrame
INVARIANTS
  RingIsRecent
  EveryRequestShown
  ErrorIsCounted
  RowsCoverUsers
PROPERTIES
  NeverForgets
  PanelFollows
