SPECIFICATION Spec
CONSTANTS
  Handlers = {h1, h2, h3}
  Requests = {r1, r2}
  NoTurn = NoTurn
  TurnsFitInTtl = TRUE
  Resends <- ResendSet
  MaxFaults = 1
INVARIANT MutualExclusion
PROPERTIES ReleasesOnlyOwnLock ImplementsContract
CHECK_DEADLOCK FALSE
