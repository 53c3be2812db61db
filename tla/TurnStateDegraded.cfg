SPECIFICATION FairSpec
CONSTANTS
  Handlers = {h1, h2}
  Requests = {r1, r2}
  NoTurn = NoTurn
  TurnsFitInTtl = FALSE
  Resends <- ResendBoth
  MaxFaults = 2
INVARIANT AcceptedTurnStarts
PROPERTY SessionIsFreedAgain
CHECK_DEADLOCK FALSE
