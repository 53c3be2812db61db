SPECIFICATION FairSpec
CONSTANTS
  NCalls = 2
  Ids = {"a", "b"}
  Scripts <- AllScripts
  NSubmits = 2
  Attempts = {1, 2}
  FaultKinds <- AllFaults
  MaxFaults = 1
INVARIANTS ReportedResultIsDelivered ResultIsForItsCall NoFutureLeaks
PROPERTIES FirstOutcomeWins TurnEnds
CHECK_DEADLOCK FALSE
