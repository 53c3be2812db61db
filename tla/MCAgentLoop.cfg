SPECIFICATION Spec
CONSTANTS
  Kinds <- AllKinds
  MaxCalls = 2
  MaxRounds = 2
  Windows <- SmallAndLarge
  History <- Histories
  Humans = {h1}
  MaxFaults = 2
INVARIANTS WellFormedPrompt PromptShowsResults EveryTurnReports OneEnd
CHECK_DEADLOCK FALSE
