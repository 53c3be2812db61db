CONSTANTS
  Nil = Nil
  k1 = k1
  k2 = k2
  Keys = {k1, k2}
  Pages <- AllPages
  MaxMoves = 4
  MaxHasty <- Hasty
  MaxFaults = 1
  MaxPolls = 1
SYMMETRY Alike
SPECIFICATION ScreensSpec
INVARIANTS PagesShowSelection PagesShowOwnWrites RailFollowsPages SavesGoHome ButtonsLockAndFree
PROPERTY TypingIsKept
CHECK_DEADLOCK FALSE
