SPECIFICATION LifecycleSpec
CONSTANTS
  Turns = {t1, t2}
  Takeovers = {d1, d2}
  Reuses = {u1}
  HasConfig = TRUE
INVARIANT ActiveIsUnresolved
PROPERTIES ClosedIsFinal
