SPECIFICATION FallbackSpec
CONSTANTS
  Workers = {w1, w2}
  Turns = {t1, t2, t3}
  Requests = {r1, r2}
  NoTurn = NoTurn
  NoWorker = NoWorker
  Observed = w1
  RedisReachable = TRUE
  MaxMishaps = 2
SYMMETRY Alike
INVARIANT RunningTurnHoldsLock
PROPERTIES ImplementsContract RedisKeepsContract
CHECK_DEADLOCK FALSE
