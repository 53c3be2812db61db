CONSTANTS
  Apps = {1, 2}
  Profiles = {p1}
  Keys = {k1}
  Functions = {f1, f2}
  Requests = {r1, r2}
  MaxArrivals = 2
  Nil = Nil
SYMMETRY Symmetry
SPECIFICATION MCSpec
INVARIANT TrailTellsState
PROPERTIES SavesLeaveWhatTheyChecked OnlySavesDetach CompletedWasEarned
CHECK_DEADLOCK FALSE
