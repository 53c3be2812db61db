CONSTANTS
  p1 = p1
  p2 = p2
  small = small
  large = large
  Local = Local
  s1 = s1
  s2 = s2
  KBs = {1, 2}
  Profiles = {p1, p2}
  Models = {small, large}
  Sources = {s1, s2}
  MaxCrashes = 1
  Nil = Nil
  Gone = Gone
  Apps = {a1}
  Requests = {1, 2}
  MaxArrivals = 3
SPECIFICATION MCSpec
INVARIANTS VectorsOfOneModel OneRegeneration RefsFollowKbs
PROPERTY RegenerationEnds
CHECK_DEADLOCK FALSE
