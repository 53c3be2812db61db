SPECIFICATION Spec
CONSTANTS
  Developers = {d1, d2}
  Orgs = {o1, o2}
  Invitations = {i1}
  Apps = {a1, a2}
  Name <- OneName
  Requests = {r1, r2}
  Nil = Nil
SYMMETRY Alike
PROPERTY FreshRequestsAreAtomic
CHECK_DEADLOCK FALSE
