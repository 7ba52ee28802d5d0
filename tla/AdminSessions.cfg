\* Two requests at a time, one administrator, three token pairs:
\* one a login takes and one for each of two refreshes of it.
CONSTANTS
  u1 = u1
  p1 = p1
  p2 = p2
  p3 = p3
  c1 = c1
  c2 = c2
  Clients = {c1, c2}
  Users = {u1}
  Pairs = {p1, p2, p3}
  None = None
  MaxPasswords = 2
  MaxPassed = 1
SPECIFICATION Spec
INVARIANTS
  GuessesBounded
  SessionsRest
PROPERTIES
  ImplementsSessions
SYMMETRY Symmetry
