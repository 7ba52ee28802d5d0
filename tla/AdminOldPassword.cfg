\* A login races a change of password.
CONSTANTS
  u1 = u1
  p1 = p1
  p2 = p2
  p3 = p3
  c1 = c1
  c2 = c2
  Clients = {c1, c2}
  Users = {u1}
  Pairs = {p1}
  None = None
  MaxPasswords = 2
  MaxPassed = 0
SPECIFICATION Spec
INVARIANTS
  NoOldPasswordSessions
