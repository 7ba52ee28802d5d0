\* Two requests at a time, one credential, three token pairs.
CONSTANTS
  a1 = a1
  k1 = k1
  k2 = k2
  p1 = p1
  p2 = p2
  p3 = p3
  c1 = c1
  c2 = c2
  Clients = {c1, c2}
  Apps = {a1}
  Creds = {k1}
  AppOf <- OneApp
  Pairs = {p1, p2, p3}
  None = None
  MaxSecret = 2
  MaxPassed = 1
SPECIFICATION Spec
INVARIANTS
  SessionsRest
  RevokedStopsWorking
PROPERTIES
  ImplementsSessions
SYMMETRY Symmetry
