\* Two processes start three times in all on a database with two accounts, and the life
\* of the first is followed; a run may end with every process down or closed.
CONSTANTS
  p1 = p1
  p2 = p2
  a1 = a1
  a2 = a2
  Procs = {p1, p2}
  Accounts = {a1, a2}
  MaxStarts = 3
  Server = p1
SPECIFICATION LifeSpec
CHECK_DEADLOCK FALSE
INVARIANTS
  LifeTypeOK
  OneMigratesInOrder
  NothingLeftBehind
  DatabaseOutlivesWork
PROPERTIES
  StopsWhenTold
