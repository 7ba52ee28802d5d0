\* The health worker and three requests on one circuit, an adapter that may panic once
\* and a process that may start again once.
CONSTANTS
  h = h
  r1 = r1
  r2 = r2
  r3 = r3
  Callers = {h, r1, r2, r3}
  HealthWorker = h
  FailureLimit = 3
  MaxPanics = 1
  None = None
  MaxRestarts = 1
SPECIFICATION HealthSpec
INVARIANTS
  HealthTypeOK
  OpenAtLimit
  TrialsOverlapOnlyAfterStraggler
  RefusesForATrial
PROPERTIES
  HalfOpenServed
  RoutedAgain
