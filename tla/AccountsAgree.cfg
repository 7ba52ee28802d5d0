\* Two administrators, every failure, a restart.
CONSTANTS
  a1 = a1
  a2 = a2
  Admins = {a1, a2}
  Configs = {"good", "bad"}
  Builds = {"good"}
  Places = {"UG", "KE"}
  NotLoaded = NotLoaded
  MaxVersion = 2
  MaxCrashes = 1
SPECIFICATION Spec
INVARIANTS
  TypeOK
  QuietAgrees
  VersionsDistinguish
SYMMETRY Symmetry
\* A process whose active account does not load does not start.
CHECK_DEADLOCK FALSE
