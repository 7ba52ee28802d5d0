\* Two requests at a time, two administrators, one custom role that is made twice.
CONSTANTS
  u1 = u1
  u2 = u2
  c1 = c1
  c2 = c2
  Users = {u1, u2}
  CustomRoles = {"support"}
  Named = {"support", "operations"}
  Clients = {c1, c2}
  GrantSets <- Asked
  None = None
  MaxRoles = 2
SPECIFICATION Spec
INVARIANTS
  TypeOK
  SystemRolesReach
  HeldRolesExist
PROPERTIES
  AssignerRemains
SYMMETRY Symmetry
