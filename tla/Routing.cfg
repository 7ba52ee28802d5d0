\* Two lanes of one service and two accounts, two of the three routes they allow; fees by tenths.
CONSTANTS
  a1 = a1
  a2 = a2
  Lanes = {1, 2}
  Services = {{1, 2}}
  Accounts = {a1, a2}
  Offers <- ThreeOffers
  MaxPriority = 2
  MaxRoutes = 2
  Scale = 10
  MaxInt = 127
SPECIFICATION Spec
INVARIANTS
  TypeOK
  SteadyRouteServes
  ListedMethodsRoute
  ChargedExactly
