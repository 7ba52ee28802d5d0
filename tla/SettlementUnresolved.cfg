\* A payment whose provider call failed after the provider had received it.
CONSTANTS
  c1 = c1
  c2 = c2
  c3 = c3
  k1 = k1
  k2 = k2
  Calls = {c1}
  Keys = {k1}
  KeyOf <- SoleKey
  HashOf <- SoleHash
  NoTx = NoTx
  Vocabulary = {"SUCCESS", "PENDING", "UNKNOWN"}
  Outcomes = {"succeeded"}
  EventStatuses = {"succeeded"}
  EventFits = {"fits"}
  Limit = 1
  MaxCrashes = 0
SPECIFICATION FairSpec
PROPERTIES
  LeftUnresolvedSettles
