\* Two payments whose rows and events share a pass of one row at a time.
CONSTANTS
  c1 = c1
  c2 = c2
  c3 = c3
  k1 = k1
  k2 = k2
  Calls = {c1, c2}
  Keys = {k1, k2}
  KeyOf <- TwoKeys
  HashOf <- TwoHashes
  NoTx = NoTx
  Vocabulary = {"SUCCESS", "PENDING"}
  Outcomes = {"succeeded"}
  EventStatuses = {"processing", "succeeded"}
  EventFits = {"fits"}
  Limit = 1
  MaxCrashes = 0
SPECIFICATION Spec
INVARIANTS
  IInv
PROPERTIES
  ImplementsPaymentOutcome
