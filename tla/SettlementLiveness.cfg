\* Two payments, asked for one after the other, and an event of each: events may be lost,
\* come early or be overtaken, calls fail, the process dies.
CONSTANTS
  c1 = c1
  c2 = c2
  c3 = c3
  k1 = k1
  k2 = k2
  Calls = {c1, c2}
  Keys = {k1, k2}
  KeyOf <- TwoKeys
  HashOf <- TwoHashes
  NoTx = NoTx
  Vocabulary = {"SUCCESS", "PENDING"}
  Outcomes = {"succeeded"}
  EventStatuses = {"processing"}
  EventFits = {"fits"}
  Limit = 2
  MaxCrashes = 1
SPECIFICATION TurnSpec
PROPERTIES
  DecidedSettles
  EarlyEventsApplied
