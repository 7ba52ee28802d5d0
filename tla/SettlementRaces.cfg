\* A payment, its retry and a different request under one key, every path that may
\* settle it, a restart, and a provider whose events are late, repeated, reordered or
\* wrong.
CONSTANTS
  c1 = c1
  c2 = c2
  c3 = c3
  k1 = k1
  k2 = k2
  Calls = {c1, c2, c3}
  Keys = {k1}
  KeyOf <- OneKey
  HashOf <- ThreeHashes
  NoTx = NoTx
  Vocabulary = {"SUCCESS", "DECLINED", "PENDING"}
  Outcomes = {"succeeded", "failed"}
  EventStatuses = {"processing", "unknown", "succeeded", "failed"}
  EventFits = {"fits", "differs unhashed"}
  Limit = 2
  MaxCrashes = 1
SPECIFICATION Spec
SYMMETRY Symmetry
INVARIANTS
  PaidOncePerKey
  RepliesAgree
  OwnedByRequest
  SettledTruthfully
  SettledTogether
  ProcessedEventsCount
  AnnouncedOnce
PROPERTIES
  StatusFollowsGraph
