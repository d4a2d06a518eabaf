CONSTANTS
  k1 = k1
  k2 = k2
  N = 3
  Key = {k1, k2}
  Session = {"s1"}
  Policy = "UnionAllGenerations"
  Buffering = TRUE
  Rejects <- RejectNewest
  LegacyChoice = {1}
  FaultyExport = FALSE
  UserActive = FALSE
SPECIFICATION LiveSpec
INVARIANTS NoShadowInRun StopsOnlyOnRejections
PROPERTIES ImplementsSecretCopy EventuallySealed RetriesSettle
