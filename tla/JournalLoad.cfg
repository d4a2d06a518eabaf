CONSTANTS
  k1 = k1
  k2 = k2
  NoJournal = NoJournal
  CorruptJournal = CorruptJournal
  N = 2
  Key = {k1, k2}
  Session = {"s1"}
  Policy = "ContinuePastUnresponsive"
  Buffering = FALSE
  Rejects <- RejectNewest
  LegacyChoice = {2}
  FaultyExport = TRUE
  UserActive = TRUE
  Sweeps = {1, 2}
  MaxRevision = 1
  Damage = FALSE
  ShortRetry = TRUE
  CountsItems = TRUE
SPECIFICATION JSpec
INVARIANTS JTypeOK SealCoversData
PROPERTIES CompleteIsTrue RejectionsTold InterruptedIsTold ResolvedNotReoffered KnownDataNeverPassed
