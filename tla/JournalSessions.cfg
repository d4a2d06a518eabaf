CONSTANTS
  k1 = k1
  k2 = k2
  NoJournal = NoJournal
  CorruptJournal = CorruptJournal
  N = 1
  Key = {k1, k2}
  Session = {"s1", "s2"}
  Policy = "UnionAllGenerations"
  Buffering = TRUE
  Rejects <- NoRejects
  LegacyChoice = {}
  FaultyExport = TRUE
  UserActive = FALSE
  Sweeps = {1}
  MaxRevision = 0
  Damage = TRUE
  ShortRetry = FALSE
  CountsItems = FALSE
SPECIFICATION JSpec
INVARIANTS PartialCopyShows JournalHonest SealCoversData EmptySealHidesNoImport
