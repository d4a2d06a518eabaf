CONSTANTS
  k1 = k1
  k2 = k2
  N = 3
  Key = {k1, k2}
  Session = {"s1"}
  Policy = "NewestSnapshotWins"
  Buffering = FALSE
  Rejects <- NoRejects
  LegacyChoice = {1, 2}
  FaultyExport = FALSE
  UserActive = TRUE
SPECIFICATION Spec
INVARIANTS NewestSnapshotOnly CompleteMeansLanded
PROPERTIES SealedNeverRecopied

