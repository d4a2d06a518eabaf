CONSTANTS
  k1 = k1
  k2 = k2
  N = 1
  Key = {k1}
  Session = {"s1", "s2"}
  Policy = "NewestSnapshotWins"
  Buffering = FALSE
  Rejects <- NoRejects
  LegacyChoice <- NoGens
  FaultyExport = TRUE
  UserActive = FALSE
SPECIFICATION Spec
PROPERTIES DataSealStands
