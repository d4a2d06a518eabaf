CONSTANTS
  Generations = 3
  k1 = k1
  k2 = k2
  AppKey = {k1, k2}
  Scope = {k1, k2}
  Stocks <- Oldest
  Journaled = {2}
  Cap = 4
  MaxExports = 2
  MaxEdits = 1
  MaxFaults = 1
SPECIFICATION FairSpec
INVARIANTS TypeOK FlagTellsData
PROPERTIES SealCoversReadable NoResurrection NoRollback Finishes
