CONSTANTS
  Generations = 3
  k1 = k1
  k2 = k2
  AppKey = {k1, k2}
  Scope = {k1, k2}
  Stocks <- AnyStocks
  Journaled = {}
  Cap = 3
  MaxExports = 2
  MaxEdits = 1
  MaxFaults = 1
SPECIFICATION Spec

PROPERTIES OlderExportRefused
SYMMETRY Secrets
