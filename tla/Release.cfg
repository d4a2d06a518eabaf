CONSTANTS
  a = a
  b = b
  c = c
  p = p
  q = q
  Code = {a, b, c}
  Stray = Stray
  Old = Old
  Odd = Odd
  Params = {p, q}
  AllowMissing = FALSE
  MaxGeneration = 2
  MaxRows = 3
  MaxMains = 4
SPECIFICATION Spec
INVARIANTS EveryReleaseReachable NewestAskedFirst OneEntryPerPredecessor
PROPERTIES EntriesStand
SYMMETRY Builds
