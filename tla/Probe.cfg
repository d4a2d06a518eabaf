CONSTANTS
  a = a
  b = b
  c = c
  Id = {a, b, c}
  Local = Local
  Pointer = Pointer
  Lineages <- AllLineages
  Setups <- AllSetups
SPECIFICATION FairSpec
INVARIANTS NoRollback NothingLeftUnsaid ForwardIsPrepared
PROPERTIES ProbeEnds RealIsAdopted
