CONSTANTS
  p1 = p1
  p2 = p2
  Peer = {p1, p2}
  MaxVersion = 2
  Empty = Empty
  Garbage = Garbage
  Signed <- SignedTwice
SPECIFICATION FairSpec
INVARIANTS OneOwes
PROPERTIES ImplementsNetwork Converges
