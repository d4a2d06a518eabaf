CONSTANTS
  p1 = p1
  p2 = p2
  Peer = {p1, p2}
  MaxVersion = 4
  Empty = Empty
  Garbage = Garbage
  None = None
  BakedIn = BakedIn
  Stopped = Stopped
  Absent = Absent
  Signed <- Competing
SPECIFICATION FairConsumerSpec
INVARIANTS KeyStands
PROPERTIES FloorNeverFalls CatchesUp
