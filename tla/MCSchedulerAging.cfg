SPECIFICATION FairSpec
CONSTANTS
  NPROC = 3
  NCPU = 1
  RRTime = 1
  SJFTime = 1
  FCFSTime = 1
  Quantum = 0
  Boundary = 0
  Seed = 2
  DefBurst = 2
  DefConfidence = 1
  TickMod = 3
  MaxTicks = 3
  MaxPid = 4
  MaxDebt = 4
  MaxField = 3
  Calls = {}
  Bursts = {}
  Confidences = {}
INVARIANT OvershootBounded
PROPERTIES  EventuallyPromoted
