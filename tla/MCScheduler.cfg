SPECIFICATION FairSpec
CONSTANTS
  NPROC = 2
  NCPU = 1
  RRTime = 1
  SJFTime = 1
  FCFSTime = 1
  Quantum = 0
  Boundary = 0
  Seed = 1
  DefBurst = 0
  DefConfidence = 0
  TickMod = 4
  MaxTicks = 1
  MaxPid = 2
  MaxDebt = 1
  MaxField = 1
  Calls = {27, 28, 29, 31}
  Bursts = {1}
  Confidences = {0}
CHECK_DEADLOCK FALSE

  
PROPERTY
  WorkConserving
