SPECIFICATION FairSpec
CONSTANTS
  Proc = {p1, p2}
  Block = {b1, b2}
  None = None
  MAXOPBLOCKS = 4
  LOGSIZE = 8
  NLog = 8
  OpBlocks = 2
  MaxOps = 3
  MaxCrashes = 2
CHECK_DEADLOCK FALSE
INVARIANTS
  NoPanic
  SleeperHasWaker
  UnwrittenIsPinned
  WholeCallsAreDurable
PROPERTIES
  ImplementsAtomicDisk
  
