SPECIFICATION Spec
CONSTANTS
  BSIZE = 2
  NDIRECT = 1
  FSSIZE = 18
  NINODES = 3
  IPB = 2
  BPB = 13
  NLOG = 1
  MAXOPBLOCKS = 6
  Proc = {p, q}
  File = {f1, f2}
  NoFile = nofile
  MaxCalls = 6
  Image <- MCImage
  Sources <- MCSources
SYMMETRY MCSymmetry
CHECK_DEADLOCK FALSE
INVARIANTS
  BlocksAreExact
  ReadsBack
  
