SPECIFICATION CallSpec
CONSTANTS
  Proc = {p1, p2, p3}
  None = None
  NCPU = 2
  Depth = 3
  MaxCalls = 3
  MaxNumber = 1000
SYMMETRY Symmetry
CHECK_DEADLOCK FALSE
INVARIANTS
  MutualExclusion
  RecursionIsLevel
  
  
  PalindromeIsRight
