SPECIFICATION Spec
CONSTANTS
  Proc = {p1, p2}
  Block = {1, 2, 3, 4}
  NBUF = 3
  MaxDirty = 1
  MaxOps = 3
  MaxKills = 1
  Scripts <- MCScripts
CHECK_DEADLOCK FALSE
INVARIANT
  NoPanic
PROPERTIES
  IsBlockStore
  
