SPECIFICATION MoveSpec
CONSTANTS
  Proc = {p1}
  None = None
  NInodes = 5
  NINODE = 5
  NOFILE = 1
  Opens <- MCNone
  Creates <- MCCreates
  Mkdirs <- MCNone
  Mknods <- MCNone
  Links <- MCNone
  Unlinks <- MCUnlinks
  Chdirs <- MCNone
  Moves <- MCMoves
  MaxCalls = 2
CHECK_DEADLOCK FALSE
PROPERTY
  EveryCallReturns
