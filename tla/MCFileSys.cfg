SPECIFICATION Spec
CONSTANTS
  Proc = {p1, p2}
  None = None
  NInodes = 5
  NINODE = 5
  NOFILE = 1
  Opens <- MCOpens
  Creates <- MCCreates
  Mkdirs <- MCMkdirs
  Mknods <- MCMknods
  Links <- MCLinks
  Unlinks <- MCUnlinks
  Chdirs <- MCChdirs
  MaxCalls = 3
CHECK_DEADLOCK FALSE
INVARIANTS
  NoPanic
  EntryIsCounted
  PointersAreCounted
