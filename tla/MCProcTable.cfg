SPECIFICATION Spec
CONSTANTS
  NPROC = 4
  NCPU = 2
  Pages = 6
  TickMod = 2
  SleepArgs = {1}
  Sleepers = {2, 3}
  KillArgs = {3}
  MaxPid = 4
INVARIANTS
  OneCpuPerProcess
  NoLostExit
  ParentIsAlive
  NothingLeaks
  NoLostTick
