SPECIFICATION Spec
CONSTANTS
  NPROC = 2
  NPages = 18
  PGSIZE = 2
  KERNBASE = 16
  UINT = 32
  NPTENTRIES = 4
  NALLOC = 3
  MaxCalls = 4
  Programs <- MCPrograms
  Deltas <- MCDeltas
  Budgets <- MCBudgets
  Sizes <- MCSizes
CHECK_DEADLOCK FALSE
INVARIANTS
  PagesArePartitioned
  AddressSpaceIsPrivate
  HeapIsTiled
