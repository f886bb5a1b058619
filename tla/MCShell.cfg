SPECIFICATION Spec
CONSTANTS
  NPROC = 6
  NFILE = 6
  NOFILE = 5
  NPage = 2
  PIPESIZE = 2
  UINT = 4
  ReadSize = 2
  FileName = {"console", "f"}
  MaxFaults = 1
  MAXARGS = 4
  Commands <- MCCommands
  BadLines <- MCBadLines
  Message <- MCMessage
CHECK_DEADLOCK FALSE
INVARIANTS
  RefsAreCounted
  RingIsQueue
  ParsesBack
  RunsAsMeant
PROPERTY
  Finishes
