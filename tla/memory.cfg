SPECIFICATION Spec
CONSTANTS
  KERNEL = KERNEL
  init = init
  child = child
  Procs = {init, child}
  KPages = 11
  UPages = 4
  UVPages = 96
  TableSpan = 48
  PG_SIZE = 8
  ArenaSize = 4
  MinBlock = 2
  UnitCnt = 2
  Sizes <- MCSizes
  MaxHeld <- MCMaxHeld
  ImagePages = {94}
  MaxRun = 3
INVARIANTS TypeOK OnlyFullPools PoolsAgree TasksOwnPages HeapSound ScanExact
