SPECIFICATION Spec
CONSTANTS
  SecCnt = 12
  InodeCnt = 4
  BitsPerSec = 4
  SectorWords = 20
  Direct = 2
  TableLen = 3
  BlockSize = 2
  EntriesPerSec = 4
  Junk = Junk
  Procs = {p, q}
  init = p
  Users = {p}
  MaxFd = 5
  MaxSlot = 5
  Paths <- MCPaths
  FilePaths <- MCFilePaths
  DirPaths <- MCDirPaths
  OpenPaths <- MCOpenPaths
  OpenFlags <- MCOpenFlags
  Writes = {1, 2}
  Reads = {5}
  Seeks <- MCSeeks
  MaxCalls = 2
  MaxSize = 6
  ShareFiles = FALSE
INVARIANT MountedBitmap
CHECK_DEADLOCK FALSE
