SPECIFICATION Spec
CONSTANTS
  main = main
  prog = prog
  idle = idle
  channel = channel
  disk_done = disk_done
  NULL = NULL
  Semas = {channel, disk_done}
  Mutexes = {channel}
  Threads <- MCThreads
  idle_thread <- idle
  main_thread <- main
  time_slice <- MCSlices
  queued <- MCQueued
  MaxLba = 2
  Values = {a, b}
  MaxSectors = 2
  Ranges <- MCRanges
  TimeLimit = 2
  MaxSleep = 1
INVARIANTS TypeOK OnlyTimeoutPanics CommandsInTurn NoLostInterrupt
           InterruptsExpected
PROPERTIES ImplementsDisk
SYMMETRY ValueSymmetry
