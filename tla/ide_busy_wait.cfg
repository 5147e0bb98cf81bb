SPECIFICATION FairSpec
CONSTANTS
  main = main
  prog = prog
  idle = idle
  channel = channel
  disk_done = disk_done
  NULL = NULL
  Semas = {channel, disk_done}
  Mutexes = {channel}
  Threads <- MCThreads
  idle_thread <- idle
  main_thread <- main
  time_slice <- MCSlices
  queued <- MCQueued
  MaxLba = 0
  Values = {a}
  MaxSectors = 1
  Ranges <- OneSector
  TimeLimit = 2
  MaxSleep = 1
PROPERTIES BusyWaitEnds
