SPECIFICATION FairSpec
CONSTANTS
  main = main
  init = init
  worker = worker
  idle = idle
  NOBODY = NOBODY
  mutex = mutex
  Semas = {mutex}
  Threads <- AllThreads
  idle_thread <- idle
  main_thread <- main
  time_slice <- MCSlices
  booted <- Booted
  MaxRepeat = 2
INVARIANTS TypeOK NoPanic QueuesConsistent MutualExclusion NoLostWakeup
PROPERTIES ImplementsMutex ReadyRuns WaiterWoken
