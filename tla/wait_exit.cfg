SPECIFICATION Spec
CONSTANTS
  init = init
  main = main
  idle = idle
  Pages = {p1, p2, p3}
  Threads <- MCThreads
  idle_thread <- idle
  main_thread <- main
  time_slice <- MCSlices
  MaxPid = 6
  MaxLost = 1
  Statuses <- MCStatuses
INVARIANTS TypeOK NoPanic TablesConsistent NoLostWakeup
PROPERTIES ImplementsFamily
SYMMETRY PageSymmetry
