SPECIFICATION Spec
CONSTANTS
  shell = shell
  prog = prog
  other = other
  idle = idle
  kbd = kbd
  pipe = pipe
  NULL = NULL
  Semas = {kbd, pipe}
  Mutexes = {kbd, pipe}
  Threads <- PipeThreads
  idle_thread <- idle
  time_slice <- MCSlices
  queued <- PipeQueued
  bufsize = 3
  Bytes = {a, b}
  KbdReaders = {}
  PipeWriters = {prog, other}
  PipeReaders = {shell}
  MaxCount = 2
INVARIANTS NoPanic
PROPERTIES ImplementsFifo
SYMMETRY ByteSymmetry
