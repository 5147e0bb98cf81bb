SPECIFICATION Spec
CONSTANTS
  shell = shell
  prog = prog
  other = other
  idle = idle
  kbd = kbd
  pipe = pipe
  NULL = NULL
  Semas = {kbd, pipe}
  Mutexes = {kbd, pipe}
  Threads <- MCThreads
  idle_thread <- idle
  time_slice <- MCSlices
  queued <- MCQueued
  bufsize = 3
  Bytes = {a, b}
  KbdReaders = {shell, prog}
  PipeWriters = {}
  PipeReaders = {}
  MaxCount = 2
PROPERTIES EmptyRingBlocks
SYMMETRY ByteSymmetry
