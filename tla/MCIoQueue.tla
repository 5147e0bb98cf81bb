------------------------------ MODULE MCIoQueue ------------------------------
(***************************************************************************)
(* TLC instances of IoQueue: two user processes and idle, or three that    *)
(* share a pipe.                                                           *)
(***************************************************************************)
EXTENDS IoQueue, TLC

CONSTANTS shell, prog, other, idle

MCThreads == {shell, prog, idle}
MCQueued == <<prog, idle>>

PipeThreads == {shell, prog, other, idle}
PipeQueued == <<prog, other, idle>>

MCSlices == [t \in Threads |-> 0]

\* No operation looks at a byte.
ByteSymmetry == Permutations(Bytes)
=============================================================================
