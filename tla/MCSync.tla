------------------------------- MODULE MCSync -------------------------------
(***************************************************************************)
(* The TLC instance of Sync: the boot thread, init, one thread created     *)
(* later and idle.  A slice of one tick makes a preemption of init need    *)
(* two clock interrupts, so that it can be switched out with its slice     *)
(* partly used; the others are preempted at every interrupt (slice zero),  *)
(* which is the worst case for them.                                       *)
(***************************************************************************)
EXTENDS Sync

CONSTANTS main, init, worker, idle

AllThreads == {main, init, worker, idle}
MCSlices == [t \in AllThreads |-> IF t = init THEN 1 ELSE 0]
Booted == <<init, idle>>
=============================================================================
