-------------------------------- MODULE MCIde --------------------------------
(***************************************************************************)
(* TLC instances of Ide: the boot thread, which runs the driver with       *)
(* interrupts on, a process and idle. Commands of at most two sectors and  *)
(* requests of up to three make a request of two commands, and a command   *)
(* of more than one sector.                                                *)
(***************************************************************************)
EXTENDS Ide, TLC

CONSTANTS main, prog, idle

MCThreads == {main, prog, idle}
MCQueued == <<prog, idle>>
MCRanges == {<<0, 3>>, <<2, 1>>}
OneSector == {<<0, 1>>}
MCSlices == [t \in MCThreads |-> 0]

\* No operation looks at a sector.
ValueSymmetry == Permutations(Values)
=============================================================================
