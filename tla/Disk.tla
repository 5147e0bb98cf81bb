-------------------------------- MODULE Disk --------------------------------
(***************************************************************************)
(* What ide_read and ide_write of device/ide.c promise: a request of any   *)
(* number of sectors takes effect at one instant.                          *)
(***************************************************************************)
EXTENDS Naturals, FiniteSets, Sequences

CONSTANTS
  Lbas,    \* the sectors
  Values   \* what a sector holds

VARIABLES
  disk,    \* the contents of every sector
  result   \* the sectors ide_read returned, until its caller goes on

Init ==
  /\ disk \in [Lbas -> Values]
  /\ result = <<>>

Read(lba, n) ==
  /\ result' = [i \in 1..n |-> disk[lba + i - 1]]
  /\ UNCHANGED disk

Forget ==
  /\ result' = <<>>
  /\ UNCHANGED disk

Write(lba, data) ==
  /\ disk' = [l \in Lbas |-> IF l \in lba..lba + Len(data) - 1
                             THEN data[l - lba + 1] ELSE disk[l]]
  /\ UNCHANGED result

Next ==
  \/ Forget
  \/ \E lba \in Lbas : \E n \in 1..Cardinality({l \in Lbas : l >= lba}) :
       Read(lba, n) \/ \E data \in [1..n -> Values] : Write(lba, data)

Spec == Init /\ [][Next]_<<disk, result>>
=============================================================================
