-------------------------------- MODULE Fifo --------------------------------
(***************************************************************************)
(* What the ring buffers of device/ioqueue.c promise: bounded first-in     *)
(* first-out queues; a byte that is read is the oldest one in the queue.   *)
(***************************************************************************)
EXTENDS Naturals, Sequences

CONSTANTS Queues, Bytes, Capacity

VARIABLES
  items,  \* the bytes in each queue, oldest first
  byte    \* the byte that was written or read last

Init ==
  /\ items = [q \in Queues |-> <<>>]
  /\ byte \in Bytes

Put(q, b) ==
  /\ Len(items[q]) < Capacity
  /\ items' = [items EXCEPT ![q] = Append(@, b)]
  /\ byte' = b

Get(q) ==
  /\ items[q] # <<>>
  /\ items' = [items EXCEPT ![q] = Tail(@)]
  /\ byte' = Head(items[q])

Next ==
  \E q \in Queues : Get(q) \/ \E b \in Bytes : Put(q, b)

Spec == Init /\ [][Next]_<<items, byte>>
=============================================================================
