-------------------------------- MODULE Mutex --------------------------------
(***************************************************************************)
(* What mutex_acquire and mutex_release of thread/sync.c promise: one      *)
(* thread at a time between them, the same thread as often as it likes,    *)
(* and the mutex free again after as many releases as acquires.            *)
(***************************************************************************)
EXTENDS Naturals

CONSTANT Threads

VARIABLES
  inside,  \* the threads between mutex_acquire and the last mutex_release
  depth    \* acquires not yet released

Init == inside = {} /\ depth = 0

Enter(t) ==
  /\ inside = {}
  /\ inside' = {t}
  /\ depth' = 1

Reenter(t) ==
  /\ inside = {t}
  /\ depth' = depth + 1
  /\ UNCHANGED inside

Leave(t) ==
  /\ inside = {t}
  /\ \/ depth > 1 /\ depth' = depth - 1 /\ UNCHANGED inside
     \/ depth = 1 /\ depth' = 0 /\ inside' = {}

Next == \E t \in Threads : Enter(t) \/ Reenter(t) \/ Leave(t)

Spec == Init /\ [][Next]_<<inside, depth>>
=============================================================================
