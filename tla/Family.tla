------------------------------- MODULE Family -------------------------------
(***************************************************************************)
(* What fork, exit and wait promise: a tree of processes.  A process that  *)
(* exits leaves its exit status behind and its children to init; only its  *)
(* parent takes the status, once, and then the process is gone.  Processes *)
(* are themselves here, not process ids.                                   *)
(***************************************************************************)
CONSTANTS
  Processes,
  init,      \* the process that gets the orphans
  roots,     \* processes nobody waits for
  orphan,    \* the parent of a root; not a process
  Statuses   \* what exit may leave behind

VARIABLES
  parent,  \* parent[p], of every process p there is
  zombies  \* exit status of every process that exited and was not waited for

vars == <<parent, zombies>>

Alive == DOMAIN parent \ DOMAIN zombies

Remove(f, p) == [q \in DOMAIN f \ {p} |-> f[q]]

Put(f, p, v) == [q \in DOMAIN f \cup {p} |-> IF q = p THEN v ELSE f[q]]

Init ==
  /\ parent = [p \in roots |-> orphan]
  /\ zombies = [p \in {} |-> 0]

Fork(p, c) ==
  /\ p \in Alive /\ c \notin DOMAIN parent
  /\ parent' = Put(parent, c, p)
  /\ UNCHANGED zombies

Exit(p, status) ==
  /\ p \in Alive /\ p \notin roots
  /\ zombies' = Put(zombies, p, status)
  /\ parent' = [q \in DOMAIN parent |-> IF parent[q] = p THEN init ELSE parent[q]]

Wait(p, c) ==
  /\ p \in Alive /\ c \in DOMAIN zombies /\ parent[c] = p
  /\ parent' = Remove(parent, c)
  /\ zombies' = Remove(zombies, c)

\* A root without children goes away without a trace.
Leave(p) ==
  /\ p \in roots \ {init} /\ p \in Alive
  /\ \A q \in DOMAIN parent : parent[q] # p
  /\ parent' = Remove(parent, p)
  /\ UNCHANGED zombies

Next ==
  \/ \E p, c \in Processes : Fork(p, c) \/ Wait(p, c)
  \/ \E p \in Processes, status \in Statuses : Exit(p, status)
  \/ \E p \in roots : Leave(p)

Spec == Init /\ [][Next]_vars
=============================================================================
