--------------------------- MODULE IoQueueProofs ----------------------------
(***************************************************************************)
(* The ring buffers are correct for rings of every size, and every number  *)
(* of threads that read the keyboard or share a pipe: no ASSERT fails.     *)
(* With one reader of the keyboard they are bounded first-in first-out     *)
(* queues, and no reader sleeps on a ring that has a byte for it; with one *)
(* writer to the pipe no writer sleeps on a ring that has room.  (With two *)
(* of them that is false.)                                                 *)
(*                                                                         *)
(* The inductive invariant says where a thread can be in its call          *)
(* (Control, Calls), that each queue's mutex is held exactly by the thread *)
(* inside ioq_wait, with the others in its waiters (Locks), and that the   *)
(* consumer and producer slots hold exactly the threads suspended there    *)
(* (Slots).  A system call does several things in one step, so all but     *)
(* Calls is stated of a kernel state s, control points p, calls c and      *)
(* rings io (Kernel): each part of a step has a lemma that takes one       *)
(* Kernel to the next, and a step composes them.                           *)
(***************************************************************************)
EXTENDS IoQueue, ThreadProofs

PC == {"user", "get", "getlock", "getwait", "put", "putlock", "putwait", "idle", "halt"}

Call == [ioq : Queues, left : 0..MaxCount]

(* Where a thread can be, and in which state. *)
Control(s, p, c) ==
  /\ p[idle_thread] \in {"idle", "halt"}
  /\ \A t \in Threads \ {idle_thread} :
       /\ p[t] \notin {"idle", "halt"}
       /\ p[t] # "user" => c[t].left # 0
       /\ p[t] \in {"get", "put"} => t = s.cur
       /\ p[t] \in {"user", "get", "put"} => Runnable(s.status[t])
       /\ Runnable(s.status[t]) \/ s.status[t] = "BLOCKED"

(* t is inside ioq_wait on q, or about to leave it. *)
Holds(p, c, t, q) == p[t] \in {"getwait", "putwait"} /\ c[t].ioq = q

(* t waits for the mutex of q. *)
WaitsFor(p, c, t, q) == p[t] \in {"getlock", "putlock"} /\ c[t].ioq = q

Locks(s, p, c) ==
  \A q \in Queues :
    /\ NoDuplicates(s.sema[q].waiters)
    /\ \A t \in Threads :
         /\ t \in Sleepers(s, q) <=> WaitsFor(p, c, t, q) /\ s.status[t] = "BLOCKED"
         /\ s.mutex[q].holder = t <=> Holds(p, c, t, q)
    /\ \/ s.mutex[q] = mutex_init /\ s.sema[q].value = 1
       \/ /\ s.mutex[q].holder # NULL /\ s.mutex[q].repeat = 1
          /\ s.sema[q].value = 0

(* The waiting slots of the rings and the threads suspended in ioq_wait. *)
Slots(s, p, c, io) ==
  \A q \in Queues :
    /\ io[q].consumer \in Threads \cup {NULL} /\ io[q].producer \in Threads \cup {NULL}
    /\ \A t \in Threads :
         /\ io[q].consumer = t <=>
              p[t] = "getwait" /\ c[t].ioq = q /\ s.status[t] = "BLOCKED"
         /\ io[q].producer = t <=>
              p[t] = "putwait" /\ c[t].ioq = q /\ s.status[t] = "BLOCKED"

Kernel(s, p, c, io) ==
  /\ KernelSound(s) /\ p \in [Threads -> PC] /\ c \in [Threads -> Call]
  /\ Control(s, p, c) /\ Locks(s, p, c) /\ Slots(s, p, c, io)

(* Whose calls get where: a reader of the pipe asks for no more than there *)
(* is, so only readers of the keyboard wait as consumers.                  *)
CallSound(t) ==
  /\ pc[t] \in {"getlock", "getwait"} => t \in KbdReaders /\ call[t].ioq = kbd
  /\ pc[t] = "get" => IF call[t].ioq = kbd THEN t \in KbdReaders
                                           ELSE call[t].left <= ioq_length(pipe)
  /\ pc[t] \in {"put", "putlock", "putwait"} => t \in PipeWriters /\ call[t].ioq = pipe

Calls == \A t \in Threads : CallSound(t)

Ring ==
  [buf      : [0..bufsize - 1 -> Bytes],
   head     : 0..bufsize - 1,
   tail     : 0..bufsize - 1,
   consumer : Threads \cup {NULL},
   producer : Threads \cup {NULL}]

Rings == [Queues -> Ring]

(* The inductive invariant. *)
IInv == Kernel(sched, pc, call, ioq) /\ ioq \in Rings /\ byte \in Bytes /\ Calls

(* With one reader of the keyboard: it never queues for the mutex, sleeps  *)
(* only on an empty ring and, once woken, finds a byte.                    *)
ReadersWoken ==
  \A t \in Threads :
    /\ pc[t] # "getlock"
    /\ pc[t] = "getwait" => (sched.status[t] = "BLOCKED" <=> ioq_empty(kbd))

(* With one writer to the pipe: it never queues for the mutex, and sleeps  *)
(* only on a full ring.                                                    *)
WritersWoken ==
  \A t \in Threads :
    /\ pc[t] # "putlock"
    /\ pc[t] = "putwait" /\ sched.status[t] = "BLOCKED" => ioq_full(pipe)

OneReader == \A t, u \in KbdReaders : t = u

OneWriter == \A t, u \in PipeWriters : t = u

-----------------------------------------------------------------------------
(* The parts of a step *)

(* What Kernel says, as the proofs use it. *)
LEMMA KernelFacts ==
  ASSUME NEW s, NEW p, NEW c, NEW io, Kernel(s, p, c, io)
  PROVE  /\ KernelSound(s) /\ s.cur \in Threads /\ s.status \in [Threads -> Status]
         /\ s.status[s.cur] = "RUNNING"
         /\ s.mutex \in [Mutexes -> [holder : Threads \cup {NULL}, repeat : Nat]]
         /\ Queues = Mutexes /\ Queues \subseteq Semas /\ NULL \notin Threads
         /\ idle_thread \in Threads
         /\ \A q \in Queues : WaitersSound(s, q)
<1>1. /\ KernelSound(s) /\ s.cur \in Threads /\ s.status \in [Threads -> Status]
      /\ s.status[s.cur] = "RUNNING" /\ s.mutex \in MutexState
  BY DEF Kernel, KernelSound, SemaState, ThreadState, RunQueueConsistent
<1>2. Queues = Mutexes /\ Queues \subseteq Semas /\ NULL \notin Threads /\ idle_thread \in Threads
  BY IoQueueAssumption, KMutexAssumption, ThreadAssumption DEF Queues
<1>3. \A q \in Queues : WaitersSound(s, q)
  <2>1. Locks(s, p, c) /\ Control(s, p, c)
    BY DEF Kernel
  <2>2. ASSUME NEW q \in Queues, NEW t \in Sleepers(s, q)
        PROVE  t # idle_thread /\ s.status[t] = "BLOCKED"
    BY <2>1, <2>2 DEF Locks, Control, WaitsFor, Sleepers
  <2> QED BY <2>1, <2>2 DEF Locks, WaitersSound
<1> QED BY <1>1, <1>2, <1>3 DEF MutexState

(* The running thread goes on in the kernel, or leaves or enters it.       *)
LEMMA LocalPart ==
  ASSUME NEW s, NEW p, NEW c, NEW io, Kernel(s, p, c, io), NEW t, t = s.cur,
         t # idle_thread, p[t] \in {"user", "get", "put"},
         NEW to \in {"user", "get", "put"}, NEW e \in Call, to # "user" => e.left # 0
  PROVE  Kernel(s, [p EXCEPT ![t] = to], [c EXCEPT ![t] = e], io)
<1> DEFINE p1 == [p EXCEPT ![t] = to]
           c1 == [c EXCEPT ![t] = e]
<1>1. /\ KernelSound(s) /\ t \in Threads /\ s.status[t] = "RUNNING"
      /\ p \in [Threads -> PC] /\ c \in [Threads -> Call] /\ idle_thread \in Threads
      /\ Control(s, p, c) /\ Locks(s, p, c) /\ Slots(s, p, c, io)
  BY KernelFacts DEF Kernel
<1>2. /\ p1 \in [Threads -> PC] /\ c1 \in [Threads -> Call]
      /\ p1[t] = to /\ c1[t] = e
      /\ \A u \in Threads \ {t} : p1[u] = p[u] /\ c1[u] = c[u]
  BY <1>1 DEF PC
<1> HIDE DEF p1, c1
<1>3. Control(s, p1, c1)
  <2>1. p1[idle_thread] \in {"idle", "halt"}
    BY <1>1, <1>2 DEF Control
  <2>2. ASSUME NEW u \in Threads \ {idle_thread}
        PROVE  /\ p1[u] \notin {"idle", "halt"}
               /\ p1[u] # "user" => c1[u].left # 0
               /\ p1[u] \in {"get", "put"} => u = s.cur
               /\ p1[u] \in {"user", "get", "put"} => Runnable(s.status[u])
               /\ Runnable(s.status[u]) \/ s.status[u] = "BLOCKED"
    BY <1>1, <1>2 DEF Control, Runnable
  <2> QED BY <2>1, <2>2 DEF Control
<1>4. \A u \in Threads, q \in Queues :
        /\ Holds(p1, c1, u, q) <=> Holds(p, c, u, q)
        /\ WaitsFor(p1, c1, u, q) <=> WaitsFor(p, c, u, q)
  BY <1>1, <1>2 DEF Holds, WaitsFor
<1>5. Locks(s, p1, c1)
  BY <1>1, <1>4 DEF Locks
<1>6. Slots(s, p1, c1, io)
  BY <1>1, <1>2 DEF Slots
<1> QED BY <1>1, <1>2, <1>3, <1>5, <1>6 DEF Kernel, p1, c1

(* The mutex of q has been released, and one of its waiters woken. *)
Leaves(s, r, q) == \E W \in SUBSET Sleepers(s, q) : LetGo(s, r, q, W)

(* The thread that comes from ioq_wait holds the mutex once: no ASSERT of  *)
(* mutex_release fails.                                                    *)
LEMMA HolderReleases ==
  ASSUME NEW s, NEW p, NEW c, NEW io, Kernel(s, p, c, io), NEW t, t = s.cur,
         p[t] \in {"getwait", "putwait"}, NEW q, q = c[t].ioq
  PROVE  Leaves(s, mutex_release(s, q), q)
<1>1. /\ KernelSound(s) /\ t \in Threads /\ q \in Queues /\ q \in Mutexes
      /\ Locks(s, p, c) /\ WaitersSound(s, q) /\ NULL \notin Threads
  BY KernelFacts DEF Kernel, Call
<1>2. s.mutex[q].holder = t
  BY <1>1 DEF Locks, Holds
<1>3. s.mutex[q].repeat = 1 /\ s.sema[q].value = 0
  BY <1>1, <1>2 DEF Locks, mutex_init
<1> QED BY <1>1, <1>2, <1>3, ReleaseFacts DEF Leaves

(* From s to r only threads that wait for a mutex are woken. *)
OnlyLocksWoken(s, r, p) ==
  \A u \in Threads :
    /\ r.status[u] = "BLOCKED" => s.status[u] = "BLOCKED"
    /\ s.status[u] = "BLOCKED" /\ p[u] \notin {"getlock", "putlock"} => r.status[u] = "BLOCKED"

(* mutex_release by that thread: nobody else is in ioq_wait on that ring.  *)
LEMMA ReleasePart ==
  ASSUME NEW s, NEW p, NEW c, NEW io, Kernel(s, p, c, io), NEW t, t = s.cur,
         p[t] \in {"getwait", "putwait"}, NEW to, to \in {"get", "put"},
         NEW q, q = c[t].ioq, NEW r, Leaves(s, r, q)
  PROVE  /\ Kernel(r, [p EXCEPT ![t] = to], c, io) /\ r.cur = t
         /\ io[q].consumer = NULL /\ io[q].producer = NULL
         /\ Available(r, q) /\ OnlyLocksWoken(s, r, p)
<1> DEFINE p1 == [p EXCEPT ![t] = to]
<1>1. /\ KernelSound(s) /\ t \in Threads /\ s.status[t] = "RUNNING"
      /\ p \in [Threads -> PC] /\ c \in [Threads -> Call] /\ q \in Queues
      /\ Control(s, p, c) /\ Locks(s, p, c) /\ Slots(s, p, c, io)
      /\ q \in Mutexes /\ WaitersSound(s, q) /\ NULL \notin Threads
      /\ idle_thread \in Threads /\ s.status \in [Threads -> Status]
      /\ s.mutex \in [Mutexes -> [holder : Threads \cup {NULL}, repeat : Nat]]
      /\ Queues = Mutexes
  BY KernelFacts DEF Kernel, Call
<1>2. Holds(p, c, t, q) /\ s.mutex[q].holder = t
  BY <1>1 DEF Locks, Holds
<1>5. PICK W \in SUBSET Sleepers(s, q) : LetGo(s, r, q, W)
  BY DEF Leaves
<1>6. /\ KernelSound(r) /\ Keeps(s, r, {q}) /\ r.cur = t
      /\ r.mutex = [s.mutex EXCEPT ![q] = mutex_init]
      /\ r.sema[q].value = 1
      /\ NoDuplicates(r.sema[q].waiters) /\ Sleepers(r, q) = Sleepers(s, q) \ W
      /\ \A u \in Threads : r.status[u] = IF u \in W THEN "READY" ELSE s.status[u]
  BY <1>5 DEF LetGo
<1>7. /\ p1 \in [Threads -> PC] /\ p1[t] = to
      /\ \A u \in Threads \ {t} : p1[u] = p[u]
  BY <1>1 DEF PC
<1> HIDE DEF p1
<1>8. \A u \in W : /\ u \in Threads /\ p[u] \in {"getlock", "putlock"}
                   /\ c[u].ioq = q /\ s.status[u] = "BLOCKED" /\ u # t
  BY <1>1 DEF Locks, WaitsFor, Sleepers
<1>9. \A u \in Threads \ {t} : ~Holds(p, c, u, q)
  BY <1>1, <1>2 DEF Locks
<1>10. io[q].consumer = NULL /\ io[q].producer = NULL
  <2>1. ASSUME NEW u \in Threads PROVE io[q].consumer # u /\ io[q].producer # u
    <3>1. /\ io[q].consumer = u => Holds(p, c, u, q) /\ s.status[u] = "BLOCKED"
          /\ io[q].producer = u => Holds(p, c, u, q) /\ s.status[u] = "BLOCKED"
      BY <1>1 DEF Slots, Holds
    <3> QED BY <1>1, <1>9, <3>1
  <2> QED BY <1>1, <2>1 DEF Slots
<1>11. t # idle_thread
  BY <1>1 DEF Control
<1>12. Control(r, p1, c)
  <2>1. p1[idle_thread] \in {"idle", "halt"}
    BY <1>1, <1>7, <1>11 DEF Control
  <2>2. ASSUME NEW u \in Threads \ {idle_thread}
        PROVE  /\ p1[u] \notin {"idle", "halt"}
               /\ p1[u] # "user" => c[u].left # 0
               /\ p1[u] \in {"get", "put"} => u = r.cur
               /\ p1[u] \in {"user", "get", "put"} => Runnable(r.status[u])
               /\ Runnable(r.status[u]) \/ r.status[u] = "BLOCKED"
    <3>1. CASE u = t
      BY <1>1, <1>6, <1>7, <1>8, <1>11, <3>1 DEF Control, Runnable
    <3>2. CASE u # t
      BY <1>1, <1>6, <1>7, <1>8, <3>2 DEF Control, Runnable
    <3> QED BY <3>1, <3>2
  <2> QED BY <2>1, <2>2 DEF Control
<1>13. Locks(r, p1, c)
  <2> SUFFICES ASSUME NEW x \in Queues
               PROVE  /\ NoDuplicates(r.sema[x].waiters)
                      /\ \A u \in Threads :
                           /\ u \in Sleepers(r, x) <=>
                                WaitsFor(p1, c, u, x) /\ r.status[u] = "BLOCKED"
                           /\ r.mutex[x].holder = u <=> Holds(p1, c, u, x)
                      /\ \/ r.mutex[x] = mutex_init /\ r.sema[x].value = 1
                         \/ /\ r.mutex[x].holder # NULL /\ r.mutex[x].repeat = 1
                            /\ r.sema[x].value = 0
    BY DEF Locks
  <2>0. \A u \in Threads : WaitsFor(p1, c, u, x) <=> WaitsFor(p, c, u, x)
    BY <1>1, <1>7 DEF WaitsFor
  <2>1. CASE x = q
    <3>1. r.mutex[x] = mutex_init
      BY <1>1, <1>6, <2>1
    <3>2. ASSUME NEW u \in Threads PROVE r.mutex[x].holder # u /\ ~Holds(p1, c, u, x)
      <4>1. r.mutex[x].holder # u
        BY <1>1, <3>1 DEF mutex_init
      <4>2. ~Holds(p1, c, u, x)
        BY <1>7, <1>9, <2>1 DEF Holds
      <4> QED BY <4>1, <4>2
    <3>3. ASSUME NEW u \in Threads
          PROVE  u \in Sleepers(r, x) <=> WaitsFor(p1, c, u, x) /\ r.status[u] = "BLOCKED"
      <4>1. u \in Sleepers(s, q) <=> WaitsFor(p, c, u, q) /\ s.status[u] = "BLOCKED"
        BY <1>1 DEF Locks
      <4> QED BY <1>6, <2>0, <2>1, <4>1
    <3> QED BY <1>6, <2>1, <3>1, <3>2, <3>3
  <2>2. CASE x # q
    <3>1. r.sema[x] = s.sema[x] /\ r.mutex[x] = s.mutex[x]
      BY <1>1, <1>6, <2>2, KMutexAssumption DEF Keeps
    <3>2. \A u \in Threads : Holds(p1, c, u, x) <=> Holds(p, c, u, x)
      BY <1>1, <1>7, <2>2 DEF Holds
    <3>3. \A u \in Threads : u \in Sleepers(r, x) <=> u \in Sleepers(s, x)
      BY <3>1 DEF Sleepers
    <3>4. \A u \in Threads : WaitsFor(p1, c, u, x) => u \notin W
      BY <1>8, <2>0, <2>2 DEF WaitsFor
    <3>5. ASSUME NEW u \in Threads
          PROVE  u \in Sleepers(r, x) <=> WaitsFor(p1, c, u, x) /\ r.status[u] = "BLOCKED"
      <4>1. u \in Sleepers(s, x) <=> WaitsFor(p, c, u, x) /\ s.status[u] = "BLOCKED"
        BY <1>1 DEF Locks
      <4> QED BY <1>6, <2>0, <3>3, <3>4, <4>1
    <3> QED BY <1>1, <3>1, <3>2, <3>5 DEF Locks
  <2> QED BY <2>1, <2>2
<1>14. Slots(r, p1, c, io)
  <2>1. ASSUME NEW u \in Threads, NEW x \in Queues
        PROVE  /\ io[x].consumer = u <=>
                    p1[u] = "getwait" /\ c[u].ioq = x /\ r.status[u] = "BLOCKED"
               /\ io[x].producer = u <=>
                    p1[u] = "putwait" /\ c[u].ioq = x /\ r.status[u] = "BLOCKED"
    BY <1>1, <1>6, <1>7, <1>8 DEF Slots
  <2> QED BY <1>1, <2>1 DEF Slots
<1>15. OnlyLocksWoken(s, r, p)
  BY <1>6, <1>8 DEF OnlyLocksWoken
<1>16. Available(r, q)
  BY <1>1, <1>6 DEF Available
<1> QED BY <1>1, <1>6, <1>7, <1>10, <1>12, <1>13, <1>14, <1>15, <1>16 DEF Kernel, p1

(* ioq_wakeup of the thread in a waiting slot, if there is one: it is      *)
(* suspended, and its slot is empty afterwards.                            *)
LEMMA WakePart ==
  ASSUME NEW s, NEW p, NEW c, NEW io, Kernel(s, p, c, io), NEW io2,
         NEW u \in Threads \cup {NULL},
         \A q \in Queues :
           /\ io2[q].consumer = IF io[q].consumer = u THEN NULL ELSE io[q].consumer
           /\ io2[q].producer = IF io[q].producer = u THEN NULL ELSE io[q].producer,
         u # NULL => \E q \in Queues : io[q].consumer = u \/ io[q].producer = u
  PROVE  LET r == Wakeup(s, u)
         IN  /\ Kernel(r, p, c, io2) /\ r.cur = s.cur
             /\ \A v \in Threads :
                  r.status[v] = IF v = u THEN "READY" ELSE s.status[v]
<1>1. /\ KernelSound(s) /\ s.cur \in Threads /\ s.status[s.cur] = "RUNNING"
      /\ s.status \in [Threads -> Status]
      /\ p \in [Threads -> PC] /\ c \in [Threads -> Call]
      /\ Control(s, p, c) /\ Locks(s, p, c) /\ Slots(s, p, c, io)
      /\ NULL \notin Threads /\ Queues \subseteq Semas
  BY KernelFacts DEF Kernel
<1>2. PICK r : r = Wakeup(s, u)
  OBVIOUS
<1>3. CASE u = NULL
  <2>1. r = s
    BY <1>2, <1>3 DEF Wakeup
  <2>2. Slots(s, p, c, io2)
    BY <1>1, <1>3 DEF Slots
  <2> QED BY <1>1, <1>2, <1>3, <2>1, <2>2 DEF Kernel
<1>4. CASE u # NULL
  <2>1. u \in Threads /\ s.status[u] = "BLOCKED" /\ p[u] \in {"getwait", "putwait"}
    BY <1>1, <1>4 DEF Slots
  <2>2. Woken(s, r, u)
    <3>1. s.status[u] \in Suspended /\ r = thread_unblock(s, u)
      BY <1>2, <1>4, <2>1 DEF Suspended, Wakeup
    <3> QED BY <1>1, <2>1, <3>1, WokenFacts
  <2>3. /\ KernelSound(r) /\ r.cur = s.cur /\ r.mutex = s.mutex
        /\ \A v \in Threads : r.status[v] = IF v = u THEN "READY" ELSE s.status[v]
        /\ \A q \in Queues : r.sema[q] = s.sema[q]
    BY <1>1, <2>1, <2>2 DEF Woken, Keeps
  <2>4. Control(r, p, c)
    <3>1. ASSUME NEW v \in Threads \ {idle_thread}
          PROVE  /\ p[v] \notin {"idle", "halt"}
                 /\ p[v] # "user" => c[v].left # 0
                 /\ p[v] \in {"get", "put"} => v = r.cur
                 /\ p[v] \in {"user", "get", "put"} => Runnable(r.status[v])
                 /\ Runnable(r.status[v]) \/ r.status[v] = "BLOCKED"
      BY <1>1, <2>3 DEF Control, Runnable
    <3> QED BY <1>1, <3>1 DEF Control
  <2>5. Locks(r, p, c)
    <3>1. ASSUME NEW q \in Queues, NEW v \in Threads
          PROVE  /\ v \in Sleepers(r, q) <=> WaitsFor(p, c, v, q) /\ r.status[v] = "BLOCKED"
                 /\ r.mutex[q].holder = v <=> Holds(p, c, v, q)
      <4>1. /\ v \in Sleepers(s, q) <=> WaitsFor(p, c, v, q) /\ s.status[v] = "BLOCKED"
            /\ s.mutex[q].holder = v <=> Holds(p, c, v, q)
        BY <1>1 DEF Locks
      <4>2. v \in Sleepers(r, q) <=> v \in Sleepers(s, q)
        BY <2>3 DEF Sleepers
      <4>3. WaitsFor(p, c, v, q) => v # u
        BY <2>1 DEF WaitsFor
      <4> QED BY <2>3, <4>1, <4>2, <4>3
    <3>2. ASSUME NEW q \in Queues
          PROVE  /\ NoDuplicates(r.sema[q].waiters)
                 /\ \/ r.mutex[q] = mutex_init /\ r.sema[q].value = 1
                    \/ /\ r.mutex[q].holder # NULL /\ r.mutex[q].repeat = 1
                       /\ r.sema[q].value = 0
      BY <1>1, <2>3 DEF Locks
    <3> QED BY <3>1, <3>2 DEF Locks
  <2>6. Slots(r, p, c, io2)
    <3> SUFFICES ASSUME NEW q \in Queues
                 PROVE  /\ io2[q].consumer \in Threads \cup {NULL}
                        /\ io2[q].producer \in Threads \cup {NULL}
                        /\ \A v \in Threads :
                             /\ io2[q].consumer = v <=>
                                  p[v] = "getwait" /\ c[v].ioq = q /\ r.status[v] = "BLOCKED"
                             /\ io2[q].producer = v <=>
                                  p[v] = "putwait" /\ c[v].ioq = q /\ r.status[v] = "BLOCKED"
      BY DEF Slots
    <3>1. io[q].consumer \in Threads \cup {NULL} /\ io[q].producer \in Threads \cup {NULL}
      BY <1>1 DEF Slots
    <3>2. ASSUME NEW v \in Threads
          PROVE  /\ io2[q].consumer = v <=>
                      p[v] = "getwait" /\ c[v].ioq = q /\ r.status[v] = "BLOCKED"
                 /\ io2[q].producer = v <=>
                      p[v] = "putwait" /\ c[v].ioq = q /\ r.status[v] = "BLOCKED"
      <4>1. /\ io[q].consumer = v <=>
                 p[v] = "getwait" /\ c[v].ioq = q /\ s.status[v] = "BLOCKED"
            /\ io[q].producer = v <=>
                 p[v] = "putwait" /\ c[v].ioq = q /\ s.status[v] = "BLOCKED"
        BY <1>1 DEF Slots
      <4>2. v # NULL
        BY <1>1
      <4> QED BY <2>3, <4>1, <4>2
    <3> QED BY <3>1, <3>2
  <2> QED BY <1>1, <1>2, <2>3, <2>4, <2>5, <2>6 DEF Kernel
<1> QED BY <1>3, <1>4

(* Where a thread that waits for a slot sleeps. *)
LockLabel(slot) == IF slot = "consumer" THEN "getlock" ELSE "putlock"

WaitLabel(slot) == IF slot = "consumer" THEN "getwait" ELSE "putwait"

(* From io to io2, t has put itself in (or was taken out of: t = NULL) a   *)
(* slot of q.                                                              *)
SlotSet(io, io2, q, slot, t) ==
  \A x \in Queues :
    /\ io2[x].consumer = IF slot = "consumer" /\ x = q THEN t ELSE io[x].consumer
    /\ io2[x].producer = IF slot = "producer" /\ x = q THEN t ELSE io[x].producer

(* Nobody but t and idle has gone to sleep or been woken.                  *)
OthersSleep(s, r, t) ==
  \A u \in Threads \ {t, idle_thread} :
    r.status[u] = "BLOCKED" <=> s.status[u] = "BLOCKED"

(* Thread t has taken the mutex of q, then suspended itself.               *)
Enters(s, r, t, q) ==
  /\ KernelSound(r) /\ r.mutex = [s.mutex EXCEPT ![q] = [holder |-> t, repeat |-> 1]]
  /\ r.sema[q] = [value |-> 0, waiters |-> s.sema[q].waiters]
  /\ \A x \in Queues \ {q} : r.sema[x] = s.sema[x]
  /\ r.status[t] = "BLOCKED"
  /\ StatusFrame(s, r, {t})

(* A reader or writer takes the ring's mutex and sleeps on the slot.       *)
LEMMA TakenBlocked ==
  ASSUME NEW s, NEW a, NEW r, NEW t, t = s.cur, t # idle_thread, NEW q \in Queues,
         Queues \subseteq Semas, Taken(s, a, q), Blocked(a, r)
  PROVE  Enters(s, r, t, q)
<1>1. /\ KernelSound(r) /\ r.mutex = a.mutex /\ StatusFrame(a, r, {t})
      /\ r.status[t] = "BLOCKED" /\ \A x \in Semas : r.sema[x] = a.sema[x]
  BY DEF Blocked, Keeps, Taken
<1>2. /\ a.mutex = [s.mutex EXCEPT ![q] = [holder |-> t, repeat |-> 1]]
      /\ a.sema[q] = [value |-> 0, waiters |-> s.sema[q].waiters]
      /\ a.status = s.status /\ \A x \in Semas \ {q} : a.sema[x] = s.sema[x]
  BY DEF Taken, Keeps
<1>3. StatusFrame(s, r, {t})
  BY <1>1, <1>2 DEF StatusFrame
<1>4. /\ r.sema[q] = [value |-> 0, waiters |-> s.sema[q].waiters]
      /\ \A x \in Queues \ {q} : r.sema[x] = s.sema[x]
  BY <1>1, <1>2
<1> QED BY <1>1, <1>2, <1>3, <1>4 DEF Enters

(* The mutex of a ring nobody is waiting on is free.                       *)
LEMMA MutexFree ==
  ASSUME NEW s, NEW p, NEW c, NEW io, Kernel(s, p, c, io), NEW q \in Queues, Available(s, q)
  PROVE  Taken(s, mutex_acquire(s, q), q) /\ \A u \in Threads : ~Holds(p, c, u, q)
<1>1. KernelSound(s) /\ Locks(s, p, c) /\ q \in Mutexes /\ NULL \notin Threads
  BY KernelFacts DEF Kernel
<1>2. s.mutex[q] = mutex_init
  BY <1>1 DEF Locks, Available
<1>3. ASSUME NEW u \in Threads PROVE ~Holds(p, c, u, q)
  <2>1. s.mutex[q].holder # u
    BY <1>1, <1>2 DEF mutex_init
  <2> QED BY <1>1, <2>1 DEF Locks
<1>4. Taken(s, mutex_acquire(s, q), q)
  BY <1>1, <1>2, AcquireTakes
<1> QED BY <1>3, <1>4

(* mutex_acquire of a free mutex, then ioq_wait: the slots are empty, so   *)
(* its ASSERT holds, and the running thread is suspended in its slot.      *)
LEMMA WaitPart ==
  ASSUME NEW s, NEW p, NEW c, NEW io, Kernel(s, p, c, io), NEW t, t = s.cur,
         t # idle_thread, p[t] \in {"get", "getlock", "put", "putlock"},
         NEW q, q = c[t].ioq, Available(s, q),
         NEW slot \in {"consumer", "producer"}, NEW io2, SlotSet(io, io2, q, slot, t),
         NEW to, to = WaitLabel(slot),
         NEW a, Taken(s, a, q), NEW r, Blocked(a, r)
  PROVE  /\ io[q].consumer = NULL /\ io[q].producer = NULL
         /\ Kernel(r, [p EXCEPT ![t] = to], c, io2) /\ r.status[t] = "BLOCKED"
         /\ OthersSleep(s, r, t)
<1> DEFINE p1 == [p EXCEPT ![t] = to]
<1>1. /\ KernelSound(s) /\ t \in Threads /\ s.status[t] = "RUNNING"
      /\ s.status \in [Threads -> Status]
      /\ p \in [Threads -> PC] /\ c \in [Threads -> Call] /\ q \in Queues
      /\ Control(s, p, c) /\ Locks(s, p, c) /\ Slots(s, p, c, io)
      /\ q \in Mutexes /\ NULL \notin Threads /\ idle_thread \in Threads
      /\ Queues = Mutexes /\ Queues \subseteq Semas
      /\ s.mutex \in [Mutexes -> [holder : Threads \cup {NULL}, repeat : Nat]]
  BY KernelFacts DEF Kernel, Call
<1>2. \A u \in Threads : ~Holds(p, c, u, q)
  BY <1>1, MutexFree
<1>3. io[q].consumer = NULL /\ io[q].producer = NULL
  <2>1. ASSUME NEW u \in Threads PROVE io[q].consumer # u /\ io[q].producer # u
    <3>1. /\ io[q].consumer = u => Holds(p, c, u, q)
          /\ io[q].producer = u => Holds(p, c, u, q)
      BY <1>1 DEF Slots, Holds
    <3> QED BY <1>2, <3>1
  <2> QED BY <1>1, <2>1 DEF Slots
<1>8. /\ KernelSound(r) /\ r.mutex = [s.mutex EXCEPT ![q] = [holder |-> t, repeat |-> 1]]
      /\ r.sema[q] = [value |-> 0, waiters |-> s.sema[q].waiters]
      /\ \A x \in Queues \ {q} : r.sema[x] = s.sema[x]
      /\ r.status[t] = "BLOCKED"
      /\ StatusFrame(s, r, {t})
  <2>1. Enters(s, r, t, q)
    BY <1>1, TakenBlocked
  <2> QED BY <2>1 DEF Enters
<1>9. \A u \in Threads \ {t, idle_thread} :
        /\ Runnable(s.status[u]) => Runnable(r.status[u])
        /\ r.status[u] = "BLOCKED" <=> s.status[u] = "BLOCKED"
  BY <1>8 DEF StatusFrame, Runnable
<1>10. /\ to = IF slot = "consumer" THEN "getwait" ELSE "putwait"
       /\ p1 \in [Threads -> PC] /\ p1[t] = to
       /\ \A u \in Threads \ {t} : p1[u] = p[u]
  BY <1>1 DEF PC, WaitLabel
<1> HIDE DEF p1
<1>11. Control(r, p1, c)
  <2>1. p1[idle_thread] \in {"idle", "halt"}
    BY <1>1, <1>10 DEF Control
  <2>2. ASSUME NEW u \in Threads \ {idle_thread}
        PROVE  /\ p1[u] \notin {"idle", "halt"}
               /\ p1[u] # "user" => c[u].left # 0
               /\ p1[u] \in {"get", "put"} => u = r.cur
               /\ p1[u] \in {"user", "get", "put"} => Runnable(r.status[u])
               /\ Runnable(r.status[u]) \/ r.status[u] = "BLOCKED"
    <3>1. CASE u = t
      BY <1>1, <1>8, <1>10, <3>1 DEF Control
    <3>2. CASE u # t
      BY <1>1, <1>9, <1>10, <3>2 DEF Control
    <3> QED BY <3>1, <3>2
  <2> QED BY <2>1, <2>2 DEF Control
<1>12. Locks(r, p1, c)
  <2>1. ASSUME NEW x \in Queues, NEW u \in Threads
        PROVE  u \in Sleepers(r, x) <=> WaitsFor(p1, c, u, x) /\ r.status[u] = "BLOCKED"
    <3>1. u \in Sleepers(s, x) <=> WaitsFor(p, c, u, x) /\ s.status[u] = "BLOCKED"
      BY <1>1 DEF Locks
    <3>2. u \in Sleepers(r, x) <=> u \in Sleepers(s, x)
      BY <1>8 DEF Sleepers
    <3>3. CASE u = t
      BY <1>1, <1>10, <3>1, <3>2, <3>3 DEF WaitsFor
    <3>4. CASE u = idle_thread
      BY <1>1, <1>10, <3>1, <3>2, <3>4 DEF WaitsFor, Control
    <3>5. CASE u \in Threads \ {t, idle_thread}
      BY <1>9, <1>10, <3>1, <3>2, <3>5 DEF WaitsFor
    <3> QED BY <3>3, <3>4, <3>5
  <2>2. ASSUME NEW x \in Queues, NEW u \in Threads
        PROVE  r.mutex[x].holder = u <=> Holds(p1, c, u, x)
    <3>1. s.mutex[x].holder = u <=> Holds(p, c, u, x)
      BY <1>1 DEF Locks
    <3>2. CASE x = q
      BY <1>1, <1>2, <1>8, <1>10, <3>2 DEF Holds
    <3>3. CASE x # q
      BY <1>1, <1>8, <1>10, <3>1, <3>3 DEF Holds
    <3> QED BY <3>2, <3>3
  <2>3. ASSUME NEW x \in Queues
        PROVE  /\ NoDuplicates(r.sema[x].waiters)
               /\ \/ r.mutex[x] = mutex_init /\ r.sema[x].value = 1
                  \/ /\ r.mutex[x].holder # NULL /\ r.mutex[x].repeat = 1
                     /\ r.sema[x].value = 0
    <3>1. CASE x = q
      BY <1>1, <1>8, <3>1 DEF Locks
    <3>2. CASE x # q
      BY <1>1, <1>8, <3>2 DEF Locks
    <3> QED BY <3>1, <3>2
  <2> QED BY <2>1, <2>2, <2>3 DEF Locks
<1>13. Slots(r, p1, c, io2)
  <2> SUFFICES ASSUME NEW x \in Queues
               PROVE  /\ io2[x].consumer \in Threads \cup {NULL}
                      /\ io2[x].producer \in Threads \cup {NULL}
                      /\ \A v \in Threads :
                           /\ io2[x].consumer = v <=>
                                p1[v] = "getwait" /\ c[v].ioq = x /\ r.status[v] = "BLOCKED"
                           /\ io2[x].producer = v <=>
                                p1[v] = "putwait" /\ c[v].ioq = x /\ r.status[v] = "BLOCKED"
    BY DEF Slots
  <2>1. io[x].consumer \in Threads \cup {NULL} /\ io[x].producer \in Threads \cup {NULL}
    BY <1>1 DEF Slots
  <2>2. ASSUME NEW v \in Threads
        PROVE  /\ io2[x].consumer = v <=>
                    p1[v] = "getwait" /\ c[v].ioq = x /\ r.status[v] = "BLOCKED"
               /\ io2[x].producer = v <=>
                    p1[v] = "putwait" /\ c[v].ioq = x /\ r.status[v] = "BLOCKED"
    <3>1. /\ io[x].consumer = v <=>
               p[v] = "getwait" /\ c[v].ioq = x /\ s.status[v] = "BLOCKED"
          /\ io[x].producer = v <=>
               p[v] = "putwait" /\ c[v].ioq = x /\ s.status[v] = "BLOCKED"
      BY <1>1 DEF Slots
    <3>2. v # NULL
      BY <1>1
    <3>3. CASE v = t
      BY <1>1, <1>3, <1>8, <1>10, <3>1, <3>3 DEF SlotSet
    <3>4. CASE v = idle_thread
      BY <1>1, <1>3, <1>10, <3>1, <3>4 DEF Control, SlotSet
    <3>5. CASE v \in Threads \ {t, idle_thread}
      BY <1>3, <1>9, <1>10, <3>1, <3>2, <3>5 DEF SlotSet
    <3> QED BY <3>3, <3>4, <3>5
  <2> QED BY <1>1, <2>1, <2>2 DEF SlotSet
<1> QED BY <1>1, <1>3, <1>8, <1>9, <1>10, <1>11, <1>12, <1>13 DEF Kernel, p1, OthersSleep

(* mutex_acquire of a mutex another thread holds.                          *)
LEMMA LockPart ==
  ASSUME NEW s, NEW p, NEW c, NEW io, Kernel(s, p, c, io), NEW t, t = s.cur,
         t # idle_thread, p[t] \in {"get", "getlock", "put", "putlock"},
         NEW q, q = c[t].ioq, ~Available(s, q), NEW to \in {"getlock", "putlock"},
         NEW r, r = mutex_acquire(s, q)
  PROVE  Kernel(r, [p EXCEPT ![t] = to], c, io) /\ OthersSleep(s, r, t)
<1> DEFINE p1 == [p EXCEPT ![t] = to]
<1>1. /\ KernelSound(s) /\ t \in Threads /\ s.status[t] = "RUNNING"
      /\ p \in [Threads -> PC] /\ c \in [Threads -> Call] /\ q \in Queues
      /\ Control(s, p, c) /\ Locks(s, p, c) /\ Slots(s, p, c, io)
      /\ q \in Mutexes /\ NULL \notin Threads /\ idle_thread \in Threads
      /\ Queues = Mutexes /\ Queues \subseteq Semas /\ WaitersSound(s, q)
  BY KernelFacts DEF Kernel, Call
<1>2. ~Holds(p, c, t, q) /\ s.mutex[q].holder # t
  BY <1>1 DEF Locks, Holds
<1>4. Queued(s, r, q)
  BY <1>1, <1>2, AcquireSleeps
<1>5. /\ KernelSound(r) /\ r.mutex = s.mutex /\ r.sema[q].value = 0
      /\ NoDuplicates(r.sema[q].waiters) /\ Sleepers(r, q) = Sleepers(s, q) \cup {t}
      /\ r.status[t] = "BLOCKED"
      /\ \A x \in Queues \ {q} : r.sema[x] = s.sema[x]
  BY <1>1, <1>4 DEF Queued, Keeps
<1>6. \A u \in Threads \ {t, idle_thread} :
        /\ Runnable(s.status[u]) => Runnable(r.status[u])
        /\ r.status[u] = "BLOCKED" <=> s.status[u] = "BLOCKED"
  BY <1>4 DEF Queued, StatusFrame, Runnable
<1>7. /\ p1 \in [Threads -> PC] /\ p1[t] = to
      /\ \A u \in Threads \ {t} : p1[u] = p[u]
  BY <1>1 DEF PC
<1> HIDE DEF p1
<1>8. Control(r, p1, c)
  <2>1. p1[idle_thread] \in {"idle", "halt"}
    BY <1>1, <1>7 DEF Control
  <2>2. ASSUME NEW u \in Threads \ {idle_thread}
        PROVE  /\ p1[u] \notin {"idle", "halt"}
               /\ p1[u] # "user" => c[u].left # 0
               /\ p1[u] \in {"get", "put"} => u = r.cur
               /\ p1[u] \in {"user", "get", "put"} => Runnable(r.status[u])
               /\ Runnable(r.status[u]) \/ r.status[u] = "BLOCKED"
    <3>1. CASE u = t
      BY <1>1, <1>5, <1>7, <3>1 DEF Control
    <3>2. CASE u # t
      BY <1>1, <1>6, <1>7, <3>2 DEF Control
    <3> QED BY <3>1, <3>2
  <2> QED BY <2>1, <2>2 DEF Control
<1>9. Locks(r, p1, c)
  <2>1. ASSUME NEW x \in Queues, NEW u \in Threads
        PROVE  u \in Sleepers(r, x) <=> WaitsFor(p1, c, u, x) /\ r.status[u] = "BLOCKED"
    <3>1. u \in Sleepers(s, x) <=> WaitsFor(p, c, u, x) /\ s.status[u] = "BLOCKED"
      BY <1>1 DEF Locks
    <3>2. u \in Sleepers(r, x) <=> u \in Sleepers(s, x) \/ (u = t /\ x = q)
      <4>1. CASE x = q
        BY <1>5, <4>1
      <4>2. CASE x # q
        BY <1>5, <4>2 DEF Sleepers
      <4> QED BY <4>1, <4>2
    <3>3. CASE u = t
      BY <1>1, <1>5, <1>7, <3>1, <3>2, <3>3 DEF WaitsFor
    <3>4. CASE u = idle_thread
      BY <1>1, <1>7, <3>1, <3>2, <3>4 DEF WaitsFor, Control
    <3>5. CASE u \in Threads \ {t, idle_thread}
      BY <1>6, <1>7, <3>1, <3>2, <3>5 DEF WaitsFor
    <3> QED BY <3>3, <3>4, <3>5
  <2>2. ASSUME NEW x \in Queues, NEW u \in Threads
        PROVE  r.mutex[x].holder = u <=> Holds(p1, c, u, x)
    <3>1. s.mutex[x].holder = u <=> Holds(p, c, u, x)
      BY <1>1 DEF Locks
    <3> QED BY <1>5, <1>7, <3>1 DEF Holds
  <2>3. ASSUME NEW x \in Queues
        PROVE  /\ NoDuplicates(r.sema[x].waiters)
               /\ \/ r.mutex[x] = mutex_init /\ r.sema[x].value = 1
                  \/ /\ r.mutex[x].holder # NULL /\ r.mutex[x].repeat = 1
                     /\ r.sema[x].value = 0
    <3>1. /\ NoDuplicates(s.sema[x].waiters)
          /\ \/ s.mutex[x] = mutex_init /\ s.sema[x].value = 1
             \/ /\ s.mutex[x].holder # NULL /\ s.mutex[x].repeat = 1
                /\ s.sema[x].value = 0
      BY <1>1 DEF Locks
    <3>2. CASE x = q
      BY <1>5, <3>1, <3>2 DEF Available
    <3>3. CASE x # q
      <4>1. r.sema[x] = s.sema[x] /\ r.mutex[x] = s.mutex[x]
        BY <1>5, <3>3
      <4> QED BY <3>1, <4>1
    <3> QED BY <3>2, <3>3
  <2> QED BY <2>1, <2>2, <2>3 DEF Locks
<1>10. Slots(r, p1, c, io)
  <2>1. ASSUME NEW x \in Queues, NEW v \in Threads
        PROVE  /\ io[x].consumer = v <=>
                    p1[v] = "getwait" /\ c[v].ioq = x /\ r.status[v] = "BLOCKED"
               /\ io[x].producer = v <=>
                    p1[v] = "putwait" /\ c[v].ioq = x /\ r.status[v] = "BLOCKED"
    <3>1. /\ io[x].consumer = v <=>
               p[v] = "getwait" /\ c[v].ioq = x /\ s.status[v] = "BLOCKED"
          /\ io[x].producer = v <=>
               p[v] = "putwait" /\ c[v].ioq = x /\ s.status[v] = "BLOCKED"
      BY <1>1 DEF Slots
    <3>3. CASE v = t
      BY <1>7, <3>1, <3>3
    <3>4. CASE v = idle_thread
      BY <1>1, <1>7, <3>1, <3>4 DEF Control
    <3>5. CASE v \in Threads \ {t, idle_thread}
      BY <1>6, <1>7, <3>1, <3>5
    <3> QED BY <3>3, <3>4, <3>5
  <2> QED BY <1>1, <2>1 DEF Slots
<1> QED BY <1>1, <1>5, <1>6, <1>7, <1>8, <1>9, <1>10 DEF Kernel, p1, OthersSleep

(* The CPU goes to another thread, nobody but idle being suspended.        *)
LEMMA SwitchPart ==
  ASSUME NEW s, NEW p, NEW c, NEW io, Kernel(s, p, c, io),
         p[s.cur] \notin {"get", "put"}, NEW r, KernelSound(r), Keeps(s, r, {}),
         r.mutex = s.mutex, StatusFrame(s, r, {}),
         NEW p1 \in [Threads -> PC], p1[idle_thread] \in {"idle", "halt"},
         \A u \in Threads \ {idle_thread} : p1[u] = p[u]
  PROVE  Kernel(r, p1, c, io)
<1>1. /\ KernelSound(s) /\ s.cur \in Threads
      /\ p \in [Threads -> PC] /\ c \in [Threads -> Call]
      /\ Control(s, p, c) /\ Locks(s, p, c) /\ Slots(s, p, c, io)
      /\ NULL \notin Threads /\ idle_thread \in Threads /\ Queues \subseteq Semas
  BY KernelFacts DEF Kernel
<1>2. /\ \A x \in Queues : r.sema[x] = s.sema[x]
      /\ \A u \in Threads \ {idle_thread} :
           /\ Runnable(s.status[u]) => Runnable(r.status[u])
           /\ r.status[u] = "BLOCKED" <=> s.status[u] = "BLOCKED"
  BY <1>1 DEF Keeps, StatusFrame, Runnable
<1>3. Control(r, p1, c)
  <2>1. ASSUME NEW u \in Threads \ {idle_thread}
        PROVE  /\ p1[u] \notin {"idle", "halt"}
               /\ p1[u] # "user" => c[u].left # 0
               /\ p1[u] \in {"get", "put"} => u = r.cur
               /\ p1[u] \in {"user", "get", "put"} => Runnable(r.status[u])
               /\ Runnable(r.status[u]) \/ r.status[u] = "BLOCKED"
    BY <1>1, <1>2 DEF Control
  <2> QED BY <2>1 DEF Control
<1>4. Locks(r, p1, c)
  <2>1. ASSUME NEW x \in Queues, NEW u \in Threads
        PROVE  /\ u \in Sleepers(r, x) <=> WaitsFor(p1, c, u, x) /\ r.status[u] = "BLOCKED"
               /\ r.mutex[x].holder = u <=> Holds(p1, c, u, x)
    <3>1. /\ u \in Sleepers(s, x) <=> WaitsFor(p, c, u, x) /\ s.status[u] = "BLOCKED"
          /\ s.mutex[x].holder = u <=> Holds(p, c, u, x)
      BY <1>1 DEF Locks
    <3>2. u \in Sleepers(r, x) <=> u \in Sleepers(s, x)
      BY <1>2 DEF Sleepers
    <3>3. CASE u = idle_thread
      BY <1>1, <3>1, <3>2, <3>3 DEF WaitsFor, Holds, Control
    <3>4. CASE u \in Threads \ {idle_thread}
      BY <1>2, <3>1, <3>2, <3>4 DEF WaitsFor, Holds
    <3> QED BY <3>3, <3>4
  <2>2. ASSUME NEW x \in Queues
        PROVE  /\ NoDuplicates(r.sema[x].waiters)
               /\ \/ r.mutex[x] = mutex_init /\ r.sema[x].value = 1
                  \/ /\ r.mutex[x].holder # NULL /\ r.mutex[x].repeat = 1
                     /\ r.sema[x].value = 0
    BY <1>1, <1>2 DEF Locks
  <2> QED BY <2>1, <2>2 DEF Locks
<1>5. Slots(r, p1, c, io)
  <2>1. ASSUME NEW x \in Queues, NEW v \in Threads
        PROVE  /\ io[x].consumer = v <=>
                    p1[v] = "getwait" /\ c[v].ioq = x /\ r.status[v] = "BLOCKED"
               /\ io[x].producer = v <=>
                    p1[v] = "putwait" /\ c[v].ioq = x /\ r.status[v] = "BLOCKED"
    <3>1. /\ io[x].consumer = v <=>
               p[v] = "getwait" /\ c[v].ioq = x /\ s.status[v] = "BLOCKED"
          /\ io[x].producer = v <=>
               p[v] = "putwait" /\ c[v].ioq = x /\ s.status[v] = "BLOCKED"
      BY <1>1 DEF Slots
    <3>2. CASE v = idle_thread
      BY <1>1, <3>1, <3>2 DEF Control
    <3>3. CASE v \in Threads \ {idle_thread}
      BY <1>2, <3>1, <3>3
    <3> QED BY <3>2, <3>3
  <2> QED BY <1>1, <2>1 DEF Slots
<1> QED BY <1>1, <1>3, <1>4, <1>5 DEF Kernel

-----------------------------------------------------------------------------
(* The ring *)

(* ioq_length of a ring with its head at h and its tail at t. *)
Length(h, t) == IF h >= t THEN h - t ELSE bufsize - (t - h)

(* A position runs through 0..bufsize - 1 and starts again.                *)
LEMMA Wraps ==
  ASSUME NEW i \in 0..2 * bufsize - 1
  PROVE  i % bufsize = IF i < bufsize THEN i ELSE i - bufsize
BY IoQueueAssumption, SMTT(30)

(* The next position, without the modulus.                                 *)
LEMMA NextPos ==
  ASSUME NEW i \in 0..bufsize - 1
  PROVE  /\ next_pos(i) = IF i = bufsize - 1 THEN 0 ELSE i + 1
         /\ next_pos(i) \in 0..bufsize - 1
<1>1. PICK j : j = i + 1
  OBVIOUS
<1>2. j \in 0..2 * bufsize - 1
  BY <1>1, IoQueueAssumption
<1>3. next_pos(i) = IF j < bufsize THEN j ELSE j - bufsize
  BY <1>1, <1>2, Wraps DEF next_pos
<1> QED BY <1>1, <1>3, IoQueueAssumption

(* A ring is empty at length 0 and full at bufsize - 1; a byte taken or    *)
(* put changes its length by one.                                          *)
LEMMA RingLength ==
  ASSUME NEW h \in 0..bufsize - 1, NEW t \in 0..bufsize - 1
  PROVE  /\ Length(h, t) \in 0..bufsize - 1
         /\ Length(h, t) = 0 <=> h = t
         /\ Length(h, t) = bufsize - 1 <=> next_pos(h) = t
         /\ h # t => Length(h, next_pos(t)) = Length(h, t) - 1
         /\ next_pos(h) # t => Length(next_pos(h), t) = Length(h, t) + 1
<1>1. PICK h1 \in 0..bufsize - 1 :
        h1 = next_pos(h) /\ h1 = IF h = bufsize - 1 THEN 0 ELSE h + 1
  BY NextPos
<1>2. PICK t1 \in 0..bufsize - 1 :
        t1 = next_pos(t) /\ t1 = IF t = bufsize - 1 THEN 0 ELSE t + 1
  BY NextPos
<1>3. /\ Length(h, t) \in 0..bufsize - 1
      /\ Length(h, t) = 0 <=> h = t
      /\ Length(h, t) = bufsize - 1 <=> h1 = t
  BY <1>1, IoQueueAssumption DEF Length
<1>4. h # t => Length(h, t1) = Length(h, t) - 1
  BY <1>2, IoQueueAssumption DEF Length
<1>5. h1 # t => Length(h1, t) = Length(h, t) + 1
  BY <1>1, IoQueueAssumption DEF Length
<1> QED BY <1>1, <1>2, <1>3, <1>4, <1>5

(* The rings after a byte was taken from q, and after one was stored.      *)
Emptied(q) == [ioq EXCEPT ![q].tail = next_pos(@), ![q].producer = NULL]

(* A byte was taken: only tail and producer change.                        *)
LEMMA TakeRing ==
  ASSUME ioq \in Rings, NEW q \in Queues, NEW io, io = Emptied(q)
  PROVE  /\ io \in Rings
         /\ \A x \in Queues :
              /\ io[x].buf = ioq[x].buf /\ io[x].head = ioq[x].head
              /\ io[x].tail = IF x = q THEN next_pos(ioq[x].tail) ELSE ioq[x].tail
              /\ io[x].consumer = ioq[x].consumer
              /\ io[x].producer = IF x = q THEN NULL ELSE ioq[x].producer
<1>1. PICK n \in 0..bufsize - 1 : n = next_pos(ioq[q].tail)
  BY NextPos DEF Rings, Ring
<1>2. io = [ioq EXCEPT ![q] = [ioq[q] EXCEPT !.tail = n, !.producer = NULL]]
  BY <1>1 DEF Rings, Emptied
<1>3. PICK e \in Ring : e = [ioq[q] EXCEPT !.tail = n, !.producer = NULL]
  BY DEF Rings, Ring
<1>4. io \in Rings /\ io[q] = e /\ \A x \in Queues \ {q} : io[x] = ioq[x]
  BY <1>2, <1>3 DEF Rings
<1>5. ioq[q] \in Ring
  BY DEF Rings
<1>6. /\ e.buf = ioq[q].buf /\ e.head = ioq[q].head /\ e.tail = next_pos(ioq[q].tail)
      /\ e.consumer = ioq[q].consumer /\ e.producer = NULL
  BY <1>1, <1>3, <1>5 DEF Ring
<1> QED BY <1>4, <1>6

(* A byte was stored: only its slot, head and consumer change.             *)
LEMMA PutRing ==
  ASSUME ioq \in Rings, NEW q \in Queues, NEW b \in Bytes, NEW io, io = Stored(q, b)
  PROVE  /\ io \in Rings
         /\ \A x \in Queues :
              /\ io[x].buf = IF x = q THEN [ioq[x].buf EXCEPT ![ioq[x].head] = b]
                                     ELSE ioq[x].buf
              /\ io[x].head = IF x = q THEN next_pos(ioq[x].head) ELSE ioq[x].head
              /\ io[x].tail = ioq[x].tail
              /\ io[x].consumer = IF x = q THEN NULL ELSE ioq[x].consumer
              /\ io[x].producer = ioq[x].producer
<1>1. PICK n \in 0..bufsize - 1 : n = next_pos(ioq[q].head)
  BY NextPos DEF Rings, Ring
<1>2. PICK f \in [0..bufsize - 1 -> Bytes] : f = [ioq[q].buf EXCEPT ![ioq[q].head] = b]
  BY DEF Rings, Ring
<1>3. io = [ioq EXCEPT ![q] = [ioq[q] EXCEPT !.buf = f, !.head = n, !.consumer = NULL]]
  BY <1>1, <1>2 DEF Rings, Stored
<1>4. PICK e \in Ring : e = [ioq[q] EXCEPT !.buf = f, !.head = n, !.consumer = NULL]
  BY DEF Rings, Ring
<1>5. io \in Rings /\ io[q] = e /\ \A x \in Queues \ {q} : io[x] = ioq[x]
  BY <1>3, <1>4 DEF Rings
<1>6. ioq[q] \in Ring
  BY DEF Rings
<1> QED BY <1>1, <1>2, <1>4, <1>5, <1>6 DEF Ring

-----------------------------------------------------------------------------
(* The steps *)

(* A thread waits in one slot at most: emptying that slot when the thread  *)
(* is woken leaves no trace of it.                                         *)
LEMMA WakeSlot ==
  ASSUME NEW s, NEW p, NEW c, NEW io, Kernel(s, p, c, io), NEW q \in Queues,
         NEW slot \in {"consumer", "producer"}, NEW io2, SlotSet(io, io2, q, slot, NULL),
         NEW u, u = IF slot = "consumer" THEN io[q].consumer ELSE io[q].producer
  PROVE  LET r == Wakeup(s, u)
         IN  /\ Kernel(r, p, c, io2) /\ r.cur = s.cur
             /\ \A v \in Threads :
                  r.status[v] = IF v = u THEN "READY" ELSE s.status[v]
<1>1. Slots(s, p, c, io) /\ u \in Threads \cup {NULL}
  BY DEF Kernel, Slots
<1>2. ASSUME NEW x \in Queues
      PROVE  /\ io2[x].consumer = IF io[x].consumer = u THEN NULL ELSE io[x].consumer
             /\ io2[x].producer = IF io[x].producer = u THEN NULL ELSE io[x].producer
  <2>1. CASE u = NULL
    BY <2>1 DEF SlotSet
  <2>2. CASE u \in Threads
    BY <1>1, <2>2 DEF Slots, SlotSet
  <2> QED BY <1>1, <2>1, <2>2
<1>3. u # NULL => \E x \in Queues : io[x].consumer = u \/ io[x].producer = u
  OBVIOUS
<1> QED BY <1>1, <1>2, <1>3, WakePart

(* One of the bytes of the running thread's call is done.                  *)
LEMMA DonePart ==
  ASSUME NEW s, NEW p, NEW c, NEW io, Kernel(s, p, c, io), NEW t, t = s.cur,
         t # idle_thread, NEW again \in {"get", "put"}, p[t] = again
  PROVE  /\ Kernel(s, [p EXCEPT ![t] = IF c[t].left = 1 THEN "user" ELSE again],
                       [c EXCEPT ![t].left = @ - 1], io)
         /\ c[t] \in Call /\ c[t].left # 0
<1>1. t \in Threads /\ c \in [Threads -> Call] /\ c[t].left # 0
  BY KernelFacts DEF Kernel, Control
<1>2. PICK e : e = [c[t] EXCEPT !.left = @ - 1]
  OBVIOUS
<1>3. c[t] \in Call /\ e \in Call /\ e.left = c[t].left - 1
  BY <1>1, <1>2, IoQueueAssumption DEF Call
<1>4. PICK to \in {"user", "get", "put"} : to = IF c[t].left = 1 THEN "user" ELSE again
  OBVIOUS
<1>5. to # "user" => e.left # 0
  BY <1>1, <1>3, <1>4, IoQueueAssumption DEF Call
<1>6. Kernel(s, [p EXCEPT ![t] = to], [c EXCEPT ![t] = e], io)
  BY <1>3, <1>5, LocalPart
<1>7. [c EXCEPT ![t].left = @ - 1] = [c EXCEPT ![t] = e]
  BY <1>1, <1>2
<1> QED BY <1>1, <1>3, <1>4, <1>6, <1>7

(* What a user of the rings may rely on.                                   *)
LEMMA UserFacts ==
  ASSUME IInv, NEW t \in Users
  PROVE  /\ t \in Threads /\ t # idle_thread /\ t # NULL /\ kbd # pipe
         /\ pc \in [Threads -> PC] /\ call \in [Threads -> Call]
         /\ ioq \in Rings /\ kbd \in Queues /\ pipe \in Queues
         /\ sched.cur = t => \A u \in Threads \ {t} : pc[u] # "get"
BY IoQueueAssumption, KMutexAssumption DEF Users, IInv, Kernel, Control, Queues

(* A step of t leaves the calls of the others as they were: none of them   *)
(* is in the middle of reading the pipe.                                   *)
LEMMA OthersCalls ==
  ASSUME IInv, NEW t \in Users, t = sched.cur, CallSound(t)',
         \A u \in Threads \ {t} : pc'[u] = pc[u] /\ call'[u] = call[u]
  PROVE  Calls'
<1>1. \A u \in Threads \ {t} : pc[u] # "get" /\ CallSound(u)
  BY UserFacts DEF IInv, Calls
<1>2. ASSUME NEW u \in Threads \ {t} PROVE CallSound(u)'
  BY <1>1, <1>2 DEF CallSound
<1> QED BY <1>2 DEF Calls

(* What a step has to do for the sleepers: with one reader of the keyboard *)
(* its own step cannot leave another one asleep, and the steps of the      *)
(* others do not touch the ring or wake it.                                *)
LEMMA ReaderSteps ==
  ASSUME OneReader, IInv', NEW t \in KbdReaders, pc'[t] # "getlock",
         pc'[t] = "getwait" => (sched'.status[t] = "BLOCKED" <=> ioq_empty(kbd)')
  PROVE  ReadersWoken'
<1>1. ASSUME NEW u \in Threads, pc'[u] \in {"getlock", "getwait"} PROVE u = t
  BY <1>1 DEF IInv, Calls, CallSound, OneReader
<1> QED BY <1>1 DEF ReadersWoken

(* A step that touches no reader leaves them woken.                        *)
LEMMA ReadersLeft ==
  ASSUME ReadersWoken, NEW t \in Threads, pc'[t] \notin {"getlock", "getwait"},
         \A u \in Threads \ {t} : pc'[u] = pc[u], ioq_empty(kbd)' <=> ioq_empty(kbd),
         \A u \in Threads \ {t} : pc[u] = "getwait" =>
           (sched'.status[u] = "BLOCKED" <=> sched.status[u] = "BLOCKED")
  PROVE  ReadersWoken'
BY DEF ReadersWoken

(* The same of a step of the only writer.                                  *)
LEMMA WriterSteps ==
  ASSUME OneWriter, IInv', NEW t \in PipeWriters, pc'[t] # "putlock",
         pc'[t] = "putwait" => ioq_full(pipe)'
  PROVE  WritersWoken'
<1>1. ASSUME NEW u \in Threads, pc'[u] \in {"putlock", "putwait"} PROVE u = t
  BY <1>1 DEF IInv, Calls, CallSound, OneWriter
<1> QED BY <1>1 DEF WritersWoken

(* The same of a step that touches no writer.                              *)
LEMMA WritersLeft ==
  ASSUME WritersWoken, NEW t \in Threads, pc'[t] \notin {"putlock", "putwait"},
         \A u \in Threads \ {t} : pc'[u] = pc[u], ioq_full(pipe)' <=> ioq_full(pipe),
         \A u \in Threads \ {t} : pc[u] = "putwait" /\ sched'.status[u] = "BLOCKED" =>
           sched.status[u] = "BLOCKED"
  PROVE  WritersWoken'
BY DEF WritersWoken

(* The system calls begin.                                                 *)
LEMMA EnterStep ==
  ASSUME IInv, NEW t \in Users, At(t, "user"), NEW to \in {"get", "put"}, Goto(t, to),
         NEW e \in Call, e.left # 0, call' = [call EXCEPT ![t] = e],
         UNCHANGED <<sched, ioq, byte>>,
         to = "get" => IF e.ioq = kbd THEN t \in KbdReaders ELSE e.left <= ioq_length(pipe),
         to = "put" => t \in PipeWriters /\ e.ioq = pipe
  PROVE  IInv'
<1>1. /\ t = sched.cur /\ pc[t] = "user" /\ Kernel(sched, pc, call, ioq)
      /\ pc' = [pc EXCEPT ![t] = to] /\ t # idle_thread
  BY UserFacts DEF At, Goto, IInv
<1>2. Kernel(sched, pc', call', ioq)
  BY <1>1, LocalPart
<1>3. /\ pc'[t] = to /\ call'[t] = e
      /\ \A u \in Threads \ {t} : pc'[u] = pc[u] /\ call'[u] = call[u]
  BY <1>1, UserFacts
<1>4. ioq_length(pipe)' = ioq_length(pipe)
  BY DEF ioq_length
<1>5. CallSound(t)'
  BY <1>3, <1>4 DEF CallSound
<1>6. Calls'
  BY <1>1, <1>3, <1>5, OthersCalls
<1> QED BY <1>2, <1>6 DEF IInv

(* A call begins: nobody's wakeup is lost by it.                           *)
LEMMA CallSteps ==
  ASSUME IInv, NEW t \in Users, sys_read(t) \/ pipe_read(t) \/ pipe_write(t)
  PROVE  /\ IInv'
         /\ ReadersWoken => ReadersWoken'
         /\ WritersWoken => WritersWoken'
<1>1. kbd \in Queues /\ pipe \in Queues /\ kbd # pipe
  BY UserFacts
<1>2. ioq_length(pipe) \in 0..bufsize - 1
  BY UserFacts, RingLength DEF Rings, Ring, ioq_length, Length
<1>3. ASSUME sys_read(t) PROVE IInv'
  <2>1. PICK count \in 1..MaxCount : call' = [call EXCEPT ![t] = [ioq |-> kbd, left |-> count]]
    BY <1>3 DEF sys_read
  <2>2. PICK e : e = [ioq |-> kbd, left |-> count]
    OBVIOUS
  <2>3. e \in Call /\ e.left # 0 /\ e.ioq = kbd
    BY <1>1, <2>2, IoQueueAssumption DEF Call
  <2> QED BY <1>3, <2>1, <2>2, <2>3, EnterStep DEF sys_read
<1>4. ASSUME pipe_read(t) PROVE IInv'
  <2>1. PICK count \in 1..MaxCount :
          call' = [call EXCEPT ![t] =
                     [ioq  |-> pipe,
                      left |-> IF ioq_length(pipe) > count THEN count ELSE ioq_length(pipe)]]
    BY <1>4 DEF pipe_read
  <2>2. PICK e : e = [ioq  |-> pipe,
                      left |-> IF ioq_length(pipe) > count THEN count ELSE ioq_length(pipe)]
    OBVIOUS
  <2>3. e \in Call /\ e.left # 0 /\ e.ioq = pipe /\ e.left <= ioq_length(pipe)
    BY <1>1, <1>2, <1>4, <2>2, IoQueueAssumption DEF Call, pipe_read
  <2> QED BY <1>1, <1>4, <2>1, <2>2, <2>3, EnterStep DEF pipe_read
<1>5. ASSUME pipe_write(t) PROVE IInv'
  <2>1. PICK count \in 1..MaxCount :
          call' = [call EXCEPT ![t] =
                     [ioq  |-> pipe,
                      left |-> IF bufsize - ioq_length(pipe) > count
                               THEN count ELSE bufsize - ioq_length(pipe)]]
    BY <1>5 DEF pipe_write
  <2>2. PICK e : e = [ioq  |-> pipe,
                      left |-> IF bufsize - ioq_length(pipe) > count
                               THEN count ELSE bufsize - ioq_length(pipe)]
    OBVIOUS
  <2>3. e \in Call /\ e.left # 0 /\ e.ioq = pipe
    BY <1>1, <1>2, <2>2, IoQueueAssumption DEF Call
  <2> QED BY <1>5, <2>1, <2>2, <2>3, EnterStep DEF pipe_write
<1>6. /\ UNCHANGED <<sched, ioq>> /\ t \in Threads
      /\ pc' = [pc EXCEPT ![t] = "get"] \/ pc' = [pc EXCEPT ![t] = "put"]
      /\ pc \in [Threads -> PC]
  BY UserFacts DEF sys_read, pipe_read, pipe_write, Goto
<1>7. /\ pc'[t] \notin {"getlock", "getwait", "putlock", "putwait"}
      /\ \A u \in Threads \ {t} : pc'[u] = pc[u]
      /\ ioq_empty(kbd)' <=> ioq_empty(kbd)
      /\ ioq_full(pipe)' <=> ioq_full(pipe)
  BY <1>6 DEF ioq_empty, ioq_full
<1>8. ASSUME ReadersWoken PROVE ReadersWoken'
  BY <1>6, <1>7, <1>8, ReadersLeft
<1>9. ASSUME WritersWoken PROVE WritersWoken'
  BY <1>6, <1>7, <1>9, WritersLeft
<1> QED BY <1>3, <1>4, <1>5, <1>8, <1>9

-----------------------------------------------------------------------------
(* ioq_getchar takes the byte at tail, s being the kernel state in which   *)
(* it has left ioq_wait, if it was there.                                  *)
LEMMA TakeStep ==
  ASSUME IInv, NEW t \in Users, t = sched.cur, NEW q, q = call[t].ioq,
         NEW s, Kernel(s, [pc EXCEPT ![t] = "get"], call, ioq), s.cur = t, Take(t, s, q),
         IF q = kbd THEN t \in KbdReaders
                    ELSE ~ioq_empty(q) /\ call[t].left <= ioq_length(pipe)
  PROVE  /\ IInv' /\ ioq' = Emptied(q) /\ pc'[t] \in {"user", "get"}
         /\ \A u \in Threads \ {t} : pc'[u] = pc[u]
         /\ \A u \in Threads :
              sched'.status[u] = IF u = ioq[q].producer THEN "READY" ELSE s.status[u]
<1>1. /\ t \in Threads /\ t # idle_thread /\ pc \in [Threads -> PC]
      /\ call \in [Threads -> Call] /\ q \in Queues /\ Queues = {kbd, pipe} /\ kbd # pipe
      /\ ioq \in Rings
  BY UserFacts DEF Call, Queues
<1>2. PICK p : p = [pc EXCEPT ![t] = "get"]
  OBVIOUS
<1>3. p \in [Threads -> PC] /\ p[t] = "get" /\ \A u \in Threads \ {t} : p[u] = pc[u]
  BY <1>1, <1>2 DEF PC
<1>4. ioq' = Emptied(q)
  BY DEF Take, Emptied
<1>5. /\ ioq' \in Rings
      /\ \A x \in Queues :
           /\ ioq'[x].buf = ioq[x].buf /\ ioq'[x].head = ioq[x].head
           /\ ioq'[x].tail = IF x = q THEN next_pos(ioq[x].tail) ELSE ioq[x].tail
           /\ ioq'[x].consumer = ioq[x].consumer
           /\ ioq'[x].producer = IF x = q THEN NULL ELSE ioq[x].producer
  BY <1>1, <1>4, TakeRing
<1>6. /\ Kernel(sched', p, call, ioq') /\ sched'.cur = t
      /\ \A u \in Threads :
           sched'.status[u] = IF u = ioq[q].producer THEN "READY" ELSE s.status[u]
  <2>1. PICK slot \in {"consumer", "producer"} : slot = "producer"
    OBVIOUS
  <2>2. PICK io : io = ioq'
    OBVIOUS
  <2>3. PICK u : u = IF slot = "consumer" THEN ioq[q].consumer ELSE ioq[q].producer
    OBVIOUS
  <2>4. u = ioq[q].producer /\ sched' = Wakeup(s, u)
    BY <2>1, <2>3 DEF Take
  <2>5. Kernel(s, p, call, ioq)
    BY <1>2
  <2>6. SlotSet(ioq, io, q, slot, NULL)
    BY <1>5, <2>1, <2>2 DEF SlotSet
  <2>7. /\ Kernel(Wakeup(s, u), p, call, io) /\ Wakeup(s, u).cur = s.cur
        /\ \A v \in Threads :
             Wakeup(s, u).status[v] = IF v = u THEN "READY" ELSE s.status[v]
    BY <1>1, <2>3, <2>5, <2>6, WakeSlot
  <2> QED BY <2>2, <2>4, <2>7
<1>7. /\ Kernel(sched', pc', call', ioq') /\ call[t] \in Call
      /\ pc' = [p EXCEPT ![t] = IF call[t].left = 1 THEN "user" ELSE "get"]
      /\ call' = [call EXCEPT ![t].left = @ - 1]
  <2>1. /\ pc' = [p EXCEPT ![t] = IF call[t].left = 1 THEN "user" ELSE "get"]
        /\ call' = [call EXCEPT ![t].left = @ - 1]
    BY <1>1, <1>2 DEF Take, Done, Goto
  <2>2. /\ Kernel(sched', [p EXCEPT ![t] = IF call[t].left = 1 THEN "user" ELSE "get"],
                          [call EXCEPT ![t].left = @ - 1], ioq')
        /\ call[t] \in Call
    BY <1>1, <1>3, <1>6, DonePart
  <2> QED BY <2>1, <2>2
<1>8. /\ pc'[t] \in {"user", "get"} /\ call'[t].ioq = q /\ call'[t].left = call[t].left - 1
      /\ \A u \in Threads \ {t} : pc'[u] = pc[u] /\ call'[u] = call[u]
  BY <1>1, <1>3, <1>7 DEF Call
<1>9. q # kbd => call[t].left - 1 <= ioq_length(pipe)'
  <2> SUFFICES ASSUME q = pipe PROVE call[t].left - 1 <= ioq_length(pipe)'
    BY <1>1
  <2>1. PICK h \in 0..bufsize - 1, n \in 0..bufsize - 1 :
          h = ioq[pipe].head /\ n = ioq[pipe].tail
    BY <1>1 DEF Rings, Ring
  <2>2. ioq_length(pipe) = Length(h, n) /\ ioq_length(pipe)' = Length(h, next_pos(n))
    <3>1. ioq'[pipe].head = h /\ ioq'[pipe].tail = next_pos(n)
      BY <1>1, <1>5, <2>1
    <3>2. ioq_length(pipe)' = Length(ioq'[pipe].head, ioq'[pipe].tail)
      BY DEF ioq_length, Length
    <3> QED BY <2>1, <3>1, <3>2 DEF ioq_length, Length
  <2>3. h # n /\ call[t].left <= ioq_length(pipe)
    BY <1>1, <2>1 DEF ioq_empty
  <2>4. Length(h, next_pos(n)) = Length(h, n) - 1 /\ Length(h, n) \in 0..bufsize - 1
    BY <2>3, RingLength
  <2> QED BY <1>7, <2>2, <2>3, <2>4, IoQueueAssumption DEF Call
<1>10. CallSound(t)'
  BY <1>1, <1>8, <1>9 DEF CallSound
<1>11. Calls'
  BY <1>8, <1>10, OthersCalls
<1>12. byte' \in Bytes
  BY <1>1 DEF Take, Rings, Ring
<1> QED BY <1>4, <1>5, <1>6, <1>7, <1>8, <1>11, <1>12 DEF IInv

(* ioq_putchar stores a byte at head; s as before.                         *)
LEMMA PutStep ==
  ASSUME IInv, NEW t \in Users, t = sched.cur, call[t].ioq = pipe, t \in PipeWriters,
         NEW s, Kernel(s, [pc EXCEPT ![t] = "put"], call, ioq), s.cur = t,
         NEW b \in Bytes, ioq' = Stored(pipe, b), byte' = b,
         sched' = Wakeup(s, ioq[pipe].consumer), Done(t, "put")
  PROVE  /\ IInv' /\ pc'[t] \in {"user", "put"}
         /\ \A u \in Threads \ {t} : pc'[u] = pc[u]
         /\ \A u \in Threads :
              sched'.status[u] = IF u = ioq[pipe].consumer THEN "READY" ELSE s.status[u]
<1>1. /\ t \in Threads /\ t # idle_thread /\ pc \in [Threads -> PC]
      /\ call \in [Threads -> Call] /\ pipe \in Queues /\ kbd # pipe
      /\ ioq \in Rings
  BY UserFacts
<1>2. PICK p : p = [pc EXCEPT ![t] = "put"]
  OBVIOUS
<1>3. p \in [Threads -> PC] /\ p[t] = "put" /\ \A u \in Threads \ {t} : p[u] = pc[u]
  BY <1>1, <1>2 DEF PC
<1>4. PICK io : io = ioq'
  OBVIOUS
<1>5. /\ io \in Rings
      /\ \A x \in Queues :
           /\ io[x].consumer = IF x = pipe THEN NULL ELSE ioq[x].consumer
           /\ io[x].producer = ioq[x].producer
  <2>1. io = Stored(pipe, b)
    BY <1>4
  <2>2. /\ io \in Rings
        /\ \A x \in Queues :
             /\ io[x].buf = IF x = pipe THEN [ioq[x].buf EXCEPT ![ioq[x].head] = b]
                                        ELSE ioq[x].buf
             /\ io[x].head = IF x = pipe THEN next_pos(ioq[x].head) ELSE ioq[x].head
             /\ io[x].tail = ioq[x].tail
             /\ io[x].consumer = IF x = pipe THEN NULL ELSE ioq[x].consumer
             /\ io[x].producer = ioq[x].producer
    BY <1>1, <2>1, PutRing
  <2> QED BY <2>2
<1>6. /\ Kernel(sched', p, call, io) /\ sched'.cur = t
      /\ \A u \in Threads :
           sched'.status[u] = IF u = ioq[pipe].consumer THEN "READY" ELSE s.status[u]
  <2>1. PICK slot \in {"consumer", "producer"} : slot = "consumer"
    OBVIOUS
  <2>2. PICK u : u = IF slot = "consumer" THEN ioq[pipe].consumer ELSE ioq[pipe].producer
    OBVIOUS
  <2>3. u = ioq[pipe].consumer /\ sched' = Wakeup(s, u)
    BY <2>1, <2>2
  <2>4. Kernel(s, p, call, ioq)
    BY <1>2
  <2>5. SlotSet(ioq, io, pipe, slot, NULL)
    BY <1>5, <2>1 DEF SlotSet
  <2>6. /\ Kernel(Wakeup(s, u), p, call, io) /\ Wakeup(s, u).cur = s.cur
        /\ \A v \in Threads :
             Wakeup(s, u).status[v] = IF v = u THEN "READY" ELSE s.status[v]
    BY <1>1, <2>2, <2>4, <2>5, WakeSlot
  <2> QED BY <2>3, <2>6
<1>7. /\ Kernel(sched', pc', call', io) /\ call[t] \in Call
      /\ pc' = [p EXCEPT ![t] = IF call[t].left = 1 THEN "user" ELSE "put"]
      /\ call' = [call EXCEPT ![t].left = @ - 1]
  <2>1. /\ pc' = [p EXCEPT ![t] = IF call[t].left = 1 THEN "user" ELSE "put"]
        /\ call' = [call EXCEPT ![t].left = @ - 1]
    BY <1>1, <1>2 DEF Done, Goto
  <2>2. /\ Kernel(sched', [p EXCEPT ![t] = IF call[t].left = 1 THEN "user" ELSE "put"],
                          [call EXCEPT ![t].left = @ - 1], io)
        /\ call[t] \in Call
    BY <1>1, <1>3, <1>6, DonePart
  <2> QED BY <2>1, <2>2
<1>8. /\ pc'[t] \in {"user", "put"} /\ call'[t].ioq = pipe
      /\ \A u \in Threads \ {t} : pc'[u] = pc[u] /\ call'[u] = call[u]
  BY <1>1, <1>3, <1>7 DEF Call
<1>9. CallSound(t)'
  BY <1>1, <1>8 DEF CallSound
<1>10. Calls'
  BY <1>8, <1>9, OthersCalls
<1> QED BY <1>4, <1>5, <1>6, <1>7, <1>8, <1>10 DEF IInv

(* The condition of ioq_wait's ASSERT. *)
Free(q, slot) == (IF slot = "consumer" THEN ioq[q].consumer ELSE ioq[q].producer) = NULL

(* What WaitAsConsumer and WaitAsProducer do. *)
Waits(s, t, q, slot) ==
  /\ Acquires(s, q) =>
       /\ sched' = thread_block(ASSERT(mutex_acquire(s, q), Free(q, slot)), "BLOCKED")
       /\ SlotSet(ioq, ioq', q, slot, t) /\ Goto(t, WaitLabel(slot))
  /\ ~Acquires(s, q) =>
       sched' = mutex_acquire(s, q) /\ Goto(t, LockLabel(slot)) /\ UNCHANGED ioq
  /\ ioq' \in Rings /\ UNCHANGED <<call, byte>>

(* A thread that has to wait: it acquires the mutex and is suspended in    *)
(* its slot (the slots are then free), or sleeps on the mutex.             *)
LEMMA WaitStep ==
  ASSUME IInv, NEW t \in Users, t = sched.cur, NEW q, q = call[t].ioq, NEW s,
         NEW p, Kernel(s, p, call, ioq), s.cur = t, p[t] \in {"get", "getlock", "put", "putlock"},
         \A u \in Threads \ {t} : p[u] = pc[u],
         NEW slot \in {"consumer", "producer"},
         IF slot = "consumer" THEN q = kbd /\ t \in KbdReaders
                              ELSE q = pipe /\ t \in PipeWriters,
         Waits(s, t, q, slot)
  PROVE  /\ IInv' /\ OthersSleep(s, sched', t)
         /\ IF Available(s, q) THEN pc'[t] = WaitLabel(slot) /\ sched'.status[t] = "BLOCKED"
                               ELSE pc'[t] = LockLabel(slot)
         /\ \A u \in Threads \ {t} : pc'[u] = pc[u]
<1>1. /\ t \in Threads /\ t # idle_thread /\ pc \in [Threads -> PC]
      /\ call \in [Threads -> Call] /\ q \in Queues
  BY UserFacts DEF Call
<1>2. Acquires(s, q) <=> Available(s, q)
  <2>1. s.mutex[q].holder # t
    BY <1>1 DEF Kernel, Locks, Holds
  <2> QED BY <2>1 DEF Acquires
<1>3. PICK to : to = IF Available(s, q) THEN WaitLabel(slot) ELSE LockLabel(slot)
  OBVIOUS
<1>4. /\ pc' = [p EXCEPT ![t] = to] /\ pc' = [pc EXCEPT ![t] = to]
  <2>1. p \in [Threads -> PC]
    BY DEF Kernel
  <2>2. [p EXCEPT ![t] = to] = [pc EXCEPT ![t] = to]
    BY <1>1, <2>1
  <2> QED BY <1>2, <1>3, <2>2 DEF Goto, Waits
<1>5. Kernel(sched', pc', call, ioq') /\ OthersSleep(s, sched', t)
      /\ (Available(s, q) => sched'.status[t] = "BLOCKED")
  <2>1. PICK a : a = mutex_acquire(s, q)
    OBVIOUS
  <2>2. CASE Available(s, q)
    <3>1. PICK r : r = thread_block(a, "BLOCKED")
      OBVIOUS
    <3>2. PICK io : io = ioq'
      OBVIOUS
    <3>3. SlotSet(ioq, io, q, slot, t)
      BY <1>2, <2>2, <3>2 DEF Waits
    <3>4. Taken(s, a, q)
      BY <1>1, <2>1, <2>2, MutexFree
    <3>5. ThreadState(a) /\ Blocked(a, r)
      BY <3>1, <3>4, BlockedFacts DEF Taken, KernelSound, SemaState
    <3>6. /\ ioq[q].consumer = NULL /\ ioq[q].producer = NULL
          /\ Kernel(r, [p EXCEPT ![t] = to], call, io) /\ r.status[t] = "BLOCKED"
          /\ OthersSleep(s, r, t)
      <4>1. to = WaitLabel(slot)
        BY <1>3, <2>2
      <4> QED BY <1>1, <2>2, <3>3, <3>4, <3>5, <4>1, WaitPart, SMTT(60)
    <3>7. ASSERT(a, Free(q, slot)) = a
      BY <3>5, <3>6, AssertFacts DEF Free
    <3>8. sched' = r
      BY <1>2, <2>1, <2>2, <3>1, <3>7 DEF Waits
    <3> QED BY <1>4, <3>2, <3>6, <3>8
  <2>3. CASE ~Available(s, q)
    <3>1. to \in {"getlock", "putlock"} /\ sched' = a /\ ioq' = ioq
      BY <1>2, <1>3, <2>1, <2>3 DEF Waits, LockLabel
    <3>2. Kernel(a, [p EXCEPT ![t] = to], call, ioq) /\ OthersSleep(s, a, t)
      BY <1>1, <2>1, <2>3, <3>1, LockPart
    <3> QED BY <1>4, <2>3, <3>1, <3>2
  <2> QED BY <2>2, <2>3
<1>6. /\ pc'[t] = to /\ \A u \in Threads \ {t} : pc'[u] = pc[u]
  BY <1>1, <1>4
<1>7. CallSound(t)'
  BY <1>3, <1>6 DEF CallSound, Waits, WaitLabel, LockLabel
<1>8. Calls'
  BY <1>6, <1>7, OthersCalls DEF Waits
<1> QED BY <1>3, <1>5, <1>6, <1>8 DEF IInv, Waits

-----------------------------------------------------------------------------
(* With one thread that can be in ioq_wait on q, and that thread running   *)
(* elsewhere, the mutex of q is free.                                      *)
LEMMA AloneAcquires ==
  ASSUME IInv, NEW q \in Queues,
         \A u \in Threads : pc[u] \in {"getwait", "putwait"} => call[u].ioq # q
  PROVE  Available(sched, q)
<1>1. /\ Locks(sched, pc, call) /\ NULL \notin Threads /\ q \in Mutexes
      /\ sched.mutex \in [Mutexes -> [holder : Threads \cup {NULL}, repeat : Nat]]
  BY KernelFacts DEF IInv, Kernel
<1>2. sched.mutex[q].holder = NULL
  BY <1>1 DEF Locks, Holds
<1> QED BY <1>1, <1>2 DEF Locks, Available

-----------------------------------------------------------------------------
(* ioq_getchar *)

(* What the thread that takes a byte does for the sleepers. *)
LEMMA TakeWakes ==
  ASSUME IInv, NEW t \in Users, t = sched.cur, NEW q, q = call[t].ioq,
         NEW s, Kernel(s, [pc EXCEPT ![t] = "get"], call, ioq), s.cur = t, Take(t, s, q),
         IF q = kbd THEN t \in KbdReaders
                    ELSE ~ioq_empty(q) /\ call[t].left <= ioq_length(pipe),
         OnlyLocksWoken(sched, s, pc)
  PROVE  /\ IInv'
         /\ OneReader /\ ReadersWoken => ReadersWoken'
         /\ OneWriter /\ WritersWoken => WritersWoken'
<1>1. /\ t \in Threads /\ q \in Queues /\ Queues = {kbd, pipe} /\ kbd # pipe
      /\ ioq \in Rings
  BY UserFacts DEF Call, Queues
<1>2. /\ IInv' /\ ioq' = Emptied(q) /\ pc'[t] \in {"user", "get"}
      /\ \A u \in Threads \ {t} : pc'[u] = pc[u]
      /\ \A u \in Threads :
           sched'.status[u] = IF u = ioq[q].producer THEN "READY" ELSE s.status[u]
  BY TakeStep
<1> USE DEF OnlyLocksWoken
<1>3. \A x \in Queues \ {q} : ioq'[x].head = ioq[x].head /\ ioq'[x].tail = ioq[x].tail
  BY <1>1, <1>2, TakeRing
<1>4. \A u \in Threads : /\ ioq[q].producer = u => pc[u] = "putwait"
                         /\ pc[u] = "putwait" => call[u].ioq = pipe
                         /\ pc[u] = "putwait" /\ sched.status[u] = "BLOCKED"
                              => ioq[pipe].producer = u
  <2>1. Slots(sched, pc, call, ioq) /\ Calls
    BY DEF IInv, Kernel
  <2>2. ASSUME NEW u \in Threads
        PROVE  /\ ioq[q].producer = u => pc[u] = "putwait"
               /\ pc[u] = "putwait" => call[u].ioq = pipe
               /\ pc[u] = "putwait" /\ sched.status[u] = "BLOCKED" => ioq[pipe].producer = u
    BY <1>1, <2>1 DEF Slots, Calls, CallSound
  <2> QED BY <2>2
<1>5. ASSUME OneReader, ReadersWoken PROVE ReadersWoken'
  <2>1. CASE q = kbd
    BY <1>2, <1>5, <2>1, ReaderSteps
  <2>2. CASE q # kbd
    <3>1. ioq_empty(kbd)' <=> ioq_empty(kbd)
      BY <1>1, <1>3, <2>2 DEF ioq_empty
    <3> QED BY <1>1, <1>2, <1>4, <1>5, <3>1, ReadersLeft
  <2> QED BY <2>1, <2>2
<1>6. ASSUME OneWriter, WritersWoken PROVE WritersWoken'
  <2>1. CASE q = pipe
    <3>1. ASSUME NEW u \in Threads
          PROVE  pc'[u] # "putlock" /\ ~(pc'[u] = "putwait" /\ sched'.status[u] = "BLOCKED")
      BY <1>2, <1>4, <1>6, <2>1 DEF WritersWoken
    <3> QED BY <3>1 DEF WritersWoken
  <2>2. CASE q # pipe
    <3>1. ioq_full(pipe)' <=> ioq_full(pipe)
      BY <1>1, <1>3, <2>2 DEF ioq_full
    <3> QED BY <1>1, <1>2, <1>6, <3>1, WritersLeft
  <2> QED BY <2>1, <2>2
<1> QED BY <1>2, <1>5, <1>6

(* t finds a byte, or waits for one, or has been woken.                    *)
LEMMA GetcharStep ==
  ASSUME IInv, NEW t \in Users, ioq_getchar(t)
  PROVE  /\ IInv'
         /\ OneReader /\ ReadersWoken => ReadersWoken'
         /\ OneWriter /\ WritersWoken => WritersWoken'
<1>1. PICK q : q = call[t].ioq
  OBVIOUS
<1>2. /\ t \in Threads /\ t # idle_thread /\ q \in Queues /\ Queues = {kbd, pipe}
      /\ kbd # pipe /\ ioq \in Rings /\ pc \in [Threads -> PC] /\ call \in [Threads -> Call]
      /\ Kernel(sched, pc, call, ioq) /\ CallSound(t) /\ t = sched.cur
      /\ pc[t] = "get" => call[t].left # 0
  <2>1. /\ t \in Threads /\ t # idle_thread /\ kbd # pipe /\ ioq \in Rings
        /\ pc \in [Threads -> PC] /\ call \in [Threads -> Call]
    BY UserFacts
  <2> QED BY <1>1, <2>1 DEF IInv, Kernel, Control, Calls, Call, Queues, ioq_getchar, At
<1>3. CASE At(t, "get") /\ ~ioq_empty(q) /\ Take(t, sched, q)
  <2>1. [pc EXCEPT ![t] = "get"] = pc
    BY <1>2, <1>3 DEF At
  <2>2. IF q = kbd THEN t \in KbdReaders
                   ELSE ~ioq_empty(q) /\ call[t].left <= ioq_length(pipe)
    BY <1>1, <1>2, <1>3 DEF At, CallSound
  <2>3. OnlyLocksWoken(sched, sched, pc)
    BY DEF OnlyLocksWoken
  <2> QED BY <1>1, <1>2, <1>3, <2>1, <2>2, <2>3, TakeWakes
<1>4. CASE At(t, "getwait") /\ Take(t, mutex_release(sched, q), q)
  <2>1. q = kbd /\ t \in KbdReaders
    BY <1>1, <1>2, <1>4 DEF At, CallSound
  <2>2. PICK r : Leaves(sched, r, q) /\ Take(t, r, q)
    BY <1>1, <1>2, <1>4, HolderReleases DEF At
  <2>3. PICK to \in {"get", "put"} : to = "get"
    OBVIOUS
  <2>4. pc[t] \in {"getwait", "putwait"}
    BY <1>4 DEF At
  <2>5. /\ Kernel(r, [pc EXCEPT ![t] = to], call, ioq) /\ r.cur = t
        /\ OnlyLocksWoken(sched, r, pc)
    <3>1. Kernel(sched, pc, call, ioq) /\ t = sched.cur /\ Leaves(sched, r, q)
      BY <1>2, <2>2
    <3> QED BY <1>1, <2>4, <3>1, ReleasePart
  <2> QED BY <1>1, <1>2, <2>1, <2>2, <2>3, <2>5, TakeWakes
<1>5. CASE ((At(t, "get") /\ ioq_empty(q)) \/ At(t, "getlock")) /\ WaitAsConsumer(t, q)
  <2>1. q = kbd /\ t \in KbdReaders
    <3>1. CASE At(t, "getlock")
      BY <1>1, <1>2, <3>1 DEF At, CallSound
    <3>2. CASE At(t, "get") /\ ioq_empty(q) /\ q = pipe
      <4>1. ioq_length(pipe) = 0
        BY <1>2, <3>2, IoQueueAssumption DEF ioq_empty, ioq_length, Rings, Ring
      <4> QED BY <1>1, <1>2, <3>2, <4>1, IoQueueAssumption DEF At, CallSound, Call
    <3> QED BY <1>1, <1>2, <1>5, <3>1, <3>2 DEF At, CallSound
  <2>2. PICK slot \in {"consumer", "producer"} : slot = "consumer"
    OBVIOUS
  <2>3. Free(q, slot) <=> ioq[q].consumer = NULL
    BY <2>2 DEF Free
  <2>4. /\ Waits(sched, t, q, slot)
        /\ \A x \in Queues : ioq'[x].head = ioq[x].head /\ ioq'[x].tail = ioq[x].tail
    <3>1. CASE Acquires(sched, q)
      <4>1. /\ sched' = thread_block(ASSERT(mutex_acquire(sched, q), Free(q, slot)), "BLOCKED")
            /\ ioq' = [ioq EXCEPT ![q].consumer = t] /\ Goto(t, WaitLabel(slot))
            /\ UNCHANGED <<call, byte>>
        BY <1>5, <2>2, <3>1 DEF WaitAsConsumer, WaitLabel, Free
      <4>2. /\ ioq' \in Rings
            /\ \A x \in Queues : ioq'[x].head = ioq[x].head /\ ioq'[x].tail = ioq[x].tail
        BY <1>2, <4>1 DEF Rings, Ring
      <4>3. SlotSet(ioq, ioq', q, slot, t)
        BY <1>2, <2>2, <4>1 DEF Rings, Ring, SlotSet
      <4> QED BY <3>1, <4>1, <4>2, <4>3 DEF Waits
    <3>2. CASE ~Acquires(sched, q)
      BY <1>2, <1>5, <2>2, <2>3, <3>2 DEF WaitAsConsumer, Waits, LockLabel
    <3> QED BY <3>1, <3>2
  <2>5. /\ IInv' /\ OthersSleep(sched, sched', t)
        /\ IF Available(sched, q) THEN pc'[t] = WaitLabel(slot) /\ sched'.status[t] = "BLOCKED"
                                  ELSE pc'[t] = LockLabel(slot)
        /\ \A u \in Threads \ {t} : pc'[u] = pc[u]
    <3>1. /\ pc[t] \in {"get", "getlock", "put", "putlock"}
          /\ IF slot = "consumer" THEN q = kbd /\ t \in KbdReaders
                                  ELSE q = pipe /\ t \in PipeWriters
      BY <1>5, <2>1, <2>2 DEF At
    <3> QED BY <1>1, <1>2, <2>3, <2>4, <3>1, WaitStep
  <2>6. /\ pc'[t] # "getwait" => pc'[t] = "getlock"
        /\ pc'[t] \notin {"putlock", "putwait"}
    BY <2>2, <2>5 DEF WaitLabel, LockLabel
  <2>7. ASSUME OneReader, ReadersWoken PROVE ReadersWoken'
    <3>1. ASSUME NEW u \in Threads, pc[u] \in {"getwait", "putwait"} PROVE call[u].ioq # q
      <4>1. CallSound(u) /\ (u \in KbdReaders => u = t)
        BY <2>1, <2>7 DEF IInv, Calls, OneReader
      <4> QED BY <1>2, <1>5, <2>1, <3>1, <4>1 DEF CallSound, At
    <3>2. Available(sched, q)
      BY <1>2, <3>1, AloneAcquires
    <3>3. pc'[t] = "getwait" /\ sched'.status[t] = "BLOCKED"
      BY <2>2, <2>5, <3>2 DEF WaitLabel
    <3>4. ioq_empty(kbd)'
      BY <1>2, <1>5, <2>1, <2>4, <2>7 DEF ioq_empty, At, ReadersWoken
    <3> QED BY <2>1, <2>5, <2>7, <3>3, <3>4, ReaderSteps
  <2>8. ASSUME OneWriter, WritersWoken PROVE WritersWoken'
    <3>1. ioq_full(pipe)' <=> ioq_full(pipe)
      BY <1>2, <2>4 DEF ioq_full
    <3>2. \A u \in Threads \ {t} : pc[u] = "putwait" /\ sched'.status[u] = "BLOCKED" =>
            sched.status[u] = "BLOCKED"
      BY <2>5 DEF OthersSleep, IInv, Kernel, Control
    <3> QED BY <1>2, <2>5, <2>6, <2>8, <3>1, <3>2, WritersLeft
  <2> QED BY <2>5, <2>7, <2>8
<1> QED BY <1>1, <1>3, <1>4, <1>5 DEF ioq_getchar

-----------------------------------------------------------------------------
(* ioq_putchar *)

(* A producer that comes from ioq_wait has released the mutex.             *)
LEMMA ProducerReleases ==
  ASSUME IInv, NEW t \in Users, t = sched.cur, pc[t] \in {"put", "putwait"},
         NEW s, s = IF pc[t] = "putwait" THEN mutex_release(sched, pipe) ELSE sched
  PROVE  /\ Kernel(s, [pc EXCEPT ![t] = "put"], call, ioq) /\ s.cur = t
         /\ OnlyLocksWoken(sched, s, pc)
         /\ t \in PipeWriters /\ call[t].ioq = pipe
         /\ pc[t] = "putwait" => Available(s, pipe)
<1>1. /\ t \in Threads /\ pc \in [Threads -> PC] /\ Kernel(sched, pc, call, ioq) /\ CallSound(t)
  BY UserFacts DEF IInv, Calls
<1>2. t \in PipeWriters /\ call[t].ioq = pipe
  BY <1>1 DEF CallSound
<1>3. CASE pc[t] = "put"
  <2>1. s = sched /\ [pc EXCEPT ![t] = "put"] = pc
    BY <1>1, <1>3
  <2> QED BY <1>1, <1>2, <1>3, <2>1 DEF OnlyLocksWoken
<1>4. CASE pc[t] = "putwait"
  <2>1. Leaves(sched, s, pipe)
    BY <1>1, <1>2, <1>4, HolderReleases
  <2>2. PICK to, q : to \in {"get", "put"} /\ to = "put" /\ q = pipe
    OBVIOUS
  <2>3. /\ Kernel(s, [pc EXCEPT ![t] = to], call, ioq) /\ s.cur = t
        /\ OnlyLocksWoken(sched, s, pc) /\ Available(s, q)
    <3>1. /\ Kernel(sched, pc, call, ioq) /\ q = call[t].ioq /\ Leaves(sched, s, q)
          /\ pc[t] \in {"getwait", "putwait"}
      BY <1>1, <1>2, <1>4, <2>1, <2>2
    <3>2. to \in {"get", "put"}
      BY <2>2
    <3> QED BY <3>1, <3>2, ReleasePart
  <2> QED BY <1>2, <2>2, <2>3
<1> QED BY <1>3, <1>4

(* t finds room, or waits for it, or has been woken.                       *)
LEMMA PutcharStep ==
  ASSUME IInv, NEW t \in Users, ioq_putchar(t)
  PROVE  /\ IInv'
         /\ OneReader /\ ReadersWoken => ReadersWoken'
         /\ OneWriter /\ WritersWoken => WritersWoken'
<1>1. /\ t \in Threads /\ t # idle_thread /\ Queues = {kbd, pipe} /\ pipe \in Queues
      /\ kbd # pipe /\ ioq \in Rings /\ pc \in [Threads -> PC]
      /\ Kernel(sched, pc, call, ioq) /\ CallSound(t)
  BY UserFacts DEF IInv, Calls, Queues
<1>2. /\ t = sched.cur /\ pc[t] \in {"put", "putlock", "putwait"}
      /\ call[t].ioq = pipe /\ t \in PipeWriters
  BY <1>1 DEF ioq_putchar, At, CallSound
<1>3. PICK s : s = IF pc[t] = "putwait" THEN mutex_release(sched, pipe) ELSE sched
  OBVIOUS
<1>4. CASE /\ pc[t] \in {"put", "putwait"} /\ ~ioq_full(pipe)
           /\ \E b \in Bytes : ioq' = Stored(pipe, b) /\ byte' = b
           /\ sched' = Wakeup(s, ioq[pipe].consumer)
           /\ Done(t, "put")
  <2>1. PICK b \in Bytes : ioq' = Stored(pipe, b) /\ byte' = b
    BY <1>4
  <2>2. /\ Kernel(s, [pc EXCEPT ![t] = "put"], call, ioq) /\ s.cur = t
        /\ OnlyLocksWoken(sched, s, pc)
    BY <1>2, <1>3, <1>4, ProducerReleases
  <2>3. /\ IInv' /\ pc'[t] \in {"user", "put"}
        /\ \A u \in Threads \ {t} : pc'[u] = pc[u]
        /\ \A u \in Threads :
             sched'.status[u] = IF u = ioq[pipe].consumer THEN "READY" ELSE s.status[u]
    BY <1>2, <1>4, <2>1, <2>2, PutStep
  <2>4. ASSUME OneReader, ReadersWoken PROVE ReadersWoken'
    <3>1. ioq_empty(kbd)' <=> ioq_empty(kbd)
      BY <1>1, <2>1, PutRing DEF ioq_empty, Queues
    <3>2. ASSUME NEW u \in Threads \ {t}, pc[u] = "getwait" PROVE u # ioq[pipe].consumer
      BY <1>1, <3>2 DEF IInv, Kernel, Slots, Calls, CallSound
    <3>3. \A u \in Threads \ {t} : pc[u] = "getwait" =>
            (sched'.status[u] = "BLOCKED" <=> sched.status[u] = "BLOCKED")
      BY <2>2, <2>3, <3>2 DEF OnlyLocksWoken
    <3> QED BY <1>1, <2>3, <2>4, <3>1, <3>3, ReadersLeft
  <2>5. ASSUME OneWriter, WritersWoken PROVE WritersWoken'
    BY <1>2, <2>3, <2>5, WriterSteps
  <2> QED BY <2>3, <2>4, <2>5
<1>5. CASE /\ \/ pc[t] \in {"put", "putwait"} /\ ioq_full(pipe)
              \/ pc[t] = "putlock"
           /\ WaitAsProducer(t, pipe, s)
  <2>1. PICK slot \in {"consumer", "producer"} : slot = "producer"
    OBVIOUS
  <2>2. PICK p : p = [pc EXCEPT ![t] = IF pc[t] = "putlock" THEN "putlock" ELSE "put"]
    OBVIOUS
  <2>3. /\ Kernel(s, p, call, ioq) /\ s.cur = t /\ OnlyLocksWoken(sched, s, pc)
        /\ pc[t] = "putwait" => Available(s, pipe)
    <3>1. CASE pc[t] = "putlock"
      <4>1. p = pc /\ s = sched
        BY <1>1, <1>3, <2>2, <3>1
      <4> QED BY <1>1, <1>2, <3>1, <4>1 DEF OnlyLocksWoken
    <3>2. CASE pc[t] \in {"put", "putwait"}
      <4>1. p = [pc EXCEPT ![t] = "put"]
        BY <2>2, <3>2
      <4> QED BY <1>2, <1>3, <3>2, <4>1, ProducerReleases
    <3> QED BY <1>2, <3>1, <3>2
  <2>4. /\ p[t] \in {"get", "getlock", "put", "putlock"}
        /\ \A u \in Threads \ {t} : p[u] = pc[u]
    BY <1>1, <2>2
  <2>5. /\ Waits(s, t, pipe, slot)
        /\ \A x \in Queues : ioq'[x].head = ioq[x].head /\ ioq'[x].tail = ioq[x].tail
    <3>1. CASE Acquires(s, pipe)
      <4>1. /\ sched' = thread_block(ASSERT(mutex_acquire(s, pipe), Free(pipe, slot)), "BLOCKED")
            /\ ioq' = [ioq EXCEPT ![pipe].producer = t] /\ Goto(t, WaitLabel(slot))
            /\ UNCHANGED <<call, byte>>
        BY <1>5, <2>1, <3>1 DEF WaitAsProducer, WaitLabel, Free
      <4>2. /\ ioq' \in Rings
            /\ \A x \in Queues : ioq'[x].head = ioq[x].head /\ ioq'[x].tail = ioq[x].tail
        BY <1>1, <4>1 DEF Rings, Ring
      <4>3. SlotSet(ioq, ioq', pipe, slot, t)
        BY <1>1, <2>1, <4>1 DEF Rings, Ring, SlotSet
      <4> QED BY <3>1, <4>1, <4>2, <4>3 DEF Waits
    <3>2. CASE ~Acquires(s, pipe)
      BY <1>1, <1>5, <2>1, <3>2 DEF WaitAsProducer, Waits, LockLabel
    <3> QED BY <3>1, <3>2
  <2>6. /\ IInv' /\ OthersSleep(s, sched', t)
        /\ IF Available(s, pipe) THEN pc'[t] = WaitLabel(slot) /\ sched'.status[t] = "BLOCKED"
                                 ELSE pc'[t] = LockLabel(slot)
        /\ \A u \in Threads \ {t} : pc'[u] = pc[u]
    <3>1. PICK q : q = pipe
      OBVIOUS
    <3>2. /\ q = call[t].ioq /\ Waits(s, t, q, slot)
          /\ IF slot = "consumer" THEN q = kbd /\ t \in KbdReaders
                                  ELSE q = pipe /\ t \in PipeWriters
      BY <1>2, <2>1, <2>5, <3>1
    <3> QED BY <1>2, <2>3, <2>4, <3>1, <3>2, WaitStep
  <2>7. /\ pc'[t] # "putwait" => pc'[t] = "putlock"
        /\ pc'[t] \notin {"getlock", "getwait"}
    BY <2>1, <2>6 DEF WaitLabel, LockLabel
  <2>8. ASSUME OneReader, ReadersWoken PROVE ReadersWoken'
    <3>1. ioq_empty(kbd)' <=> ioq_empty(kbd)
      BY <1>1, <2>5 DEF ioq_empty
    <3>2. \A u \in Threads \ {t} : pc[u] = "getwait" =>
            (sched'.status[u] = "BLOCKED" <=> sched.status[u] = "BLOCKED")
      BY <2>3, <2>6 DEF OthersSleep, OnlyLocksWoken, IInv, Kernel, Control
    <3> QED BY <1>1, <2>6, <2>7, <2>8, <3>1, <3>2, ReadersLeft
  <2>9. ASSUME OneWriter, WritersWoken PROVE WritersWoken'
    <3>1. ioq_full(pipe)'
      BY <1>1, <1>2, <1>5, <2>5, <2>9 DEF ioq_full, WritersWoken
    <3>2. CASE pc[t] = "putwait"
      <4>1. pc'[t] = "putwait"
        BY <2>1, <2>3, <2>6, <3>2 DEF WaitLabel
      <4> QED BY <1>2, <2>6, <2>9, <3>1, <4>1, WriterSteps
    <3>3. CASE pc[t] = "put"
      <4>1. ASSUME NEW u \in Threads, pc[u] \in {"getwait", "putwait"} PROVE call[u].ioq # pipe
        <5>1. CallSound(u) /\ (u \in PipeWriters => u = t)
          BY <1>2, <2>9 DEF IInv, Calls, OneWriter
        <5> QED BY <1>1, <1>2, <3>3, <4>1, <5>1 DEF CallSound
      <4>2. Available(s, pipe)
        BY <1>1, <1>3, <3>3, <4>1, AloneAcquires
      <4>3. pc'[t] = "putwait"
        BY <2>1, <2>6, <4>2 DEF WaitLabel
      <4> QED BY <1>2, <2>6, <2>9, <3>1, <4>3, WriterSteps
    <3> QED BY <1>1, <1>2, <2>9, <3>2, <3>3 DEF WritersWoken
  <2> QED BY <2>6, <2>8, <2>9
<1> QED BY <1>2, <1>3, <1>4, <1>5 DEF ioq_putchar, At

-----------------------------------------------------------------------------
(* Idle and the interrupts *)

(* The CPU goes to another thread while the running one is not in a call.  *)
LEMMA SwitchStep ==
  ASSUME IInv, Switches(sched, sched'), pc[sched.cur] \notin {"get", "put"},
         pc' \in [Threads -> PC], pc'[idle_thread] \in {"idle", "halt"},
         \A u \in Threads \ {idle_thread} : pc'[u] = pc[u], UNCHANGED <<ioq, call, byte>>
  PROVE  /\ IInv'
         /\ ReadersWoken => ReadersWoken'
         /\ WritersWoken => WritersWoken'
<1>1. /\ Kernel(sched, pc, call, ioq) /\ pc[idle_thread] \in {"idle", "halt"}
      /\ idle_thread \in Threads
  BY KernelFacts DEF IInv, Kernel, Control
<1>2. /\ KernelSound(sched') /\ Keeps(sched, sched', {}) /\ sched'.mutex = sched.mutex
      /\ StatusFrame(sched, sched', {})
  BY DEF Switches
<1>3. Kernel(sched', pc', call, ioq)
  <2>1. PICK r, p1 : r = sched' /\ p1 = pc'
    OBVIOUS
  <2>2. /\ KernelSound(r) /\ Keeps(sched, r, {}) /\ r.mutex = sched.mutex
        /\ StatusFrame(sched, r, {}) /\ p1 \in [Threads -> PC]
        /\ p1[idle_thread] \in {"idle", "halt"}
        /\ \A u \in Threads \ {idle_thread} : p1[u] = pc[u]
    BY <1>2, <2>1
  <2>3. Kernel(r, p1, call, ioq)
    BY <1>1, <2>2, SwitchPart
  <2> QED BY <2>1, <2>3
<1>4. \A u \in Threads \ {idle_thread} :
        sched'.status[u] = "BLOCKED" <=> sched.status[u] = "BLOCKED"
  BY <1>2 DEF StatusFrame, Runnable
<1>5. \A q \in Queues : /\ ioq_empty(q)' <=> ioq_empty(q)
                        /\ ioq_full(q)' <=> ioq_full(q)
  BY DEF ioq_empty, ioq_full
<1>6. Calls'
  <2>1. ioq_length(pipe)' = ioq_length(pipe)
    BY DEF ioq_length
  <2>2. ASSUME NEW u \in Threads PROVE CallSound(u)'
    <3>1. CallSound(u)
      BY DEF IInv, Calls
    <3>2. CASE u = idle_thread
      BY <3>2 DEF CallSound
    <3>3. CASE u # idle_thread
      BY <2>1, <3>1, <3>3 DEF CallSound
    <3> QED BY <3>2, <3>3
  <2> QED BY <2>2 DEF Calls
<1>7. ASSUME ReadersWoken PROVE ReadersWoken'
  <2>1. ASSUME NEW u \in Threads
        PROVE  /\ pc'[u] # "getlock"
               /\ pc'[u] = "getwait" => (sched'.status[u] = "BLOCKED" <=> ioq_empty(kbd)')
    <3>1. kbd \in Queues
      BY DEF Queues
    <3> QED BY <1>4, <1>5, <1>7, <3>1 DEF ReadersWoken
  <2> QED BY <2>1 DEF ReadersWoken
<1>8. ASSUME WritersWoken PROVE WritersWoken'
  <2>1. ASSUME NEW u \in Threads
        PROVE  /\ pc'[u] # "putlock"
               /\ pc'[u] = "putwait" /\ sched'.status[u] = "BLOCKED" => ioq_full(pipe)'
    <3>1. pipe \in Queues
      BY DEF Queues
    <3> QED BY <1>4, <1>5, <1>8, <3>1 DEF WritersWoken
  <2> QED BY <2>1 DEF WritersWoken
<1> QED BY <1>3, <1>6, <1>7, <1>8 DEF IInv

(* Leaving hlt moves the idle thread only.                                 *)
LEMMA LeaveHaltFacts ==
  ASSUME IInv, InterruptsOn, LeaveHalt
  PROVE  /\ pc' \in [Threads -> PC] /\ pc'[idle_thread] \in {"idle", "halt"}
         /\ \A u \in Threads \ {idle_thread} : pc'[u] = pc[u]
         /\ pc[sched.cur] \notin {"get", "put"}
<1>1. /\ sched.cur \in Threads /\ idle_thread \in Threads /\ pc \in [Threads -> PC]
      /\ pc[idle_thread] \in {"idle", "halt"}
      /\ \A u \in Threads \ {idle_thread} : pc[u] # "halt"
  BY KernelFacts DEF IInv, Kernel, Control
<1> QED BY <1>1 DEF LeaveHalt, InterruptsOn, PC

(* The clock and idle change no ring.                                      *)
LEMMA IdleTimerStep ==
  ASSUME IInv, IdleBlock \/ Timer
  PROVE  /\ IInv'
         /\ ReadersWoken => ReadersWoken'
         /\ WritersWoken => WritersWoken'
<1>1. KernelSound(sched) /\ idle_thread \in Threads /\ pc \in [Threads -> PC]
  BY KernelFacts DEF IInv, Kernel
<1>2. CASE Timer
  BY <1>1, <1>2, SwitchesFacts, LeaveHaltFacts, SwitchStep DEF Timer
<1>3. CASE IdleBlock
  <2>1. sched.cur = idle_thread /\ pc[idle_thread] = "idle"
    BY <1>3 DEF IdleBlock, At
  <2>2. Blocked(sched, sched')
    BY <1>1, <1>3, BlockedFacts DEF IdleBlock
  <2>3. Switches(sched, sched')
    BY <2>1, <2>2 DEF Blocked, Switches, StatusFrame
  <2>4. /\ pc' \in [Threads -> PC] /\ pc'[idle_thread] \in {"idle", "halt"}
        /\ \A u \in Threads \ {idle_thread} : pc'[u] = pc[u]
    BY <1>1, <1>3 DEF IdleBlock, Goto, PC
  <2> QED BY <1>3, <2>1, <2>3, <2>4, SwitchStep DEF IdleBlock
<1> QED BY <1>2, <1>3

(* The keyboard interrupt: it drops the byte, or wakes the reader.         *)
LEMMA KeyboardStep ==
  ASSUME IInv, Keyboard
  PROVE  /\ IInv'
         /\ ReadersWoken => ReadersWoken'
         /\ WritersWoken => WritersWoken'
<1>1. /\ Kernel(sched, pc, call, ioq) /\ ioq \in Rings /\ kbd \in Queues /\ pipe \in Queues
      /\ kbd # pipe /\ pc[idle_thread] \in {"idle", "halt"} /\ idle_thread \in Threads
  BY KernelFacts, IoQueueAssumption DEF IInv, Kernel, Control, Queues
<1>2. /\ pc' \in [Threads -> PC] /\ pc'[idle_thread] \in {"idle", "halt"}
      /\ \A u \in Threads \ {idle_thread} : pc'[u] = pc[u]
      /\ pc[sched.cur] \notin {"get", "put"}
  BY LeaveHaltFacts DEF Keyboard
<1>3. ASSUME NEW r, KernelSound(r) PROVE Switches(r, r)
  BY <1>3 DEF Switches, Keeps, StatusFrame
<1>4. CASE UNCHANGED <<ioq, sched, byte>>
  BY <1>1, <1>2, <1>3, <1>4, SwitchStep DEF Keyboard, Kernel
<1>5. CASE /\ ~ioq_full(kbd)
           /\ \E b \in Bytes : ioq' = Stored(kbd, b) /\ byte' = b
           /\ sched' = Wakeup(sched, ioq[kbd].consumer)
  <2>1. PICK b, io : b \in Bytes /\ ioq' = Stored(kbd, b) /\ byte' = b /\ io = ioq'
    BY <1>5
  <2>2. io = Stored(kbd, b)
    BY <2>1
  <2>3. /\ io \in Rings
        /\ \A x \in Queues :
             /\ io[x].buf = IF x = kbd THEN [ioq[x].buf EXCEPT ![ioq[x].head] = b]
                                       ELSE ioq[x].buf
             /\ io[x].head = IF x = kbd THEN next_pos(ioq[x].head) ELSE ioq[x].head
             /\ io[x].tail = ioq[x].tail
             /\ io[x].consumer = IF x = kbd THEN NULL ELSE ioq[x].consumer
             /\ io[x].producer = ioq[x].producer
    BY <1>1, <2>1, <2>2, PutRing
  <2>4. /\ Kernel(sched', pc, call, io) /\ sched'.cur = sched.cur
        /\ \A u \in Threads :
             sched'.status[u] = IF u = ioq[kbd].consumer THEN "READY" ELSE sched.status[u]
    <3>1. PICK slot \in {"consumer", "producer"} : slot = "consumer"
      OBVIOUS
    <3>2. PICK u : u = IF slot = "consumer" THEN ioq[kbd].consumer ELSE ioq[kbd].producer
      OBVIOUS
    <3>3. u = ioq[kbd].consumer /\ sched' = Wakeup(sched, u)
      BY <1>5, <3>1, <3>2
    <3>4. SlotSet(ioq, io, kbd, slot, NULL)
      BY <2>3, <3>1 DEF SlotSet
    <3>5. /\ Kernel(Wakeup(sched, u), pc, call, io) /\ Wakeup(sched, u).cur = sched.cur
          /\ \A v \in Threads :
               Wakeup(sched, u).status[v] = IF v = u THEN "READY" ELSE sched.status[v]
      BY <1>1, <3>2, <3>4, WakeSlot
    <3> QED BY <3>3, <3>5
  <2>5. Kernel(sched', pc', call, ioq')
    <3>1. PICK r, p1 : r = sched' /\ p1 = pc'
      OBVIOUS
    <3>2. /\ Kernel(r, pc, call, io) /\ pc[r.cur] \notin {"get", "put"}
          /\ KernelSound(r) /\ Switches(r, r)
      BY <1>2, <1>3, <2>4, <3>1 DEF Kernel
    <3>3. /\ p1 \in [Threads -> PC] /\ p1[idle_thread] \in {"idle", "halt"}
          /\ \A u \in Threads \ {idle_thread} : p1[u] = pc[u]
      BY <1>2, <3>1
    <3>4. Kernel(r, p1, call, io)
      BY <3>2, <3>3, SwitchPart DEF Switches
    <3> QED BY <2>1, <3>1, <3>4
  <2>6. Calls'
    <3>1. ioq_length(pipe)' = ioq_length(pipe)
      BY <1>1, <2>1, <2>3 DEF ioq_length
    <3>2. ASSUME NEW u \in Threads PROVE CallSound(u)'
      <4>1. CallSound(u) /\ call' = call
        BY DEF IInv, Calls, Keyboard
      <4>2. CASE u = idle_thread
        BY <1>2, <4>2 DEF CallSound
      <4>3. CASE u # idle_thread
        BY <1>2, <3>1, <4>1, <4>3 DEF CallSound
      <4> QED BY <4>2, <4>3
    <3> QED BY <3>2 DEF Calls
  <2>7. ASSUME ReadersWoken PROVE ReadersWoken'
    <3>1. ~ioq_empty(kbd)'
      <4>1. PICK h \in 0..bufsize - 1, n \in 0..bufsize - 1 : h = ioq[kbd].head /\ n = ioq[kbd].tail
        BY <1>1 DEF Rings, Ring
      <4>2. PICK k \in 0..bufsize - 1 : k = next_pos(h)
        BY NextPos
      <4>3. Length(h, n) \in 0..bufsize - 1 /\ Length(k, n) = Length(h, n) + 1
        BY <1>5, <4>1, <4>2, RingLength DEF ioq_full
      <4>4. Length(k, n) # 0
        BY <4>3, IoQueueAssumption
      <4>5. k # n
        BY <4>4, RingLength
      <4> QED BY <1>1, <2>1, <2>3, <4>1, <4>2, <4>5 DEF ioq_empty
    <3>2. ASSUME NEW u \in Threads
          PROVE  pc'[u] # "getlock" /\ (pc'[u] = "getwait" => sched'.status[u] # "BLOCKED")
      <4>1. CASE u = idle_thread
        BY <1>2, <4>1
      <4>2. CASE u # idle_thread
        <5>1. pc[u] = "getwait" /\ sched.status[u] = "BLOCKED" => ioq[kbd].consumer = u
          BY <1>1 DEF IInv, Kernel, Slots, Calls, CallSound
        <5> QED BY <1>2, <2>4, <2>7, <4>2, <5>1 DEF ReadersWoken
      <4> QED BY <4>1, <4>2
    <3> QED BY <3>1, <3>2 DEF ReadersWoken
  <2>8. ASSUME WritersWoken PROVE WritersWoken'
    <3>1. ioq_full(pipe)' <=> ioq_full(pipe)
      BY <1>1, <2>1, <2>3 DEF ioq_full
    <3>2. \A u \in Threads \ {idle_thread} :
            pc[u] = "putwait" /\ sched'.status[u] = "BLOCKED" => sched.status[u] = "BLOCKED"
      BY <2>4
    <3>3. pc'[idle_thread] \notin {"putlock", "putwait"}
      BY <1>2
    <3> QED BY <1>1, <1>2, <2>8, <3>1, <3>2, <3>3, WritersLeft
  <2>9. ioq' \in Rings /\ byte' \in Bytes /\ call' = call
    BY <2>1, <2>3 DEF Keyboard
  <2>10. IInv'
    BY <2>5, <2>6, <2>9 DEF IInv
  <2> QED BY <2>7, <2>8, <2>10
<1> QED BY <1>4, <1>5 DEF Keyboard

-----------------------------------------------------------------------------
(* At first nobody is in a call and the run queue holds all but one.       *)
LEMMA InitSound ==
  ASSUME Init
  PROVE  IInv /\ ReadersWoken /\ WritersWoken
<1>1. /\ NULL \notin Threads /\ Mutexes = Queues /\ Queues \subseteq Semas
      /\ idle_thread \in Threads /\ time_slice \in [Threads -> Nat]
      /\ kbd \in Queues /\ pipe \in Queues
      /\ queued \in Seq(Threads) /\ NoDuplicates(queued)
  BY IoQueueAssumption, KMutexAssumption, ThreadAssumption DEF Queues
<1>2. PICK first \in Threads : {first} = {u \in Threads : ~elem_find(queued, u)}
  BY IoQueueAssumption
<1>3. \A u \in Threads : ~elem_find(queued, u) <=> u = first
  BY <1>2
<1>4. /\ sched = [cur |-> first,
                  status |-> [t \in Threads |-> IF elem_find(queued, t) THEN "READY" ELSE "RUNNING"],
                  ready |-> queued, this_tick |-> time_slice, panic |-> FALSE,
                  sema |-> [x \in Semas |-> sema_init(1)],
                  mutex |-> [m \in Mutexes |-> mutex_init]]
      /\ pc = [t \in Threads |-> IF t = idle_thread THEN "idle" ELSE "user"]
      /\ call = [t \in Threads |-> [ioq |-> kbd, left |-> 0]]
  <2>1. (CHOOSE t \in Threads : ~elem_find(queued, t)) = first
    BY <1>3
  <2> QED BY <2>1 DEF Init
<1>5. \A u \in Threads : sched.status[u] = IF u = first THEN "RUNNING" ELSE "READY"
  BY <1>3, <1>4
<1>6. SemaState(sched)
  <2>1. DOMAIN sched = {"cur", "status", "ready", "this_tick", "panic", "sema", "mutex"}
        /\ sched = [f \in DOMAIN sched |-> sched[f]]
    BY <1>4
  <2>2. /\ sched.cur = first /\ sched.ready = queued /\ sched.this_tick = time_slice
        /\ sched.panic = FALSE /\ sched.sema = [x \in Semas |-> sema_init(1)]
    BY <1>4
  <2>3. sched.status \in [Threads -> Status]
    BY <1>4 DEF Status
  <2>4. sema_init(1) \in [value : {0, 1}, waiters : Seq(Threads)]
    BY DEF sema_init
  <2>5. sched.sema \in [Semas -> [value : {0, 1}, waiters : Seq(Threads)]]
    BY <2>2, <2>4
  <2>6. ThreadState(sched)
    BY <1>1, <2>1, <2>2, <2>3 DEF ThreadState, Fields
  <2> QED BY <2>1, <2>5, <2>6 DEF SemaState
<1>7. RunQueueConsistent(sched, {})
  <2>1. /\ sched.ready = queued /\ sched.cur = first
    BY <1>4
  <2>2. \A u \in Threads : sched.status[u] = "READY" <=> elem_find(queued, u)
    BY <1>3, <1>5
  <2> QED BY <1>1, <1>5, <2>1, <2>2 DEF RunQueueConsistent
<1>8. KernelSound(sched)
  <2>1. "mutex" \in DOMAIN sched /\ sched.mutex \in MutexState /\ ~sched.panic
    BY <1>4 DEF MutexState, mutex_init
  <2>2. Ticks(sched)
    <3>1. sched.this_tick = time_slice
      BY <1>4
    <3>2. \A u \in Threads : time_slice[u] \in Nat
      BY <1>1
    <3> QED BY <3>1, <3>2 DEF Ticks
  <2> QED BY <1>6, <1>7, <2>1, <2>2 DEF KernelSound
<1>9. /\ pc \in [Threads -> PC] /\ call \in [Threads -> Call]
      /\ \A u \in Threads : pc[u] = IF u = idle_thread THEN "idle" ELSE "user"
  BY <1>1, <1>4, IoQueueAssumption DEF PC, Call
<1>10. Control(sched, pc, call)
  BY <1>1, <1>5, <1>9 DEF Control, Runnable
<1>11. Locks(sched, pc, call)
  <2>1. \A q \in Queues : sched.sema[q] = [value |-> 1, waiters |-> <<>>] /\ sched.mutex[q] = mutex_init
    BY <1>1, <1>4 DEF sema_init
  <2>2. NoDuplicates(<<>>) /\ \A u : ~elem_find(<<>>, u)
    BY DEF NoDuplicates, elem_find
  <2>3. \A q \in Queues, u \in Threads : u \notin Sleepers(sched, q) /\ sched.mutex[q].holder # u
    BY <1>1, <2>1, <2>2 DEF Sleepers, mutex_init
  <2> QED BY <1>9, <2>1, <2>2, <2>3 DEF Locks, WaitsFor, Holds
<1>12. PICK b \in Bytes :
         /\ ioq = [q \in Queues |-> [buf |-> [i \in 0..bufsize - 1 |-> b], head |-> 0, tail |-> 0,
                                     consumer |-> NULL, producer |-> NULL]]
         /\ byte = b
  BY DEF Init
<1>13. ioq \in Rings
  <2>1. 0 \in 0..bufsize - 1
    BY IoQueueAssumption
  <2> QED BY <1>12, <2>1 DEF Rings, Ring
<1>14. Slots(sched, pc, call, ioq)
  BY <1>1, <1>9, <1>12 DEF Slots
<1>15. Calls /\ ReadersWoken /\ WritersWoken
  BY <1>9 DEF Calls, CallSound, ReadersWoken, WritersWoken
<1> QED BY <1>8, <1>9, <1>10, <1>11, <1>12, <1>13, <1>14, <1>15 DEF IInv, Kernel

-----------------------------------------------------------------------------
(* The theorems *)

(* Every step keeps the inductive invariant, and with one reader or writer *)
(* what it adds about the sleepers.                                        *)
LEMMA NextInv ==
  ASSUME IInv, [Next]_vars
  PROVE  /\ IInv'
         /\ OneReader /\ ReadersWoken => ReadersWoken'
         /\ OneWriter /\ WritersWoken => WritersWoken'
<1>1. CASE Next
  <2>1. ASSUME NEW t \in Users, Step(t)
        PROVE  /\ IInv'
               /\ OneReader /\ ReadersWoken => ReadersWoken'
               /\ OneWriter /\ WritersWoken => WritersWoken'
    <3>1. CASE sys_read(t) \/ pipe_read(t) \/ pipe_write(t)
      BY <3>1, CallSteps
    <3>2. CASE ioq_getchar(t)
      BY <3>2, GetcharStep
    <3>3. CASE ioq_putchar(t)
      BY <3>3, PutcharStep
    <3> QED BY <2>1, <3>1, <3>2, <3>3 DEF Step
  <2> QED BY <1>1, <2>1, IdleTimerStep, KeyboardStep DEF Next
<1>2. CASE UNCHANGED vars
  BY <1>2 DEF vars, IInv, Calls, CallSound, ReadersWoken, WritersWoken,
              ioq_length, ioq_empty, ioq_full, next_pos
<1> QED BY <1>1, <1>2

(* IInv holds in every reachable state.                                    *)
LEMMA Invariance == Spec => []IInv
<1>1. Init => IInv
  BY InitSound
<1>2. IInv /\ [Next]_vars => IInv'
  BY NextInv
<1> QED BY <1>1, <1>2, PTL DEF Spec

(* The rings, the waiting slots, the mutexes and the control points stay   *)
(* in their types: no position leaves its buffer.                          *)
THEOREM IoQueueTypeCorrect == Spec => []TypeOK
<1>1. IInv => TypeOK
  <2> SUFFICES ASSUME IInv PROVE TypeOK
    OBVIOUS
  <2>1. /\ sched.cur \in Threads /\ sched.status \in [Threads -> Status]
        /\ sched.mutex \in MutexState
    BY KernelFacts DEF IInv, Kernel, KernelSound
  <2> QED BY <2>1 DEF IInv, Kernel, TypeOK, Rings, Ring, PC, Call
<1> QED BY <1>1, Invariance, PTL

(* No ASSERT of ioqueue.c, sync.c or thread.c ever fails, whoever shares a *)
(* ring: with a waiting slot taken, the mutex is taken as well, so that    *)
(* nobody finds the slot taken when it comes to wait.                      *)
THEOREM IoQueuePanicFree == Spec => []NoPanic
<1>1. IInv => NoPanic
  BY DEF IInv, Kernel, KernelSound, NoPanic
<1> QED BY <1>1, Invariance, PTL

(* With one reader of the keyboard and one writer to the pipe, a thread    *)
(* sleeps in ioq_wait only on an empty ring as a consumer, and only on a   *)
(* full one as a producer: no wake-up comes too early to be seen.          *)
THEOREM SleepersWoken ==
  ASSUME OneReader, OneWriter
  PROVE  Spec => []NoLostWakeup
<1> DEFINE Inv == IInv /\ ReadersWoken /\ WritersWoken
<1>1. Init => Inv
  BY InitSound
<1>2. Inv /\ [Next]_vars => Inv'
  BY NextInv
<1>3. Inv => NoLostWakeup
  BY DEF IInv, Calls, CallSound, ReadersWoken, WritersWoken, NoLostWakeup
<1> QED BY <1>1, <1>2, <1>3, PTL DEF Spec

-----------------------------------------------------------------------------
(* The rings are queues *)

(* The slot of the i-th byte of a ring that has its tail at n.             *)
Slot(n, i) == (n + i - 1) % bufsize

RingItems(r) == [i \in 1..Length(r.head, r.tail) |-> r.buf[Slot(r.tail, i)]]

(* From the tail on the slots are those of the ring in order; head is the  *)
(* slot after the last byte, and no byte's.                                *)
LEMMA SlotFacts ==
  ASSUME NEW n \in 0..bufsize - 1, NEW i \in 1..bufsize
  PROVE  /\ Slot(n, i) \in 0..bufsize - 1
         /\ Slot(n, i) = IF n + i - 1 < bufsize THEN n + i - 1 ELSE n + i - 1 - bufsize
         /\ i < bufsize => Slot(next_pos(n), i) = Slot(n, i + 1)
         /\ \A h \in 0..bufsize - 1 :
              /\ i <= Length(h, n) => Slot(n, i) # h
              /\ i = Length(h, n) + 1 => Slot(n, i) = h
<1>1. ASSUME NEW m \in 0..bufsize - 1, NEW k \in 1..bufsize
      PROVE  Slot(m, k) = IF m + k - 1 < bufsize THEN m + k - 1 ELSE m + k - 1 - bufsize
  <2>1. PICK j : j = m + k - 1
    OBVIOUS
  <2>2. j \in 0..2 * bufsize - 1
    BY <2>1, IoQueueAssumption
  <2>3. j % bufsize = IF j < bufsize THEN j ELSE j - bufsize
    BY <2>2, Wraps
  <2>4. Slot(m, k) = j % bufsize
    BY <2>1 DEF Slot
  <2> QED BY <2>1, <2>2, <2>3, <2>4, IoQueueAssumption
<1>2. Slot(n, i) = IF n + i - 1 < bufsize THEN n + i - 1 ELSE n + i - 1 - bufsize
  BY <1>1
<1>3. ASSUME i < bufsize PROVE Slot(next_pos(n), i) = Slot(n, i + 1)
  <2>1. PICK n1 \in 0..bufsize - 1 :
          n1 = next_pos(n) /\ n1 = IF n = bufsize - 1 THEN 0 ELSE n + 1
    BY NextPos
  <2>2. PICK j \in 1..bufsize : j = i + 1
    BY <1>3, IoQueueAssumption
  <2>3. /\ Slot(n1, i) = IF n1 + i - 1 < bufsize THEN n1 + i - 1 ELSE n1 + i - 1 - bufsize
        /\ Slot(n, j) = IF n + j - 1 < bufsize THEN n + j - 1 ELSE n + j - 1 - bufsize
    BY <1>1
  <2> QED BY <1>3, <2>1, <2>2, <2>3, IoQueueAssumption
<1>4. ASSUME NEW h \in 0..bufsize - 1
      PROVE  /\ i <= Length(h, n) => Slot(n, i) # h
             /\ i = Length(h, n) + 1 => Slot(n, i) = h
  BY <1>2, IoQueueAssumption DEF Length
<1>5. Slot(n, i) \in 0..bufsize - 1
  BY <1>2, IoQueueAssumption
<1> QED BY <1>2, <1>3, <1>4, <1>5

(* The bytes of a ring, first in first.                                    *)
LEMMA ItemsFacts ==
  ASSUME NEW r \in Ring
  PROVE  /\ RingItems(r) \in Seq(Bytes) /\ Len(RingItems(r)) = Length(r.head, r.tail)
         /\ \A i \in 1..Length(r.head, r.tail) : RingItems(r)[i] = r.buf[Slot(r.tail, i)]
<1>1. /\ r.head \in 0..bufsize - 1 /\ r.tail \in 0..bufsize - 1
      /\ r.buf \in [0..bufsize - 1 -> Bytes] /\ Length(r.head, r.tail) \in 0..bufsize - 1
  BY RingLength DEF Ring
<1>2. PICK len \in Nat : len = Length(r.head, r.tail) /\ len < bufsize
  BY <1>1, IoQueueAssumption
<1>3. ASSUME NEW i \in 1..len PROVE Slot(r.tail, i) \in 0..bufsize - 1
  <2>1. i \in 1..bufsize
    BY <1>2, IoQueueAssumption
  <2> QED BY <1>1, <2>1, SlotFacts
<1>4. RingItems(r) = [i \in 1..len |-> r.buf[Slot(r.tail, i)]]
  BY <1>2 DEF RingItems
<1>5. \A i \in 1..len : r.buf[Slot(r.tail, i)] \in Bytes
  BY <1>1, <1>3
<1> QED BY <1>2, <1>4, <1>5

(* Without the byte at tail the contents are the rest of the queue.        *)
LEMMA TakeItems ==
  ASSUME NEW r \in Ring, r.head # r.tail, NEW r2 \in Ring, r2.buf = r.buf,
         r2.head = r.head, r2.tail = next_pos(r.tail)
  PROVE  /\ RingItems(r) # <<>> /\ Head(RingItems(r)) = r.buf[r.tail]
         /\ RingItems(r2) = Tail(RingItems(r))
<1>1. r.head \in 0..bufsize - 1 /\ r.tail \in 0..bufsize - 1
  BY DEF Ring
<1>2. PICK h \in 0..bufsize - 1, n \in 0..bufsize - 1 : h = r.head /\ n = r.tail
  BY <1>1
<1>3. PICK len \in 1..bufsize - 1 :
        /\ len = Length(r.head, r.tail)
        /\ Length(r2.head, r2.tail) = len - 1
  <2>1. h # n
    BY <1>2
  <2>2. /\ Length(h, n) \in 0..bufsize - 1
        /\ Length(h, n) = 0 <=> h = n
        /\ Length(h, n) = bufsize - 1 <=> next_pos(h) = n
        /\ Length(h, next_pos(n)) = Length(h, n) - 1
    BY <2>1, RingLength
  <2>3. Length(r2.head, r2.tail) = Length(h, next_pos(n))
    BY <1>2
  <2> QED BY <1>2, <2>1, <2>2, <2>3, IoQueueAssumption
<1>4. PICK s \in Seq(Bytes) : s = RingItems(r)
  BY ItemsFacts
<1>5. PICK s2 \in Seq(Bytes) : s2 = RingItems(r2)
  BY ItemsFacts
<1>6. /\ Len(s) = len /\ Len(s2) = len - 1
      /\ \A i \in 1..len : s[i] = r.buf[Slot(r.tail, i)]
      /\ \A i \in 1..len - 1 : s2[i] = r.buf[Slot(r2.tail, i)]
  BY <1>2, <1>3, <1>4, <1>5, ItemsFacts
<1>7. Slot(r.tail, 1) = r.tail
  <2>1. 1 \in 1..bufsize
    BY IoQueueAssumption
  <2>2. Slot(r.tail, 1) = IF r.tail + 1 - 1 < bufsize THEN r.tail + 1 - 1 ELSE r.tail + 1 - 1 - bufsize
    BY <1>1, <2>1, SlotFacts
  <2> QED BY <1>1, <2>2, IoQueueAssumption
<1>8. ASSUME NEW i \in 1..len - 1 PROVE s2[i] = s[i + 1]
  <2>1. i \in 1..bufsize /\ i < bufsize /\ i + 1 \in 1..len
    BY <1>3, IoQueueAssumption
  <2>2. Slot(next_pos(r.tail), i) = Slot(r.tail, i + 1)
    BY <1>1, <2>1, SlotFacts
  <2> QED BY <1>6, <2>1, <2>2
<1>9. s # <<>> /\ Head(s) = s[1]
  BY <1>3, <1>4, <1>6
<1>10. s2 = Tail(s)
  BY <1>3, <1>4, <1>5, <1>6, <1>8, <1>9
<1> QED BY <1>3, <1>4, <1>5, <1>6, <1>7, <1>9, <1>10

(* With a byte stored at head the contents are those before and that byte. *)
LEMMA PutItems ==
  ASSUME NEW r \in Ring, next_pos(r.head) # r.tail, NEW b \in Bytes, NEW r2 \in Ring,
         r2.buf = [r.buf EXCEPT ![r.head] = b], r2.head = next_pos(r.head), r2.tail = r.tail
  PROVE  /\ Len(RingItems(r)) < bufsize - 1
         /\ RingItems(r2) = Append(RingItems(r), b)
<1>1. /\ r.head \in 0..bufsize - 1 /\ r.tail \in 0..bufsize - 1
      /\ r.buf \in [0..bufsize - 1 -> Bytes]
  BY DEF Ring
<1>2. PICK h \in 0..bufsize - 1, n \in 0..bufsize - 1 : h = r.head /\ n = r.tail
  BY <1>1
<1>3. PICK len \in 0..bufsize - 2 :
        /\ len = Length(r.head, r.tail)
        /\ Length(r2.head, r2.tail) = len + 1
  <2>1. next_pos(h) # n
    BY <1>2
  <2>2. /\ Length(h, n) \in 0..bufsize - 1
        /\ Length(h, n) = 0 <=> h = n
        /\ Length(h, n) = bufsize - 1 <=> next_pos(h) = n
        /\ Length(next_pos(h), n) = Length(h, n) + 1
    BY <2>1, RingLength
  <2>3. Length(r2.head, r2.tail) = Length(next_pos(h), n)
    BY <1>2
  <2> QED BY <1>2, <2>1, <2>2, <2>3, IoQueueAssumption
<1>4. PICK s \in Seq(Bytes) : s = RingItems(r)
  BY ItemsFacts
<1>5. PICK s2 \in Seq(Bytes) : s2 = RingItems(r2)
  BY ItemsFacts
<1>6. /\ Len(s) = len /\ Len(s2) = len + 1
      /\ \A i \in 1..len : s[i] = r.buf[Slot(r.tail, i)]
      /\ \A i \in 1..len + 1 : s2[i] = r2.buf[Slot(r.tail, i)]
  BY <1>2, <1>3, <1>4, <1>5, ItemsFacts
<1>7. ASSUME NEW i \in 1..len PROVE s2[i] = s[i]
  <2>1. i \in 1..bufsize /\ i <= len /\ i \in 1..len + 1
    BY <1>3, IoQueueAssumption
  <2>2. Slot(r.tail, i) # r.head /\ Slot(r.tail, i) \in 0..bufsize - 1
    BY <1>1, <1>3, <2>1, SlotFacts
  <2> QED BY <1>1, <1>6, <2>1, <2>2
<1>8. s2[len + 1] = b
  <2>1. len + 1 \in 1..bufsize /\ len + 1 \in 1..len + 1
    BY <1>3, IoQueueAssumption
  <2>2. Slot(r.tail, len + 1) = r.head
    BY <1>1, <1>3, <2>1, SlotFacts
  <2> QED BY <1>1, <1>6, <2>1, <2>2
<1>9. s2 = Append(s, b)
  BY <1>3, <1>4, <1>5, <1>6, <1>7, <1>8
<1> QED BY <1>3, <1>4, <1>5, <1>6, <1>9, IoQueueAssumption

-----------------------------------------------------------------------------
(* The refinement *)

(* What the abstract queues hold, ring by ring.                            *)
LEMMA ContentsFacts ==
  /\ Items = [q \in Queues |-> RingItems(ioq[q])]
  /\ Items' = [q \in Queues |-> RingItems(ioq'[q])]
<1>1. \A q \in Queues : Contents(q) = RingItems(ioq[q])
  BY DEF Contents, RingItems, Slot, ioq_length, Length
<1>2. \A q \in Queues : Contents(q)' = RingItems(ioq'[q])
  BY DEF Contents, RingItems, Slot, ioq_length, Length
<1> QED BY <1>1, <1>2 DEF Items

(* A byte is taken: the abstract Get.                                      *)
LEMMA TakeMaps ==
  ASSUME ioq \in Rings, NEW q \in Queues, ~ioq_empty(q), ioq' = Emptied(q),
         byte' = ioq[q].buf[ioq[q].tail]
  PROVE  F!Get(q)
<1>1. /\ ioq' \in Rings
      /\ \A x \in Queues :
           /\ ioq'[x].buf = ioq[x].buf /\ ioq'[x].head = ioq[x].head
           /\ ioq'[x].tail = IF x = q THEN next_pos(ioq[x].tail) ELSE ioq[x].tail
  <2>1. PICK io : io = ioq'
    OBVIOUS
  <2> QED BY <2>1, TakeRing
<1>2. /\ RingItems(ioq[q]) # <<>> /\ Head(RingItems(ioq[q])) = byte'
      /\ RingItems(ioq'[q]) = Tail(RingItems(ioq[q]))
  <2>1. PICK r \in Ring, r2 \in Ring : r = ioq[q] /\ r2 = ioq'[q]
    BY <1>1 DEF Rings
  <2>2. r.head # r.tail /\ r2.buf = r.buf /\ r2.head = r.head /\ r2.tail = next_pos(r.tail)
    BY <1>1, <2>1 DEF ioq_empty
  <2> QED BY <2>1, <2>2, TakeItems
<1>3. ASSUME NEW x \in Queues, x # q PROVE RingItems(ioq'[x]) = RingItems(ioq[x])
  BY <1>1, <1>3 DEF RingItems
<1>4. Items' = [Items EXCEPT ![q] = Tail(@)] /\ Items[q] = RingItems(ioq[q])
  BY <1>2, <1>3, ContentsFacts
<1> QED BY <1>2, <1>4 DEF F!Get

(* A byte is stored in a ring with room: the abstract Put.                 *)
LEMMA PutMaps ==
  ASSUME ioq \in Rings, NEW q \in Queues, ~ioq_full(q), NEW b \in Bytes,
         ioq' = Stored(q, b), byte' = b
  PROVE  F!Put(q, b)
<1>1. /\ ioq' \in Rings
      /\ \A x \in Queues :
           /\ ioq'[x].buf = IF x = q THEN [ioq[x].buf EXCEPT ![ioq[x].head] = b]
                                     ELSE ioq[x].buf
           /\ ioq'[x].head = IF x = q THEN next_pos(ioq[x].head) ELSE ioq[x].head
           /\ ioq'[x].tail = ioq[x].tail
  <2>1. PICK io : io = ioq'
    OBVIOUS
  <2> QED BY <2>1, PutRing
<1>2. /\ Len(RingItems(ioq[q])) < bufsize - 1
      /\ RingItems(ioq'[q]) = Append(RingItems(ioq[q]), b)
  <2>1. PICK r \in Ring, r2 \in Ring : r = ioq[q] /\ r2 = ioq'[q]
    BY <1>1 DEF Rings
  <2>2. /\ next_pos(r.head) # r.tail /\ r2.buf = [r.buf EXCEPT ![r.head] = b]
        /\ r2.head = next_pos(r.head) /\ r2.tail = r.tail
    BY <1>1, <2>1 DEF ioq_full
  <2> QED BY <2>1, <2>2, PutItems
<1>3. ASSUME NEW x \in Queues, x # q PROVE RingItems(ioq'[x]) = RingItems(ioq[x])
  BY <1>1, <1>3 DEF RingItems
<1>4. Items' = [Items EXCEPT ![q] = Append(@, b)] /\ Items[q] = RingItems(ioq[q])
  BY <1>2, <1>3, ContentsFacts
<1> QED BY <1>2, <1>4 DEF F!Put

(* Nobody touches a byte: the queues stutter.                              *)
LEMMA BytesKept ==
  ASSUME byte' = byte,
         \A q \in Queues : /\ ioq'[q].buf = ioq[q].buf /\ ioq'[q].head = ioq[q].head
                           /\ ioq'[q].tail = ioq[q].tail
  PROVE  UNCHANGED <<Items, byte>>
<1>1. \A q \in Queues : RingItems(ioq'[q]) = RingItems(ioq[q])
  BY DEF RingItems
<1> QED BY <1>1, ContentsFacts

(* Every step puts one byte, gets one, or touches none: the reader that    *)
(* was woken takes its byte without another test, and finds one because    *)
(* nobody else reads.                                                      *)
LEMMA StepMaps ==
  ASSUME IInv, ReadersWoken, [Next]_vars
  PROVE  [F!Next]_<<Items, byte>>
<1>1. /\ ioq \in Rings /\ Queues = {kbd, pipe} /\ kbd \in Queues /\ pipe \in Queues
      /\ sched.status[sched.cur] = "RUNNING" /\ sched.cur \in Threads
      /\ \A t \in Threads : CallSound(t)
  BY KernelFacts DEF IInv, Queues, Calls
<1>2. \A t \in Users : t \in Threads /\ call[t].ioq \in Queues
  BY UserFacts DEF Call
<1>3. ASSUME NEW q \in Queues, F!Get(q) \/ \E b \in Bytes : F!Put(q, b) PROVE F!Next
  BY <1>3 DEF F!Next
<1>4. ASSUME UNCHANGED <<ioq, byte>> PROVE UNCHANGED <<Items, byte>>
  BY <1>4, BytesKept
<1>5. ASSUME NEW t \in Threads, NEW q \in Queues, NEW s,
             \/ WaitAsConsumer(t, q)
             \/ WaitAsProducer(t, q, s)
      PROVE  UNCHANGED <<Items, byte>>
  <2>1. \/ UNCHANGED ioq
        \/ ioq' = [ioq EXCEPT ![q].consumer = t]
        \/ ioq' = [ioq EXCEPT ![q].producer = t]
    BY <1>5 DEF WaitAsConsumer, WaitAsProducer
  <2>2. \A x \in Queues : /\ ioq'[x].buf = ioq[x].buf /\ ioq'[x].head = ioq[x].head
                          /\ ioq'[x].tail = ioq[x].tail
    BY <1>1, <2>1 DEF Rings, Ring
  <2>3. byte' = byte
    BY <1>5 DEF WaitAsConsumer, WaitAsProducer
  <2> QED BY <2>2, <2>3, BytesKept
<1>6. ASSUME NEW t \in Users, ioq_getchar(t) PROVE F!Next \/ UNCHANGED <<Items, byte>>
  <2>1. PICK q \in Queues : q = call[t].ioq
    BY <1>2
  <2>2. ASSUME NEW s, Take(t, s, q), ~ioq_empty(q) PROVE F!Next
    BY <1>1, <1>3, <2>2, TakeMaps DEF Take, Emptied
  <2>3. CASE At(t, "get") /\ ~ioq_empty(q) /\ Take(t, sched, q)
    BY <2>2, <2>3
  <2>4. CASE At(t, "getwait") /\ Take(t, mutex_release(sched, q), q)
    <3>1. q = kbd /\ ~ioq_empty(kbd)
      BY <1>1, <1>2, <2>1, <2>4 DEF At, CallSound, ReadersWoken
    <3> QED BY <2>2, <2>4, <3>1
  <2>5. CASE WaitAsConsumer(t, q)
    BY <1>2, <1>5, <2>5
  <2> QED BY <1>6, <2>1, <2>3, <2>4, <2>5 DEF ioq_getchar
<1>7. ASSUME NEW t \in Users, ioq_putchar(t) PROVE F!Next \/ UNCHANGED <<Items, byte>>
  <2>1. PICK q \in Queues : q = call[t].ioq
    BY <1>2
  <2>2. CASE ~ioq_full(q) /\ \E b \in Bytes : ioq' = Stored(q, b) /\ byte' = b
    BY <1>1, <1>3, <2>2, PutMaps
  <2>3. CASE \E s : WaitAsProducer(t, q, s)
    BY <1>2, <1>5, <2>3
  <2> QED BY <1>7, <2>1, <2>2, <2>3 DEF ioq_putchar
<1>8. CASE Keyboard
  <2>1. CASE ~ioq_full(kbd) /\ \E b \in Bytes : ioq' = Stored(kbd, b) /\ byte' = b
    BY <1>1, <1>3, <2>1, PutMaps
  <2> QED BY <1>4, <1>8, <2>1 DEF Keyboard
<1>9. ASSUME NEW t \in Users, sys_read(t) \/ pipe_read(t) \/ pipe_write(t)
      PROVE  UNCHANGED <<Items, byte>>
  BY <1>4, <1>9 DEF sys_read, pipe_read, pipe_write
<1>10. CASE IdleBlock \/ Timer
  BY <1>4, <1>10 DEF IdleBlock, Timer
<1>11. CASE UNCHANGED vars
  BY <1>4, <1>11 DEF vars
<1> QED BY <1>6, <1>7, <1>8, <1>9, <1>10, <1>11 DEF Next, Step

(* At first the queues are empty.                                          *)
LEMMA InitMaps ==
  ASSUME Init
  PROVE  F!Init
<1>1. IInv
  BY InitSound
<1>2. \A q \in Queues : RingItems(ioq[q]) = <<>>
  <2>1. ASSUME NEW q \in Queues PROVE RingItems(ioq[q]) = <<>>
    <3>1. ioq[q] \in Ring /\ Length(ioq[q].head, ioq[q].tail) = 0
      <4>1. ioq[q] \in Ring /\ ioq[q].head = 0 /\ ioq[q].tail = 0
        <5>1. ioq \in Rings
          BY <1>1 DEF IInv
        <5>2. PICK b : ioq = [x \in Queues |-> [buf |-> [i \in 0..bufsize - 1 |-> b],
                                                head |-> 0, tail |-> 0,
                                                consumer |-> NULL, producer |-> NULL]]
          BY DEF Init
        <5> QED BY <2>1, <5>1, <5>2 DEF Rings
      <4> QED BY <4>1 DEF Length
    <3>2. PICK s \in Seq(Bytes) : s = RingItems(ioq[q]) /\ Len(s) = 0
      BY <3>1, ItemsFacts
    <3> QED BY <3>2
  <2> QED BY <2>1
<1> QED BY <1>1, <1>2, ContentsFacts DEF F!Init, IInv

(* With one reader of the keyboard the rings implement the bounded first-in *)
(* first-out queues of module Fifo, with any number of writers and readers *)
(* of a pipe: no byte is overwritten, read twice or read before it is there. *)
THEOREM FifoRefinement ==
  ASSUME OneReader
  PROVE  Spec => ImplementsFifo
<1> DEFINE Inv == IInv /\ ReadersWoken
<1>1. Init => Inv /\ F!Init
  BY InitSound, InitMaps
<1>2. Inv /\ [Next]_vars => Inv' /\ [F!Next]_<<Items, byte>>
  BY NextInv, StepMaps
<1> HIDE DEF Inv
<1> QED BY <1>1, <1>2, PTL DEF Spec, ImplementsFifo, F!Spec
=============================================================================
