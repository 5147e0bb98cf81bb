------------------------------ MODULE IdeProofs -----------------------------
(***************************************************************************)
(* The disk driver is correct for disks and requests of every size and     *)
(* every number of threads: the only panic is busy_wait's, no command      *)
(* reaches a disk that still works, no interrupt comes unexpected or too   *)
(* early for the thread that sleeps on it, and requests are atomic.        *)
(*                                                                         *)
(* The inductive invariant has four parts: the threads and who holds the   *)
(* channel (Kernel); what the disk, its interrupt, expecting_intr and      *)
(* disk_done may be at each point of the holder's way through the driver   *)
(* (Stages); what a request is and how much of it is done (Requests); and  *)
(* what the registers and the disk's buffer hold meanwhile (Registers).    *)
(* A panic changes none of this, but leaves the scheduler's record without *)
(* KernelSound.                                                            *)
(***************************************************************************)
EXTENDS Ide, ThreadProofs, FiniteSetTheorems, SequenceTheorems

(* The part of the driver that runs with the channel's mutex held.         *)
Inside == {"select", "expect", "command", "down", "asleep", "poll", "nap",
           "transfer", "release"}

PC == {"user", "acquire", "lock", "idle", "halt"} \cup Inside

SchedTypes ==
  /\ sched.cur \in Threads /\ sched.status \in [Threads -> Status]
  /\ \A x \in Semas : sched.sema[x].value \in {0, 1}
  /\ sched.mutex \in MutexState

(* Where a thread can be, and in which state.                              *)
Control(s, p) ==
  /\ p[idle_thread] \in {"idle", "halt"}
  /\ \A t \in Callers :
       /\ p[t] \notin {"idle", "halt"}
       /\ \/ Runnable(s.status[t])
          \/ s.status[t] = "BLOCKED" /\ p[t] \in {"lock", "asleep"}

(* x has queued exactly the threads suspended at the given point.          *)
QueuedAt(s, p, x, label) ==
  /\ NoDuplicates(s.sema[x].waiters)
  /\ \A t \in Threads : t \in Sleepers(s, x) <=> p[t] = label /\ s.status[t] = "BLOCKED"

(* The channel's mutex is held by the thread inside the driver.            *)
Holder(s, p) ==
  /\ \A t \in Threads : s.mutex[channel].holder = t <=> p[t] \in Inside
  /\ \/ s.mutex[channel] = mutex_init /\ s.sema[channel].value = 1
     \/ /\ s.mutex[channel].holder # NULL /\ s.mutex[channel].repeat = 1
        /\ s.sema[channel].value = 0

Kernel(s, p) ==
  /\ p \in [Threads -> PC] /\ Control(s, p) /\ Holder(s, p)
  /\ QueuedAt(s, p, channel, "lock") /\ QueuedAt(s, p, disk_done, "asleep")

-----------------------------------------------------------------------------
(* The disk's phase, its interrupt request, expecting_intr and disk_done.  *)
Signals(phase, request, expected, done) ==
  /\ dev.phase = phase /\ irq = request /\ expecting = expected
  /\ sched.sema[disk_done].value = done

(* The disk is idle and everything about its last command is over.         *)
Quiet == Signals("ready", FALSE, FALSE, 0)

(* The disk works, has asked for the interrupt, or has been heard.         *)
Answering(working, ready) ==
  \/ Signals(working, FALSE, TRUE, 0)
  \/ Signals(ready, TRUE, TRUE, 0)
  \/ Signals(ready, FALSE, FALSE, 1)

(* What t, inside the driver, may count on.                                *)
Stage(t) ==
  /\ pc[t] \in {"select", "expect", "release"} => Quiet
  /\ pc[t] = "command" => Signals("ready", FALSE, TRUE, 0)
  /\ req[t].op = "read" =>
       /\ pc[t] \in {"down", "asleep"} => Answering("busy", "drq")
       /\ pc[t] \in {"poll", "nap", "transfer"} => Signals("drq", FALSE, FALSE, 0)
  /\ req[t].op = "write" =>
       /\ pc[t] \in {"poll", "nap"} =>
            Signals("busy", FALSE, TRUE, 0) \/ Signals("drq", FALSE, TRUE, 0)
       /\ pc[t] = "transfer" => Signals("drq", FALSE, TRUE, 0)
       /\ pc[t] \in {"down", "asleep"} => Answering("storing", "ready")
  /\ pc[t] = "asleep" =>
       (sched.status[t] = "BLOCKED" <=> sched.sema[disk_done].value = 0)

Stages ==
  /\ \A t \in Callers : Stage(t)
  /\ (\A t \in Callers : pc[t] \notin Inside) => Quiet

(* What t asks for, and how far it has come. A reader's buffer holds the   *)
(* sectors it has read, the disk the sectors a writer has written.         *)
Asks(t) ==
  /\ req[t] = [op |-> req[t].op, lba |-> req[t].lba, sec_cnt |-> req[t].sec_cnt,
               data |-> req[t].data]
  /\ pc[t] = "user" => req[t] = NoRequest /\ secs_done[t] = 0
  /\ pc[t] # "user" =>
       /\ req[t].op \in {"read", "write"} /\ <<req[t].lba, req[t].sec_cnt>> \in Ranges
       /\ req[t].op = "write" => req[t].data \in [1..req[t].sec_cnt -> Values]
       /\ req[t].op = "read" => req[t].data = Slice(store, req[t].lba, secs_done[t])
  /\ pc[t] \in {"acquire", "lock"} => secs_done[t] = 0
  /\ pc[t] \in Inside \ {"release"} => secs_done[t] \in 0..req[t].sec_cnt - 1
  /\ pc[t] = "release" => secs_done[t] = req[t].sec_cnt
  /\ pc[t] \in Inside /\ req[t].op = "write" =>
       \A i \in 1..secs_done[t] : store[req[t].lba + i - 1] = req[t].data[i]

Requests ==
  /\ \A t \in Callers : Asks(t)
  /\ req[idle_thread] = NoRequest /\ secs_done[idle_thread] = 0

(* The command of t, inside the driver.                                    *)
Registers(t) ==
  LET n == secs_to_move(t)
  IN  /\ pc[t] \in Inside \ {"select", "release"} =>
           dev.lba = req[t].lba + secs_done[t] /\ dev.cnt = n % MaxSectors
      /\ pc[t] \in {"down", "asleep", "poll", "nap", "transfer"} =>
           /\ dev.op = req[t].op
           /\ req[t].op = "read" /\ dev.phase = "drq" =>
                dev.buf = Slice(store, req[t].lba + secs_done[t], n)
           /\ req[t].op = "write" /\ dev.phase = "storing" =>
                dev.buf = SubSeq(req[t].data, secs_done[t] + 1, secs_done[t] + n)
           /\ req[t].op = "write" /\ dev.phase = "ready" =>
                \A i \in 1..secs_done[t] + n : store[req[t].lba + i - 1] = req[t].data[i]

(* The records are records.                                                *)
Shapes ==
  /\ req = [t \in Threads |-> req[t]] /\ secs_done = [t \in Threads |-> secs_done[t]]
  /\ dev = [phase |-> dev.phase, op |-> dev.op, lba |-> dev.lba, cnt |-> dev.cnt,
            buf |-> dev.buf]

(* The inductive invariant.                                                *)
IInv ==
  /\ SchedTypes /\ Kernel(sched, pc)
  /\ IF sched.panic THEN polls = TimeLimit ELSE KernelSound(sched)
  /\ Stages /\ Requests /\ (\A t \in Callers : Registers(t)) /\ Shapes
  /\ store \in [Lbas -> Values] /\ polls \in 0..TimeLimit /\ nap \in 0..MaxSleep

-----------------------------------------------------------------------------
(* Threads and the channel's mutex *)

(* The constants, as the assumptions name them.                            *)
LEMMA Names ==
  /\ Mutexes = {channel} /\ channel \in Semas /\ disk_done \in Semas /\ disk_done # channel
  /\ NULL \notin Threads /\ idle_thread \in Threads /\ main_thread \in Callers
  /\ Callers = Threads \ {idle_thread}
BY IdeAssumption, KMutexAssumption, ThreadAssumption DEF Callers

(* A sound kernel state has the types.                                     *)
LEMMA SoundTypes ==
  ASSUME NEW s, KernelSound(s)
  PROVE  /\ s.cur \in Threads /\ s.status \in [Threads -> Status]
         /\ s.status[s.cur] = "RUNNING" /\ ~s.panic
         /\ \A x \in Semas : s.sema[x].value \in {0, 1}
         /\ s.mutex \in [Mutexes -> [holder : Threads \cup {NULL}, repeat : Nat]]
BY DEF KernelSound, SemaState, ThreadState, RunQueueConsistent, MutexState

(* At most one thread is inside the driver.                                *)
LEMMA Alone ==
  ASSUME NEW s, NEW p, Kernel(s, p), NEW t \in Threads, p[t] \in Inside,
         NEW u \in Threads, u # t
  PROVE  p[u] \notin Inside
BY DEF Kernel, Holder

(* Who waits for the mutex and for the disk.                               *)
LEMMA WaitersFacts ==
  ASSUME NEW s, NEW p, Kernel(s, p)
  PROVE  WaitersSound(s, channel) /\ WaitersSound(s, disk_done)
<1>1. ASSUME NEW x, NEW label, label \in {"lock", "asleep"}, QueuedAt(s, p, x, label)
      PROVE  WaitersSound(s, x)
  <2>1. ASSUME NEW t \in Sleepers(s, x) PROVE t # idle_thread /\ s.status[t] = "BLOCKED"
    <3>1. t \in Threads /\ p[t] = label /\ s.status[t] = "BLOCKED"
      BY <1>1, <2>1 DEF QueuedAt, Sleepers
    <3> QED BY <1>1, <3>1 DEF Kernel, Control
  <2> QED BY <1>1, <2>1 DEF WaitersSound, QueuedAt
<1> QED BY <1>1 DEF Kernel

(* The running thread moves, on either side of the mutex.                  *)
LEMMA LocalPart ==
  ASSUME NEW s, NEW p, Kernel(s, p), NEW t \in Callers, s.status[t] = "RUNNING",
         NEW to \in PC \ {"idle", "halt"}, p[t] \in Inside <=> to \in Inside
  PROVE  Kernel(s, [p EXCEPT ![t] = to])
<1>1. PICK p1 : p1 = [p EXCEPT ![t] = to]
  OBVIOUS
<1>2. /\ p1 \in [Threads -> PC] /\ p1[t] = to /\ t \in Threads /\ t # idle_thread
      /\ \A u \in Threads \ {t} : p1[u] = p[u]
  BY <1>1, Names DEF Kernel
<1>3. Control(s, p1)
  BY <1>2, Names DEF Kernel, Control, Runnable
<1>4. Holder(s, p1)
  BY <1>2 DEF Kernel, Holder
<1>5. ASSUME NEW x, NEW label, QueuedAt(s, p, x, label) PROVE QueuedAt(s, p1, x, label)
  BY <1>2, <1>5 DEF QueuedAt
<1> QED BY <1>1, <1>2, <1>3, <1>4, <1>5 DEF Kernel

(* The running thread takes the mutex.                                     *)
LEMMA TakePart ==
  ASSUME NEW s, NEW p, Kernel(s, p), NEW t \in Callers, t = s.cur, s.status[t] = "RUNNING",
         p[t] \notin Inside, s.mutex \in MutexState,
         NEW r, Taken(s, r, channel), Available(s, channel)
  PROVE  Kernel(r, [p EXCEPT ![t] = "select"])
<1>1. PICK p1 : p1 = [p EXCEPT ![t] = "select"]
  OBVIOUS
<1>2. /\ p1 \in [Threads -> PC] /\ p1[t] = "select" /\ t \in Threads /\ t # idle_thread
      /\ \A u \in Threads \ {t} : p1[u] = p[u] /\ p[u] \notin Inside
  BY <1>1, Names DEF Kernel, Holder, Available, PC, Inside, mutex_init
<1>3. /\ r.status = s.status /\ r.mutex[channel] = [holder |-> t, repeat |-> 1]
      /\ r.sema[channel] = [value |-> 0, waiters |-> s.sema[channel].waiters]
      /\ r.sema[disk_done] = s.sema[disk_done]
  BY Names DEF Taken, Keeps, MutexState
<1>4. Control(r, p1)
  BY <1>2, <1>3, Names DEF Kernel, Control
<1>5. Holder(r, p1)
  BY <1>2, <1>3, Names DEF Holder, Inside
<1>6. QueuedAt(r, p1, channel, "lock") /\ QueuedAt(r, p1, disk_done, "asleep")
  BY <1>2, <1>3 DEF Kernel, QueuedAt, Sleepers
<1> QED BY <1>1, <1>2, <1>4, <1>5, <1>6 DEF Kernel

(* The running thread sleeps, on the mutex or inside on disk_done.         *)
LEMMA SleepPart ==
  ASSUME NEW s, NEW p, Kernel(s, p), NEW t \in Callers, t = s.cur, s.status[t] = "RUNNING",
         NEW x, NEW label, \/ x = channel /\ label = "lock"
                           \/ x = disk_done /\ label = "asleep",
         p[t] \in Inside <=> label = "asleep",
         NEW r, Queued(s, r, x), s.sema[x].value = 0
  PROVE  Kernel(r, [p EXCEPT ![t] = label])
<1>1. PICK p1 : p1 = [p EXCEPT ![t] = label]
  OBVIOUS
<1>2. /\ p1 \in [Threads -> PC] /\ p1[t] = label /\ t \in Threads /\ t # idle_thread
      /\ \A u \in Threads \ {t} : p1[u] = p[u]
  BY <1>1, Names DEF Kernel, PC, Inside
<1>3. /\ r.mutex = s.mutex /\ r.sema[x].value = 0 /\ NoDuplicates(r.sema[x].waiters)
      /\ Sleepers(r, x) = Sleepers(s, x) \cup {t} /\ r.status[t] = "BLOCKED"
      /\ \A y \in {channel, disk_done} \ {x} : r.sema[y] = s.sema[y]
  BY Names DEF Queued, Keeps
<1>4. \A u \in Callers \ {t} : IF Runnable(s.status[u]) THEN Runnable(r.status[u])
                                                       ELSE r.status[u] = s.status[u]
  BY Names DEF Queued, StatusFrame
<1>5. Control(r, p1)
  BY <1>2, <1>3, <1>4, Names DEF Kernel, Control, Runnable
<1>6. Holder(r, p1)
  <2>1. r.sema[channel].value = s.sema[channel].value
    BY <1>3
  <2>2. \A u \in Threads : p1[u] \in Inside <=> p[u] \in Inside
    BY <1>2 DEF Inside
  <2> QED BY <1>3, <2>1, <2>2 DEF Kernel, Holder
<1>7. \A u \in Callers \ {t} : r.status[u] = "BLOCKED" <=> s.status[u] = "BLOCKED"
  BY <1>4 DEF Runnable
<1>8. p1[idle_thread] \notin {"lock", "asleep"} /\ p[idle_thread] \notin {"lock", "asleep"}
  BY <1>2, Names DEF Kernel, Control
<1>9. ASSUME NEW y, NEW at, \/ y = channel /\ at = "lock"
                            \/ y = disk_done /\ at = "asleep"
      PROVE  QueuedAt(r, p1, y, at)
  <2>1. QueuedAt(s, p, y, at)
    BY <1>9 DEF Kernel
  <2>2. t \notin Sleepers(s, y)
    BY <1>2, <2>1 DEF QueuedAt
  <2>3. CASE y = x
    <3>1. at = label
      BY <1>9, <2>3, Names
    <3>2. \A u \in Threads : u \in Sleepers(r, y) <=> u \in Sleepers(s, y) \/ u = t
      BY <1>3, <2>3 DEF Sleepers
    <3>3. NoDuplicates(r.sema[y].waiters)
      BY <1>3, <2>3
    <3>4. ASSUME NEW u \in Threads
          PROVE  u \in Sleepers(r, y) <=> p1[u] = at /\ r.status[u] = "BLOCKED"
      <4>1. CASE u = t
        BY <1>2, <1>3, <3>1, <3>2, <4>1
      <4>2. CASE u = idle_thread
        BY <1>2, <1>8, <1>9, <2>1, <3>2, <4>2 DEF QueuedAt
      <4>3. CASE u \in Callers \ {t}
        BY <1>2, <1>7, <2>1, <3>2, <4>3, Names DEF QueuedAt
      <4> QED BY <4>1, <4>2, <4>3, Names
    <3> QED BY <3>3, <3>4 DEF QueuedAt
  <2>4. CASE y # x
    <3>1. r.sema[y] = s.sema[y] /\ at # label
      BY <1>3, <1>9, <2>4
    <3>2. NoDuplicates(r.sema[y].waiters) /\ Sleepers(r, y) = Sleepers(s, y)
      BY <2>1, <3>1 DEF QueuedAt, Sleepers
    <3>3. ASSUME NEW u \in Threads
          PROVE  u \in Sleepers(r, y) <=> p1[u] = at /\ r.status[u] = "BLOCKED"
      <4>1. CASE u = t
        BY <1>2, <2>2, <3>1, <3>2, <4>1
      <4>2. CASE u = idle_thread
        BY <1>2, <1>8, <1>9, <2>1, <3>2, <4>2 DEF QueuedAt
      <4>3. CASE u \in Callers \ {t}
        BY <1>2, <1>7, <2>1, <3>2, <4>3, Names DEF QueuedAt
      <4> QED BY <4>1, <4>2, <4>3, Names
    <3> QED BY <3>2, <3>3 DEF QueuedAt
  <2> QED BY <2>3, <2>4
<1> QED BY <1>1, <1>2, <1>5, <1>6, <1>9 DEF Kernel

(* Threads asleep at label are woken: W of those in x.                     *)
LEMMA WokenAt ==
  ASSUME NEW s, NEW p, NEW x, NEW label, QueuedAt(s, p, x, label),
         NEW r, NEW W \in SUBSET Sleepers(s, x),
         NoDuplicates(r.sema[x].waiters), Sleepers(r, x) = Sleepers(s, x) \ W,
         \A u \in Threads : r.status[u] = IF u \in W THEN "READY" ELSE s.status[u]
  PROVE  QueuedAt(r, p, x, label)
BY DEF QueuedAt

(* Waking threads leaves the other queue and everyone else's state.        *)
LEMMA WokenElsewhere ==
  ASSUME NEW s, NEW p, NEW x, NEW label, QueuedAt(s, p, x, label),
         NEW r, NEW W \in SUBSET Threads, \A u \in W : p[u] # label,
         r.sema[x] = s.sema[x],
         \A u \in Threads : r.status[u] = IF u \in W THEN "READY" ELSE s.status[u]
  PROVE  QueuedAt(r, p, x, label)
<1>1. Sleepers(r, x) = Sleepers(s, x)
  BY DEF Sleepers
<1> QED BY <1>1 DEF QueuedAt

(* Waking threads keeps everyone where it is.                              *)
LEMMA WokenControl ==
  ASSUME NEW s, NEW p, Control(s, p), NEW r, NEW W,
         \A u \in Threads : r.status[u] = IF u \in W THEN "READY" ELSE s.status[u]
  PROVE  Control(r, p)
BY Names DEF Control, Runnable

(* The thread inside leaves: the mutex is free, one of its waiters woken.  *)
LEMMA ReleasePart ==
  ASSUME NEW s, NEW p, Kernel(s, p), NEW t \in Callers, p[t] = "release",
         s.status[t] = "RUNNING", s.mutex \in MutexState,
         NEW r, NEW W \in SUBSET Sleepers(s, channel), LetGo(s, r, channel, W)
  PROVE  Kernel(r, [p EXCEPT ![t] = "user"])
<1>1. PICK p1 : p1 = [p EXCEPT ![t] = "user"]
  OBVIOUS
<1>2. /\ p1 \in [Threads -> PC] /\ p1[t] = "user" /\ t \in Threads /\ t # idle_thread
      /\ \A u \in Threads \ {t} : p1[u] = p[u] /\ p[u] \notin Inside
  BY <1>1, Names, Alone DEF Kernel, PC, Inside
<1>3. /\ \A u \in Threads : r.status[u] = IF u \in W THEN "READY" ELSE s.status[u]
      /\ r.mutex[channel] = mutex_init /\ r.sema[channel].value = 1
      /\ NoDuplicates(r.sema[channel].waiters)
      /\ Sleepers(r, channel) = Sleepers(s, channel) \ W
      /\ r.sema[disk_done] = s.sema[disk_done]
  BY Names DEF LetGo, Keeps, MutexState
<1>4. t \notin W /\ \A u \in W : p[u] = "lock"
  BY <1>2 DEF Kernel, QueuedAt, Sleepers
<1>5. Control(s, p1)
  BY <1>2, Names DEF Kernel, Control, Runnable
<1>6. Control(r, p1)
  BY <1>3, <1>5, WokenControl
<1>7. Holder(r, p1)
  BY <1>2, <1>3, Names DEF Holder, Inside, mutex_init
<1>8. QueuedAt(s, p1, channel, "lock") /\ QueuedAt(s, p1, disk_done, "asleep")
  BY <1>2 DEF Kernel, QueuedAt
<1>9. QueuedAt(r, p1, channel, "lock")
  BY <1>3, <1>8, WokenAt
<1>10. W \in SUBSET Threads /\ \A u \in W : p1[u] # "asleep"
  BY <1>2, <1>4 DEF Sleepers
<1>11. QueuedAt(r, p1, disk_done, "asleep")
  BY <1>3, <1>8, <1>10, WokenElsewhere
<1> QED BY <1>1, <1>2, <1>6, <1>7, <1>9, <1>11 DEF Kernel

(* The holder is woken by the interrupt.                                   *)
LEMMA RaisePart ==
  ASSUME NEW s, NEW p, Kernel(s, p),
         NEW r, NEW W \in SUBSET Sleepers(s, disk_done), Raised(s, r, disk_done, W)
  PROVE  Kernel(r, p)
<1>1. /\ \A u \in Threads : r.status[u] = IF u \in W THEN "READY" ELSE s.status[u]
      /\ r.mutex = s.mutex /\ NoDuplicates(r.sema[disk_done].waiters)
      /\ Sleepers(r, disk_done) = Sleepers(s, disk_done) \ W
      /\ r.sema[channel] = s.sema[channel]
  BY Names DEF Raised, Keeps
<1>2. W \in SUBSET Threads /\ \A u \in W : p[u] # "lock"
  BY DEF Kernel, QueuedAt, Sleepers
<1>3. QueuedAt(s, p, channel, "lock") /\ QueuedAt(s, p, disk_done, "asleep") /\ Control(s, p)
  BY DEF Kernel
<1>4. QueuedAt(r, p, channel, "lock")
  BY <1>1, <1>2, <1>3, WokenElsewhere
<1>5. QueuedAt(r, p, disk_done, "asleep")
  BY <1>1, <1>3, WokenAt
<1>6. Control(r, p)
  BY <1>1, <1>3, WokenControl
<1>7. Holder(r, p)
  BY <1>1 DEF Kernel, Holder
<1> QED BY <1>4, <1>5, <1>6, <1>7 DEF Kernel

(* The value of disk_done is taken.                                        *)
LEMMA DownPart ==
  ASSUME NEW s, NEW p, Kernel(s, p), NEW r, Keeps(s, r, {disk_done}), r.mutex = s.mutex,
         r.status = s.status, r.sema[disk_done].waiters = s.sema[disk_done].waiters
  PROVE  Kernel(r, p)
<1>1. r.sema[channel] = s.sema[channel]
  BY Names DEF Keeps
<1> QED BY <1>1 DEF Kernel, Control, Holder, QueuedAt, Sleepers

(* The CPU goes to another thread; idle leaves or enters hlt.              *)
LEMMA SwitchPart ==
  ASSUME NEW s, NEW p, Kernel(s, p), NEW r, Switches(s, r), NEW p1 \in [Threads -> PC],
         p1[idle_thread] \in {"idle", "halt"}, \A u \in Callers : p1[u] = p[u]
  PROVE  Kernel(r, p1)
<1>1. /\ r.mutex = s.mutex /\ r.sema[channel] = s.sema[channel]
      /\ r.sema[disk_done] = s.sema[disk_done]
      /\ \A u \in Callers : IF Runnable(s.status[u]) THEN Runnable(r.status[u])
                                                     ELSE r.status[u] = s.status[u]
  BY Names DEF Switches, Keeps, StatusFrame
<1>2. /\ \A u \in Callers : r.status[u] = "BLOCKED" <=> s.status[u] = "BLOCKED"
      /\ p[idle_thread] \in {"idle", "halt"}
  BY <1>1 DEF Runnable, Kernel, Control
<1>3. Control(r, p1)
  BY <1>1, <1>2 DEF Kernel, Control, Runnable
<1>4. Holder(r, p1)
  <2>1. \A u \in Threads : p1[u] \in Inside <=> p[u] \in Inside
    BY <1>2, Names DEF Inside
  <2> QED BY <1>1, <2>1 DEF Kernel, Holder
<1>5. ASSUME NEW x \in {channel, disk_done}, NEW label, label \in {"lock", "asleep"},
             QueuedAt(s, p, x, label)
      PROVE  QueuedAt(r, p1, x, label)
  <2>1. Sleepers(r, x) = Sleepers(s, x)
    BY <1>1 DEF Sleepers
  <2>2. ASSUME NEW u \in Threads
        PROVE  p1[u] = label /\ r.status[u] = "BLOCKED" <=> p[u] = label /\ s.status[u] = "BLOCKED"
    BY <1>2, <1>5, Names
  <2> QED BY <1>1, <1>5, <2>1, <2>2 DEF QueuedAt
<1> QED BY <1>3, <1>4, <1>5 DEF Kernel

-----------------------------------------------------------------------------
(* Requests and commands *)

(* What the count register holds of n sectors.                             *)
LEMMA Remainder ==
  ASSUME NEW m \in Nat, NEW n \in 1..m
  PROVE  n % m = IF n = m THEN 0 ELSE n
<1>1. CASE n = m
  BY <1>1
<1>2. CASE n # m
  <2>1. m > 0 /\ n >= 0 /\ n < m
    BY <1>2
  <2> QED BY <1>2, <2>1, SMTT(30)
<1> QED BY <1>1, <1>2

(* The next command of a request moves 1 to MaxSectors sectors, no more    *)
(* than the request has left; the count register holds that number.        *)
LEMMA CommandSize ==
  ASSUME NEW t, req[t].sec_cnt \in Nat, secs_done[t] \in 0..req[t].sec_cnt - 1
  PROVE  /\ secs_to_move(t) \in 1..MaxSectors
         /\ secs_done[t] + secs_to_move(t) <= req[t].sec_cnt
         /\ dev.cnt = secs_to_move(t) % MaxSectors => Count = secs_to_move(t)
<1>1. PICK cnt \in Nat, done \in Nat :
        cnt = req[t].sec_cnt /\ done = secs_done[t] /\ done < cnt
  OBVIOUS
<1>2. PICK n : n = secs_to_move(t)
  OBVIOUS
<1>3. n = IF done + MaxSectors <= cnt THEN MaxSectors ELSE cnt - done
  BY <1>1, <1>2 DEF secs_to_move
<1>4. MaxSectors \in Nat \ {0}
  BY IdeAssumption
<1>5. n \in 1..MaxSectors /\ done + n <= cnt
  BY <1>1, <1>3, <1>4
<1>6. n % MaxSectors = IF n = MaxSectors THEN 0 ELSE n
  BY <1>4, <1>5, Remainder
<1> QED BY <1>1, <1>2, <1>4, <1>5, <1>6 DEF Count

(* Requests lie on the disk.                                               *)
LEMMA RangeFacts ==
  ASSUME NEW lba, NEW n, <<lba, n>> \in Ranges
  PROVE  /\ lba \in 0..MaxLba /\ n \in 1..MaxLba + 1 /\ lba + n - 1 <= MaxLba
         /\ \A i \in 1..n : lba + i - 1 \in Lbas
<1>1. lba \in 0..MaxLba /\ n \in 1..MaxLba + 1 /\ lba + n - 1 <= MaxLba
  BY IdeAssumption
<1> QED BY <1>1, IdeAssumption DEF Lbas

(* What was read so far and the sectors of the next command are the        *)
(* sectors read after it.                                                  *)
LEMMA SliceConcat ==
  ASSUME NEW f \in [Lbas -> Values], NEW lba \in Nat, NEW k \in Nat, NEW n \in Nat,
         \A i \in 1..k + n : lba + i - 1 \in Lbas
  PROVE  Slice(f, lba, k) \o Slice(f, lba + k, n) = Slice(f, lba, k + n)
<1>1. PICK a \in Seq(Values) :
        a = Slice(f, lba, k) /\ Len(a) = k /\ \A i \in 1..k : a[i] = f[lba + i - 1]
  <2>1. \A i \in 1..k : f[lba + i - 1] \in Values
    OBVIOUS
  <2>2. Slice(f, lba, k) \in Seq(Values) /\ Len(Slice(f, lba, k)) = k
    BY <2>1 DEF Slice
  <2> QED BY <2>2 DEF Slice
<1>2. PICK b \in Seq(Values) :
        b = Slice(f, lba + k, n) /\ Len(b) = n /\ \A i \in 1..n : b[i] = f[lba + k + i - 1]
  <2>1. \A i \in 1..n : f[lba + k + i - 1] \in Values
    <3>1. ASSUME NEW i \in 1..n PROVE f[lba + k + i - 1] \in Values
      <4>1. k + i \in 1..k + n
        OBVIOUS
      <4>2. lba + (k + i) - 1 \in Lbas
        BY <4>1
      <4>3. lba + (k + i) - 1 = lba + k + i - 1
        OBVIOUS
      <4> QED BY <4>2, <4>3
    <3> QED BY <3>1
  <2>2. Slice(f, lba + k, n) \in Seq(Values) /\ Len(Slice(f, lba + k, n)) = n
    BY <2>1 DEF Slice
  <2> QED BY <2>2 DEF Slice
<1>3. PICK c : c = Slice(f, lba, k + n)
  OBVIOUS
<1>4. c = [i \in 1..k + n |-> f[lba + i - 1]]
  BY <1>3 DEF Slice
<1>5. /\ a \o b \in Seq(Values) /\ Len(a \o b) = k + n
      /\ \A i \in 1..k + n : (a \o b)[i] = IF i <= k THEN a[i] ELSE b[i - k]
  <2>1. /\ a \o b \in Seq(Values) /\ Len(a \o b) = Len(a) + Len(b)
        /\ \A i \in 1..Len(a) + Len(b) :
             (a \o b)[i] = IF i <= Len(a) THEN a[i] ELSE b[i - Len(a)]
    BY ONLY a \in Seq(Values), b \in Seq(Values), ConcatProperties
  <2>2. Len(a) = k /\ Len(b) = n
    BY <1>1, <1>2
  <2> QED BY <2>1, <2>2
<1>6. ASSUME NEW i \in 1..k + n PROVE (a \o b)[i] = f[lba + i - 1]
  <2>1. CASE i <= k
    <3>1. i \in 1..k /\ (a \o b)[i] = a[i]
      BY <1>5, <2>1
    <3> QED BY <1>1, <3>1
  <2>2. CASE i > k
    <3>1. (a \o b)[i] = b[i - k] /\ i - k \in 1..n
      BY <1>5, <2>2
    <3>2. b[i - k] = f[lba + k + (i - k) - 1]
      BY <1>2, <3>1
    <3>3. lba + k + (i - k) - 1 = lba + i - 1
      OBVIOUS
    <3> QED BY <3>1, <3>2, <3>3
  <2>3. i <= k \/ i > k
    OBVIOUS
  <2> QED BY <2>1, <2>2, <2>3
<1>7. a \o b = c
  <2>1. PICK d \in Seq(Values) : d = a \o b
    BY <1>5
  <2>2. Len(d) = k + n /\ \A i \in 1..k + n : d[i] = c[i]
    BY <1>4, <1>5, <1>6, <2>1
  <2>3. d = [i \in 1..k + n |-> d[i]]
    BY <2>2
  <2>4. d = c
    BY <1>4, <2>2, <2>3
  <2> QED BY <2>1, <2>4
<1> QED BY <1>1, <1>2, <1>3, <1>7

(* A request that has not begun has read nothing.                          *)
LEMMA EmptySlice ==
  ASSUME NEW f, NEW g, NEW lba
  PROVE  Slice(f, lba, 0) = Slice(g, lba, 0) /\ Slice(f, lba, 0) = <<>>
<1>1. 1..0 = {}
  OBVIOUS
<1>2. /\ Slice(f, lba, 0) = [i \in {} |-> f[lba + i - 1]]
      /\ Slice(g, lba, 0) = [i \in {} |-> g[lba + i - 1]]
  BY <1>1 DEF Slice
<1>3. Slice(f, lba, 0) \in Seq(Values) /\ Len(Slice(f, lba, 0)) = 0
  BY DEF Slice
<1> QED BY <1>2, <1>3

(* g is f with the n sectors of data after the first k stored: the request *)
(* starts at sector lba.                                                   *)
Replaced(f, g, lba, data, k, n) ==
  /\ g \in [Lbas -> Values]
  /\ \A l \in Lbas : g[l] = IF l \in lba + k..lba + k + n - 1
                           THEN data[l - lba + 1] ELSE f[l]

(* The sectors of a command, stored where the request has come to.         *)
LEMMA OverlayFacts ==
  ASSUME NEW f \in [Lbas -> Values], NEW lba \in Nat, NEW cnt \in Nat,
         NEW data \in [1..cnt -> Values], NEW k \in Nat, NEW n \in Nat, k + n <= cnt,
         \A i \in 1..cnt : lba + i - 1 \in Lbas
  PROVE  Replaced(f, Overlay(f, lba + k, SubSeq(data, k + 1, k + n)), lba, data, k, n)
<1>1. PICK b : b = SubSeq(data, k + 1, k + n)
  OBVIOUS
<1>2. Len(b) = n /\ \A i \in 1..n : b[i] = data[k + i]
  <2>1. data \in Seq(Values) /\ Len(data) = cnt
    OBVIOUS
  <2> QED BY <1>1, <2>1
<1>3. PICK g : g = Overlay(f, lba + k, b)
  OBVIOUS
<1>4. g = [l \in Lbas |-> IF l \in lba + k..lba + k + n - 1
                          THEN b[l - (lba + k) + 1] ELSE f[l]]
  BY <1>2, <1>3 DEF Overlay
<1>5. ASSUME NEW l \in Lbas
      PROVE  /\ g[l] = IF l \in lba + k..lba + k + n - 1 THEN data[l - lba + 1] ELSE f[l]
             /\ g[l] \in Values
  <2>1. l \in Int
    BY IdeAssumption DEF Lbas
  <2>2. CASE l \in lba + k..lba + k + n - 1
    <3>1. PICK i \in 1..n : i = l - (lba + k) + 1
      BY <2>1, <2>2
    <3>2. b[i] = data[k + i] /\ k + i = l - lba + 1 /\ k + i \in 1..cnt
      BY <1>2, <2>1, <3>1
    <3> QED BY <1>4, <2>2, <3>1, <3>2
  <2>3. CASE l \notin lba + k..lba + k + n - 1
    BY <1>4, <2>3
  <2> QED BY <2>2, <2>3
<1>6. Replaced(f, g, lba, data, k, n)
  BY <1>4, <1>5 DEF Replaced
<1> QED BY <1>1, <1>3, <1>6

-----------------------------------------------------------------------------
(* What a step leaves alone *)

(* t is the only thread that may go on with its request.                   *)
OthersKept(t) ==
  /\ \A u \in Threads \ {t} : req'[u] = req[u] /\ secs_done'[u] = secs_done[u]
  /\ \A u \in Callers \ {t} : pc'[u] = pc[u]

(* A thread outside the driver counts on nothing.                          *)
LEMMA OutsideStage ==
  ASSUME NEW u, pc'[u] \notin Inside
  PROVE  Stage(u)' /\ Registers(u)'
BY DEF Stage, Registers, Inside

(* A request that has not begun does not depend on the disk.               *)
LEMMA OutsideAsks ==
  ASSUME NEW u, Asks(u), pc[u] \in {"user", "acquire", "lock"}, pc'[u] = pc[u],
         req'[u] = req[u], secs_done'[u] = secs_done[u]
  PROVE  Asks(u)'
<1>1. Slice(store, req[u].lba, 0) = Slice(store', req[u].lba, 0)
  BY EmptySlice
<1> QED BY <1>1 DEF Asks, Inside

(* The step of the thread inside, or of the disk for it.                   *)
LEMMA HolderStep ==
  ASSUME IInv, NEW t \in Callers, \A u \in Callers \ {t} : pc[u] \notin Inside,
         OthersKept(t), Asks(t)', Stage(t)', Registers(t)', pc'[t] \in Inside \/ Quiet'
  PROVE  Stages' /\ Requests' /\ \A u \in Callers : Registers(u)'
<1>1. /\ Callers = Threads \ {idle_thread} /\ idle_thread \in Threads
      /\ Kernel(sched, pc) /\ Requests
  BY Names DEF IInv
<1>2. ASSUME NEW u \in Callers \ {t}
      PROVE  /\ pc[u] \in {"user", "acquire", "lock"} /\ pc'[u] = pc[u]
             /\ req'[u] = req[u] /\ secs_done'[u] = secs_done[u] /\ pc'[u] \notin Inside
  <2>1. u \in Threads /\ t \in Threads /\ u # t
    BY <1>1
  <2>2. pc[u] \notin Inside
    OBVIOUS
  <2>3. pc[u] \in PC \ {"idle", "halt"}
    BY <1>1, <2>1 DEF Kernel, Control
  <2> QED BY <2>1, <2>2, <2>3 DEF PC, OthersKept
<1>3. ASSUME NEW u \in Callers PROVE Stage(u)' /\ Registers(u)' /\ Asks(u)'
  <2>1. CASE u = t
    BY <2>1
  <2>2. CASE u # t
    <3>1. Asks(u)
      BY <1>1 DEF Requests
    <3> QED BY <1>2, <2>2, <3>1, OutsideStage, OutsideAsks
  <2> QED BY <2>1, <2>2
<1>4. (\A u \in Callers : pc'[u] \notin Inside) => Quiet'
  OBVIOUS
<1>5. req'[idle_thread] = NoRequest /\ secs_done'[idle_thread] = 0
  BY <1>1 DEF OthersKept, Requests
<1> QED BY <1>3, <1>4, <1>5 DEF Stages, Requests

(* A step that does not touch the disk, taken by the scheduler or by a     *)
(* thread outside.                                                         *)
LEMMA FrameStep ==
  ASSUME IInv, NEW t \in Threads, OthersKept(t), UNCHANGED <<dev, irq, expecting, store>>,
         sched'.sema[disk_done].value = sched.sema[disk_done].value,
         \A u \in Callers \ {t} :
           sched'.status[u] = "BLOCKED" <=> sched.status[u] = "BLOCKED",
         IF t = idle_thread
         THEN req'[t] = req[t] /\ secs_done'[t] = secs_done[t]
         ELSE pc[t] \notin Inside /\ pc'[t] \notin Inside /\ Asks(t)'
  PROVE  Stages' /\ Requests' /\ \A u \in Callers : Registers(u)'
<1>1. /\ Callers = Threads \ {idle_thread} /\ idle_thread \in Threads
      /\ Stages /\ Requests /\ \A u \in Callers : Registers(u)
  BY Names DEF IInv
<1>2. ASSUME NEW u \in Callers \ {t}
      PROVE  /\ pc'[u] = pc[u] /\ req'[u] = req[u] /\ secs_done'[u] = secs_done[u]
             /\ sched'.status[u] = "BLOCKED" <=> sched.status[u] = "BLOCKED"
  BY <1>1 DEF OthersKept
<1>3. ASSUME NEW u \in Callers PROVE Stage(u)' /\ Registers(u)' /\ Asks(u)'
  <2>1. CASE u = t
    BY <1>1, <2>1, OutsideStage
  <2>2. CASE u # t
    <3>1. Stage(u) /\ Registers(u) /\ Asks(u)
      BY <1>1 DEF Stages, Requests
    <3>2. Stage(u)'
      BY <1>2, <2>2, <3>1 DEF Stage, Quiet, Answering, Signals
    <3>3. Registers(u)'
      BY <1>2, <2>2, <3>1 DEF Registers, secs_to_move
    <3>4. Asks(u)'
      BY <1>2, <2>2, <3>1 DEF Asks
    <3> QED BY <3>2, <3>3, <3>4
  <2> QED BY <2>1, <2>2
<1>4. ASSUME \A u \in Callers : pc'[u] \notin Inside PROVE Quiet'
  <2>1. \A u \in Callers : pc[u] \notin Inside
    BY <1>1, <1>2, <1>4
  <2> QED BY <1>1, <2>1 DEF Stages, Quiet, Signals
<1>5. req'[idle_thread] = NoRequest /\ secs_done'[idle_thread] = 0
  BY <1>1 DEF OthersKept, Requests
<1> QED BY <1>3, <1>4, <1>5 DEF Stages, Requests

(* A step that keeps the parts keeps the invariant.                        *)
LEMMA Assembled ==
  ASSUME KernelSound(sched'), Kernel(sched', pc'),
         Stages' /\ Requests' /\ \A u \in Callers : Registers(u)', Shapes',
         store' \in [Lbas -> Values], polls' \in 0..TimeLimit, nap' \in 0..MaxSleep
  PROVE  IInv'
<1>1. SchedTypes' /\ ~sched'.panic
  BY SoundTypes DEF SchedTypes, MutexState
<1> QED BY <1>1 DEF IInv

(* The running thread, and what the invariant says of it.                  *)
LEMMA Running ==
  ASSUME IInv, NEW t \in Callers, NEW label, At(t, label)
  PROVE  /\ KernelSound(sched) /\ Kernel(sched, pc) /\ sched.mutex \in MutexState
         /\ t = sched.cur /\ sched.status[t] = "RUNNING" /\ pc[t] = label
         /\ t \in Threads /\ t # idle_thread /\ pc \in [Threads -> PC]
         /\ Stage(t) /\ Asks(t) /\ Registers(t) /\ Shapes
         /\ store \in [Lbas -> Values] /\ polls \in 0..TimeLimit /\ nap \in 0..MaxSleep
         /\ pc[t] \in Inside => \A u \in Callers \ {t} : pc[u] \notin Inside
<1>1. KernelSound(sched) /\ t = sched.cur /\ pc[t] = label /\ sched.mutex \in MutexState
  BY DEF IInv, At, SchedTypes
<1>2. sched.status[t] = "RUNNING"
  BY <1>1, SoundTypes
<1>3. Kernel(sched, pc) /\ t \in Threads /\ \A u \in Callers \ {t} : u \in Threads /\ u # t
  BY Names DEF IInv
<1>4. pc[t] \in Inside => \A u \in Callers \ {t} : pc[u] \notin Inside
  BY <1>3, Alone
<1> QED BY <1>1, <1>2, <1>3, <1>4, Names DEF IInv, Stages, Requests, Kernel

-----------------------------------------------------------------------------
(* The steps of the driver *)

(* A caller outside asks for sectors.                                      *)
LEMMA RequestStep ==
  ASSUME IInv, NEW t \in Callers, NEW op \in {"read", "write"}, Request(t, op)
  PROVE  IInv'
<1>1. /\ KernelSound(sched) /\ Kernel(sched, pc) /\ sched.status[t] = "RUNNING"
      /\ pc[t] = "user" /\ t \in Threads /\ t # idle_thread /\ pc \in [Threads -> PC]
      /\ Asks(t) /\ Shapes /\ store \in [Lbas -> Values]
      /\ polls \in 0..TimeLimit /\ nap \in 0..MaxSleep
  BY Running DEF Request
<1>2. PICK r, data :
        /\ r \in Ranges
        /\ IF op = "write" THEN data \in [1..r[2] -> Values] ELSE data = <<>>
        /\ req' = [req EXCEPT ![t] = [op |-> op, lba |-> r[1], sec_cnt |-> r[2],
                                      data |-> data]]
  BY DEF Request
<1>3. PICK e : e = [op |-> op, lba |-> r[1], sec_cnt |-> r[2], data |-> data]
  OBVIOUS
<1>4. /\ req' = [u \in Threads |-> IF u = t THEN e ELSE req[u]]
      /\ secs_done' = [u \in Threads |-> IF u = t THEN 0 ELSE secs_done[u]]
      /\ pc' = [pc EXCEPT ![t] = "acquire"]
      /\ UNCHANGED <<sched, expecting, polls, nap, dev, irq, store>>
  BY <1>1, <1>2, <1>3 DEF Request, Goto, Shapes
<1>5. /\ pc'[t] = "acquire" /\ req'[t] = e /\ secs_done'[t] = 0 /\ OthersKept(t)
      /\ pc[t] \notin Inside /\ pc'[t] \notin Inside
  BY <1>1, <1>4, Names DEF OthersKept, Inside
<1>6. Asks(t)'
  <2>1. r = <<r[1], r[2]>>
    BY <1>2, IdeAssumption
  <2>2. Slice(store, r[1], 0) = <<>>
    BY EmptySlice
  <2>3. /\ e.op = op /\ e.lba = r[1] /\ e.sec_cnt = r[2] /\ e.data = data
        /\ e = [op |-> e.op, lba |-> e.lba, sec_cnt |-> e.sec_cnt, data |-> e.data]
    BY <1>3
  <2>4. UNCHANGED store
    BY <1>4
  <2> QED BY <1>2, <1>5, <2>1, <2>2, <2>3, <2>4 DEF Asks, Inside
<1>7. Stages' /\ Requests' /\ \A u \in Callers : Registers(u)'
  BY <1>1, <1>4, <1>5, <1>6, FrameStep
<1>8. Kernel(sched', pc')
  <2>1. "acquire" \in PC \ {"idle", "halt"} /\ (pc[t] \in Inside <=> "acquire" \in Inside)
    BY <1>1 DEF PC, Inside
  <2> QED BY <1>1, <1>4, <2>1, LocalPart
<1>9. Shapes'
  BY <1>1, <1>4 DEF Shapes
<1> QED BY <1>1, <1>4, <1>7, <1>8, <1>9, Assembled

(* The mutex is taken on an idle disk, or slept on.                        *)
LEMMA AcquireStep ==
  ASSUME IInv, NEW t \in Callers, Acquire(t)
  PROVE  IInv'
<1>1. /\ KernelSound(sched) /\ Kernel(sched, pc) /\ sched.status[t] = "RUNNING"
      /\ t = sched.cur /\ sched.mutex \in MutexState
      /\ pc[t] \in {"acquire", "lock"} /\ t \in Threads /\ t # idle_thread
      /\ pc \in [Threads -> PC] /\ Asks(t) /\ Shapes /\ store \in [Lbas -> Values]
      /\ polls \in 0..TimeLimit /\ nap \in 0..MaxSleep
  BY Running DEF Acquire
<1>2. UNCHANGED <<expecting, req, secs_done, polls, nap, dev, irq, store>>
  BY DEF Acquire
<1>3. pc[t] \notin Inside /\ sched.mutex[channel].holder # t /\ channel \in Mutexes
  BY <1>1, Names DEF Inside, Kernel, Holder
<1>4. Acquires(sched, channel) <=> Available(sched, channel)
  BY <1>1, <1>3 DEF Acquires
<1>5. Shapes'
  BY <1>1, <1>2 DEF Shapes
<1>6. CASE Available(sched, channel)
  <2>1. sched' = mutex_acquire(sched, channel) /\ pc' = [pc EXCEPT ![t] = "select"]
    BY <1>4, <1>6 DEF Acquire, Goto
  <2>2. /\ sched.mutex[channel] = mutex_init
        /\ \A u \in Callers \ {t} : pc[u] \notin Inside
    BY <1>1, <1>3, <1>6, Names DEF Kernel, Holder, Available, mutex_init
  <2>3. Taken(sched, sched', channel)
    BY <1>1, <1>3, <1>6, <2>1, <2>2, AcquireTakes
  <2>4. Kernel(sched', pc') /\ KernelSound(sched')
    <3>1. PICK r : r = sched'
      OBVIOUS
    <3>2. Kernel(r, [pc EXCEPT ![t] = "select"])
      BY <1>1, <1>3, <1>6, <2>3, <3>1, TakePart
    <3> QED BY <2>1, <2>3, <3>1, <3>2 DEF Taken
  <2>5. pc'[t] = "select" /\ OthersKept(t) /\ pc'[t] \in Inside
    BY <1>1, <1>2, <2>1, Names DEF OthersKept, Inside
  <2>6. Stage(t)'
    <3>1. Quiet
      BY <1>3, <2>2 DEF IInv, Stages
    <3>2. sched'.sema[disk_done] = sched.sema[disk_done]
      BY <2>3, Names DEF Taken, Keeps
    <3>3. Quiet'
      BY <1>2, <3>1, <3>2 DEF Quiet, Signals
    <3> QED BY <2>5, <3>3 DEF Stage
  <2>7. Asks(t)'
    <3>1. secs_done[t] = 0 /\ pc[t] # "user" /\ <<req[t].lba, req[t].sec_cnt>> \in Ranges
      BY <1>1 DEF Asks
    <3>2. req[t].sec_cnt \in Nat \ {0}
      BY <3>1, RangeFacts, IdeAssumption
    <3>3. 0 \in 0..req[t].sec_cnt - 1 /\ 1..0 = {}
      BY <3>2
    <3> QED BY <1>1, <1>2, <2>5, <3>1, <3>3 DEF Asks, Inside
  <2>8. Registers(t)'
    BY <2>5 DEF Registers
  <2>9. Stages' /\ Requests' /\ \A u \in Callers : Registers(u)'
    BY <2>2, <2>5, <2>6, <2>7, <2>8, HolderStep
  <2> QED BY <1>1, <1>2, <1>5, <2>4, <2>9, Assembled
<1>7. CASE ~Available(sched, channel)
  <2>1. sched' = mutex_acquire(sched, channel) /\ pc' = [pc EXCEPT ![t] = "lock"]
    BY <1>4, <1>7 DEF Acquire, Goto
  <2>2. Queued(sched, sched', channel)
    BY <1>1, <1>3, <1>7, <2>1, WaitersFacts, AcquireSleeps
  <2>3. Kernel(sched', pc') /\ KernelSound(sched')
    <3>1. PICK r, x, label : r = sched' /\ x = channel /\ label = "lock"
      OBVIOUS
    <3>2. /\ Queued(sched, r, x) /\ sched.sema[x].value = 0
          /\ (pc[t] \in Inside <=> label = "asleep")
      BY <1>3, <1>7, <2>2, <3>1 DEF Available
    <3>3. Kernel(r, [pc EXCEPT ![t] = label])
      BY <1>1, <3>1, <3>2, SleepPart
    <3> QED BY <2>1, <2>2, <3>1, <3>3 DEF Queued
  <2>4. pc'[t] = "lock" /\ OthersKept(t) /\ pc'[t] \notin Inside
    BY <1>1, <1>2, <2>1, Names DEF OthersKept, Inside
  <2>5. /\ sched'.sema[disk_done] = sched.sema[disk_done]
        /\ \A u \in Callers \ {t} :
             sched'.status[u] = "BLOCKED" <=> sched.status[u] = "BLOCKED"
    BY <1>1, <2>2, Names DEF Queued, Keeps, StatusFrame, Runnable
  <2>6. Asks(t)'
    BY <1>1, <1>2, <2>4 DEF Asks, Inside
  <2>7. Stages' /\ Requests' /\ \A u \in Callers : Registers(u)'
    BY <1>1, <1>2, <1>3, <2>4, <2>5, <2>6, FrameStep
  <2> QED BY <1>1, <1>2, <1>5, <2>3, <2>7, Assembled
<1> QED BY <1>6, <1>7

(* The thread inside goes on without the scheduler.                        *)
LEMMA InsideMove ==
  ASSUME IInv, NEW t \in Callers, NEW label \in Inside, At(t, label),
         NEW to \in Inside, Goto(t, to), UNCHANGED <<sched, store>>,
         \A u \in Threads \ {t} : req'[u] = req[u] /\ secs_done'[u] = secs_done[u],
         polls' \in 0..TimeLimit, nap' \in 0..MaxSleep,
         Shapes', Asks(t)', Stage(t)', Registers(t)'
  PROVE  IInv'
<1>1. /\ KernelSound(sched) /\ Kernel(sched, pc) /\ sched.status[t] = "RUNNING"
      /\ pc[t] \in Inside /\ pc \in [Threads -> PC] /\ t \in Threads
      /\ store \in [Lbas -> Values]
      /\ \A u \in Callers \ {t} : pc[u] \notin Inside
  BY Running
<1>2. pc' = [pc EXCEPT ![t] = to]
  BY DEF Goto
<1>3. to \in PC \ {"idle", "halt"}
  BY DEF PC, Inside
<1>4. Kernel(sched', pc')
  BY <1>1, <1>2, <1>3, LocalPart
<1>5. OthersKept(t) /\ pc'[t] \in Inside
  BY <1>1, <1>2, Names DEF OthersKept
<1>6. Stages' /\ Requests' /\ \A u \in Callers : Registers(u)'
  BY <1>1, <1>5, HolderStep
<1> QED BY <1>1, <1>4, <1>6, Assembled

(* The registers are filled on an idle disk.                               *)
LEMMA SelectStep ==
  ASSUME IInv, NEW t \in Callers, select_sector(t)
  PROVE  IInv'
<1>1. /\ pc[t] = "select" /\ pc \in [Threads -> PC] /\ t \in Threads
      /\ Stage(t) /\ Asks(t) /\ Shapes /\ polls \in 0..TimeLimit /\ nap \in 0..MaxSleep
      /\ At(t, "select")
  BY Running DEF select_sector
<1>2. /\ dev' = [dev EXCEPT !.lba = req[t].lba + secs_done[t],
                            !.cnt = secs_to_move(t) % MaxSectors]
      /\ pc' = [pc EXCEPT ![t] = "expect"] /\ Goto(t, "expect")
      /\ UNCHANGED <<sched, expecting, req, secs_done, polls, nap, irq, store>>
  BY DEF select_sector, Goto
<1>3. /\ pc'[t] = "expect" /\ dev'.phase = dev.phase
      /\ dev'.lba = req[t].lba + secs_done[t] /\ dev'.cnt = secs_to_move(t) % MaxSectors
  BY <1>1, <1>2 DEF Shapes
<1>4. Shapes'
  BY <1>1, <1>2 DEF Shapes
<1>5. Asks(t)'
  BY <1>1, <1>2, <1>3 DEF Asks, Inside
<1>6. Stage(t)'
  BY <1>1, <1>2, <1>3 DEF Stage, Quiet, Signals
<1>7. Registers(t)'
  <2>1. secs_to_move(t)' = secs_to_move(t)
    BY <1>2 DEF secs_to_move
  <2> QED BY <1>2, <1>3, <2>1 DEF Registers
<1>8. "select" \in Inside /\ "expect" \in Inside
  BY DEF Inside
<1> QED BY <1>1, <1>2, <1>4, <1>5, <1>6, <1>7, <1>8, InsideMove

(* The flag is set, then the command sent.                                 *)
LEMMA CommandStep ==
  ASSUME IInv, NEW t \in Callers, cmd_out(t)
  PROVE  IInv'
<1>1. CASE Expect(t, "expect", "command")
  <2>1. /\ pc[t] = "expect" /\ pc \in [Threads -> PC] /\ t \in Threads
        /\ Stage(t) /\ Asks(t) /\ Registers(t) /\ Shapes
        /\ polls \in 0..TimeLimit /\ nap \in 0..MaxSleep /\ At(t, "expect")
    BY <1>1, Running DEF Expect
  <2>2. /\ expecting' = TRUE /\ Goto(t, "command")
        /\ UNCHANGED <<sched, req, secs_done, polls, nap, dev, irq, store>>
    BY <1>1 DEF Expect
  <2>3. pc'[t] = "command"
    BY <2>1, <2>2 DEF Goto
  <2>4. Shapes' /\ Asks(t)'
    BY <2>1, <2>2, <2>3 DEF Shapes, Asks, Inside
  <2>5. Stage(t)'
    BY <2>1, <2>2, <2>3 DEF Stage, Quiet, Signals
  <2>6. Registers(t)'
    <3>1. secs_to_move(t)' = secs_to_move(t)
      BY <2>2 DEF secs_to_move
    <3> QED BY <2>1, <2>2, <2>3, <3>1 DEF Registers, Inside
  <2>7. "expect" \in Inside /\ "command" \in Inside
    BY DEF Inside
  <2> QED BY <2>1, <2>2, <2>4, <2>5, <2>6, <2>7, InsideMove
<1>2. CASE Command(t, "command", Sent(t))
  <2>1. /\ pc[t] = "command" /\ pc \in [Threads -> PC] /\ t \in Threads
        /\ Stage(t) /\ Asks(t) /\ Registers(t) /\ Shapes
        /\ nap \in 0..MaxSleep /\ At(t, "command")
    BY <1>2, Running DEF Command
  <2>2. /\ dev' = [dev EXCEPT !.phase = "busy", !.op = req[t].op]
        /\ irq' = FALSE /\ polls' = 0 /\ Goto(t, Sent(t))
        /\ UNCHANGED <<sched, expecting, req, secs_done, nap, store>>
    BY <1>2 DEF Command
  <2>3. /\ dev'.phase = "busy" /\ dev'.op = req[t].op /\ dev'.lba = dev.lba
        /\ dev'.cnt = dev.cnt
    BY <2>1, <2>2 DEF Shapes
  <2>4. /\ req[t].op = "read" => pc'[t] = "down"
        /\ req[t].op = "write" => pc'[t] = "poll"
        /\ req[t].op \in {"read", "write"}
    BY <2>1, <2>2 DEF Goto, Sent, Asks
  <2>5. Shapes'
    BY <2>1, <2>2 DEF Shapes
  <2>6. Asks(t)'
    BY <2>1, <2>2, <2>4 DEF Asks, Inside
  <2>7. Stage(t)'
    BY <2>1, <2>2, <2>3, <2>4 DEF Stage, Quiet, Signals, Answering
  <2>8. Registers(t)'
    <3>1. secs_to_move(t)' = secs_to_move(t)
      BY <2>2 DEF secs_to_move
    <3> QED BY <2>1, <2>2, <2>3, <2>4, <3>1 DEF Registers, Inside
  <2>9. "command" \in Inside /\ Sent(t) \in Inside
    BY <2>4 DEF Inside, Sent
  <2>10. polls' \in 0..TimeLimit
    BY <2>2, IdeAssumption
  <2> QED BY <2>1, <2>2, <2>5, <2>6, <2>7, <2>8, <2>9, <2>10, InsideMove
<1> QED BY <1>1, <1>2 DEF cmd_out

(* The end of a command: the next one or none. What it moved is counted.   *)
LEMMA EndPart ==
  ASSUME NEW t \in Threads, pc \in [Threads -> PC], Shapes, EndOfLoop(t), Asks(t),
         pc[t] \in Inside \ {"release"}
  PROVE  /\ pc'[t] \in {"select", "release"} /\ Goto(t, pc'[t])
         /\ secs_done'[t] = secs_done[t] + secs_to_move(t)
         /\ IF pc'[t] = "select" THEN secs_done'[t] \in 0..req[t].sec_cnt - 1
                                 ELSE secs_done'[t] = req[t].sec_cnt
         /\ \A u \in Threads \ {t} : secs_done'[u] = secs_done[u]
         /\ secs_done' = [u \in Threads |-> secs_done'[u]]
<1>1. PICK done : done = secs_done[t] + secs_to_move(t)
  OBVIOUS
<1>2. PICK to : to = IF done < req[t].sec_cnt THEN "select" ELSE "release"
  OBVIOUS
<1>3. /\ secs_done' = [u \in Threads |-> IF u = t THEN done ELSE secs_done[u]]
      /\ pc' = [pc EXCEPT ![t] = to]
  BY <1>1, <1>2 DEF EndOfLoop, Goto, Shapes
<1>4. /\ req[t].sec_cnt \in Nat /\ secs_done[t] \in 0..req[t].sec_cnt - 1
  <2>1. <<req[t].lba, req[t].sec_cnt>> \in Ranges /\ secs_done[t] \in 0..req[t].sec_cnt - 1
    BY DEF Asks, Inside
  <2> QED BY <2>1, RangeFacts, IdeAssumption
<1>5. done \in Nat /\ done <= req[t].sec_cnt
  BY <1>1, <1>4, CommandSize, IdeAssumption
<1>6. pc'[t] = to /\ secs_done'[t] = done
  BY <1>3
<1> QED BY <1>1, <1>2, <1>3, <1>4, <1>5, <1>6 DEF Goto

(* sema_down(disk_done): before the interrupt it sleeps, after it goes on. *)
LEMMA DownStep ==
  ASSUME IInv, NEW t \in Callers, Down(t)
  PROVE  IInv'
<1>1. /\ KernelSound(sched) /\ Kernel(sched, pc) /\ sched.status[t] = "RUNNING"
      /\ t = sched.cur /\ pc[t] \in {"down", "asleep"} /\ t \in Threads /\ t # idle_thread
      /\ pc \in [Threads -> PC] /\ Stage(t) /\ Asks(t) /\ Registers(t) /\ Shapes
      /\ store \in [Lbas -> Values] /\ polls \in 0..TimeLimit /\ nap \in 0..MaxSleep
      /\ pc[t] \in Inside => \A u \in Callers \ {t} : pc[u] \notin Inside
  BY Running DEF Down
<1>2. /\ sched' = sema_down(sched, disk_done)
      /\ UNCHANGED <<expecting, req, polls, nap, dev, irq, store>>
  BY DEF Down
<1>3. pc[t] \in Inside \ {"release"} /\ req[t].op \in {"read", "write"}
  BY <1>1 DEF Inside, Asks
<1>4. CASE ~Available(sched, disk_done)
  <2>1. pc' = [pc EXCEPT ![t] = "asleep"] /\ UNCHANGED secs_done
    BY <1>4 DEF Down, Goto
  <2>2. sched.sema[disk_done].value = 0
    BY <1>4 DEF Available
  <2>3. Queued(sched, sched', disk_done)
    BY <1>1, <1>2, <1>4, Names, WaitersFacts, DownSleeps
  <2>4. Kernel(sched', pc') /\ KernelSound(sched')
    <3>1. PICK r, x, label : r = sched' /\ x = disk_done /\ label = "asleep"
      OBVIOUS
    <3>2. /\ Queued(sched, r, x) /\ sched.sema[x].value = 0
          /\ (pc[t] \in Inside <=> label = "asleep")
      BY <1>3, <2>2, <2>3, <3>1
    <3>3. Kernel(r, [pc EXCEPT ![t] = label])
      BY <1>1, <3>1, <3>2, SleepPart
    <3> QED BY <2>1, <2>3, <3>1, <3>3 DEF Queued
  <2>5. pc'[t] = "asleep" /\ OthersKept(t) /\ pc'[t] \in Inside
    BY <1>1, <1>2, <2>1, Names DEF OthersKept, Inside
  <2>6. sched'.sema[disk_done].value = 0 /\ sched'.status[t] = "BLOCKED"
    BY <1>1, <2>3 DEF Queued
  <2>7. Stage(t)'
    BY <1>1, <1>2, <2>2, <2>5, <2>6 DEF Stage, Answering, Signals
  <2>8. Asks(t)'
    BY <1>1, <1>2, <2>1, <2>5 DEF Asks, Inside
  <2>9. Registers(t)'
    <3>1. secs_to_move(t)' = secs_to_move(t)
      BY <1>2, <2>1 DEF secs_to_move
    <3> QED BY <1>1, <1>2, <2>1, <2>5, <3>1 DEF Registers, Inside
  <2>10. Shapes'
    BY <1>1, <1>2, <2>1 DEF Shapes
  <2>11. Stages' /\ Requests' /\ \A u \in Callers : Registers(u)'
    BY <1>1, <1>3, <2>5, <2>7, <2>8, <2>9, HolderStep
  <2> QED BY <1>1, <1>2, <2>4, <2>10, <2>11, Assembled
<1>5. CASE Available(sched, disk_done)
  <2>1. /\ KernelSound(sched') /\ Keeps(sched, sched', {disk_done})
        /\ sched'.mutex = sched.mutex /\ sched'.status = sched.status
        /\ sched'.sema[disk_done] = [value |-> 0, waiters |-> sched.sema[disk_done].waiters]
    BY <1>1, <1>2, <1>5, Names, DownTakes
  <2>2. Kernel(sched', pc) /\ sched'.status[t] = "RUNNING"
    <3>1. sched'.sema[disk_done].waiters = sched.sema[disk_done].waiters
      BY <2>1
    <3> QED BY <1>1, <2>1, <3>1, DownPart
  <2>3. /\ req[t].op = "read" => Signals("drq", FALSE, FALSE, 1)
        /\ req[t].op = "write" => Signals("ready", FALSE, FALSE, 1)
    BY <1>1, <1>5 DEF Stage, Answering, Signals, Available
  <2>4. sched'.sema[disk_done].value = 0
    BY <2>1
  <2>5. CASE req[t].op = "read"
    <3>1. pc' = [pc EXCEPT ![t] = "poll"] /\ UNCHANGED secs_done
      BY <1>5, <2>5 DEF Down, Goto
    <3>2. "poll" \in PC \ {"idle", "halt"} /\ (pc[t] \in Inside <=> "poll" \in Inside)
      BY <1>3 DEF PC, Inside
    <3>3. Kernel(sched', pc')
      BY <2>2, <3>1, <3>2, LocalPart
    <3>4. pc'[t] = "poll" /\ OthersKept(t) /\ pc'[t] \in Inside
      BY <1>1, <1>2, <3>1, Names DEF OthersKept, Inside
    <3>5. Stage(t)'
      BY <1>2, <2>3, <2>4, <2>5, <3>4 DEF Stage, Signals
    <3>6. Asks(t)'
      BY <1>1, <1>2, <3>1, <3>4 DEF Asks, Inside
    <3>7. Registers(t)'
      <4>1. secs_to_move(t)' = secs_to_move(t)
        BY <1>2, <3>1 DEF secs_to_move
      <4> QED BY <1>1, <1>2, <3>1, <3>4, <4>1 DEF Registers, Inside
    <3>8. Shapes'
      BY <1>1, <1>2, <3>1 DEF Shapes
    <3>9. Stages' /\ Requests' /\ \A u \in Callers : Registers(u)'
      BY <1>1, <1>3, <3>4, <3>5, <3>6, <3>7, HolderStep
    <3> QED BY <1>1, <1>2, <2>1, <3>3, <3>8, <3>9, Assembled
  <2>6. CASE req[t].op = "write"
    <3>1. EndOfLoop(t)
      BY <1>5, <2>6 DEF Down
    <3>2. /\ pc'[t] \in {"select", "release"} /\ Goto(t, pc'[t])
          /\ secs_done'[t] = secs_done[t] + secs_to_move(t)
          /\ IF pc'[t] = "select" THEN secs_done'[t] \in 0..req[t].sec_cnt - 1
                                  ELSE secs_done'[t] = req[t].sec_cnt
          /\ \A u \in Threads \ {t} : secs_done'[u] = secs_done[u]
          /\ secs_done' = [u \in Threads |-> secs_done'[u]]
      BY <1>1, <1>3, <3>1, EndPart
    <3>3. PICK to : to = pc'[t] /\ pc' = [pc EXCEPT ![t] = to]
      BY <3>2 DEF Goto
    <3>4. to \in PC \ {"idle", "halt"} /\ (pc[t] \in Inside <=> to \in Inside)
      BY <1>3, <3>2, <3>3 DEF PC, Inside
    <3>5. Kernel(sched', pc')
      BY <2>2, <3>3, <3>4, LocalPart
    <3>6. OthersKept(t) /\ pc'[t] \in Inside
      BY <1>1, <1>2, <3>2, <3>3, <3>4, Names DEF OthersKept, Inside
    <3>7. Stage(t)'
      BY <1>2, <2>3, <2>4, <2>6, <3>2 DEF Stage, Quiet, Signals
    <3>8. Asks(t)'
      <4>1. \A i \in 1..secs_done'[t] : store[req[t].lba + i - 1] = req[t].data[i]
        BY <1>1, <2>3, <2>6, <3>2 DEF Registers, Signals
      <4> QED BY <1>1, <1>2, <2>6, <3>2, <4>1 DEF Asks, Inside
    <3>9. Registers(t)'
      BY <3>2 DEF Registers
    <3>10. Shapes'
      BY <1>1, <1>2, <3>2 DEF Shapes
    <3>11. Stages' /\ Requests' /\ \A u \in Callers : Registers(u)'
      BY <1>1, <1>3, <3>6, <3>7, <3>8, <3>9, HolderStep
    <3> QED BY <1>1, <1>2, <2>1, <3>5, <3>10, <3>11, Assembled
  <2> QED BY <1>3, <2>5, <2>6
<1> QED BY <1>4, <1>5

(* A failed ASSERT changes nothing else.                                   *)
LEMMA PanicFacts ==
  ASSUME NEW s, KernelSound(s), NEW p, Kernel(s, p)
  PROVE  LET r == ASSERT(s, FALSE)
         IN  /\ r.panic /\ r.cur = s.cur /\ r.status = s.status /\ r.sema = s.sema
             /\ r.mutex = s.mutex /\ Kernel(r, p)
<1>1. PICK r : r = ASSERT(s, FALSE)
  OBVIOUS
<1>2. /\ r.panic /\ r.cur = s.cur /\ r.status = s.status /\ r.sema = s.sema
      /\ r.mutex = s.mutex
  BY <1>1 DEF ASSERT, KernelSound, SemaState, ThreadState, Fields
<1>3. Kernel(r, p)
  BY <1>2 DEF Kernel, Control, Holder, QueuedAt, Sleepers
<1> QED BY <1>1, <1>2, <1>3

(* busy_wait reads the status: it goes on, naps or gives up.               *)
LEMMA PollStep ==
  ASSUME IInv, NEW t \in Callers, busy_wait(t)
  PROVE  IInv'
<1>1. /\ KernelSound(sched) /\ Kernel(sched, pc) /\ pc[t] = "poll" /\ pc \in [Threads -> PC]
      /\ t \in Threads /\ Stage(t) /\ Asks(t) /\ Registers(t) /\ Shapes
      /\ store \in [Lbas -> Values] /\ polls \in 0..TimeLimit /\ nap \in 0..MaxSleep
      /\ pc[t] \in Inside => \A u \in Callers \ {t} : pc[u] \notin Inside
      /\ At(t, "poll")
  BY Running DEF busy_wait
<1>2. irq' = FALSE /\ UNCHANGED <<expecting, req, secs_done, result, dev, store>>
  BY DEF busy_wait
<1>3. /\ irq = FALSE /\ "poll" \in Inside /\ "nap" \in Inside /\ "transfer" \in Inside
      /\ req[t].op \in {"read", "write"}
      /\ dev.phase \in {"busy", "drq"} /\ (dev.phase = "busy" => req[t].op = "write")
  BY <1>1 DEF Stage, Signals, Asks, Inside
<1>4. Shapes'
  BY <1>1, <1>2 DEF Shapes
<1>5. ASSUME pc'[t] \in {"poll", "nap", "transfer"} PROVE Asks(t)' /\ Registers(t)'
  <2>1. secs_to_move(t)' = secs_to_move(t)
    BY <1>2 DEF secs_to_move
  <2> QED BY <1>1, <1>2, <1>5, <2>1 DEF Asks, Registers, Inside
<1>6. TimeLimit \in Nat
  BY IdeAssumption
<1>7. CASE dev.phase \notin {"busy", "storing"}
  <2>1. Goto(t, "transfer") /\ UNCHANGED <<polls, nap>> /\ sched' = ASSERT(sched, dev.phase = "drq")
    BY <1>7 DEF busy_wait
  <2>2. dev.phase = "drq"
    BY <1>3, <1>7
  <2>3. sched' = sched
    <3>1. ThreadState(sched)
      BY <1>1 DEF KernelSound, SemaState
    <3> QED BY <2>1, <2>2, <3>1, AssertFacts
  <2>4. pc'[t] = "transfer"
    BY <1>1, <2>1 DEF Goto
  <2>5. Stage(t)'
    BY <1>1, <1>2, <2>2, <2>3, <2>4 DEF Stage, Signals
  <2> QED BY <1>1, <1>2, <1>3, <1>4, <1>5, <2>1, <2>3, <2>4, <2>5, InsideMove
<1>8. CASE dev.phase \in {"busy", "storing"} /\ polls + 1 < TimeLimit
  <2>1. polls' = polls + 1 /\ nap' \in 0..MaxSleep /\ Goto(t, "nap") /\ UNCHANGED sched
    <3>1. polls + 1 # TimeLimit
      BY <1>1, <1>8, <1>6
    <3> QED BY <1>8, <3>1 DEF busy_wait
  <2>2. pc'[t] = "nap" /\ polls' \in 0..TimeLimit
    BY <1>1, <1>8, <1>6, <2>1 DEF Goto
  <2>3. Stage(t)'
    BY <1>1, <1>2, <1>3, <2>1, <2>2 DEF Stage, Signals
  <2> QED BY <1>1, <1>2, <1>3, <1>4, <1>5, <2>1, <2>2, <2>3, InsideMove
<1>9. CASE dev.phase \in {"busy", "storing"} /\ ~(polls + 1 < TimeLimit)
  <2>1. sched' = ASSERT(sched, FALSE) /\ polls' = TimeLimit /\ UNCHANGED <<pc, nap>>
    BY <1>9 DEF busy_wait
  <2>2. /\ sched'.panic /\ sched'.cur = sched.cur /\ sched'.status = sched.status
        /\ sched'.sema = sched.sema /\ sched'.mutex = sched.mutex /\ Kernel(sched', pc)
    BY <1>1, <2>1, PanicFacts
  <2>3. SchedTypes' /\ polls' \in 0..TimeLimit
    <3>1. SchedTypes
      BY DEF IInv
    <3>2. SchedTypes'
      BY <2>2, <3>1 DEF SchedTypes
    <3> QED BY <1>6, <2>1, <3>2
  <2>4. Stage(t)'
    BY <1>1, <1>2, <1>3, <2>1, <2>2 DEF Stage, Signals
  <2>5. OthersKept(t)
    BY <1>2, <2>1 DEF OthersKept
  <2>6. Stages' /\ Requests' /\ \A u \in Callers : Registers(u)'
    BY <1>1, <1>3, <1>5, <2>1, <2>4, <2>5, HolderStep
  <2> QED BY <1>1, <1>2, <1>4, <2>1, <2>2, <2>3, <2>6 DEF IInv
<1> QED BY <1>7, <1>8, <1>9

(* The scheduler gives the CPU to another thread.                          *)
LEMMA SwitchStep ==
  ASSUME IInv, Switches(sched, sched'), pc' \in [Threads -> PC],
         pc'[idle_thread] \in {"idle", "halt"}, \A u \in Callers : pc'[u] = pc[u],
         UNCHANGED <<expecting, req, secs_done, polls, dev, irq, store>>,
         nap' \in 0..MaxSleep
  PROVE  IInv'
<1>1. Kernel(sched', pc')
  <2>1. PICK r : r = sched'
    OBVIOUS
  <2>2. PICK p1 \in [Threads -> PC] : p1 = pc'
    OBVIOUS
  <2>3. Kernel(sched, pc)
    BY DEF IInv
  <2>4. Kernel(r, p1)
    BY <2>1, <2>2, <2>3, SwitchPart
  <2> QED BY <2>1, <2>2, <2>4
<1>2. /\ KernelSound(sched') /\ sched'.sema[disk_done] = sched.sema[disk_done]
      /\ \A u \in Callers : sched'.status[u] = "BLOCKED" <=> sched.status[u] = "BLOCKED"
  BY Names DEF Switches, Keeps, StatusFrame, Runnable
<1>3. idle_thread \in Threads /\ OthersKept(idle_thread)
  BY Names DEF OthersKept
<1>4. Stages' /\ Requests' /\ \A u \in Callers : Registers(u)'
  BY <1>2, <1>3, FrameStep
<1>5. Shapes'
  BY DEF IInv, Shapes
<1> QED BY <1>1, <1>2, <1>4, <1>5, Assembled DEF IInv

(* A nap ends, or goes on while others run.                                *)
LEMMA NapStep ==
  ASSUME IInv, NEW t \in Callers, ticks_to_sleep(t)
  PROVE  IInv'
<1>1. /\ KernelSound(sched) /\ Kernel(sched, pc) /\ pc[t] = "nap" /\ pc \in [Threads -> PC]
      /\ t \in Threads /\ Stage(t) /\ Asks(t) /\ Registers(t) /\ Shapes
      /\ polls \in 0..TimeLimit /\ nap \in 0..MaxSleep /\ At(t, "nap")
  BY Running DEF ticks_to_sleep
<1>2. UNCHANGED <<expecting, req, secs_done, polls, nap, result, dev, irq, store>>
  BY DEF ticks_to_sleep
<1>3. CASE sched' = thread_yield(sched) /\ UNCHANGED pc
  <2>1. Switches(sched, sched') /\ pc[idle_thread] \in {"idle", "halt"}
    BY <1>1, <1>3, SwitchesFacts DEF Kernel, Control
  <2> QED BY <1>1, <1>2, <1>3, <2>1, SwitchStep
<1>4. CASE Goto(t, "poll") /\ UNCHANGED sched
  <2>1. pc'[t] = "poll" /\ "nap" \in Inside /\ "poll" \in Inside
    BY <1>1, <1>4 DEF Goto, Inside
  <2>2. Shapes' /\ Asks(t)' /\ Stage(t)'
    BY <1>1, <1>2, <1>4, <2>1 DEF Shapes, Asks, Stage, Signals, Inside
  <2>3. Registers(t)'
    <3>1. secs_to_move(t)' = secs_to_move(t)
      BY <1>2 DEF secs_to_move
    <3> QED BY <1>1, <1>2, <2>1, <3>1 DEF Registers, Inside
  <2> QED BY <1>1, <1>2, <1>4, <2>1, <2>2, <2>3, InsideMove
<1> QED BY <1>3, <1>4 DEF ticks_to_sleep

(* A reader takes the sectors out of the disk's buffer.                    *)
LEMMA ReadStep ==
  ASSUME IInv, NEW t \in Callers, read_from_sector(t)
  PROVE  IInv'
<1>1. /\ pc[t] = "transfer" /\ pc \in [Threads -> PC] /\ t \in Threads
      /\ Stage(t) /\ Asks(t) /\ Registers(t) /\ Shapes /\ store \in [Lbas -> Values]
      /\ polls \in 0..TimeLimit /\ nap \in 0..MaxSleep /\ At(t, "transfer")
      /\ req[t].op = "read"
  BY Running DEF read_from_sector
<1>2. /\ req' = [req EXCEPT ![t].data = @ \o dev.buf]
      /\ dev' = [dev EXCEPT !.phase = "ready"] /\ EndOfLoop(t)
      /\ UNCHANGED <<sched, expecting, polls, nap, irq, store>>
  BY DEF read_from_sector
<1>3. PICK lba, cnt, done, n :
        lba = req[t].lba /\ cnt = req[t].sec_cnt /\ done = secs_done[t] /\ n = secs_to_move(t)
  OBVIOUS
<1>4. /\ <<lba, cnt>> \in Ranges /\ done \in 0..cnt - 1
      /\ req[t].data = Slice(store, lba, done) /\ dev.buf = Slice(store, lba + done, n)
      /\ Signals("drq", FALSE, FALSE, 0)
      /\ req[t] = [op |-> "read", lba |-> lba, sec_cnt |-> cnt, data |-> req[t].data]
  BY <1>1, <1>3 DEF Asks, Stage, Registers, Signals, Inside
<1>5. /\ lba \in Nat /\ cnt \in Nat /\ done \in Nat /\ n \in Nat /\ done + n <= cnt
      /\ \A i \in 1..cnt : lba + i - 1 \in Lbas
  <2>1. MaxLba \in Nat /\ MaxSectors \in Nat \ {0}
    BY IdeAssumption
  <2>2. lba \in Nat /\ cnt \in Nat /\ \A i \in 1..cnt : lba + i - 1 \in Lbas
    BY <1>4, <2>1, RangeFacts
  <2>3. req[t].sec_cnt \in Nat /\ secs_done[t] \in 0..req[t].sec_cnt - 1
    BY <1>3, <1>4, <2>2
  <2>4. n \in 1..MaxSectors /\ done + n <= cnt
    BY <1>3, <2>3, CommandSize
  <2> QED BY <1>4, <2>1, <2>2, <2>4
<1>6. \A i \in 1..done + n : lba + i - 1 \in Lbas
  BY <1>5
<1>7. req[t].data \o dev.buf = Slice(store, lba, done + n)
  <2>1. PICK f \in [Lbas -> Values] : f = store
    BY <1>1
  <2>2. Slice(f, lba, done) \o Slice(f, lba + done, n) = Slice(f, lba, done + n)
    BY <1>5, <1>6, SliceConcat
  <2> QED BY <1>4, <2>1, <2>2
<1>8. PICK e : e = [op |-> "read", lba |-> lba, sec_cnt |-> cnt,
                    data |-> Slice(store, lba, done + n)]
  OBVIOUS
<1>9. req' = [u \in Threads |-> IF u = t THEN e ELSE req[u]]
  <2>1. [req[t] EXCEPT !.data = @ \o dev.buf] = e
    <3>1. PICK d : d = req[t].data \o dev.buf
      OBVIOUS
    <3>2. d = Slice(store, lba, done + n)
      BY <1>7, <3>1
    <3>3. [req[t] EXCEPT !.data = @ \o dev.buf] = [req[t] EXCEPT !.data = d]
      BY <3>1
    <3>4. [req[t] EXCEPT !.data = d] = [op |-> "read", lba |-> lba, sec_cnt |-> cnt, data |-> d]
      BY <1>4
    <3> QED BY <1>8, <3>2, <3>3, <3>4
  <2>2. req' = [req EXCEPT ![t] = [req[t] EXCEPT !.data = @ \o dev.buf]]
    BY <1>2
  <2> QED BY <1>1, <2>1, <2>2 DEF Shapes
<1>10. /\ pc'[t] \in {"select", "release"} /\ Goto(t, pc'[t]) /\ secs_done'[t] = done + n
       /\ IF pc'[t] = "select" THEN secs_done'[t] \in 0..cnt - 1 ELSE secs_done'[t] = cnt
       /\ \A u \in Threads \ {t} : secs_done'[u] = secs_done[u]
       /\ secs_done' = [u \in Threads |-> secs_done'[u]]
  <2>1. pc[t] \in Inside \ {"release"}
    BY <1>1 DEF Inside
  <2> QED BY <1>1, <1>2, <1>3, <2>1, EndPart
<1>11. dev'.phase = "ready" /\ Shapes'
  BY <1>1, <1>2, <1>9, <1>10 DEF Shapes
<1>12. Asks(t)'
  <2>1. req'[t] = e /\ store' = store
    BY <1>1, <1>2, <1>9
  <2> QED BY <1>4, <1>8, <1>10, <2>1 DEF Asks, Inside
<1>13. Stage(t)'
  BY <1>2, <1>4, <1>10, <1>11 DEF Stage, Quiet, Signals
<1>14. Registers(t)'
  BY <1>10 DEF Registers
<1>15. "transfer" \in Inside /\ pc'[t] \in Inside
  BY <1>10 DEF Inside
<1> QED BY <1>1, <1>2, <1>9, <1>10, <1>11, <1>12, <1>13, <1>14, <1>15, InsideMove

(* A writer fills the disk's buffer.                                       *)
LEMMA WriteStep ==
  ASSUME IInv, NEW t \in Callers, write_to_sector(t)
  PROVE  IInv'
<1>1. /\ pc[t] = "transfer" /\ pc \in [Threads -> PC] /\ t \in Threads
      /\ Stage(t) /\ Asks(t) /\ Registers(t) /\ Shapes
      /\ polls \in 0..TimeLimit /\ nap \in 0..MaxSleep /\ At(t, "transfer")
      /\ req[t].op = "write"
  BY Running DEF write_to_sector
<1>2. PICK b : b = SubSeq(req[t].data, secs_done[t] + 1, secs_done[t] + secs_to_move(t))
  OBVIOUS
<1>3. /\ dev' = [dev EXCEPT !.phase = "storing", !.buf = b] /\ Goto(t, "down")
      /\ UNCHANGED <<sched, expecting, req, secs_done, polls, nap, irq, store>>
  BY <1>2 DEF write_to_sector
<1>4. /\ dev'.phase = "storing" /\ dev'.buf = b /\ dev'.op = dev.op
      /\ dev'.lba = dev.lba /\ dev'.cnt = dev.cnt /\ pc'[t] = "down"
  BY <1>1, <1>3 DEF Shapes, Goto
<1>5. Shapes' /\ Asks(t)'
  BY <1>1, <1>3, <1>4 DEF Shapes, Asks, Inside
<1>6. Stage(t)'
  BY <1>1, <1>3, <1>4 DEF Stage, Answering, Signals
<1>7. Registers(t)'
  <2>1. secs_to_move(t)' = secs_to_move(t)
    BY <1>3 DEF secs_to_move
  <2> QED BY <1>1, <1>2, <1>3, <1>4, <2>1 DEF Registers, Inside
<1>8. "transfer" \in Inside /\ "down" \in Inside
  BY DEF Inside
<1> QED BY <1>1, <1>3, <1>5, <1>6, <1>7, <1>8, InsideMove

(* The mutex is released on an idle disk.                                  *)
LEMMA ReturnStep ==
  ASSUME IInv, NEW t \in Callers, Return(t)
  PROVE  IInv'
<1>1. /\ KernelSound(sched) /\ Kernel(sched, pc) /\ sched.status[t] = "RUNNING"
      /\ t = sched.cur /\ pc[t] = "release" /\ t \in Threads /\ t # idle_thread
      /\ sched.mutex \in MutexState
      /\ pc \in [Threads -> PC] /\ Stage(t) /\ Shapes
      /\ store \in [Lbas -> Values] /\ polls \in 0..TimeLimit /\ nap \in 0..MaxSleep
      /\ pc[t] \in Inside => \A u \in Callers \ {t} : pc[u] \notin Inside
  BY Running DEF Return
<1>2. /\ sched' = mutex_release(sched, channel) /\ pc' = [pc EXCEPT ![t] = "user"]
      /\ req' = [req EXCEPT ![t] = NoRequest] /\ secs_done' = [secs_done EXCEPT ![t] = 0]
      /\ UNCHANGED <<expecting, polls, nap, dev, irq, store>>
  BY DEF Return, Goto
<1>3. pc[t] \in Inside
  BY <1>1 DEF Inside
<1>4. PICK W \in SUBSET Sleepers(sched, channel) : LetGo(sched, sched', channel, W)
  <2>1. /\ channel \in Mutexes /\ sched.mutex[channel].holder = sched.cur
        /\ sched.mutex[channel].repeat = 1 /\ sched.sema[channel].value = 0
    BY <1>1, <1>3, Names DEF Kernel, Holder, mutex_init
  <2> QED BY <1>1, <1>2, <2>1, WaitersFacts, ReleaseFacts
<1>5. Kernel(sched', pc') /\ KernelSound(sched')
  <2>1. PICK r : r = sched'
    OBVIOUS
  <2>2. Kernel(r, [pc EXCEPT ![t] = "user"])
    BY <1>1, <1>4, <2>1, ReleasePart
  <2> QED BY <1>2, <1>4, <2>1, <2>2 DEF LetGo
<1>6. /\ pc'[t] = "user" /\ req'[t] = NoRequest /\ secs_done'[t] = 0 /\ OthersKept(t)
      /\ Shapes'
  BY <1>1, <1>2, Names DEF OthersKept, Shapes
<1>7. Quiet'
  <2>1. sched'.sema[disk_done] = sched.sema[disk_done]
    BY <1>4, Names DEF LetGo, Keeps
  <2> QED BY <1>1, <1>2, <2>1 DEF Stage, Quiet, Signals
<1>8. Stage(t)' /\ Registers(t)' /\ Asks(t)'
  BY <1>6 DEF Stage, Registers, Asks, Inside, NoRequest
<1>9. Stages' /\ Requests' /\ \A u \in Callers : Registers(u)'
  BY <1>1, <1>3, <1>6, <1>7, <1>8, HolderStep
<1> QED BY <1>1, <1>2, <1>5, <1>6, <1>9, Assembled

-----------------------------------------------------------------------------
(* The disk and the interrupts *)

(* Unless the disk is quiet, a thread is inside the driver.                *)
LEMMA Owner ==
  ASSUME IInv, ~Quiet
  PROVE  \E t \in Callers :
           /\ pc[t] \in Inside \ {"select", "expect", "release"} /\ t \in Threads
           /\ Stage(t) /\ Asks(t) /\ Registers(t) /\ req[t].op \in {"read", "write"}
           /\ \A u \in Callers \ {t} : pc[u] \notin Inside
<1>1. Stages /\ Requests /\ Kernel(sched, pc) /\ \A u \in Callers : Registers(u)
  BY DEF IInv
<1>2. PICK t \in Callers : pc[t] \in Inside
  BY <1>1 DEF Stages
<1>3. Stage(t) /\ Asks(t) /\ Registers(t) /\ t \in Threads
  BY <1>1, Names DEF Stages, Requests
<1>4. pc[t] \notin {"select", "expect", "release"} /\ pc[t] # "user"
  BY <1>2, <1>3 DEF Stage, Inside
<1>5. \A u \in Callers \ {t} : pc[u] \notin Inside
  BY <1>1, <1>2, <1>3, Alone, Names
<1> QED BY <1>2, <1>3, <1>4, <1>5 DEF Asks

(* Something happens to the command of t, but nothing to t's place in the  *)
(* driver.                                                                 *)
LEMMA OwnerStep ==
  ASSUME IInv, NEW t \in Callers, pc[t] \in Inside,
         \A u \in Callers \ {t} : pc[u] \notin Inside,
         \A u \in Callers : pc'[u] = pc[u], UNCHANGED <<req, secs_done, polls, nap>>,
         KernelSound(sched'), Kernel(sched', pc'), Shapes', store' \in [Lbas -> Values],
         Asks(t)', Stage(t)', Registers(t)'
  PROVE  IInv'
<1>1. polls' \in 0..TimeLimit /\ nap' \in 0..MaxSleep
  BY DEF IInv
<1>2. OthersKept(t) /\ pc'[t] \in Inside
  BY DEF OthersKept
<1>3. Stages' /\ Requests' /\ \A u \in Callers : Registers(u)'
  BY <1>2, HolderStep
<1> QED BY <1>1, <1>3, Assembled

(* The disk is ready for the data of the command.                          *)
LEMMA ReadyStep ==
  ASSUME IInv, DiskReady
  PROVE  IInv'
<1>1. dev.phase = "busy" /\ ~sched.panic
  BY DEF DiskReady
<1>2. PICK t \in Callers :
        /\ pc[t] \in Inside \ {"select", "expect", "release"} /\ t \in Threads
        /\ Stage(t) /\ Asks(t) /\ Registers(t) /\ req[t].op \in {"read", "write"}
        /\ \A u \in Callers \ {t} : pc[u] \notin Inside
  BY <1>1, Owner DEF Quiet, Signals
<1>3. UNCHANGED <<sched, expecting, pc, req, secs_done, polls, nap, store>>
  BY DEF DiskReady
<1>4. Shapes /\ KernelSound(sched) /\ Kernel(sched, pc) /\ store \in [Lbas -> Values]
  BY <1>1 DEF IInv
<1>5. dev'.phase = "drq" /\ dev'.op = dev.op /\ dev'.lba = dev.lba /\ dev'.cnt = dev.cnt
  BY <1>4 DEF DiskReady, Shapes
<1>6. Shapes'
  BY <1>3, <1>4 DEF DiskReady, Shapes
<1>7. Asks(t)'
  BY <1>2, <1>3 DEF Asks
<1>8. secs_to_move(t)' = secs_to_move(t)
  BY <1>3 DEF secs_to_move
<1>9. CASE req[t].op = "read"
  <2>1. pc[t] \in {"down", "asleep"} /\ Signals("busy", FALSE, TRUE, 0)
    BY <1>1, <1>2, <1>9 DEF Stage, Answering, Signals, Inside
  <2>2. /\ dev.op = "read" /\ dev.lba = req[t].lba + secs_done[t]
        /\ dev.cnt = secs_to_move(t) % MaxSectors
    BY <1>2, <1>9, <2>1 DEF Registers, Inside
  <2>3. dev'.buf = Slice(store, dev.lba, Count) /\ irq' = TRUE
    BY <1>4, <2>2 DEF DiskReady, Shapes
  <2>4. Count = secs_to_move(t)
    <3>1. <<req[t].lba, req[t].sec_cnt>> \in Ranges /\ secs_done[t] \in 0..req[t].sec_cnt - 1
      BY <1>2, <2>1 DEF Asks, Inside
    <3>2. MaxLba \in Nat
      BY IdeAssumption
    <3>3. req[t].sec_cnt \in Nat
      BY <3>1, <3>2, RangeFacts
    <3> QED BY <2>2, <3>1, <3>3, CommandSize
  <2>5. Stage(t)'
    BY <1>2, <1>3, <1>5, <1>9, <2>1, <2>3 DEF Stage, Answering, Signals
  <2>6. Registers(t)'
    BY <1>2, <1>3, <1>5, <1>8, <1>9, <2>1, <2>2, <2>3, <2>4 DEF Registers, Inside
  <2> QED BY <1>2, <1>3, <1>4, <1>6, <1>7, <2>5, <2>6, OwnerStep
<1>10. CASE req[t].op = "write"
  <2>1. pc[t] \in {"poll", "nap"} /\ Signals("busy", FALSE, TRUE, 0)
    BY <1>1, <1>2, <1>10 DEF Stage, Answering, Signals, Inside
  <2>2. dev.op = "write"
    BY <1>2, <1>10, <2>1 DEF Registers, Inside
  <2>3. irq' = irq
    BY <2>2 DEF DiskReady
  <2>4. Stage(t)'
    BY <1>2, <1>3, <1>5, <1>10, <2>1, <2>3 DEF Stage, Answering, Signals
  <2>5. Registers(t)'
    BY <1>2, <1>3, <1>5, <1>8, <1>10, <2>1 DEF Registers, Inside
  <2> QED BY <1>2, <1>3, <1>4, <1>6, <1>7, <2>4, <2>5, OwnerStep
<1> QED BY <1>2, <1>9, <1>10

(* The writer whose data the disk is storing, and where it puts them.      *)
LEMMA StoringFacts ==
  ASSUME IInv, DiskStored
  PROVE  \E t \in Callers :
           /\ pc[t] \in {"down", "asleep"} /\ req[t].op = "write" /\ t \in Threads
           /\ Stage(t) /\ Asks(t) /\ Registers(t) /\ Signals("storing", FALSE, TRUE, 0)
           /\ \A u \in Callers \ {t} : pc[u] \notin Inside
           /\ <<req[t].lba, req[t].sec_cnt>> \in Ranges
           /\ req[t].lba \in Nat /\ req[t].sec_cnt \in Nat
           /\ secs_done[t] \in Nat /\ secs_to_move(t) \in Nat \ {0}
           /\ secs_done[t] + secs_to_move(t) <= req[t].sec_cnt
           /\ Replaced(store, store', req[t].lba, req[t].data, secs_done[t], secs_to_move(t))
<1>1. dev.phase = "storing" /\ store' = Overlay(store, dev.lba, dev.buf)
  BY DEF DiskStored
<1>2. PICK t \in Callers :
        /\ pc[t] \in Inside \ {"select", "expect", "release"} /\ t \in Threads
        /\ Stage(t) /\ Asks(t) /\ Registers(t) /\ req[t].op \in {"read", "write"}
        /\ \A u \in Callers \ {t} : pc[u] \notin Inside
  BY <1>1, Owner DEF Quiet, Signals
<1>3. /\ pc[t] \in {"down", "asleep"} /\ req[t].op = "write"
      /\ Signals("storing", FALSE, TRUE, 0)
  BY <1>1, <1>2 DEF Stage, Answering, Signals, Inside
<1>4. PICK lba, cnt, k, n, data :
        /\ lba = req[t].lba /\ cnt = req[t].sec_cnt /\ k = secs_done[t]
        /\ n = secs_to_move(t) /\ data = req[t].data
  OBVIOUS
<1>5. /\ <<lba, cnt>> \in Ranges /\ k \in 0..cnt - 1 /\ data \in [1..cnt -> Values]
      /\ dev.lba = lba + k /\ dev.buf = SubSeq(data, k + 1, k + n)
  BY <1>1, <1>2, <1>3, <1>4 DEF Asks, Registers, Inside
<1>6. /\ lba \in Nat /\ cnt \in Nat /\ k \in Nat /\ n \in Nat \ {0} /\ k + n <= cnt
      /\ \A i \in 1..cnt : lba + i - 1 \in Lbas
  <2>1. MaxLba \in Nat /\ MaxSectors \in Nat \ {0}
    BY IdeAssumption
  <2>2. lba \in Nat /\ cnt \in Nat /\ \A i \in 1..cnt : lba + i - 1 \in Lbas
    BY <1>5, <2>1, RangeFacts
  <2>3. req[t].sec_cnt \in Nat /\ secs_done[t] \in 0..req[t].sec_cnt - 1
    BY <1>4, <1>5, <2>2
  <2>4. n \in 1..MaxSectors /\ k + n <= cnt
    BY <1>4, <2>3, CommandSize
  <2> QED BY <1>5, <2>1, <2>2, <2>4
<1>7. PICK f \in [Lbas -> Values] : f = store
  BY DEF IInv
<1>8. Replaced(f, store', lba, data, k, n)
  <2>1. lba \in Nat /\ cnt \in Nat /\ k \in Nat /\ n \in Nat /\ k + n <= cnt
    BY <1>6
  <2>2. \A i \in 1..cnt : lba + i - 1 \in Lbas
    BY <1>6
  <2>3. data \in [1..cnt -> Values]
    BY <1>5
  <2>4. Replaced(f, Overlay(f, lba + k, SubSeq(data, k + 1, k + n)), lba, data, k, n)
    BY ONLY f \in [Lbas -> Values], <2>1, <2>2, <2>3, OverlayFacts
  <2> QED BY <1>1, <1>5, <1>7, <2>4
<1>9. /\ <<req[t].lba, req[t].sec_cnt>> \in Ranges
      /\ req[t].lba \in Nat /\ req[t].sec_cnt \in Nat
      /\ secs_done[t] \in Nat /\ secs_to_move(t) \in Nat \ {0}
      /\ secs_done[t] + secs_to_move(t) <= req[t].sec_cnt
  BY <1>4, <1>5, <1>6
<1>10. Replaced(store, store', req[t].lba, req[t].data, secs_done[t], secs_to_move(t))
  BY <1>4, <1>7, <1>8
<1> QED BY <1>2, <1>3, <1>9, <1>10

(* The data of a write is on the disk.                                     *)
LEMMA StoredStep ==
  ASSUME IInv, DiskStored
  PROVE  IInv'
<1>1. PICK t \in Callers :
           /\ pc[t] \in {"down", "asleep"} /\ req[t].op = "write" /\ t \in Threads
           /\ Stage(t) /\ Asks(t) /\ Registers(t) /\ Signals("storing", FALSE, TRUE, 0)
           /\ \A u \in Callers \ {t} : pc[u] \notin Inside
           /\ <<req[t].lba, req[t].sec_cnt>> \in Ranges
           /\ req[t].lba \in Nat /\ req[t].sec_cnt \in Nat
           /\ secs_done[t] \in Nat /\ secs_to_move(t) \in Nat \ {0}
           /\ secs_done[t] + secs_to_move(t) <= req[t].sec_cnt
           /\ Replaced(store, store', req[t].lba, req[t].data, secs_done[t], secs_to_move(t))
  BY StoringFacts
<1>2. /\ ~sched.panic /\ dev' = [dev EXCEPT !.phase = "ready"] /\ irq' = TRUE
      /\ UNCHANGED <<sched, expecting, pc, req, secs_done, polls, nap>>
  BY DEF DiskStored
<1>3. Shapes /\ KernelSound(sched) /\ Kernel(sched, pc)
  BY <1>2 DEF IInv
<1>4. /\ dev'.phase = "ready" /\ dev'.op = dev.op /\ dev'.lba = dev.lba
      /\ dev'.cnt = dev.cnt /\ Shapes'
  BY <1>2, <1>3 DEF Shapes
<1>5. \A i \in 1..secs_done[t] + secs_to_move(t) :
        store'[req[t].lba + i - 1] = req[t].data[i]
  <2>1. PICK lba, cnt, k, n, data, f, g :
          /\ lba = req[t].lba /\ cnt = req[t].sec_cnt /\ k = secs_done[t]
          /\ n = secs_to_move(t) /\ data = req[t].data /\ f = store /\ g = store'
    OBVIOUS
  <2>2. /\ lba \in Nat /\ cnt \in Nat /\ k \in Nat /\ n \in Nat \ {0} /\ k + n <= cnt
        /\ \A i \in 1..cnt : lba + i - 1 \in Lbas
        /\ \A l \in Lbas : g[l] = IF l \in lba + k..lba + k + n - 1
                                THEN data[l - lba + 1] ELSE f[l]
    BY <1>1, <2>1, RangeFacts DEF Replaced
  <2>3. \A i \in 1..k : f[lba + i - 1] = data[i]
    BY <1>1, <2>1 DEF Asks, Inside
  <2>4. ASSUME NEW i \in 1..k + n PROVE g[lba + i - 1] = data[i]
    <3>1. lba + i - 1 \in Lbas /\ (lba + i - 1) - lba + 1 = i
      BY <2>2
    <3>2. lba + i - 1 \in lba + k..lba + k + n - 1 <=> i > k
      BY <2>2
    <3>3. i <= k => i \in 1..k
      BY <2>2
    <3> QED BY <2>2, <2>3, <3>1, <3>2, <3>3
  <2> QED BY <2>1, <2>4
<1>6. Asks(t)'
  <2>1. \A i \in 1..secs_done[t] : store'[req[t].lba + i - 1] = req[t].data[i]
    BY <1>1, <1>5
  <2> QED BY <1>1, <1>2, <2>1 DEF Asks, Inside
<1>7. Stage(t)'
  BY <1>1, <1>2, <1>4 DEF Stage, Answering, Signals
<1>8. Registers(t)'
  <2>1. secs_to_move(t)' = secs_to_move(t)
    BY <1>2 DEF secs_to_move
  <2> QED BY <1>1, <1>2, <1>4, <1>5, <2>1 DEF Registers, Inside
<1>9. pc[t] \in Inside /\ store' \in [Lbas -> Values]
  BY <1>1 DEF Inside, Replaced
<1> QED BY <1>1, <1>2, <1>3, <1>4, <1>6, <1>7, <1>8, <1>9, OwnerStep

(* An interrupt ends the idle thread's hlt.                                *)
LEMMA HaltFacts ==
  ASSUME Kernel(sched, pc), sched.cur \in Threads, LeaveHalt
  PROVE  /\ pc' \in [Threads -> PC] /\ pc'[idle_thread] \in {"idle", "halt"}
         /\ \A u \in Callers : pc'[u] = pc[u]
<1>1. /\ pc \in [Threads -> PC] /\ pc[idle_thread] \in {"idle", "halt"}
      /\ \A u \in Callers : pc[u] # "halt"
  BY DEF Kernel, Control
<1>2. PICK to : /\ to = IF pc[sched.cur] = "halt" THEN "idle" ELSE pc[sched.cur]
                /\ pc' = [pc EXCEPT ![sched.cur] = to]
  BY DEF LeaveHalt
<1>3. to \in PC
  BY <1>1, <1>2 DEF PC
<1> QED BY <1>1, <1>2, <1>3, Names

(* Where idle is has no influence on the others.                           *)
LEMMA IdlePart ==
  ASSUME NEW s, NEW p, Kernel(s, p), NEW p1 \in [Threads -> PC],
         p1[idle_thread] \in {"idle", "halt"}, \A u \in Callers : p1[u] = p[u]
  PROVE  Kernel(s, p1)
<1>1. p[idle_thread] \in {"idle", "halt"}
  BY DEF Kernel, Control
<1>2. \A u \in Threads : p1[u] # p[u] => u = idle_thread
  BY Names
<1>3. Control(s, p1)
  BY DEF Kernel, Control
<1>4. Holder(s, p1)
  <2>1. \A u \in Threads : p1[u] \in Inside <=> p[u] \in Inside
    BY <1>1, <1>2 DEF Inside
  <2> QED BY <2>1 DEF Kernel, Holder
<1>5. QueuedAt(s, p1, channel, "lock")
  BY <1>1, <1>2 DEF Kernel, QueuedAt
<1>6. QueuedAt(s, p1, disk_done, "asleep")
  BY <1>1, <1>2 DEF Kernel, QueuedAt
<1> QED BY <1>3, <1>4, <1>5, <1>6 DEF Kernel

(* The interrupt comes when a command is out, and wakes its caller.        *)
LEMMA InterruptStep ==
  ASSUME IInv, intr_hd_handler
  PROVE  IInv'
<1>1. /\ ~sched.panic /\ irq /\ irq' = FALSE /\ expecting' = FALSE /\ LeaveHalt
      /\ sched' = (IF expecting THEN sema_up(sched, disk_done) ELSE sched)
      /\ UNCHANGED <<req, secs_done, polls, nap, dev, store>>
  BY DEF intr_hd_handler, InterruptsOn
<1>2. PICK t \in Callers :
        /\ pc[t] \in Inside \ {"select", "expect", "release"} /\ t \in Threads
        /\ Stage(t) /\ Asks(t) /\ Registers(t) /\ req[t].op \in {"read", "write"}
        /\ \A u \in Callers \ {t} : pc[u] \notin Inside
  BY <1>1, Owner DEF Quiet, Signals
<1>3. /\ KernelSound(sched) /\ Kernel(sched, pc) /\ Shapes /\ store \in [Lbas -> Values]
      /\ sched.cur \in Threads
  BY <1>1 DEF IInv, SchedTypes
<1>4. /\ pc[t] \in {"down", "asleep"}
      /\ req[t].op = "read" => Signals("drq", TRUE, TRUE, 0)
      /\ req[t].op = "write" => Signals("ready", TRUE, TRUE, 0)
  BY <1>1, <1>2 DEF Stage, Answering, Signals, Inside
<1>5. sched' = sema_up(sched, disk_done) /\ sched.sema[disk_done].value = 0
  BY <1>1, <1>2, <1>4 DEF Signals
<1>6. PICK W \in SUBSET Sleepers(sched, disk_done) : Raised(sched, sched', disk_done, W)
  BY <1>3, <1>5, Names, WaitersFacts, UpFacts
<1>7. /\ pc' \in [Threads -> PC] /\ pc'[idle_thread] \in {"idle", "halt"}
      /\ \A u \in Callers : pc'[u] = pc[u]
  BY <1>1, <1>3, HaltFacts
<1>8. Kernel(sched', pc') /\ KernelSound(sched')
  <2>1. PICK r : r = sched'
    OBVIOUS
  <2>2. Kernel(r, pc)
    BY <1>3, <1>6, <2>1, RaisePart
  <2>3. PICK p1 \in [Threads -> PC] : p1 = pc'
    BY <1>7
  <2>4. Kernel(r, p1)
    BY <1>7, <2>2, <2>3, IdlePart
  <2> QED BY <1>6, <2>1, <2>3, <2>4 DEF Raised
<1>9. sched'.sema[disk_done].value = 1 /\ sched'.status[t] # "BLOCKED"
  <2>1. CASE sched.status[t] = "BLOCKED"
    <3>1. t \in Sleepers(sched, disk_done)
      BY <1>2, <1>3, <1>5, <1>4, <2>1 DEF Kernel, QueuedAt, Control, Runnable
    <3>2. \A u \in W : u = t
      <4>1. \A u \in W : u \in Threads /\ pc[u] = "asleep"
        BY <1>3 DEF Kernel, QueuedAt, Sleepers
      <4>2. pc[idle_thread] # "asleep"
        BY <1>3 DEF Kernel, Control
      <4> QED BY <1>2, <4>1, <4>2, Names DEF Inside
    <3>3. t \in W
      BY <1>6, <3>1, <3>2 DEF Raised
    <3> QED BY <1>2, <1>6, <3>3 DEF Raised
  <2>2. CASE sched.status[t] # "BLOCKED"
    BY <1>2, <1>6, <2>2 DEF Raised
  <2> QED BY <1>6, <2>1, <2>2 DEF Raised
<1>10. Asks(t)'
  BY <1>1, <1>2, <1>7 DEF Asks
<1>11. Stage(t)'
  BY <1>1, <1>2, <1>4, <1>7, <1>9 DEF Stage, Answering, Signals
<1>12. Registers(t)'
  <2>1. secs_to_move(t)' = secs_to_move(t)
    BY <1>1 DEF secs_to_move
  <2> QED BY <1>1, <1>2, <1>7, <2>1 DEF Registers
<1>13. Shapes' /\ store' \in [Lbas -> Values]
  BY <1>1, <1>3 DEF Shapes
<1> QED BY <1>1, <1>2, <1>7, <1>8, <1>10, <1>11, <1>12, <1>13, OwnerStep

(* The clock and the idle thread only switch.                              *)
LEMMA TimerStep ==
  ASSUME IInv, Timer \/ IdleBlock
  PROVE  IInv'
<1>1. ~sched.panic
  BY DEF Timer, IdleBlock, InterruptsOn, At
<1>2. /\ KernelSound(sched) /\ Kernel(sched, pc) /\ nap \in 0..MaxSleep
      /\ sched.cur \in Threads
  BY <1>1 DEF IInv, SchedTypes
<1>3. CASE Timer
  <2>1. /\ sched' = intr_timer_handler(sched) /\ nap' = (IF nap > 0 THEN nap - 1 ELSE 0)
        /\ LeaveHalt /\ UNCHANGED <<expecting, req, secs_done, polls, dev, irq, store>>
    BY <1>3 DEF Timer
  <2>2. Switches(sched, sched')
    BY <1>2, <2>1, SwitchesFacts
  <2>3. nap' \in 0..MaxSleep
    <3>1. MaxSleep \in Nat
      BY IdeAssumption
    <3> QED BY <1>2, <2>1, <3>1
  <2> QED BY <1>2, <2>1, <2>2, <2>3, HaltFacts, SwitchStep
<1>4. CASE IdleBlock
  <2>1. /\ sched.cur = idle_thread /\ sched' = thread_block(sched, "BLOCKED")
        /\ pc' = [pc EXCEPT ![idle_thread] = "halt"]
        /\ UNCHANGED <<expecting, req, secs_done, polls, nap, dev, irq, store>>
    BY <1>4 DEF IdleBlock, At, Goto
  <2>2. Blocked(sched, sched')
    BY <1>2, <2>1, BlockedFacts
  <2>3. Switches(sched, sched')
    BY <2>1, <2>2 DEF Blocked, Switches, StatusFrame
  <2>4. "halt" \in PC /\ pc \in [Threads -> PC]
    BY <1>2 DEF PC, Kernel
  <2>5. /\ pc' \in [Threads -> PC] /\ pc'[idle_thread] \in {"idle", "halt"}
        /\ \A u \in Callers : pc'[u] = pc[u]
    BY <2>1, <2>4, Names
  <2>6. nap' \in 0..MaxSleep
    BY <1>2, <2>1
  <2> QED BY <2>1, <2>3, <2>5, <2>6, SwitchStep
<1> QED BY <1>3, <1>4

(* The boot thread starts with the other threads ready behind it.          *)
LEMMA InitSound == ASSUME Init PROVE IInv
<1>1. KernelSound(sched)
  <2>1. /\ sched.cur = main_thread /\ sched.ready = queued /\ sched.this_tick = time_slice
        /\ sched.panic = FALSE /\ sched.mutex = [m \in Mutexes |-> mutex_init]
        /\ sched.status = [t \in Threads |-> IF t = main_thread THEN "RUNNING" ELSE "READY"]
        /\ sched.sema = [x \in Semas |-> sema_init(IF x = disk_done THEN 0 ELSE 1)]
        /\ DOMAIN sched = Fields \cup {"sema", "mutex"}
    BY DEF Init, Fields
  <2>2. /\ main_thread \in Threads \ {idle_thread} /\ queued \in Seq(Threads \ {main_thread})
        /\ NoDuplicates(queued) /\ \A t \in Threads \ {main_thread} : elem_find(queued, t)
    BY IdeAssumption
  <2>3. sched.mutex \in MutexState
    BY <2>1 DEF MutexState, mutex_init
  <2>4. ThreadState(sched) /\ Ticks(sched)
    <3>1. time_slice \in [Threads -> Nat] /\ queued \in Seq(Threads)
      BY <2>2, ThreadAssumption
    <3>2. sched = [f \in DOMAIN sched |-> sched[f]]
      BY DEF Init
    <3>3. sched.status \in [Threads -> Status]
      BY <2>1 DEF Status
    <3>4. Fields \subseteq DOMAIN sched
      BY <2>1
    <3>5. ThreadState(sched)
      BY <2>1, <2>2, <3>1, <3>2, <3>3, <3>4 DEF ThreadState
    <3> QED BY <2>1, <3>1, <3>5 DEF Ticks
  <2>5. SemaState(sched)
    BY <2>1, <2>4 DEF SemaState, sema_init
  <2>6. RunQueueConsistent(sched, {})
    <3>1. ~elem_find(queued, main_thread) /\ idle_thread \in Threads
      BY <2>2, ThreadAssumption DEF elem_find
    <3>2. \A t \in Threads : elem_find(queued, t) <=> t # main_thread
      BY <2>2, <3>1
    <3> QED BY <2>1, <2>2, <3>1, <3>2 DEF RunQueueConsistent
  <2> QED BY <2>1, <2>3, <2>4, <2>5, <2>6 DEF KernelSound
<1>2. pc = [t \in Threads |-> IF t = idle_thread THEN "idle" ELSE "user"]
  BY DEF Init
<1>3. Kernel(sched, pc)
  <2>1. /\ sched.mutex = [m \in Mutexes |-> mutex_init]
        /\ sched.status = [t \in Threads |-> IF t = main_thread THEN "RUNNING" ELSE "READY"]
        /\ sched.sema = [x \in Semas |-> [value |-> IF x = disk_done THEN 0 ELSE 1,
                                        waiters |-> <<>>]]
    BY DEF Init, sema_init
  <2>2. pc \in [Threads -> PC]
    BY <1>2 DEF PC
  <2>3. Control(sched, pc)
    BY <1>2, <2>1, Names DEF Control, Runnable
  <2>4. Holder(sched, pc)
    BY <1>2, <2>1, Names DEF Holder, mutex_init, Inside
  <2>5. ASSUME NEW x \in Semas, NEW label, label \in {"lock", "asleep"}
        PROVE  QueuedAt(sched, pc, x, label)
    <3>1. sched.sema[x].waiters = <<>> /\ 1..Len(<<>>) = {}
      BY <2>1
    <3>2. NoDuplicates(sched.sema[x].waiters) /\ Sleepers(sched, x) = {}
      BY <3>1, Zenon DEF NoDuplicates, Sleepers, elem_find
    <3>3. \A t \in Threads : pc[t] # label
      BY <1>2, <2>5
    <3> QED BY <3>2, <3>3 DEF QueuedAt
  <2> QED BY <2>2, <2>3, <2>4, <2>5, Names DEF Kernel
<1>4. Quiet /\ \A t \in Callers : pc[t] = "user"
  <2>1. Quiet
    BY Names DEF Init, Quiet, Signals, sema_init
  <2> QED BY <1>2, <2>1, Names
<1>5. Stages /\ \A t \in Callers : Registers(t)
  BY <1>4 DEF Stages, Stage, Registers, Inside
<1>6. Requests
  <2>1. req = [t \in Threads |-> NoRequest] /\ secs_done = [t \in Threads |-> 0]
    BY DEF Init
  <2> QED BY <1>4, <2>1, Names DEF Requests, Asks, Inside, NoRequest
<1>7. Shapes
  BY DEF Init, Shapes
<1>8. store \in [Lbas -> Values] /\ polls \in 0..TimeLimit /\ nap \in 0..MaxSleep
  BY IdeAssumption DEF Init
<1>9. SchedTypes /\ ~sched.panic
  BY <1>1, SoundTypes DEF SchedTypes, MutexState
<1> QED BY <1>1, <1>3, <1>5, <1>6, <1>7, <1>8, <1>9 DEF IInv

(* Every step of the driver, the disk, the clock or idle keeps IInv.       *)
LEMMA NextInv == ASSUME IInv, [Next]_vars PROVE IInv'
<1>1. ASSUME NEW t \in Callers, Step(t) PROVE IInv'
  BY <1>1, AcquireStep, SelectStep, CommandStep, DownStep, PollStep, NapStep, ReadStep,
     WriteStep, ReturnStep DEF Step
<1>2. ASSUME NEW t \in Callers, ide_read(t) \/ ide_write(t) PROVE IInv'
  BY <1>2, RequestStep DEF ide_read, ide_write
<1>3. CASE UNCHANGED vars
  <2>1. UNCHANGED <<sched, pc, req, secs_done, polls, nap, dev, irq, expecting, store>>
    BY <1>3 DEF vars
  <2>2. ASSUME NEW t \in Callers, Stage(t), Asks(t), Registers(t)
        PROVE  Stage(t)' /\ Asks(t)' /\ Registers(t)'
    <3>1. Stage(t)'
      BY <2>1, <2>2 DEF Stage, Quiet, Answering, Signals
    <3>2. Asks(t)'
      BY <2>1, <2>2 DEF Asks
    <3>3. Registers(t)'
      BY <2>1, <2>2 DEF Registers, secs_to_move
    <3> QED BY <3>1, <3>2, <3>3
  <2>3. Quiet <=> Quiet'
    BY <2>1 DEF Quiet, Signals
  <2>4. Stages' /\ Requests' /\ \A t \in Callers : Registers(t)'
    BY <2>1, <2>2, <2>3 DEF IInv, Stages, Requests
  <2>5. SchedTypes' /\ Shapes'
    BY <2>1 DEF IInv, SchedTypes, Shapes
  <2> QED BY <2>1, <2>4, <2>5 DEF IInv
<1>4. CASE panic_spin
  BY <1>3, <1>4 DEF panic_spin
<1> QED BY <1>1, <1>2, <1>3, <1>4, ReadyStep, StoredStep, InterruptStep, TimerStep DEF Next

(* IInv holds in every reachable state.                                    *)
LEMMA Invariance == Spec => []IInv
BY InitSound, NextInv, PTL DEF Spec

-----------------------------------------------------------------------------
(* What IInv means *)

(* The threads, requests and counters of the driver stay in their types,   *)
(* and no request moves more sectors than it asks for.                     *)
THEOREM IdeTypeCorrect == Spec => []TypeOK
<1>1. IInv => TypeOK
  <2> SUFFICES ASSUME IInv PROVE TypeOK
    OBVIOUS
  <2>1. ASSUME NEW t \in Threads PROVE secs_done[t] <= req[t].sec_cnt
    <3>1. CASE t = idle_thread
      BY <3>1 DEF IInv, Requests, NoRequest
    <3>2. CASE t # idle_thread
      <4>1. Asks(t) /\ pc \in [Threads -> PC] /\ pc[t] \notin {"idle", "halt"}
        BY <3>2, Names DEF IInv, Requests, Kernel, Control
      <4>2. CASE pc[t] = "user"
        BY <4>1, <4>2 DEF Asks, NoRequest
      <4>3. CASE pc[t] # "user"
        <5>1. MaxLba \in Nat
          BY IdeAssumption
        <5>2. req[t].sec_cnt \in Nat
          BY <4>1, <4>3, <5>1, RangeFacts DEF Asks
        <5>3. \/ secs_done[t] = 0 \/ secs_done[t] = req[t].sec_cnt
              \/ secs_done[t] \in 0..req[t].sec_cnt - 1
          BY <4>1, <4>3 DEF Asks, PC, Inside
        <5> QED BY <5>2, <5>3
      <4> QED BY <4>2, <4>3
    <3> QED BY <3>1, <3>2
  <2>2. expecting \in BOOLEAN
    <3>1. CASE Quiet
      BY <3>1 DEF Quiet, Signals
    <3>2. CASE ~Quiet
      <4>1. PICK t \in Callers : Stage(t) /\ req[t].op \in {"read", "write"}
                                 /\ pc[t] \in Inside \ {"select", "expect", "release"}
        BY <3>2, Owner
      <4> QED BY <4>1 DEF Stage, Answering, Signals, Inside
    <3> QED BY <3>1, <3>2
  <2>3. SchedTypes /\ pc \in [Threads -> PC]
    BY DEF IInv, Kernel
  <2>4. store \in [Lbas -> Values] /\ polls \in 0..TimeLimit /\ nap \in 0..MaxSleep
    BY DEF IInv
  <2> QED BY <2>1, <2>2, <2>3, <2>4 DEF SchedTypes, TypeOK, PC, Inside
<1> QED BY <1>1, Invariance, PTL

(* No ASSERT of the driver or below it fails but the one of busy_wait.     *)
THEOREM OnlyTimeouts == Spec => []OnlyTimeoutPanics
<1>1. IInv => OnlyTimeoutPanics
  BY DEF IInv, OnlyTimeoutPanics
<1> QED BY <1>1, Invariance, PTL

(* select_sector and cmd_out never reach a disk that still works.          *)
THEOREM CommandsTakeTurns == Spec => []CommandsInTurn
<1>1. IInv => CommandsInTurn
  <2> SUFFICES ASSUME IInv, NEW t \in Threads, pc[t] \in {"select", "expect", "command"}
               PROVE  dev.phase = "ready"
    BY DEF CommandsInTurn
  <2>1. Stage(t)
    BY Names DEF IInv, Kernel, Control, Stages
  <2> QED BY <2>1 DEF Stage, Quiet, Signals
<1> QED BY <1>1, Invariance, PTL

(* The interrupt that wakes a sleeper of disk_done is still to come, and   *)
(* intr_hd_handler will not ignore it.                                     *)
THEOREM InterruptsKept == Spec => []NoLostInterrupt
<1>1. IInv => NoLostInterrupt
  <2> SUFFICES ASSUME IInv, NEW t \in Threads, pc[t] = "asleep", sched.status[t] = "BLOCKED"
               PROVE  expecting /\ (irq \/ dev.phase \in {"busy", "storing"})
    BY DEF NoLostInterrupt
  <2>1. Stage(t) /\ Asks(t)
    BY Names DEF IInv, Kernel, Control, Stages, Requests
  <2>2. sched.sema[disk_done].value = 0 /\ req[t].op \in {"read", "write"}
    BY <2>1 DEF Stage, Asks
  <2> QED BY <2>1, <2>2 DEF Stage, Answering, Signals
<1> QED BY <1>1, Invariance, PTL

(* The comment of intr_hd_handler: an interrupt finds expecting_intr set.  *)
THEOREM InterruptsAwaited == Spec => []InterruptsExpected
<1>1. IInv => InterruptsExpected
  <2> SUFFICES ASSUME IInv, irq PROVE expecting
    BY DEF InterruptsExpected
  <2>1. PICK t \in Callers : Stage(t) /\ req[t].op \in {"read", "write"}
                             /\ pc[t] \in Inside \ {"select", "expect", "release"}
    BY Owner DEF Quiet, Signals
  <2> QED BY <2>1 DEF Stage, Answering, Signals, Inside
<1> QED BY <1>1, Invariance, PTL

-----------------------------------------------------------------------------
(* Requests are atomic *)

(* f with the data of request r in place.                                  *)
Written(f, r) ==
  [l \in Lbas |-> IF l \in r.lba..r.lba + r.sec_cnt - 1 THEN r.data[l - r.lba + 1]
                                                      ELSE f[l]]

(* Only the thread inside the driver can have begun to write.              *)
LEMMA BegunInside == IInv => \A t \in Begun : t \in Callers /\ pc[t] \in Inside
<1> SUFFICES ASSUME IInv, NEW t \in Begun PROVE t \in Callers /\ pc[t] \in Inside
  OBVIOUS
<1>1. /\ t \in Threads /\ req[t].op = "write"
      /\ secs_done[t] > 0 \/ pc[t] \in {"down", "asleep"}
  BY DEF Begun
<1>2. t \in Callers
  BY <1>1, Names DEF IInv, Requests, NoRequest
<1>3. Asks(t) /\ pc[t] \in PC \ {"idle", "halt"}
  BY <1>1, <1>2 DEF IInv, Requests, Kernel, Control
<1>4. pc[t] \notin {"user", "acquire", "lock"}
  BY <1>1, <1>3 DEF Asks, NoRequest
<1> QED BY <1>2, <1>3, <1>4 DEF PC

(* The disk as readers see it: the request that has begun is written.      *)
Seen ==
  \A t \in Callers :
    (\A u \in Callers \ {t} : pc[u] \notin Inside) =>
      Visible = IF t \in Begun THEN Written(store, req[t]) ELSE store

(* IInv makes it so.                                                       *)
LEMMA SeenAs == IInv => Seen
<1> SUFFICES ASSUME IInv, NEW t \in Callers, \A u \in Callers \ {t} : pc[u] \notin Inside
             PROVE  Visible = IF t \in Begun THEN Written(store, req[t]) ELSE store
  BY DEF Seen
<1>1. \A u \in Begun : u = t
  BY BegunInside
<1>2. CASE t \in Begun
  <2>1. ASSUME NEW l \in Lbas, l \in req[t].lba..req[t].lba + req[t].sec_cnt - 1
        PROVE  (CHOOSE u \in Begun : l \in req[u].lba..req[u].lba + req[u].sec_cnt - 1) = t
    BY <1>1, <1>2, <2>1
  <2>2. \A l \in Lbas : (\E u \in Begun : l \in req[u].lba..req[u].lba + req[u].sec_cnt - 1)
                        <=> l \in req[t].lba..req[t].lba + req[t].sec_cnt - 1
    BY <1>1, <1>2
  <2> QED BY <1>2, <2>1, <2>2, Zenon DEF Visible, Written
<1>3. CASE t \notin Begun
  <2>1. Begun = {}
    BY <1>1, <1>3
  <2>2. store = [l \in Lbas |-> store[l]]
    BY DEF IInv
  <2>3. Visible = [l \in Lbas |-> store[l]]
    BY <2>1, Zenon DEF Visible
  <2> QED BY <1>3, <2>2, <2>3
<1> QED BY <1>2, <1>3

(* The same of the next state.                                             *)
LEMMA SeenNext == (IInv => Seen)'
BY SeenAs, PTL

(* Of the threads, at most one is inside before and after a step of t:     *)
(* t itself, or one that does nothing.                                     *)
LEMMA Seer ==
  ASSUME IInv, IInv', NEW t \in Callers, OthersKept(t)
  PROVE  \E h \in Callers :
           /\ \A u \in Callers \ {h} : pc[u] \notin Inside /\ pc'[u] \notin Inside
           /\ pc[t] \in Inside => h = t
<1>1. /\ \A u, v \in Callers : pc[u] \in Inside /\ pc[v] \in Inside => u = v
      /\ \A u, v \in Callers : pc'[u] \in Inside /\ pc'[v] \in Inside => u = v
  BY Alone, Names DEF IInv
<1>2. CASE pc[t] \in Inside \/ pc'[t] \in Inside
  BY <1>1, <1>2 DEF OthersKept
<1>3. CASE pc[t] \notin Inside /\ pc'[t] \notin Inside
  <2>1. CASE \E u \in Callers : pc[u] \in Inside
    BY <1>1, <1>3, <2>1 DEF OthersKept
  <2>2. CASE \A u \in Callers : pc[u] \notin Inside
    BY <1>3, <2>2 DEF OthersKept
  <2> QED BY <2>1, <2>2
<1> QED BY <1>2, <1>3

(* A step of t that begins nothing and stores nothing goes unseen.         *)
LEMMA Unseen ==
  ASSUME IInv, IInv', NEW t \in Callers, OthersKept(t), UNCHANGED store,
         t \in Begun <=> t \in Begun', t \in Begun => req'[t] = req[t],
         dev'.phase = dev.phase \/ pc[t] \in Inside
  PROVE  Visible' = Visible
<1>1. PICK h \in Callers :
        /\ \A u \in Callers \ {h} : pc[u] \notin Inside /\ pc'[u] \notin Inside
        /\ pc[t] \in Inside => h = t
  BY Seer
<1>2. Visible = IF h \in Begun THEN Written(store, req[h]) ELSE store
  BY <1>1, SeenAs DEF Seen
<1>3. Seen'
  BY SeenNext
<1>4. Visible' = IF h \in Begun' THEN Written(store', req'[h]) ELSE store'
  BY <1>1, <1>3 DEF Seen
<1>5. h \in Begun <=> h \in Begun'
  BY <1>1, Names DEF Begun, OthersKept
<1>6. h \in Begun => req'[h] = req[h]
  BY <1>5, Names DEF OthersKept
<1> QED BY <1>2, <1>4, <1>5, <1>6

(* A request is one of those that Disk allows.                             *)
LEMMA RangeRoom ==
  ASSUME NEW lba, NEW n, <<lba, n>> \in Ranges
  PROVE  lba \in Lbas /\ n \in 1..Cardinality({l \in Lbas : l >= lba})
<1>1. MaxLba \in Nat /\ lba \in 0..MaxLba /\ n \in 1..MaxLba + 1 /\ lba + n - 1 <= MaxLba
  BY RangeFacts, IdeAssumption
<1>2. {l \in Lbas : l >= lba} = lba..MaxLba
  BY <1>1 DEF Lbas
<1>3. Cardinality(lba..MaxLba) = MaxLba - lba + 1
  <2>1. lba \in Int /\ MaxLba \in Int /\ ~(lba > MaxLba)
    BY <1>1
  <2> QED BY <2>1, FS_Interval
<1>4. n \in 1..Cardinality(lba..MaxLba)
  BY <1>1, <1>3
<1>5. lba \in Lbas
  BY <1>1 DEF Lbas
<1> QED BY <1>2, <1>4, <1>5

(* Disk counts sectors as Ide does.                                        *)
LEMMA SameCardinality ==
  ASSUME NEW S
  PROVE  D!Cardinality(S) = Cardinality(S)
BY DEF D!Cardinality, Cardinality

(* The steps of the driver other than those that store or return.          *)
LEMMA DriverSeen ==
  ASSUME IInv, IInv', NEW t \in Callers,
         \/ Acquire(t) \/ select_sector(t) \/ cmd_out(t) \/ Down(t) \/ busy_wait(t)
         \/ ticks_to_sleep(t) \/ read_from_sector(t) \/ write_to_sector(t)
  PROVE  Visible' = Visible /\ result' = result
<1>1. /\ t \in Threads /\ pc \in [Threads -> PC] /\ Stage(t) /\ Asks(t) /\ Shapes
      /\ pc[t] \in {"acquire", "lock"} \cup (Inside \ {"release"})
  <2>1. pc[t] \in {"acquire", "lock"} \cup (Inside \ {"release"})
    BY DEF Acquire, select_sector, cmd_out, Expect, Command, Down, busy_wait,
           ticks_to_sleep, read_from_sector, write_to_sector, At, Inside
  <2> QED BY <2>1, Names DEF IInv, Kernel, Stages, Requests
<1>2. /\ t \in Threads /\ pc \in [Threads -> PC] /\ req[t].op \in {"read", "write"}
      /\ \A u \in Callers \ {t} : u \in Threads
  BY <1>1, Names DEF Asks, Inside
<1>3. CASE Acquire(t)
  <2>1. /\ pc' = [pc EXCEPT ![t] = IF Acquires(sched, channel) THEN "select" ELSE "lock"]
        /\ pc[t] \in {"acquire", "lock"}
        /\ UNCHANGED <<req, secs_done, result, dev, store>>
    BY <1>3 DEF Acquire, Goto, At
  <2>2. OthersKept(t)
    BY <2>1 DEF OthersKept
  <2>3. secs_done[t] = 0 /\ pc'[t] \in {"select", "lock"}
    BY <1>1, <2>1 DEF Asks
  <2>4. t \notin Begun /\ t \notin Begun'
    BY <2>1, <2>3 DEF Begun
  <2> QED BY <2>1, <2>2, <2>4, Unseen
<1>4. CASE select_sector(t) \/ cmd_out(t) \/ write_to_sector(t)
  <2>1. PICK to :
          /\ Goto(t, to) /\ to \in {"expect", "command", "down", "poll"}
          /\ (to = "down" /\ req[t].op = "write" => dev'.phase = "storing")
          /\ pc[t] \in {"select", "expect", "command", "transfer"}
          /\ UNCHANGED <<req, secs_done, result, store>>
    BY <1>1, <1>4 DEF select_sector, cmd_out, Expect, Command, Sent, write_to_sector, At, Shapes
  <2>2. OthersKept(t)
    BY <1>2, <2>1 DEF OthersKept, Goto
  <2>3. pc'[t] = to /\ pc[t] \in Inside
    BY <1>2, <2>1 DEF Goto, Inside
  <2>4. t \in Begun <=> t \in Begun'
    BY <2>1, <2>3 DEF Begun
  <2> QED BY <2>1, <2>2, <2>3, <2>4, Unseen
<1>5. CASE busy_wait(t) \/ ticks_to_sleep(t)
  <2>1. /\ UNCHANGED <<req, secs_done, result, dev, store>>
        /\ pc[t] \in {"poll", "nap"}
        /\ (pc' = pc \/ \E to \in {"transfer", "nap", "poll"} : Goto(t, to))
    BY <1>5 DEF busy_wait, ticks_to_sleep, At
  <2>2. OthersKept(t) /\ pc'[t] \in {"transfer", "nap", "poll"} /\ pc[t] \in Inside
    BY <1>2, <2>1 DEF OthersKept, Goto, Inside
  <2>3. t \in Begun <=> t \in Begun'
    BY <2>1, <2>2 DEF Begun
  <2> QED BY <2>1, <2>2, <2>3, Unseen
<1>6. CASE Down(t)
  <2>1. UNCHANGED <<req, result, dev, store>> /\ pc[t] \in {"down", "asleep"}
    BY <1>6 DEF Down, At
  <2>2. CASE UNCHANGED secs_done
    <3>1. PICK to : Goto(t, to) /\ (req[t].op = "write" => to = "asleep")
      <4>1. req[t].op = "write" /\ Available(sched, disk_done) => FALSE
        <5> SUFFICES ASSUME req[t].op = "write", Available(sched, disk_done) PROVE FALSE
          OBVIOUS
        <5>1. EndOfLoop(t)
          BY <1>6 DEF Down
        <5>2. secs_done'[t] = secs_done[t] + secs_to_move(t)
          BY <1>1, <5>1, <2>1, EndPart DEF Inside
        <5>3. /\ <<req[t].lba, req[t].sec_cnt>> \in Ranges
              /\ secs_done[t] \in 0..req[t].sec_cnt - 1
          BY <1>1, <2>1 DEF Asks, Inside
        <5>4. MaxLba \in Nat /\ MaxSectors \in Nat
          BY IdeAssumption
        <5>5. req[t].sec_cnt \in Nat
          BY <5>3, <5>4, RangeFacts
        <5>6. secs_to_move(t) \in 1..MaxSectors
          BY <5>3, <5>5, CommandSize
        <5> QED BY <2>2, <5>2, <5>3, <5>4, <5>5, <5>6
      <4> QED BY <1>2, <1>6, <4>1 DEF Down
    <3>2. OthersKept(t) /\ pc'[t] = to
      BY <1>1, <2>1, <2>2, <3>1 DEF OthersKept, Goto
    <3>3. t \in Begun <=> t \in Begun'
      BY <2>1, <2>2, <3>1, <3>2 DEF Begun
    <3> QED BY <2>1, <3>2, <3>3, Unseen DEF Inside
  <2>3. CASE ~UNCHANGED secs_done
    <3>1. Available(sched, disk_done) /\ req[t].op = "write" /\ EndOfLoop(t)
      BY <1>6, <2>3 DEF Down
    <3>2. /\ secs_done'[t] = secs_done[t] + secs_to_move(t) /\ Goto(t, pc'[t])
          /\ \A u \in Threads \ {t} : secs_done'[u] = secs_done[u]
      BY <1>1, <2>1, <3>1, EndPart DEF Inside
    <3>3. secs_done'[t] > 0
      <4>1. /\ <<req[t].lba, req[t].sec_cnt>> \in Ranges
            /\ secs_done[t] \in 0..req[t].sec_cnt - 1
        BY <1>1, <2>1 DEF Asks, Inside
      <4>2. MaxLba \in Nat /\ MaxSectors \in Nat
        BY IdeAssumption
      <4>3. req[t].sec_cnt \in Nat
        BY <4>1, <4>2, RangeFacts
      <4>4. secs_to_move(t) \in 1..MaxSectors
        BY <4>1, <4>3, CommandSize
      <4> QED BY <3>2, <4>1, <4>2, <4>3, <4>4
    <3>4. dev.phase = "ready"
      BY <1>1, <2>1, <3>1 DEF Stage, Answering, Signals, Available
    <3>5. t \in Begun /\ t \in Begun'
      BY <1>1, <2>1, <3>1, <3>3, <3>4 DEF Begun
    <3>6. OthersKept(t)
      BY <1>2, <2>1, <3>2 DEF OthersKept, Goto
    <3> QED BY <2>1, <3>5, <3>6, Unseen DEF Inside
  <2> QED BY <2>2, <2>3
<1>7. CASE read_from_sector(t)
  <2>1. /\ req' = [req EXCEPT ![t].data = @ \o dev.buf] /\ EndOfLoop(t)
        /\ pc[t] = "transfer" /\ req[t].op = "read" /\ UNCHANGED <<result, store>>
    BY <1>7 DEF read_from_sector, At
  <2>2. /\ Goto(t, pc'[t]) /\ \A u \in Threads \ {t} : secs_done'[u] = secs_done[u]
    BY <1>1, <2>1, EndPart DEF Inside
  <2>3. OthersKept(t)
    <3>1. PICK e : req' = [req EXCEPT ![t] = e]
      BY <2>1
    <3>2. \A u \in Threads \ {t} : req'[u] = req[u]
      BY <1>1, <3>1 DEF Shapes
    <3>3. \A u \in Callers \ {t} : pc'[u] = pc[u]
      BY <1>2, <2>2 DEF Goto
    <3> QED BY <2>2, <3>2, <3>3 DEF OthersKept
  <2>5. req'[t].op = "read"
    <3>1. req[t] = [op |-> req[t].op, lba |-> req[t].lba, sec_cnt |-> req[t].sec_cnt,
                    data |-> req[t].data]
      BY <1>1 DEF Asks
    <3>2. PICK d : d = req[t].data \o dev.buf
      OBVIOUS
    <3>3. req'[t] = [req[t] EXCEPT !.data = d]
      BY <1>1, <2>1, <3>2 DEF Shapes
    <3> QED BY <2>1, <3>1, <3>3
  <2>4. t \notin Begun /\ t \notin Begun'
    BY <2>1, <2>5 DEF Begun
  <2> QED BY <2>1, <2>3, <2>4, Unseen DEF Inside
<1> QED BY <1>3, <1>4, <1>5, <1>6, <1>7

(* A request is asked for unseen; the last result is forgotten.            *)
LEMMA RequestSeen ==
  ASSUME IInv, IInv', NEW t \in Callers, NEW op, Request(t, op)
  PROVE  Visible' = Visible /\ result' = <<>>
<1>1. /\ pc[t] = "user" /\ pc' = [pc EXCEPT ![t] = "acquire"] /\ result' = <<>>
      /\ secs_done' = [secs_done EXCEPT ![t] = 0] /\ UNCHANGED <<dev, store>>
      /\ \E e : req' = [req EXCEPT ![t] = e]
  BY DEF Request, At, Goto
<1>2. /\ t \in Threads /\ pc \in [Threads -> PC] /\ Shapes /\ Asks(t)
      /\ \A u \in Callers \ {t} : u \in Threads
  BY Names DEF IInv, Kernel, Requests
<1>3. OthersKept(t)
  <2>1. PICK e : req' = [req EXCEPT ![t] = e]
    BY <1>1
  <2> QED BY <1>1, <1>2, <2>1 DEF OthersKept, Shapes
<1>4. pc'[t] = "acquire" /\ secs_done'[t] = 0
  BY <1>1, <1>2 DEF Shapes
<1>5. t \notin Begun /\ t \notin Begun'
  BY <1>1, <1>2, <1>4 DEF Begun, Asks, NoRequest
<1> QED BY <1>1, <1>3, <1>5, Unseen

(* A reader returns the sectors as they are; a writer's are all there.     *)
LEMMA ReturnSeen ==
  ASSUME IInv, IInv', NEW t \in Callers, Return(t)
  PROVE  D!Next \/ UNCHANGED <<Visible, result>>
<1>1. /\ pc[t] = "release" /\ pc' = [pc EXCEPT ![t] = "user"]
      /\ req' = [req EXCEPT ![t] = NoRequest] /\ secs_done' = [secs_done EXCEPT ![t] = 0]
      /\ result' = (IF req[t].op = "read" THEN req[t].data ELSE result)
      /\ UNCHANGED <<dev, store>>
  BY DEF Return, At, Goto
<1>2. /\ t \in Threads /\ pc \in [Threads -> PC] /\ Shapes /\ Asks(t)
      /\ \A u \in Callers \ {t} : u \in Threads
      /\ store \in [Lbas -> Values] /\ Kernel(sched, pc)
  BY Names DEF IInv, Kernel, Requests
<1>3. /\ req[t].op \in {"read", "write"} /\ <<req[t].lba, req[t].sec_cnt>> \in Ranges
      /\ secs_done[t] = req[t].sec_cnt
      /\ req[t].op = "read" => req[t].data = Slice(store, req[t].lba, secs_done[t])
      /\ req[t].op = "write" =>
           \A i \in 1..secs_done[t] : store[req[t].lba + i - 1] = req[t].data[i]
  BY <1>1, <1>2 DEF Asks, Inside
<1>4. req'[t] = NoRequest /\ pc'[t] = "user"
  BY <1>1, <1>2 DEF Shapes
<1>5. \A u \in Callers \ {t} : pc[u] \notin Inside /\ pc'[u] \notin Inside
  BY <1>1, <1>2, Alone DEF Inside
<1>6. t \notin Begun'
  BY <1>4 DEF Begun, NoRequest
<1>7. Visible' = store
  BY <1>1, <1>5, <1>6, SeenNext DEF Seen
<1>8. Visible = IF t \in Begun THEN Written(store, req[t]) ELSE store
  BY <1>5, SeenAs DEF Seen
<1>9. CASE req[t].op = "read"
  <2>1. Visible = store
    BY <1>8, <1>9 DEF Begun
  <2>2. result' = [i \in 1..req[t].sec_cnt |-> Visible[req[t].lba + i - 1]]
    BY <1>1, <1>3, <1>9, <2>1 DEF Slice
  <2>3. PICK lba, n : lba \in Lbas /\ lba = req[t].lba /\ n = req[t].sec_cnt
                      /\ n \in 1..Cardinality({l \in Lbas : l >= lba})
    BY <1>3, RangeRoom
  <2>4. D!Read(lba, n)
    BY <1>7, <2>1, <2>2, <2>3 DEF D!Read
  <2> QED BY <2>3, <2>4, SameCardinality DEF D!Next
<1>10. CASE req[t].op = "write"
  <2>1. PICK lba, cnt, data : lba = req[t].lba /\ cnt = req[t].sec_cnt /\ data = req[t].data
    OBVIOUS
  <2>2. lba \in Nat /\ cnt \in Nat /\ MaxLba \in Nat
    BY <1>3, <2>1, RangeFacts, IdeAssumption
  <2>3. \A i \in 1..cnt : store[lba + i - 1] = data[i]
    BY <1>3, <1>10, <2>1
  <2>4. ASSUME NEW l \in Lbas
        PROVE  (IF l \in lba..lba + cnt - 1 THEN data[l - lba + 1] ELSE store[l]) = store[l]
    <3>1. CASE l \in lba..lba + cnt - 1
      <4>1. PICK i \in 1..cnt : i = l - lba + 1
        BY <2>2, <3>1 DEF Lbas
      <4>2. lba + i - 1 = l
        BY <2>2, <4>1 DEF Lbas
      <4> QED BY <2>3, <3>1, <4>1, <4>2
    <3>2. CASE l \notin lba..lba + cnt - 1
      BY <3>2
    <3> QED BY <3>1, <3>2
  <2>5. Written(store, req[t]) = [l \in Lbas |-> store[l]]
    BY <2>1, <2>4 DEF Written
  <2>6. Written(store, req[t]) = store
    BY <1>2, <2>5
  <2> QED BY <1>1, <1>7, <1>8, <1>10, <2>6
<1> QED BY <1>3, <1>9, <1>10

(* The first sectors a writer stores make the whole request visible; the   *)
(* others change nothing that anyone could see.                            *)
LEMMA StoredSeen ==
  ASSUME IInv, IInv', DiskStored
  PROVE  D!Next \/ UNCHANGED <<Visible, result>>
<1>1. PICK t \in Callers :
           /\ pc[t] \in {"down", "asleep"} /\ req[t].op = "write" /\ t \in Threads
           /\ Stage(t) /\ Asks(t) /\ Registers(t) /\ Signals("storing", FALSE, TRUE, 0)
           /\ \A u \in Callers \ {t} : pc[u] \notin Inside
           /\ <<req[t].lba, req[t].sec_cnt>> \in Ranges
           /\ req[t].lba \in Nat /\ req[t].sec_cnt \in Nat
           /\ secs_done[t] \in Nat /\ secs_to_move(t) \in Nat \ {0}
           /\ secs_done[t] + secs_to_move(t) <= req[t].sec_cnt
           /\ Replaced(store, store', req[t].lba, req[t].data, secs_done[t], secs_to_move(t))
  BY StoringFacts
<1>2. /\ dev' = [dev EXCEPT !.phase = "ready"]
      /\ UNCHANGED <<sched, expecting, pc, req, secs_done, polls, nap, result>>
  BY DEF DiskStored
<1>3. dev.phase = "storing" /\ dev'.phase = "ready"
  BY <1>1, <1>2 DEF IInv, Shapes, Signals
<1>4. (t \in Begun <=> secs_done[t] > 0) /\ t \in Begun'
  BY <1>1, <1>2, <1>3 DEF Begun
<1>5. Visible = IF t \in Begun THEN Written(store, req[t]) ELSE store
  BY <1>1, SeenAs DEF Seen
<1>6. Visible' = Written(store', req[t])
  BY <1>1, <1>2, <1>4, SeenNext DEF Seen
<1>7. PICK lba, cnt, data, k, n, f, g :
        /\ lba = req[t].lba /\ cnt = req[t].sec_cnt /\ data = req[t].data
        /\ k = secs_done[t] /\ n = secs_to_move(t) /\ f = store /\ g = store'
  OBVIOUS
<1>8. lba \in Nat /\ cnt \in Nat /\ k \in Nat /\ n \in Nat /\ k + n <= cnt
  BY <1>1, <1>7
<1>9. ASSUME NEW l \in Lbas
      PROVE  (IF l \in lba..lba + cnt - 1 THEN data[l - lba + 1] ELSE g[l])
             = (IF l \in lba..lba + cnt - 1 THEN data[l - lba + 1] ELSE f[l])
  <2>1. g[l] = IF l \in lba + k..lba + k + n - 1 THEN data[l - lba + 1] ELSE f[l]
    BY <1>1, <1>7 DEF Replaced
  <2>2. l \in lba + k..lba + k + n - 1 => l \in lba..lba + cnt - 1
    BY <1>8 DEF Lbas
  <2> QED BY <2>1, <2>2
<1>10. Visible' = Written(store, req[t])
  <2>1. Written(store', req[t]) = Written(store, req[t])
    BY <1>7, <1>9 DEF Written
  <2> QED BY <1>6, <2>1
<1>11. CASE secs_done[t] > 0
  BY <1>2, <1>4, <1>5, <1>10, <1>11
<1>12. CASE secs_done[t] = 0
  <2>1. Visible = store
    BY <1>4, <1>5, <1>12
  <2>2. data \in [1..cnt -> Values]
    BY <1>1, <1>7 DEF Asks
  <2>3. Len(data) = cnt
    BY <1>8, <2>2
  <2>4. Visible' = [l \in Lbas |-> IF l \in lba..lba + Len(data) - 1
                                  THEN data[l - lba + 1] ELSE Visible[l]]
    BY <1>7, <1>10, <2>1, <2>3 DEF Written
  <2>5. lba \in Lbas /\ cnt \in 1..Cardinality({l \in Lbas : l >= lba})
    BY <1>1, <1>7, RangeRoom
  <2>6. D!Write(lba, data)
    BY <1>2, <2>4 DEF D!Write
  <2> QED BY <2>2, <2>5, <2>6, <1>8, SameCardinality DEF D!Next
<1> QED BY <1>1, <1>11, <1>12

(* The steps of the disk, the interrupts and idle that store nothing.      *)
LEMMA OthersSeen ==
  ASSUME IInv, IInv', DiskReady \/ intr_hd_handler \/ Timer \/ IdleBlock
  PROVE  UNCHANGED <<Visible, result>>
<1>1. UNCHANGED <<req, secs_done, result, store>>
  BY DEF DiskReady, intr_hd_handler, Timer, IdleBlock
<1>2. Kernel(sched, pc) /\ sched.cur \in Threads /\ pc \in [Threads -> PC] /\ Shapes
  BY DEF IInv, SchedTypes, Kernel
<1>3. \A u \in Callers : pc'[u] = pc[u]
  <2>1. CASE DiskReady
    BY <2>1 DEF DiskReady
  <2>2. CASE intr_hd_handler \/ Timer
    BY <1>2, <2>2, HaltFacts DEF intr_hd_handler, Timer
  <2>3. CASE IdleBlock
    BY <1>2, <2>3, Names DEF IdleBlock, Goto
  <2> QED BY <2>1, <2>2, <2>3
<1>4. CASE DiskReady
  <2>1. dev.phase = "busy" /\ dev'.phase = "drq"
    BY <1>2, <1>4 DEF DiskReady, Shapes
  <2>2. PICK t \in Callers : pc[t] \in Inside \ {"select", "expect", "release"}
    BY <2>1, Owner DEF Quiet, Signals
  <2>3. OthersKept(t)
    BY <1>1, <1>3 DEF OthersKept
  <2>4. t \in Begun <=> t \in Begun'
    BY <1>1, <1>3, <2>1, Names DEF Begun
  <2> QED BY <1>1, <2>2, <2>3, <2>4, Unseen
<1>5. CASE intr_hd_handler \/ Timer \/ IdleBlock
  <2>1. UNCHANGED dev
    BY <1>5 DEF intr_hd_handler, Timer, IdleBlock
  <2>2. OthersKept(main_thread) /\ main_thread \in Callers
    BY <1>1, <1>3, Names DEF OthersKept
  <2>3. main_thread \in Begun <=> main_thread \in Begun'
    BY <1>1, <1>3, <2>1, <2>2 DEF Begun
  <2> QED BY <1>1, <2>1, <2>2, <2>3, Unseen
<1> QED BY <1>4, <1>5

(* Every step is one of Disk's, or changes nothing it can see.             *)
LEMMA StepMaps ==
  ASSUME IInv, IInv', [Next]_vars
  PROVE  [D!Next]_<<Visible, result>>
<1>1. ASSUME NEW t \in Callers, Step(t) PROVE [D!Next]_<<Visible, result>>
  BY <1>1, DriverSeen, ReturnSeen DEF Step
<1>2. ASSUME NEW t \in Callers, ide_read(t) \/ ide_write(t) PROVE D!Next
  <2>1. Visible' = Visible /\ result' = <<>>
    BY <1>2, RequestSeen DEF ide_read, ide_write
  <2> QED BY <2>1 DEF D!Next, D!Forget
<1>3. CASE UNCHANGED vars \/ panic_spin
  <2>1. UNCHANGED <<req, secs_done, pc, dev, store, result>>
    BY <1>3 DEF vars, panic_spin
  <2>2. OthersKept(main_thread) /\ main_thread \in Callers
    BY <2>1, Names DEF OthersKept
  <2>3. main_thread \in Begun <=> main_thread \in Begun'
    BY <2>1 DEF Begun
  <2> QED BY <2>1, <2>2, <2>3, Unseen
<1> QED BY <1>1, <1>2, <1>3, OthersSeen, StoredSeen DEF Next

(* Nobody has asked: the disk shows what it holds.                         *)
LEMMA InitMaps == ASSUME Init PROVE D!Init
<1>1. IInv
  BY InitSound
<1>2. \A t \in Callers : pc[t] \notin Inside
  BY Names DEF Init, Inside
<1>3. Begun = {}
  BY <1>1, <1>2, BegunInside
<1>4. Visible = store
  BY <1>1, <1>2, <1>3, SeenAs, Names DEF Seen
<1> QED BY <1>4 DEF Init, D!Init

(* Requests of ide_read and ide_write are atomic, however many commands    *)
(* they take and whoever interrupts them.                                  *)
THEOREM DiskRefinement == Spec => ImplementsDisk
<1>1. Init => IInv /\ D!Init
  BY InitSound, InitMaps
<1>2. IInv /\ [Next]_vars => IInv' /\ [D!Next]_<<Visible, result>>
  BY NextInv, StepMaps
<1> QED BY <1>1, <1>2, PTL DEF Spec, ImplementsDisk, D!Spec
=============================================================================
