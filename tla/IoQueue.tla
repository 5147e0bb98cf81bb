------------------------------- MODULE IoQueue -------------------------------
(***************************************************************************)
(* The ring buffers of device/ioqueue.c and everybody who uses them: the   *)
(* keyboard interrupt and the readers of stdin (sys_read) on kbd_buf, the  *)
(* writers and readers of a pipe (pipe_write, pipe_read) on its buffer.    *)
(*                                                                         *)
(* A system call runs with interrupts off until it returns or suspends its *)
(* thread, so other threads and interrupts act only while the running      *)
(* thread is in user mode (or idle halts).  Control points (pc):           *)
(*   "user"     outside the kernel                                         *)
(*   "get"      at the top of ioq_getchar                                  *)
(*   "getlock"  in ioq_getchar, asleep on the queue's mutex                *)
(*   "getwait"  in ioq_getchar, asleep in ioq_wait with the mutex held     *)
(*   "put", "putlock", "putwait"   the same in ioq_putchar                 *)
(*   "idle", "halt"                the idle thread                         *)
(***************************************************************************)
EXTENDS KMutex

CONSTANTS
  kbd, pipe,    \* kbd_buf and the buffer of a pipe
  bufsize,      \* slots of a ring; one always stays free
  Bytes,        \* what a slot holds
  KbdReaders,   \* threads that read stdin from the keyboard
  PipeWriters,  \* threads with the writing end of the pipe
  PipeReaders,  \* threads with the reading end
  queued,       \* the run queue behind the running thread, at first
  MaxCount      \* bound: bytes one read or write asks for

ASSUME IoQueueAssumption ==
  /\ bufsize \in Nat /\ bufsize > 1
  /\ KbdReaders \cup PipeWriters \cup PipeReaders \subseteq Threads \ {idle_thread}
  /\ kbd # pipe /\ Mutexes = {kbd, pipe}
  /\ queued \in Seq(Threads) /\ NoDuplicates(queued)
  /\ \E t \in Threads : {t} = {u \in Threads : ~elem_find(queued, u)}
  /\ MaxCount \in Nat

VARIABLES
  sched,  \* thread table, run queue, semaphores and mutexes (module KMutex)
  ioq,    \* each queue: buf, head, tail and the waiting consumer, producer
  pc,     \* control point of each thread
  call,   \* the queue and the bytes left of each thread's system call
  byte    \* what ioq_getchar returned or ioq_putchar was given last

vars == <<sched, ioq, pc, call, byte>>

Queues == {kbd, pipe}
Users == KbdReaders \cup PipeWriters \cup PipeReaders

-----------------------------------------------------------------------------
(* ioqueue.h, ioqueue.c *)

(* Fault: the position does not wrap around. *)
next_pos_NoWrap(pos) == pos + 1

next_pos(pos) == (pos + 1) % bufsize

ioq_full(q) == next_pos(ioq[q].head) = ioq[q].tail

ioq_empty(q) == ioq[q].head = ioq[q].tail

ioq_length(q) ==
  IF ioq[q].head >= ioq[q].tail
  THEN ioq[q].head - ioq[q].tail
  ELSE bufsize - (ioq[q].tail - ioq[q].head)

(* ioq_wakeup, if there is somebody to wake up. *)
Wakeup(s, waiter) == IF waiter = NULL THEN s ELSE thread_unblock(s, waiter)

-----------------------------------------------------------------------------
At(t, label) == sched.cur = t /\ ~sched.panic /\ pc[t] = label

Goto(t, label) == pc' = [pc EXCEPT ![t] = label]

(* User code and the idle thread run with interrupts on, the kernel with   *)
(* interrupts off.                                                         *)
InterruptsOn == ~sched.panic /\ pc[sched.cur] \in {"user", "idle", "halt"}

(* One of the bytes of t's call is done: go on with the next, or return.   *)
Done(t, again) ==
  /\ call' = [call EXCEPT ![t].left = @ - 1]
  /\ Goto(t, IF call[t].left = 1 THEN "user" ELSE again)

Init ==
  /\ sched = [cur       |-> CHOOSE t \in Threads : ~elem_find(queued, t),
              status    |-> [t \in Threads |-> IF elem_find(queued, t)
                                               THEN "READY" ELSE "RUNNING"],
              ready     |-> queued,
              this_tick |-> time_slice,
              panic     |-> FALSE,
              sema      |-> [x \in Semas |-> sema_init(1)],
              mutex     |-> [m \in Mutexes |-> mutex_init]]
  /\ \E b \in Bytes :
       /\ ioq = [q \in Queues |-> [buf |-> [i \in 0..bufsize - 1 |-> b],
                                   head |-> 0, tail |-> 0,
                                   consumer |-> NULL, producer |-> NULL]]
       /\ byte = b
  /\ pc = [t \in Threads |-> IF t = idle_thread THEN "idle" ELSE "user"]
  /\ call = [t \in Threads |-> [ioq |-> kbd, left |-> 0]]

-----------------------------------------------------------------------------
(* System calls *)

(* sys_read on stdin: count times ioq_getchar(&kbd_buf). *)
sys_read(t) ==
  /\ At(t, "user") /\ t \in KbdReaders
  /\ \E count \in 1..MaxCount :
       call' = [call EXCEPT ![t] = [ioq |-> kbd, left |-> count]]
  /\ Goto(t, "get")
  /\ UNCHANGED <<sched, ioq, byte>>

(* pipe_read takes what is there, at most count, and returns at once when  *)
(* the pipe is empty.                                                      *)
pipe_read(t) ==
  /\ At(t, "user") /\ t \in PipeReaders
  /\ ioq_length(pipe) > 0
  /\ \E count \in 1..MaxCount :
       call' = [call EXCEPT ![t] =
                  [ioq  |-> pipe,
                   left |-> IF ioq_length(pipe) > count THEN count
                                                        ELSE ioq_length(pipe)]]
  /\ Goto(t, "get")
  /\ UNCHANGED <<sched, ioq, byte>>

(* pipe_write offers the buffer one byte more than a ring with one slot    *)
(* left free can take: the last ioq_putchar may have to wait.              *)
pipe_write(t) ==
  /\ At(t, "user") /\ t \in PipeWriters
  /\ LET room == bufsize - ioq_length(pipe)
     IN  \E count \in 1..MaxCount :
           call' = [call EXCEPT ![t] =
                      [ioq |-> pipe, left |-> IF room > count THEN count ELSE room]]
  /\ Goto(t, "put")
  /\ UNCHANGED <<sched, ioq, byte>>

-----------------------------------------------------------------------------
(* ioq_getchar *)

(* Fault: the producer is forgotten, not woken. *)
Take_NoWakeup(t, s, q) ==
  /\ byte' = ioq[q].buf[ioq[q].tail]
  /\ ioq' = [ioq EXCEPT ![q].tail = next_pos(@)]
  /\ sched' = s
  /\ Done(t, "get")

(* Fault: the producer is woken and stays in its slot. *)
Take_KeepWaiter(t, s, q) ==
  /\ byte' = ioq[q].buf[ioq[q].tail]
  /\ ioq' = [ioq EXCEPT ![q].tail = next_pos(@)]
  /\ sched' = Wakeup(s, ioq[q].producer)
  /\ Done(t, "get")

(* The byte at tail is taken, then the producer is woken. *)
Take(t, s, q) ==
  /\ byte' = ioq[q].buf[ioq[q].tail]
  /\ ioq' = [ioq EXCEPT ![q].tail = next_pos(@), ![q].producer = NULL]
  /\ sched' = Wakeup(s, ioq[q].producer)
  /\ Done(t, "get")

(* The mutex is acquired, or t sleeps on it; with the mutex, ioq_wait      *)
(* makes t the consumer and suspends it.                                   *)
WaitAsConsumer(t, q) ==
  /\ IF Acquires(sched, q)
     THEN /\ sched' = thread_block(ASSERT(mutex_acquire(sched, q),
                                          ioq[q].consumer = NULL), "BLOCKED")
          /\ ioq' = [ioq EXCEPT ![q].consumer = t]
          /\ Goto(t, "getwait")
     ELSE /\ sched' = mutex_acquire(sched, q)
          /\ Goto(t, "getlock")
          /\ UNCHANGED ioq
  /\ UNCHANGED <<call, byte>>

(* Every call tests the queue once: a woken consumer does not test again.  *)
ioq_getchar(t) ==
  LET q == call[t].ioq
  IN  \/ At(t, "get") /\ ~ioq_empty(q) /\ Take(t, sched, q)
      \/ /\ (At(t, "get") /\ ioq_empty(q)) \/ At(t, "getlock")
         /\ WaitAsConsumer(t, q)
      \/ At(t, "getwait") /\ Take(t, mutex_release(sched, q), q)

-----------------------------------------------------------------------------
(* ioq_putchar *)

(* Fault: head moves before the byte is stored. *)
Stored_Late(q, b) ==
  [ioq EXCEPT ![q].buf[next_pos(ioq[q].head)] = b, ![q].head = next_pos(@),
              ![q].consumer = NULL]

(* The ring after the byte went in at head and the consumer was woken. *)
Stored(q, b) ==
  [ioq EXCEPT ![q].buf[ioq[q].head] = b, ![q].head = next_pos(@),
              ![q].consumer = NULL]

(* Fault: the producer waits without the mutex. *)
WaitAsProducer_NoLock(t, q, s) ==
  /\ sched' = thread_block(ASSERT(s, ioq[q].producer = NULL), "BLOCKED")
  /\ ioq' = [ioq EXCEPT ![q].producer = t]
  /\ Goto(t, "putwait")
  /\ UNCHANGED <<call, byte>>

WaitAsProducer(t, q, s) ==
  /\ IF Acquires(s, q)
     THEN /\ sched' = thread_block(ASSERT(mutex_acquire(s, q),
                                          ioq[q].producer = NULL), "BLOCKED")
          /\ ioq' = [ioq EXCEPT ![q].producer = t]
          /\ Goto(t, "putwait")
     ELSE /\ sched' = mutex_acquire(s, q)
          /\ Goto(t, "putlock")
          /\ UNCHANGED ioq
  /\ UNCHANGED <<call, byte>>

(* Full or not is tested again after every wait (a while loop); a producer *)
(* that comes from ioq_wait has released the mutex first.                  *)
ioq_putchar(t) ==
  LET q == call[t].ioq
      s == IF pc[t] = "putwait" THEN mutex_release(sched, q) ELSE sched
  IN  \/ /\ At(t, "put") \/ At(t, "putwait")
         /\ ~ioq_full(q)
         /\ \E b \in Bytes : ioq' = Stored(q, b) /\ byte' = b
         /\ sched' = Wakeup(s, ioq[q].consumer)
         /\ Done(t, "put")
      \/ /\ \/ (At(t, "put") \/ At(t, "putwait")) /\ ioq_full(q)
            \/ At(t, "putlock")
         /\ WaitAsProducer(t, q, s)

Step(t) ==
  \/ sys_read(t) \/ pipe_read(t) \/ pipe_write(t)
  \/ ioq_getchar(t) \/ ioq_putchar(t)

-----------------------------------------------------------------------------
IdleBlock ==
  /\ At(idle_thread, "idle")
  /\ sched' = thread_block(sched, "BLOCKED")
  /\ Goto(idle_thread, "halt")
  /\ UNCHANGED <<ioq, call, byte>>

LeaveHalt ==
  pc' = [pc EXCEPT ![sched.cur] = IF @ = "halt" THEN "idle" ELSE @]

Timer ==
  /\ InterruptsOn
  /\ sched' = intr_timer_handler(sched)
  /\ LeaveHalt
  /\ UNCHANGED <<ioq, call, byte>>

(* Fault: the handler does not ask whether the ring is full. *)
Keyboard_NoTest ==
  /\ InterruptsOn
  /\ \E b \in Bytes : ioq' = Stored(kbd, b) /\ byte' = b
  /\ sched' = Wakeup(sched, ioq[kbd].consumer)
  /\ LeaveHalt
  /\ UNCHANGED call

(* The keyboard interrupt with a printable key: it must not wait, so a     *)
(* byte that finds the ring full is dropped.                               *)
Keyboard ==
  /\ InterruptsOn
  /\ \/ /\ ~ioq_full(kbd)
        /\ \E b \in Bytes : ioq' = Stored(kbd, b) /\ byte' = b
        /\ sched' = Wakeup(sched, ioq[kbd].consumer)
     \/ ioq_full(kbd) /\ UNCHANGED <<ioq, sched, byte>>
  /\ LeaveHalt
  /\ UNCHANGED call

Next ==
  \/ \E t \in Users : Step(t)
  \/ IdleBlock
  \/ Timer
  \/ Keyboard

Spec == Init /\ [][Next]_vars

-----------------------------------------------------------------------------
TypeOK ==
  /\ ioq \in [Queues -> [buf      : [0..bufsize - 1 -> Bytes],
                         head     : 0..bufsize - 1,
                         tail     : 0..bufsize - 1,
                         consumer : Threads \cup {NULL},
                         producer : Threads \cup {NULL}]]
  /\ sched.cur \in Threads
  /\ sched.status \in [Threads -> Status]
  /\ sched.mutex \in MutexState
  /\ pc \in [Threads -> {"user", "get", "getlock", "getwait", "put", "putlock",
                         "putwait", "idle", "halt"}]
  /\ call \in [Threads -> [ioq : Queues, left : 0..MaxCount]]
  /\ byte \in Bytes

(* No ASSERT of ioqueue.c (the waiter slots are free when somebody waits), *)
(* sync.c or thread.c fails.                                               *)
NoPanic == ~sched.panic

(* A thread sleeps in ioq_wait only for its reason: nobody who could have  *)
(* woken it came and went.                                                 *)
NoLostWakeup ==
  \A t \in Threads : sched.status[t] = "BLOCKED" =>
    /\ pc[t] = "getwait" => ioq_empty(call[t].ioq)
    /\ pc[t] = "putwait" => ioq_full(call[t].ioq)

(* The ring as a queue: from tail up to head. *)
Contents(q) ==
  [i \in 1..ioq_length(q) |-> ioq[q].buf[(ioq[q].tail + i - 1) % bufsize]]

Items == [q \in Queues |-> Contents(q)]

(* The rings are first-in first-out queues of capacity bufsize - 1: no     *)
(* byte is overwritten, read twice, or read when there is none.            *)
F == INSTANCE Fifo WITH
       items    <- Items,
       Capacity <- bufsize - 1

ImplementsFifo == F!Spec

(* A thread that finds the ring empty is suspended (the comment of         *)
(* ioq_getchar): nobody takes a byte out of an empty ring.                 *)
EmptyRingBlocks ==
  [][\A q \in Queues : ioq'[q].tail # ioq[q].tail => ~ioq_empty(q)]_vars
=============================================================================
