-------------------------------- MODULE Sync --------------------------------
(***************************************************************************)
(* Kernel threads that share one mutex (thread/sync.c) on the scheduler of *)
(* module Thread, preempted by the clock at any statement that runs with   *)
(* interrupts on.                                                          *)
(*                                                                         *)
(* sema_down and sema_up run with interrupts off: each is one step, except *)
(* that sema_down gives up the CPU when the value is 0 and tests it again  *)
(* once it has been woken.  mutex_acquire and mutex_release do NOT turn    *)
(* interrupts off: every read or write of the mutex they make is a step of *)
(* its own.                                                                *)
(*                                                                         *)
(* Control points (pc) of a thread:                                        *)
(*   "run"     outside the mutex                                           *)
(*   "acquire" mutex_acquire, about to compare holder with itself          *)
(*   "down"    about to enter sema_down                                    *)
(*   "asleep"  inside sema_down, suspended or just woken (interrupts off)  *)
(*   "holder"  sema_down has returned, holder not yet written              *)
(*   "repeat"  holder written, holder_repeat_nr not yet                    *)
(*   "inside"  mutex_acquire has returned; "nested" mutex_acquire called   *)
(*             again by the thread that holds the mutex                    *)
(*   "release" mutex_release, about to look at holder and holder_repeat_nr *)
(*   "clear"   holder cleared, holder_repeat_nr not yet                    *)
(*   "up"      about to enter sema_up                                      *)
(*   "paused"  suspended in thread_block outside the mutex                 *)
(*   "idle"    the idle thread, about to block; "halt" in thread_block or  *)
(*             at the hlt that follows                                     *)
(*   "start"   in thread_start, its new thread "fresh": initialised, not   *)
(*             yet in the run queue                                        *)
(*   "new"     not created yet; "gone" thread_exit has been called         *)
(***************************************************************************)
EXTENDS Sema

CONSTANTS
  mutex,       \* the semaphore inside the mutex
  main_thread, \* the thread that boots the kernel and runs first
  booted,      \* thread_ready_list when thread_init returns: <<init, idle>>
  NOBODY,      \* the holder of a mutex nobody holds (NULL)
  MaxRepeat    \* bound: how deep a thread nests mutex_acquire

ASSUME SyncAssumption ==
  /\ mutex \in Semas
  /\ main_thread \in Threads \ {idle_thread}
  /\ booted \in Seq(Threads \ {main_thread})
  /\ NoDuplicates(booted)
  /\ elem_find(booted, idle_thread)
  /\ NOBODY \notin Threads
  /\ MaxRepeat \in Nat \ {0}

VARIABLES
  sched,    \* thread table, run queue and semaphores (module Sema)
  holder,   \* mutex->holder
  repeat,   \* mutex->holder_repeat_nr
  pc,       \* control point of each thread
  calls     \* mutex_acquire calls the thread has made and not yet undone

vars == <<sched, holder, repeat, pc, calls>>

Workers == Threads \ {idle_thread}

PC == {"run", "acquire", "down", "asleep", "holder", "repeat", "inside",
       "nested", "release", "clear", "up", "paused", "start", "fresh", "idle",
       "halt", "new", "gone"}

(* Inside sema_down and thread_block the running thread has interrupts off *)
(* from the moment it is switched in: a woken thread tests the value again *)
(* before any interrupt.                                                   *)
InterruptsOn == ~sched.panic /\ pc[sched.cur] \notin {"asleep", "paused"}

(* t executes its next statement: it has the CPU and the kernel has not    *)
(* panicked.                                                               *)
At(t, label) == sched.cur = t /\ ~sched.panic /\ pc[t] = label

Goto(t, label) == pc' = [pc EXCEPT ![t] = label]

-----------------------------------------------------------------------------
(* thread_init, make_main_thread, mutex_init: the main thread runs, init   *)
(* and idle wait in the run queue, every other thread is still to be       *)
(* created.                                                                *)
Init ==
  /\ sched = [cur       |-> main_thread,
              status    |-> [t \in Threads |->
                               IF t = main_thread THEN "RUNNING"
                               ELSE IF elem_find(booted, t) THEN "READY"
                               ELSE "DIED"],
              ready     |-> booted,
              this_tick |-> time_slice,
              panic     |-> FALSE,
              sema      |-> [x \in Semas |-> sema_init(1)]]
  /\ holder = NOBODY
  /\ repeat = 0
  /\ pc = [t \in Threads |->
             IF t = idle_thread THEN "idle"
             ELSE IF t = main_thread \/ elem_find(booted, t) THEN "run"
             ELSE "new"]
  /\ calls = [t \in Threads |-> 0]

-----------------------------------------------------------------------------
(* mutex_acquire *)

(* Fault: a nested acquire is not counted. *)
AcquireTest_NoCount(t) ==
  /\ At(t, "acquire") \/ At(t, "nested")
  /\ Goto(t, IF holder # t THEN "down" ELSE "inside")
  /\ UNCHANGED <<sched, holder, repeat, calls>>

(* A thread that already holds the mutex only counts the call. *)
AcquireTest(t) ==
  /\ At(t, "acquire") \/ At(t, "nested")
  /\ IF holder # t
     THEN Goto(t, "down") /\ UNCHANGED repeat
     ELSE Goto(t, "inside") /\ repeat' = repeat + 1
  /\ UNCHANGED <<sched, holder, calls>>

(* Fault: a woken thread does not test the value again (if for while); the *)
(* uint8_t value wraps.                                                    *)
AcquireDown_If(t) ==
  /\ \/ /\ At(t, "down")
        /\ sched' = sema_down(sched, mutex)
        /\ Goto(t, IF Available(sched, mutex) THEN "holder" ELSE "asleep")
     \/ /\ At(t, "asleep")
        /\ sched' = [sched EXCEPT !.sema[mutex].value = (@ + 255) % 256]
        /\ Goto(t, "holder")
  /\ UNCHANGED <<holder, repeat, calls>>

AcquireDown(t) ==
  /\ At(t, "down") \/ At(t, "asleep")
  /\ sched' = sema_down(sched, mutex)
  /\ Goto(t, IF Available(sched, mutex) THEN "holder" ELSE "asleep")
  /\ UNCHANGED <<holder, repeat, calls>>

AcquireHolder(t) ==
  /\ At(t, "holder")
  /\ holder' = t
  /\ Goto(t, "repeat")
  /\ UNCHANGED <<sched, repeat, calls>>

AcquireRepeat(t) ==
  /\ At(t, "repeat")
  /\ sched' = ASSERT(sched, repeat = 0)
  /\ repeat' = 1
  /\ Goto(t, "inside")
  /\ UNCHANGED <<holder, calls>>

(* mutex_release: holder and holder_repeat_nr are cleared before sema_up.  *)

(* Where a thread is after mutex_release: it knows by its own count whether *)
(* it is still inside.                                                     *)
Released(t) == Goto(t, IF calls[t] > 0 THEN "inside" ELSE "run")

ReleaseTest(t) ==
  /\ At(t, "release")
  /\ \/ /\ repeat > 1
        /\ sched' = ASSERT(sched, holder = t)
        /\ repeat' = repeat - 1
        /\ Released(t)
        /\ UNCHANGED holder
     \/ /\ repeat <= 1
        /\ sched' = ASSERT(sched, holder = t /\ repeat = 1)
        /\ holder' = NOBODY
        /\ Goto(t, "clear")
        /\ UNCHANGED repeat
  /\ UNCHANGED calls

ReleaseClear(t) ==
  /\ At(t, "clear")
  /\ repeat' = 0
  /\ Goto(t, "up")
  /\ UNCHANGED <<sched, holder, calls>>

ReleaseUp(t) ==
  /\ At(t, "up")
  /\ sched' = sema_up(sched, mutex)
  /\ Released(t)
  /\ UNCHANGED <<holder, repeat, calls>>

-----------------------------------------------------------------------------
(* What the threads do around the mutex. *)

(* A thread enters code that acquires the mutex. *)
Request(t) ==
  /\ At(t, "run")
  /\ calls' = [calls EXCEPT ![t] = 1]
  /\ Goto(t, "acquire")
  /\ UNCHANGED <<sched, holder, repeat>>

(* Inside: another, nested acquire, or the release of the latest one. *)
Inside(t) ==
  /\ At(t, "inside")
  /\ \/ /\ calls[t] < MaxRepeat
        /\ Goto(t, "nested")
        /\ calls' = [calls EXCEPT ![t] = @ + 1]
     \/ /\ Goto(t, "release")
        /\ calls' = [calls EXCEPT ![t] = @ - 1]
  /\ UNCHANGED <<sched, holder, repeat>>

Yield(t) ==
  /\ At(t, "run")
  /\ sched' = thread_yield(sched)
  /\ UNCHANGED <<holder, repeat, pc, calls>>

(* The thread suspends itself until an event (in sys_wait: a child's exit).*)
Pause(t) ==
  /\ At(t, "run")
  /\ sched' = thread_block(sched, "WAITING")
  /\ Goto(t, "paused")
  /\ UNCHANGED <<holder, repeat, calls>>

Resume(t) ==
  /\ At(t, "paused")
  /\ Goto(t, "run")
  /\ UNCHANGED <<sched, holder, repeat, calls>>

(* thread_start is called by the boot thread only, with interrupts on: the *)
(* new thread is READY some time before it is in the run queue.            *)
StartInit ==
  /\ At(main_thread, "run")
  /\ \E c \in Threads :
       /\ pc[c] = "new"
       /\ sched' = init_thread(sched, c)
       /\ pc' = [pc EXCEPT ![c] = "fresh", ![main_thread] = "start"]
  /\ UNCHANGED <<holder, repeat, calls>>

StartEnqueue ==
  /\ At(main_thread, "start")
  /\ \E c \in Threads :
       /\ pc[c] = "fresh"
       /\ sched' = Enqueue(sched, c)
       /\ pc' = [pc EXCEPT ![c] = "run", ![main_thread] = "run"]
  /\ UNCHANGED <<holder, repeat, calls>>

Exit(t) ==
  /\ At(t, "run")
  /\ sched' = thread_exit(sched, t, TRUE)
  /\ Goto(t, "gone")
  /\ UNCHANGED <<holder, repeat, calls>>

(* idle blocks itself; when schedule has nobody else it is switched in     *)
(* again and halts until an interrupt takes it back to the top of its loop.*)
IdleBlock ==
  /\ At(idle_thread, "idle")
  /\ sched' = thread_block(sched, "BLOCKED")
  /\ Goto(idle_thread, "halt")
  /\ UNCHANGED <<holder, repeat, calls>>

Step(t) ==
  \/ AcquireTest(t) \/ AcquireDown(t) \/ AcquireHolder(t) \/ AcquireRepeat(t)
  \/ ReleaseTest(t) \/ ReleaseClear(t) \/ ReleaseUp(t)
  \/ Request(t) \/ Inside(t) \/ Yield(t) \/ Pause(t) \/ Resume(t)
  \/ Exit(t) \/ (t = main_thread /\ (StartInit \/ StartEnqueue))

-----------------------------------------------------------------------------
(* Interrupts, taken by whichever thread runs with interrupts on; any of   *)
(* them ends a hlt.                                                        *)
LeaveHalt ==
  pc' = [pc EXCEPT ![sched.cur] = IF @ = "halt" THEN "idle" ELSE @]

Timer ==
  /\ InterruptsOn
  /\ sched' = intr_timer_handler(sched)
  /\ LeaveHalt
  /\ UNCHANGED <<holder, repeat, calls>>

(* The event a paused thread waits for. *)
Event ==
  /\ InterruptsOn
  /\ \E t \in Threads :
       /\ pc[t] = "paused" /\ sched.status[t] = "WAITING"
       /\ sched' = thread_unblock(sched, t)
  /\ LeaveHalt
  /\ UNCHANGED <<holder, repeat, calls>>

Next ==
  \/ \E t \in Workers : Step(t)
  \/ IdleBlock
  \/ Timer
  \/ Event

Spec == Init /\ [][Next]_vars

\* The outermost section of a thread ends.
Leave(t) == Inside(t) /\ calls'[t] = 0

(* A thread that is given the CPU again and again executes, and does not   *)
(* nest sections for ever; the interrupt controller keeps a clock          *)
(* interrupt pending while interrupts are off.                             *)
Fairness ==
  /\ \A t \in Workers : SF_vars(Step(t))
  /\ SF_vars(\E t \in Workers : Leave(t))
  /\ WF_vars(IdleBlock)
  /\ SF_vars(Timer)

FairSpec == Spec /\ Fairness

-----------------------------------------------------------------------------
TypeOK ==
  /\ sched \in KernelState
  /\ \A t \in Threads : sched.this_tick[t] <= time_slice[t]
  /\ holder \in Threads \cup {NOBODY}
  /\ repeat \in Nat
  /\ pc \in [Threads -> PC]
  /\ calls \in [Threads -> Nat]

\* Between the return of sema_down and the end of sema_up.
Owner(t) == pc[t] \in {"holder", "repeat", "inside", "nested", "release",
                       "clear", "up"}

\* Between the return of mutex_acquire and the call of mutex_release that
\* gives the mutex up.
InSection(t) == pc[t] \in {"inside", "nested", "release"}

\* Linked into the waiters of the mutex.
Waits(t) == elem_find(sched.sema[mutex].waiters, t)

(* No ASSERT of thread.c, sync.c or list use ever fails: no thread is      *)
(* queued twice through its one general_tag, no thread that is not         *)
(* suspended is unblocked, the semaphore never leaves {0, 1}, a mutex is   *)
(* released only by its holder and found with repeat 0 by a new one.       *)
NoPanic == ~sched.panic

(* The thread table and the run queue agree after every step               *)
(* (RunQueueConsistent of module Thread), and general_tag is never shared: *)
(* a thread linked into waiters is BLOCKED in sema_down.                   *)
QueuesConsistent ==
  /\ RunQueueConsistent(sched, {t \in Threads : pc[t] = "fresh"})
  /\ NoDuplicates(sched.sema[mutex].waiters)
  /\ \A t \in Threads :
       Waits(t) <=> pc[t] = "asleep" /\ sched.status[t] = "BLOCKED"

(* At most one thread is between mutex_acquire and mutex_release, and the  *)
(* unlocked comparison of holder in mutex_acquire cannot mislead: holder   *)
(* names a thread only while that thread has the semaphore.                *)
MutualExclusion ==
  /\ \A t, u \in Threads : Owner(t) /\ Owner(u) => t = u
  /\ \A t \in Threads : holder = t => Owner(t)

(* sema_up cannot lose a wakeup: while the mutex is free and threads are   *)
(* queued on it, one woken thread is on its way to take it.                *)
NoLostWakeup ==
  Available(sched, mutex) /\ sched.sema[mutex].waiters # <<>> =>
    \E t \in Threads : pc[t] = "asleep" /\ ~Waits(t)

(* A thread in the run queue gets the CPU, although thread_unblock lets    *)
(* woken threads overtake it.                                              *)
ReadyRuns ==
  \A t \in Threads : sched.status[t] = "READY" ~> sched.cur = t

(* A thread queued on the mutex is woken by some release.                  *)
WaiterWoken ==
  \A t \in Threads : Waits(t) ~> ~Waits(t)

(* sync.c implements a re-entrant mutex. *)
M == INSTANCE Mutex WITH
       inside <- {t \in Threads : InSection(t)},
       depth  <- IF \E t \in Threads : InSection(t) THEN repeat ELSE 0

ImplementsMutex == M!Spec
=============================================================================
