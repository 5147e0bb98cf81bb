------------------------------- MODULE KMutex -------------------------------
(***************************************************************************)
(* mutex_acquire and mutex_release (thread/sync.c) as system calls use     *)
(* them.  The system call gate turns interrupts off, so between two        *)
(* statements nothing else runs and a call is one step, unless it sleeps   *)
(* in sema_down.  (Module Sync models the same code called with interrupts *)
(* on, statement by statement.)                                            *)
(*                                                                         *)
(* The kernel state of module Sema gets one more field:                    *)
(*   mutex   for every mutex its holder and holder_repeat_nr; the          *)
(*           semaphore inside a mutex has the mutex's name                 *)
(***************************************************************************)
EXTENDS Sema

CONSTANTS
  Mutexes,  \* every mutex_t
  NULL      \* no thread

ASSUME KMutexAssumption == Mutexes \subseteq Semas /\ NULL \notin Threads

MutexState == [Mutexes -> [holder : Threads \cup {NULL}, repeat : Nat]]

mutex_init == [holder |-> NULL, repeat |-> 0]

(* Whether mutex_acquire, called or resumed by the running thread, returns *)
(* without sleeping (again).                                               *)
Acquires(s, m) == s.mutex[m].holder = s.cur \/ Available(s, m)

mutex_acquire(s, m) ==
  IF s.mutex[m].holder = s.cur
  THEN [s EXCEPT !.mutex[m].repeat = @ + 1]
  ELSE IF Available(s, m)
  THEN LET taken == ASSERT(sema_down(s, m), s.mutex[m].repeat = 0)
       IN  [taken EXCEPT !.mutex[m] = [holder |-> s.cur, repeat |-> 1]]
  ELSE sema_down(s, m)

mutex_release(s, m) ==
  LET checked == ASSERT(s, s.mutex[m].holder = s.cur)
  IN  IF s.mutex[m].repeat > 1
      THEN [checked EXCEPT !.mutex[m].repeat = @ - 1]
      ELSE sema_up([ASSERT(checked, s.mutex[m].repeat = 1)
                      EXCEPT !.mutex[m] = mutex_init], m)
=============================================================================
