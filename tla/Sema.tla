-------------------------------- MODULE Sema --------------------------------
(***************************************************************************)
(* Counting semaphores of thread/sync.c, which the kernel only uses with   *)
(* the values 0 and 1.  Both operations run with interrupts off, so they   *)
(* are operators on the kernel state: module Thread's record with a field  *)
(*   sema   for every semaphore its value and its waiters, which are       *)
(*          linked through the same general_tag as thread_ready_list       *)
(***************************************************************************)
EXTENDS Thread

CONSTANT Semas  \* every semaphore_t

KernelState ==
  [cur       : Threads,
   status    : [Threads -> Status],
   ready     : Seq(Threads),
   this_tick : [Threads -> Nat],
   panic     : BOOLEAN,
   sema      : [Semas -> [value : {0, 1}, waiters : Seq(Threads)]]]

sema_init(value) == [value |-> value, waiters |-> <<>>]

(* The loop condition of sema_down. *)
Available(s, x) == s.sema[x].value # 0

(* One pass of the loop of sema_down by the running thread: with nothing   *)
(* left it queues itself and suspends (to make another pass when it is     *)
(* switched in again), else it takes the resource and returns.             *)
sema_down(s, x) ==
  IF Available(s, x)
  THEN LET checked == ASSERT(s, s.sema[x].value - 1 = 0)
       IN  [checked EXCEPT !.sema[x].value = @ - 1]
  ELSE LET checked == ASSERT(s, ~elem_find(s.sema[x].waiters, s.cur))
       IN  thread_block([checked EXCEPT !.sema[x].waiters = Append(@, s.cur)],
                        "BLOCKED")

(* Fault: the value goes up and nobody is woken. *)
sema_up_NoWake(s, x) == [s EXCEPT !.sema[x].value = @ + 1]

(* Fault: the woken thread stays linked into the waiters (no list_pop). *)
sema_up_NoPop(s, x) ==
  LET woken == IF s.sema[x].waiters = <<>> THEN s
               ELSE thread_unblock(s, Head(s.sema[x].waiters))
  IN  [woken EXCEPT !.sema[x].value = @ + 1]

(* The first waiter moves to the front of the run queue, then the value    *)
(* goes up; the caller keeps the CPU.                                      *)
sema_up(s, x) ==
  LET checked == ASSERT(s, s.sema[x].value = 0)
      woken   == IF s.sema[x].waiters = <<>> THEN checked
                 ELSE [thread_unblock(checked, Head(s.sema[x].waiters))
                         EXCEPT !.sema[x].waiters = Tail(@)]
  IN  [woken EXCEPT !.sema[x].value = @ + 1]
=============================================================================
