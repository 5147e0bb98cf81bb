------------------------------- MODULE Thread -------------------------------
(***************************************************************************)
(* The thread table and run queue of the kernel (thread/thread.c) and the  *)
(* clock interrupt that drives them (device/timer.c).                      *)
(*                                                                         *)
(* JackOS runs on one CPU.  What the operators below model runs with       *)
(* interrupts off from its first to its last statement, so each takes the  *)
(* scheduler's state to the scheduler's state; modules that extend this    *)
(* one compose the calls of an interrupts-off region and take them as one  *)
(* step.  The state is a record:                                           *)
(*   cur        the thread on the CPU (running_thread)                     *)
(*   status     task_struct.status                                         *)
(*   ready      thread_ready_list, linked through general_tag              *)
(*   this_tick  task_struct.this_tick, what is left of the time slice      *)
(*   panic      an ASSERT failed: panic_spin turns interrupts off and      *)
(*              loops, so nothing runs any more                            *)
(***************************************************************************)
EXTENDS Naturals, Sequences

CONSTANTS
  Threads,      \* every task_struct
  idle_thread,  \* the thread schedule wakes when nobody is ready
  time_slice    \* task_struct.time_slice: 31 for threads, 10 for idle

ASSUME ThreadAssumption ==
  /\ idle_thread \in Threads
  /\ time_slice \in [Threads -> Nat]

\* task_status_t.  DIED is also the status of a task_struct not created yet.
Status == {"RUNNING", "READY", "BLOCKED", "WAITING", "HANGING", "DIED"}

\* The three states thread_block accepts and thread_unblock expects.
Suspended == {"BLOCKED", "WAITING", "HANGING"}

-----------------------------------------------------------------------------
(* debug.h: a failed ASSERT ends in panic_spin. *)
ASSERT(s, condition) == [s EXCEPT !.panic = @ \/ ~condition]

(* list.c, seen as a sequence: is the element linked into the list? *)
elem_find(list, elem) == \E i \in 1..Len(list) : list[i] = elem

(* list.c: unlink the element, wherever in the list it is. *)
list_remove(list, elem) ==
  LET at == CHOOSE i \in 1..Len(list) : list[i] = elem
  IN  [i \in 1..Len(list) - 1 |-> IF i < at THEN list[i] ELSE list[i + 1]]

(* Put a suspended thread at the FRONT of the run queue; it does not run yet. *)
thread_unblock(s, t) ==
  LET checked == ASSERT(s, /\ s.status[t] \in Suspended
                           /\ ~elem_find(s.ready, t))
  IN  [checked EXCEPT !.ready = <<t>> \o @, !.status[t] = "READY"]

-----------------------------------------------------------------------------
(* schedule: a thread that is still RUNNING goes to the back of the run    *)
(* queue with a full slice; if the run queue is empty the idle thread is   *)
(* unblocked; the front of the queue gets the CPU.                         *)

(* Fault: a preempted thread is pushed, not appended (list_push). *)
Requeue_Push(s) ==
  [s EXCEPT !.ready = <<s.cur>> \o @, !.this_tick[s.cur] = time_slice[s.cur],
            !.status[s.cur] = "READY"]

Requeue(s) ==
  LET checked == ASSERT(s, ~elem_find(s.ready, s.cur))
  IN  [checked EXCEPT !.ready = Append(@, s.cur),
                      !.this_tick[s.cur] = time_slice[s.cur],
                      !.status[s.cur] = "READY"]

WakeIdle(s) == IF s.ready = <<>> THEN thread_unblock(s, idle_thread) ELSE s

(* Fault: the front of the queue is read but stays linked (no list_pop). *)
Dispatch_NoPop(s) ==
  [s EXCEPT !.cur = Head(s.ready), !.status[Head(s.ready)] = "RUNNING"]

Dispatch(s) ==
  LET next == Head(s.ready)
  IN  [s EXCEPT !.cur = next, !.ready = Tail(@), !.status[next] = "RUNNING"]

schedule(s) ==
  Dispatch(WakeIdle(IF s.status[s.cur] = "RUNNING" THEN Requeue(s) ELSE s))

-----------------------------------------------------------------------------
(* The running thread suspends itself. *)
thread_block(s, status) ==
  schedule([s EXCEPT !.status[s.cur] = status])

(* The running thread gives up the CPU and keeps its remaining ticks. *)
thread_yield(s) ==
  LET checked == ASSERT(s, ~elem_find(s.ready, s.cur))
  IN  schedule([checked EXCEPT !.ready = Append(@, s.cur),
                               !.status[s.cur] = "READY"])

(* A thread dies.  Whoever waits for the CPU gets it if the dying thread is *)
(* the running one (need_schedule).  Freeing its pages and its pid is      *)
(* modelled where pids are (module WaitExit).                              *)
thread_exit(s, t, need_schedule) ==
  LET dead == [s EXCEPT !.status[t] = "DIED",
                        !.ready = IF elem_find(@, t) THEN list_remove(@, t)
                                                     ELSE @]
  IN  IF need_schedule THEN schedule(dead) ELSE dead

(* A new task_struct says READY before it is in the run queue. *)
init_thread(s, t) ==
  [s EXCEPT !.status[t] = "READY", !.this_tick[t] = time_slice[t]]

(* The end of thread_start, process_execute and sys_fork: a new thread     *)
(* joins the back of the run queue.                                        *)
Enqueue(s, t) ==
  LET checked == ASSERT(s, ~elem_find(s.ready, t))
  IN  [checked EXCEPT !.ready = Append(@, t)]

(* The clock interrupt: the slice runs down, then the thread is preempted. *)
intr_timer_handler(s) ==
  IF s.this_tick[s.cur] = 0
  THEN schedule(s)
  ELSE [s EXCEPT !.this_tick[s.cur] = @ - 1]

-----------------------------------------------------------------------------
(* The run queue agrees with the thread table: exactly the READY threads   *)
(* are linked into it (but for the fresh ones, initialised and not yet     *)
(* enqueued), each once (a second link through the same general_tag would  *)
(* corrupt the list), exactly the running thread is RUNNING, and the idle  *)
(* thread is never suspended in a state from which schedule could not take *)
(* it.                                                                     *)
NoDuplicates(list) ==
  \A i, j \in 1..Len(list) : list[i] = list[j] => i = j

RunQueueConsistent(s, fresh) ==
  /\ \A t \in Threads : s.status[t] = "READY" <=> elem_find(s.ready, t) \/ t \in fresh
  /\ \A t \in fresh : ~elem_find(s.ready, t)
  /\ NoDuplicates(s.ready)
  /\ \A t \in Threads : s.status[t] = "RUNNING" <=> t = s.cur
  /\ s.status[idle_thread] \in {"RUNNING", "READY", "BLOCKED"}
=============================================================================
