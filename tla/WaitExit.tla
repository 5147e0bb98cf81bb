------------------------------ MODULE WaitExit ------------------------------
(***************************************************************************)
(* fork, exit and wait (userprog/fork.c, userprog/wait_exit.c) with the    *)
(* pid pool and thread_all_list of thread/thread.c, on the scheduler of    *)
(* module Thread.                                                          *)
(*                                                                         *)
(* The system call gate turns interrupts off, so each call is one step,    *)
(* except that sys_wait suspends its caller and looks again when it is     *)
(* switched in.  Control points (pc):                                      *)
(*   "user"    user mode                                                   *)
(*   "boot"    init, before its fork; "reap" in its loop around wait       *)
(*   "wait"    suspended in sys_wait, or just woken (interrupts off)       *)
(*   "zombie"  suspended in sys_exit                                       *)
(*   "main"    the boot thread; "gone" after its thread_exit               *)
(*   "idle", "halt"  the idle thread                                       *)
(*   "free"    a page nobody has; "lost" one that a failed fork leaked     *)
(***************************************************************************)
EXTENDS Thread, Integers, FiniteSets

CONSTANTS
  init,         \* the first user process
  main_thread,  \* the boot thread
  MaxPid,       \* pids are 1..MaxPid: 1024
  Statuses,     \* what programs pass to exit
  MaxLost       \* bound: forks that fail half-way

ASSUME WaitExitAssumption ==
  /\ init \in Threads /\ main_thread \in Threads
  /\ init # main_thread /\ init # idle_thread /\ main_thread # idle_thread
  /\ MaxPid \in Nat /\ MaxPid >= 3
  /\ Statuses \subseteq Int
  /\ MaxLost \in Nat

VARIABLES
  sched,        \* thread table and run queue (module Thread)
  all_list,     \* thread_all_list, linked through all_list_tag
  pids,         \* the pids whose bit is set in the pid bitmap
  pid,          \* task_struct.pid
  parent_pid,   \* task_struct.parent_pid; -1 for none
  exit_status,  \* task_struct.exit_status
  pc

vars == <<sched, all_list, pids, pid, parent_pid, exit_status, pc>>

-----------------------------------------------------------------------------
At(t, label) == sched.cur = t /\ ~sched.panic /\ pc[t] = label

Goto(t, label) == pc' = [pc EXCEPT ![t] = label]

InterruptsOn == ~sched.panic /\ pc[sched.cur] # "wait"

(* bitmap_scan for one bit: the lowest free pid.  A full bitmap fails the  *)
(* ASSERT in it (see sys_fork), and then it does not matter which.         *)
FreePids == 1..MaxPid \ pids

allocate_pid ==
  CHOOSE n \in 1..MaxPid :
    FreePids # {} => n \in FreePids /\ \A m \in FreePids : n <= m

(* list_traversal(&thread_all_list, f, arg): the first task that fits. *)
list_traversal(Fits(_)) ==
  LET at == {i \in 1..Len(all_list) : Fits(all_list[i])}
  IN  {all_list[i] : i \in {k \in at : \A l \in at : k <= l}}

pid2thread(p) == list_traversal(LAMBDA t : pid[t] = p)

find_child(p) == list_traversal(LAMBDA t : parent_pid[t] = p)

find_hanging_child(p) ==
  list_traversal(LAMBDA t : parent_pid[t] = p /\ sched.status[t] = "HANGING")

(* Fault: exit_status is as wide as the status. *)
ToInt8_Wide(n) == n

(* exit_status is an int8_t. *)
ToInt8(n) == ((n + 128) % 256) - 128

-----------------------------------------------------------------------------
(* thread_init: init, main and idle get the pids 1, 2 and 3. *)
Init ==
  LET booted == <<init, main_thread, idle_thread>>
  IN  /\ sched = [cur       |-> main_thread,
                  status    |-> [t \in Threads |->
                                   IF t = main_thread THEN "RUNNING"
                                   ELSE IF t \in {init, idle_thread} THEN "READY"
                                   ELSE "DIED"],
                  ready     |-> <<init, idle_thread>>,
                  this_tick |-> time_slice,
                  panic     |-> FALSE]
      /\ all_list = booted
      /\ pids = 1..3
      /\ pid = [t \in Threads |-> IF elem_find(booted, t)
                                  THEN CHOOSE i \in 1..3 : booted[i] = t
                                  ELSE 0]
      /\ parent_pid = [t \in Threads |-> -1]
      /\ exit_status = [t \in Threads |-> 0]
      /\ pc = [t \in Threads |-> CASE t = init -> "boot"
                                   [] t = main_thread -> "main"
                                   [] t = idle_thread -> "idle"
                                   [] OTHER -> "free"]

-----------------------------------------------------------------------------
(* Where t is after a system call: init forks once, then only waits. *)
Home(t) == IF t = init THEN "reap" ELSE "user"

(* The child copies the parent's task_struct, gets a pid of its own and    *)
(* joins the back of both lists.                                           *)
sys_fork(t) ==
  /\ At(t, "user") \/ At(t, "boot")
  /\ \E c \in Threads :
       /\ pc[c] = "free"
       /\ sched' = Enqueue(init_thread(ASSERT(sched, /\ FreePids # {}
                                                 /\ ~elem_find(all_list, c)), c), c)
       /\ pids' = pids \cup {allocate_pid}
       /\ pid' = [pid EXCEPT ![c] = allocate_pid]
       /\ parent_pid' = [parent_pid EXCEPT ![c] = pid[t]]
       /\ exit_status' = [exit_status EXCEPT ![c] = exit_status[t]]
       /\ all_list' = Append(all_list, c)
       /\ pc' = [pc EXCEPT ![c] = "user", ![t] = Home(t)]

(* There are no consecutive kernel pages for the child's address bitmap:   *)
(* fork returns -1, the page of the task_struct and the pid stay taken.    *)
sys_fork_fails(t) ==
  /\ At(t, "user") \/ At(t, "boot")
  /\ Cardinality({c \in Threads : pc[c] = "lost"}) < MaxLost
  /\ \E c \in Threads :
       /\ pc[c] = "free"
       /\ pc' = [pc EXCEPT ![c] = "lost", ![t] = Home(t)]
  /\ sched' = ASSERT(sched, FreePids # {})
  /\ pids' = pids \cup {allocate_pid}
  /\ UNCHANGED <<all_list, pid, parent_pid, exit_status>>

-----------------------------------------------------------------------------
(* Fault: the traversal stops at the first child. *)
Adopted_First(t) ==
  [c \in Threads |-> IF {c} = find_child(pid[t]) THEN 1 ELSE parent_pid[c]]

(* init_adopt_a_child, for every child of t. *)
Adopted(t) ==
  [c \in Threads |-> IF elem_find(all_list, c) /\ parent_pid[c] = pid[t]
                     THEN 1 ELSE parent_pid[c]]

(* Fault: nobody is woken. *)
WakeParent_None(s, t) == ASSERT(s, pid2thread(parent_pid[t]) # {})

(* The parent is woken if it waits. *)
WakeParent(s, t) ==
  LET parent == pid2thread(parent_pid[t])
      found  == ASSERT(s, parent # {})
  IN  IF \E p \in parent : s.status[p] = "WAITING"
      THEN thread_unblock(found, CHOOSE p \in parent : TRUE)
      ELSE found

sys_exit(t, status) ==
  /\ At(t, "user")
  /\ exit_status' = [exit_status EXCEPT ![t] = ToInt8(status)]
  /\ parent_pid' = Adopted(t)
  /\ sched' = thread_block(WakeParent(ASSERT(sched, parent_pid[t] # -1), t), "HANGING")
  /\ Goto(t, "zombie")
  /\ UNCHANGED <<all_list, pids, pid>>

-----------------------------------------------------------------------------
(* sys_wait *)

(* Fault: the pid is not given back. *)
Reap_KeepPid(t, c) ==
  /\ sched' = thread_exit(sched, c, FALSE)
  /\ all_list' = list_remove(all_list, c)
  /\ pc' = [pc EXCEPT ![c] = "free", ![t] = Home(t)]
  /\ UNCHANGED pids

(* Fault: the pid of the running thread is given back, not the child's. *)
Reap_OwnPid(t, c) ==
  /\ sched' = thread_exit(sched, c, FALSE)
  /\ all_list' = list_remove(all_list, c)
  /\ pids' = pids \ {pid[sched.cur]}
  /\ pc' = [pc EXCEPT ![c] = "free", ![t] = Home(t)]

(* thread_exit(child, false): the child leaves both lists; its page and    *)
(* its pid are free again.                                                 *)
Reap(t, c) ==
  /\ sched' = thread_exit(sched, c, FALSE)
  /\ all_list' = list_remove(all_list, c)
  /\ pids' = pids \ {pid[c]}
  /\ pc' = [pc EXCEPT ![c] = "free", ![t] = Home(t)]

sys_wait(t) ==
  /\ At(t, Home(t)) \/ At(t, "wait")
  /\ \/ \E c \in find_hanging_child(pid[t]) : Reap(t, c)
     \/ /\ find_hanging_child(pid[t]) = {}
        /\ find_child(pid[t]) = {}
        /\ Goto(t, Home(t))
        /\ UNCHANGED <<sched, all_list, pids>>
     \/ /\ find_hanging_child(pid[t]) = {}
        /\ find_child(pid[t]) # {}
        /\ sched' = thread_block(sched, "WAITING")
        /\ Goto(t, "wait")
        /\ UNCHANGED <<all_list, pids>>
  /\ UNCHANGED <<pid, parent_pid, exit_status>>

-----------------------------------------------------------------------------
(* main ends the boot thread; its task_struct is never given back. *)
MainExit ==
  /\ At(main_thread, "main")
  /\ sched' = thread_exit(sched, main_thread, TRUE)
  /\ all_list' = list_remove(all_list, main_thread)
  /\ pids' = pids \ {pid[main_thread]}
  /\ Goto(main_thread, "gone")
  /\ UNCHANGED <<pid, parent_pid, exit_status>>

IdleBlock ==
  /\ At(idle_thread, "idle")
  /\ sched' = thread_block(sched, "BLOCKED")
  /\ Goto(idle_thread, "halt")
  /\ UNCHANGED <<all_list, pids, pid, parent_pid, exit_status>>

Timer ==
  /\ InterruptsOn
  /\ sched' = intr_timer_handler(sched)
  /\ pc' = [pc EXCEPT ![sched.cur] = IF @ = "halt" THEN "idle" ELSE @]
  /\ UNCHANGED <<all_list, pids, pid, parent_pid, exit_status>>

Next ==
  \/ \E t \in Threads :
       \/ sys_fork(t) \/ sys_fork_fails(t) \/ sys_wait(t)
       \/ \E status \in Statuses : sys_exit(t, status)
  \/ MainExit \/ IdleBlock \/ Timer

Spec == Init /\ [][Next]_vars

(* Programs decide for themselves whether they ever make a system call;    *)
(* init does, again and again, a call that slept goes on, and the clock    *)
(* interrupt stays pending while interrupts are off.                       *)
FairSpec ==
  /\ Spec
  /\ \A t \in Threads : SF_vars(At(t, "wait") /\ sys_wait(t))
  /\ SF_vars(sys_fork(init)) /\ SF_vars(sys_wait(init))
  /\ SF_vars(MainExit) /\ WF_vars(IdleBlock) /\ SF_vars(Timer)

-----------------------------------------------------------------------------
TypeOK ==
  /\ sched.cur \in Threads
  /\ sched.status \in [Threads -> Status]
  /\ sched.panic \in BOOLEAN
  /\ all_list \in Seq(Threads)
  /\ pids \subseteq 1..MaxPid
  /\ pid \in [Threads -> 0..MaxPid]
  /\ parent_pid \in [Threads -> -1..MaxPid]
  /\ exit_status \in [Threads -> -128..127]
  /\ pc \in [Threads -> {"user", "boot", "reap", "wait", "zombie", "main", "gone",
                         "idle", "halt", "free", "lost"}]

Live == {t \in Threads : elem_find(all_list, t)}

(* No ASSERT or PANIC is reached: the pid pool never runs dry while there  *)
(* are pages for task_structs, no process without a parent exits, and the  *)
(* pid in parent_pid always finds a task.                                  *)
NoPanic == ~sched.panic

(* Both lists agree with the thread table, every live task has a pid that  *)
(* is marked in the bitmap, and no two have the same.                      *)
TablesConsistent ==
  /\ RunQueueConsistent(sched, {})
  /\ NoDuplicates(all_list)
  /\ \A t \in Threads : t \in Live <=> sched.status[t] # "DIED"
  /\ \A t, u \in Live : pid[t] \in pids /\ (pid[t] = pid[u] => t = u)

(* A process other than init is never asleep in sys_wait while one of its  *)
(* children hangs: the exit that made it hang woke the parent.             *)
NoLostWakeup ==
  \A t \in Live \ {init} :
    sched.status[t] = "WAITING" => find_hanging_child(pid[t]) = {}

(* The process tree and the statuses of the processes that hang. *)
Parents ==
  [t \in Live |-> IF parent_pid[t] = -1 THEN "none"
                 ELSE CHOOSE p \in pid2thread(parent_pid[t]) : TRUE]

Zombies == [t \in {u \in Live : sched.status[u] = "HANGING"} |-> exit_status[t]]

(* Pids of exited processes are used again, and yet parent_pid always      *)
(* means the process that forked, or init: fork, exit and wait implement   *)
(* the process tree of module Family.                                      *)
F == INSTANCE Family WITH
       Processes <- Threads,
       roots     <- {init, main_thread, idle_thread},
       orphan    <- "none",
       Statuses  <- {ToInt8(n) : n \in Statuses},
       parent    <- Parents,
       zombies   <- Zombies

ImplementsFamily == F!Spec

(* init releases zombies (the comment of init in kernel/main.c): while a   *)
(* child of init hangs, init does not sleep in sys_wait for ever.          *)
InitReleasesZombies ==
  find_hanging_child(1) # {} ~> sched.status[init] # "WAITING"
=============================================================================
