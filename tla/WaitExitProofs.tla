--------------------------- MODULE WaitExitProofs ---------------------------
(***************************************************************************)
(* fork, exit and wait are correct for every number of tasks and every     *)
(* size of the pid pool: the invariants that the run of module WaitExit    *)
(* checks on six tasks are theorems here, and so is the refinement of      *)
(* module Family.                                                          *)
(*                                                                         *)
(* The only ASSERT that can fail is the one of bitmap_scan on a full pid   *)
(* bitmap, so IInv says of a panic that no pid is free, and of every other *)
(* state that the tables agree (TablesConsistent), what the control point  *)
(* of a task says about its status (Control), and that the parent of every *)
(* process but the first three is a task that has not exited (Parentage).  *)
(* Without the last part the wake-up in sys_exit could look for a parent   *)
(* that is gone.  Under PidsSuffice, Counting then excludes the panic.     *)
(***************************************************************************)
EXTENDS WaitExit, ThreadProofs, FiniteSetTheorems

(* The tasks thread_init makes. *)
Roots == {init, main_thread, idle_thread}

(* What the control point of a task says about its status. *)
Control ==
  /\ pc[init] \in {"boot", "reap", "wait"}
  /\ pc[main_thread] \in {"main", "gone"}
  /\ pc[idle_thread] \in {"idle", "halt"}
  /\ \A t \in Threads \ Roots : pc[t] \in {"user", "wait", "zombie", "free", "lost"}
  /\ \A t \in Threads \ {idle_thread} :
       /\ pc[t] \in {"user", "boot", "reap", "main"} => Runnable(sched.status[t])
       /\ pc[t] = "wait" => Runnable(sched.status[t]) \/ sched.status[t] = "WAITING"
       /\ pc[t] = "zombie" => sched.status[t] = "HANGING"
       /\ pc[t] \in {"gone", "free", "lost"} => sched.status[t] = "DIED"

(* parent_pid of every process but the first three is the pid of a task    *)
(* that is there, has not exited, and is neither main nor idle.            *)
Parentage ==
  /\ pid[init] = 1
  /\ \A t \in Roots : parent_pid[t] = -1
  /\ \A t \in Live \ Roots : \E p \in Live \ {main_thread, idle_thread} :
       pid[p] = parent_pid[t] /\ pc[p] # "zombie"

(* What holds of every state but a panic. *)
Sound == TablesConsistent /\ Control /\ Parentage /\ NoLostWakeup

(* The inductive invariant. *)
IInv ==
  /\ TypeOK /\ ThreadState(sched) /\ DOMAIN sched = Fields /\ Ticks(sched)
  /\ sched.panic => FreePids = {}
  /\ ~sched.panic => Sound

(* The task_structs that hold a pid, a leaked one included. *)
Holders == {t \in Threads : pc[t] \notin {"free", "gone"}}

(* No more pids are marked than tasks hold one: together with a free page  *)
(* for a task_struct this leaves a free pid.                               *)
Counting == Cardinality(pids) <= Cardinality(Holders)

(* There are at most as many task_structs as pids. *)
PidsSuffice == IsFiniteSet(Threads) /\ Cardinality(Threads) <= MaxPid

-----------------------------------------------------------------------------
(* Lists of tasks *)

(* A set of list positions that is not empty has a first one, so the       *)
(* traversals of thread_all_list and the search for a free pid find what   *)
(* there is to find.                                                       *)
LEMMA FirstIndex ==
  ASSUME NEW at \in SUBSET Nat, at # {}
  PROVE  \E k \in at : \A l \in at : k <= l
<1>1. IsWellFoundedOn(OpToRel(<, Nat), Nat)
  BY NatLessThanWellFounded
<1>2. PICK k \in at : \A l \in at : ~(<<l, k>> \in OpToRel(<, Nat))
  BY <1>1, WFMin
<1>3. ASSUME NEW l \in at PROVE k <= l
  <2>1. <<l, k>> \in Nat \X Nat
    BY <1>2
  <2>2. ~(l < k)
    BY <1>2, <2>1 DEF OpToRel
  <2> QED BY <2>2
<1> QED BY <1>2, <1>3

(* pid2thread finds a task in thread_all_list with that pid, if there is   *)
(* one.                                                                    *)
LEMMA Pid2threadFacts ==
  ASSUME all_list \in Seq(Threads), NEW p
  PROVE  /\ \A t \in pid2thread(p) : t \in Live /\ pid[t] = p
         /\ (\E t \in Live : pid[t] = p) => pid2thread(p) # {}
<1> DEFINE at == {i \in 1..Len(all_list) : pid[all_list[i]] = p}
<1>1. pid2thread(p) = {all_list[i] : i \in {k \in at : \A l \in at : k <= l}}
  BY DEF pid2thread, list_traversal
<1>2. at # {} => \E k \in at : \A l \in at : k <= l
  <2>1. at \in SUBSET Nat
    OBVIOUS
  <2> HIDE DEF at
  <2> QED BY <2>1, FirstIndex
<1>3. \A i \in at : all_list[i] \in Live /\ pid[all_list[i]] = p
  BY DEF Live, elem_find
<1>4. (\E t \in Live : pid[t] = p) => at # {}
  BY DEF Live, elem_find
<1> HIDE DEF at
<1> QED BY <1>1, <1>2, <1>3, <1>4

(* find_child finds a child, if there is one.                              *)
LEMMA FindChildFacts ==
  ASSUME all_list \in Seq(Threads), NEW p
  PROVE  (\E t \in Live : parent_pid[t] = p) => find_child(p) # {}
<1> DEFINE at == {i \in 1..Len(all_list) : parent_pid[all_list[i]] = p}
<1>1. find_child(p) = {all_list[i] : i \in {k \in at : \A l \in at : k <= l}}
  BY DEF find_child, list_traversal
<1>2. at # {} => \E k \in at : \A l \in at : k <= l
  <2>1. at \in SUBSET Nat
    OBVIOUS
  <2> HIDE DEF at
  <2> QED BY <2>1, FirstIndex
<1>4. (\E t \in Live : parent_pid[t] = p) => at # {}
  BY DEF Live, elem_find
<1> HIDE DEF at
<1> QED BY <1>1, <1>2, <1>4

(* find_hanging_child finds a child that hangs, if there is one.           *)
LEMMA FindHangingFacts ==
  ASSUME all_list \in Seq(Threads), NEW p
  PROVE  /\ \A t \in find_hanging_child(p) :
              t \in Live /\ parent_pid[t] = p /\ sched.status[t] = "HANGING"
         /\ (\E t \in Live : parent_pid[t] = p /\ sched.status[t] = "HANGING")
              => find_hanging_child(p) # {}
<1> DEFINE at == {i \in 1..Len(all_list) : parent_pid[all_list[i]] = p
                                           /\ sched.status[all_list[i]] = "HANGING"}
<1>1. find_hanging_child(p) = {all_list[i] : i \in {k \in at : \A l \in at : k <= l}}
  BY DEF find_hanging_child, list_traversal
<1>2. at # {} => \E k \in at : \A l \in at : k <= l
  <2>1. at \in SUBSET Nat
    OBVIOUS
  <2> HIDE DEF at
  <2> QED BY <2>1, FirstIndex
<1>3. \A i \in at : /\ all_list[i] \in Live /\ parent_pid[all_list[i]] = p
                    /\ sched.status[all_list[i]] = "HANGING"
  BY DEF Live, elem_find
<1>4. (\E t \in Live : parent_pid[t] = p /\ sched.status[t] = "HANGING") => at # {}
  BY DEF Live, elem_find
<1> HIDE DEF at
<1> QED BY <1>1, <1>2, <1>3, <1>4

(* allocate_pid returns a pid, and a free one if there is one.             *)
LEMMA AllocatePidFacts ==
  /\ allocate_pid \in 1..MaxPid
  /\ FreePids # {} => allocate_pid \notin pids
<1>1. FreePids # {} => \E n \in FreePids : \A m \in FreePids : n <= m
  <2>1. FreePids \in SUBSET Nat
    BY WaitExitAssumption DEF FreePids
  <2> QED BY <2>1, FirstIndex
<1>2. \E n \in 1..MaxPid :
        FreePids # {} => n \in FreePids /\ \A m \in FreePids : n <= m
  <2>1. CASE FreePids = {}
    BY <2>1, WaitExitAssumption
  <2>2. CASE FreePids # {}
    BY <1>1, <2>2 DEF FreePids
  <2> QED BY <2>1, <2>2
<1>3. /\ allocate_pid \in 1..MaxPid
      /\ FreePids # {} => allocate_pid \in FreePids
  BY <1>2 DEF allocate_pid
<1> QED BY <1>3 DEF FreePids

(* NoLostWakeup without the traversal: no waiting process but init has a   *)
(* child that hangs.                                                       *)
WaitersChildless ==
  \A t \in Live \ {init}, c \in Live :
    sched.status[t] = "WAITING" => ~(parent_pid[c] = pid[t] /\ sched.status[c] = "HANGING")

(* The two forms of NoLostWakeup say the same, in every state and in the   *)
(* next one.                                                               *)
LEMMA WaitersForm ==
  all_list \in Seq(Threads) => (NoLostWakeup <=> WaitersChildless)
BY FindHangingFacts DEF NoLostWakeup, WaitersChildless

(* The same of the next state.                                             *)
LEMMA WaitersFormNext ==
  all_list' \in Seq(Threads) => (NoLostWakeup' <=> WaitersChildless')
<1>1. (all_list \in Seq(Threads) => (NoLostWakeup <=> WaitersChildless))'
  BY WaitersForm, PTL
<1> QED BY <1>1

-----------------------------------------------------------------------------
(* The steps *)

PC == {"user", "boot", "reap", "wait", "zombie", "main", "gone", "idle", "halt",
       "free", "lost"}

(* What IInv says of a state that is not a panic, as the proofs use it.    *)
LEMMA InvFacts ==
  ASSUME IInv, ~sched.panic
  PROVE  /\ ThreadState(sched) /\ DOMAIN sched = Fields /\ Ticks(sched)
         /\ RunQueueConsistent(sched, {})
         /\ {} \in SUBSET (Threads \ {idle_thread})
         /\ all_list \in Seq(Threads) /\ NoDuplicates(all_list)
         /\ Live \subseteq Threads
         /\ \A t \in Threads : t \in Live <=> sched.status[t] # "DIED"
         /\ \A t, u \in Live : pid[t] \in pids /\ (pid[t] = pid[u] => t = u)
         /\ sched.cur \in Threads /\ sched.status \in [Threads -> Status]
         /\ \A t \in Threads : sched.status[t] = "RUNNING" <=> t = sched.cur
         /\ sched.status[idle_thread] \in {"RUNNING", "READY", "BLOCKED"}
         /\ Control /\ Parentage /\ WaitersChildless
         /\ pc \in [Threads -> PC]
         /\ \A t \in Threads : sched.status[t] = "HANGING" => pc[t] = "zombie" /\ t \notin Roots
<1>1. TypeOK /\ ThreadState(sched) /\ Sound
  BY DEF IInv
<1>2. WaitersChildless
  BY <1>1, WaitersForm DEF TypeOK, Sound
<1>3. ASSUME NEW t \in Threads, sched.status[t] = "HANGING"
      PROVE  pc[t] = "zombie" /\ t \notin Roots
  <2>1. t # idle_thread
    BY <1>1, <1>3 DEF Sound, TablesConsistent, RunQueueConsistent
  <2>2. pc[t] \in PC
    BY <1>1 DEF TypeOK, PC
  <2>3. pc[t] = "zombie"
    BY <1>1, <1>3, <2>1, <2>2 DEF Sound, Control, Runnable, PC, Roots
  <2> QED BY <1>1, <2>3 DEF Sound, Control, Roots
<1> QED BY <1>1, <1>2, <1>3 DEF IInv, Sound, TablesConsistent, TypeOK, ThreadState, RunQueueConsistent,
           Live, PC

(* Control after a step that moves the tasks of D only, and suspends,      *)
(* revives or buries nobody else.                                          *)
LEMMA ControlStep ==
  ASSUME Control, NEW D \in SUBSET Threads,
         \A u \in Threads \ D : pc'[u] = pc[u],
         \A u \in Threads \ (D \cup {idle_thread}) :
           /\ Runnable(sched.status[u]) => Runnable(sched'.status[u])
           /\ ~Runnable(sched.status[u]) => sched'.status[u] = sched.status[u],
         init \in D => pc'[init] \in {"boot", "reap", "wait"},
         main_thread \in D => pc'[main_thread] \in {"main", "gone"},
         idle_thread \in D => pc'[idle_thread] \in {"idle", "halt"},
         \A u \in D \ Roots : pc'[u] \in {"user", "wait", "zombie", "free", "lost"},
         \A u \in D \ {idle_thread} :
           /\ pc'[u] \in {"user", "boot", "reap", "main"} => Runnable(sched'.status[u])
           /\ pc'[u] = "wait" => Runnable(sched'.status[u]) \/ sched'.status[u] = "WAITING"
           /\ pc'[u] = "zombie" => sched'.status[u] = "HANGING"
           /\ pc'[u] \in {"gone", "free", "lost"} => sched'.status[u] = "DIED"
  PROVE  Control'
<1>1. /\ pc'[init] \in {"boot", "reap", "wait"}
      /\ pc'[main_thread] \in {"main", "gone"}
      /\ pc'[idle_thread] \in {"idle", "halt"}
      /\ \A u \in Threads \ Roots : pc'[u] \in {"user", "wait", "zombie", "free", "lost"}
  BY WaitExitAssumption, ThreadAssumption DEF Control
<1>2. ASSUME NEW u \in Threads \ {idle_thread}
      PROVE  /\ pc'[u] \in {"user", "boot", "reap", "main"} => Runnable(sched'.status[u])
             /\ pc'[u] = "wait" => Runnable(sched'.status[u]) \/ sched'.status[u] = "WAITING"
             /\ pc'[u] = "zombie" => sched'.status[u] = "HANGING"
             /\ pc'[u] \in {"gone", "free", "lost"} => sched'.status[u] = "DIED"
  <2>1. CASE u \in D
    BY <2>1
  <2>2. CASE u \notin D
    BY <2>2 DEF Control, Runnable
  <2> QED BY <2>1, <2>2
<1> QED BY <1>1, <1>2 DEF Control

(* What a step that does not panic has to establish.                       *)
LEMMA NextSound ==
  ASSUME ThreadState(sched'), DOMAIN sched' = Fields, Ticks(sched'), ~sched'.panic,
         RunQueueConsistent(sched', {}),
         all_list' \in Seq(Threads), NoDuplicates(all_list'),
         pids' \subseteq 1..MaxPid, pid' \in [Threads -> 0..MaxPid],
         parent_pid' \in [Threads -> -1..MaxPid],
         exit_status' \in [Threads -> -128..127], pc' \in [Threads -> PC],
         \A t \in Threads : t \in Live' <=> sched'.status[t] # "DIED",
         \A t, u \in Live' : pid'[t] \in pids' /\ (pid'[t] = pid'[u] => t = u),
         Control', Parentage', WaitersChildless'
  PROVE  IInv' /\ ~sched'.panic
<1>1. TypeOK'
  BY DEF TypeOK, ThreadState, PC
<1>2. TablesConsistent'
  BY DEF TablesConsistent
<1>3. NoLostWakeup'
  BY WaitersFormNext
<1> QED BY <1>1, <1>2, <1>3 DEF IInv, Sound

(* A step that only switches threads, and puts a caller of sys_wait to     *)
(* sleep at most when none of its children hangs, preserves IInv.          *)
LEMMA SwitchStep ==
  ASSUME IInv, ~sched.panic,
         ThreadState(sched'), Extends(sched, sched'), Ticks(sched'), ~sched'.panic,
         RunQueueConsistent(sched', {}),
         UNCHANGED <<all_list, pids, pid, parent_pid, exit_status>>,
         pc' \in [Threads -> PC], Control',
         \A t \in Threads : pc'[t] = "zombie" => pc[t] = "zombie",
         \A t \in Threads \ {idle_thread} :
           /\ sched'.status[t] = "DIED" <=> sched.status[t] = "DIED"
           /\ sched'.status[t] = "HANGING" => sched.status[t] = "HANGING"
           /\ sched'.status[t] = "WAITING" =>
                \/ sched.status[t] = "WAITING"
                \/ find_hanging_child(pid[t]) = {}
  PROVE  IInv' /\ ~sched'.panic
<1>1. /\ ThreadState(sched) /\ DOMAIN sched = Fields
      /\ all_list \in Seq(Threads) /\ NoDuplicates(all_list)
      /\ Live \subseteq Threads
      /\ \A t \in Threads : t \in Live <=> sched.status[t] # "DIED"
      /\ \A t, u \in Live : pid[t] \in pids /\ (pid[t] = pid[u] => t = u)
      /\ sched.status[idle_thread] \in {"RUNNING", "READY", "BLOCKED"}
      /\ Control /\ Parentage /\ WaitersChildless
  BY InvFacts
<1>2. sched'.status[idle_thread] \in {"RUNNING", "READY", "BLOCKED"}
  BY DEF RunQueueConsistent
<1>3. Live' = Live
  BY DEF Live
<1>4. \A t \in Threads : t \in Live' <=> sched'.status[t] # "DIED"
  BY <1>1, <1>2, <1>3
<1>5. DOMAIN sched' = Fields
  BY <1>1 DEF Extends
<1>6. Parentage'
  <2>1. \A t \in Live \ Roots : \E p \in Live \ {main_thread, idle_thread} :
          pid[p] = parent_pid[t] /\ pc'[p] # "zombie"
    BY <1>1 DEF Parentage
  <2> QED BY <1>1, <1>3, <2>1 DEF Parentage, Roots
<1>7. WaitersChildless'
  <2> SUFFICES ASSUME NEW t \in Live \ {init}, NEW c \in Live,
                      sched'.status[t] = "WAITING",
                      parent_pid[c] = pid[t], sched'.status[c] = "HANGING"
               PROVE  FALSE
    BY <1>3 DEF WaitersChildless
  <2>1. t # idle_thread /\ c # idle_thread
    BY <1>2
  <2>2. sched.status[c] = "HANGING"
    BY <1>1, <2>1
  <2>3. sched.status[t] # "WAITING"
    BY <1>1, <2>2 DEF WaitersChildless
  <2>4. find_hanging_child(pid[t]) = {}
    BY <1>1, <2>1, <2>3
  <2> QED BY <1>1, <2>2, <2>4, FindHangingFacts
<1>8. /\ pids' \subseteq 1..MaxPid /\ pid' \in [Threads -> 0..MaxPid]
      /\ parent_pid' \in [Threads -> -1..MaxPid]
      /\ exit_status' \in [Threads -> -128..127]
  BY DEF IInv, TypeOK
<1>9. /\ all_list' \in Seq(Threads) /\ NoDuplicates(all_list')
      /\ \A t, u \in Live' : pid'[t] \in pids' /\ (pid'[t] = pid'[u] => t = u)
  BY <1>1, <1>3
<1> QED BY <1>4, <1>5, <1>6, <1>7, <1>8, <1>9, NextSound

(* The clock interrupt. *)
LEMMA TimerStep ==
  ASSUME IInv, Timer
  PROVE  IInv' /\ ~sched'.panic
<1>0. ~sched.panic
  BY DEF Timer, InterruptsOn
<1>1. /\ ThreadState(sched) /\ Ticks(sched) /\ RunQueueConsistent(sched, {})
      /\ {} \in SUBSET (Threads \ {idle_thread})
      /\ Control /\ pc \in [Threads -> PC]
  BY <1>0, InvFacts
<1>2. Switched(sched, sched', {})
  BY <1>0, <1>1, TimerFacts DEF Timer
<1>3. /\ pc' \in [Threads -> PC]
      /\ \A t \in Threads : pc'[t] = IF t = sched.cur /\ pc[t] = "halt" THEN "idle" ELSE pc[t]
  BY <1>1 DEF Timer, PC, ThreadState
<1>4. \A t \in Threads \ {idle_thread} :
         /\ pc'[t] = pc[t]
         /\ Runnable(sched.status[t]) => Runnable(sched'.status[t])
         /\ ~Runnable(sched.status[t]) => sched'.status[t] = sched.status[t]
  <2>1. \A t \in Threads \ {idle_thread} : pc'[t] = pc[t]
    BY <1>1, <1>3 DEF Control, Roots
  <2> QED BY <1>2, <2>1 DEF Switched, SwitchFrame
<1>5. Control'
  <2>1. pc'[init] = pc[init] /\ pc'[main_thread] = pc[main_thread]
    BY <1>4, WaitExitAssumption
  <2>2. pc'[idle_thread] \in {"idle", "halt"}
    BY <1>1, <1>3, ThreadAssumption DEF Control
  <2>3. \A t \in Threads \ Roots : pc'[t] = pc[t]
    BY <1>4 DEF Roots
  <2> QED BY <1>1, <1>4, <2>1, <2>2, <2>3 DEF Control, Runnable
<1>6. \A t \in Threads \ {idle_thread} :
        /\ sched'.status[t] = "DIED" <=> sched.status[t] = "DIED"
        /\ sched'.status[t] = "HANGING" => sched.status[t] = "HANGING"
        /\ sched'.status[t] = "WAITING" => sched.status[t] = "WAITING"
  BY <1>4 DEF Runnable
<1>7. \A t \in Threads : pc'[t] = "zombie" => pc[t] = "zombie"
  BY <1>3
<1> QED BY <1>0, <1>2, <1>3, <1>5, <1>6, <1>7, SwitchStep DEF Timer, Switched

(* idle blocks itself. *)
LEMMA IdleBlockStep ==
  ASSUME IInv, IdleBlock
  PROVE  IInv' /\ ~sched'.panic
<1>0. ~sched.panic /\ sched.cur = idle_thread
  BY DEF IdleBlock, At
<1>1. /\ ThreadState(sched) /\ Ticks(sched) /\ RunQueueConsistent(sched, {})
      /\ {} \in SUBSET (Threads \ {idle_thread})
      /\ Control /\ pc \in [Threads -> PC]
  BY <1>0, InvFacts
<1>2. Suspends(sched, sched', {}, "BLOCKED")
  BY <1>0, <1>1, ThreadBlockFacts DEF IdleBlock, Suspended
<1>3. /\ pc' \in [Threads -> PC]
      /\ \A t \in Threads : pc'[t] = IF t = idle_thread THEN "halt" ELSE pc[t]
  BY <1>1 DEF IdleBlock, Goto, PC
<1>4. \A t \in Threads \ {idle_thread} :
         /\ pc'[t] = pc[t]
         /\ Runnable(sched.status[t]) => Runnable(sched'.status[t])
         /\ ~Runnable(sched.status[t]) => sched'.status[t] = sched.status[t]
  BY <1>0, <1>2, <1>3 DEF Suspends
<1>5. Control'
  <2>1. pc'[init] = pc[init] /\ pc'[main_thread] = pc[main_thread]
    BY <1>4, WaitExitAssumption
  <2>2. pc'[idle_thread] \in {"idle", "halt"}
    BY <1>3, ThreadAssumption
  <2>3. \A t \in Threads \ Roots : pc'[t] = pc[t]
    BY <1>4 DEF Roots
  <2> QED BY <1>1, <1>4, <2>1, <2>2, <2>3 DEF Control, Runnable
<1>6. \A t \in Threads \ {idle_thread} :
        /\ sched'.status[t] = "DIED" <=> sched.status[t] = "DIED"
        /\ sched'.status[t] = "HANGING" => sched.status[t] = "HANGING"
        /\ sched'.status[t] = "WAITING" => sched.status[t] = "WAITING"
  BY <1>4 DEF Runnable
<1>7. \A t \in Threads : pc'[t] = "zombie" => pc[t] = "zombie"
  BY <1>3
<1> QED BY <1>0, <1>2, <1>3, <1>5, <1>6, <1>7, SwitchStep DEF IdleBlock, Suspends

(* What is known of the thread that runs at a control point of a process.  *)
LEMMA CallerFacts ==
  ASSUME IInv, NEW t \in Threads,
         \/ At(t, "user") \/ At(t, "boot") \/ At(t, "reap") \/ At(t, "wait")
  PROVE  /\ ~sched.panic /\ sched.cur = t /\ sched.status[t] = "RUNNING"
         /\ t \in Live /\ t \notin {main_thread, idle_thread}
         /\ At(t, "boot") \/ At(t, "reap") => t = init
         /\ At(t, "user") => t # init
         /\ Home(t) = IF t = init THEN "reap" ELSE "user"
<1>1. ~sched.panic /\ sched.cur = t
  BY DEF At
<1> QED BY <1>1, InvFacts DEF At, Control, Roots, Home

(* sys_wait with no child that hangs: it returns, or puts its caller to    *)
(* sleep.                                                                  *)
LEMMA SleepStep ==
  ASSUME IInv, NEW t \in Threads, sys_wait(t), find_hanging_child(pid[t]) = {}
  PROVE  IInv' /\ ~sched'.panic
<1>0. At(t, "user") \/ At(t, "reap") \/ At(t, "wait")
  BY DEF sys_wait, Home
<1>1. /\ ~sched.panic /\ sched.cur = t /\ sched.status[t] = "RUNNING"
      /\ t \notin {main_thread, idle_thread}
  BY <1>0, CallerFacts
<1>2. /\ ThreadState(sched) /\ Ticks(sched) /\ RunQueueConsistent(sched, {})
      /\ {} \in SUBSET (Threads \ {idle_thread})
      /\ Control /\ pc \in [Threads -> PC]
      /\ sched.status \in [Threads -> Status]
  BY <1>1, InvFacts
<1>3. CASE find_child(pid[t]) = {}
  <2>1. sched' = sched /\ pc' = [pc EXCEPT ![t] = Home(t)]
        /\ UNCHANGED <<all_list, pids, pid, parent_pid, exit_status>>
    BY <1>3 DEF sys_wait, Goto
  <2>2. /\ pc' \in [Threads -> PC]
        /\ \A u \in Threads : pc'[u] = IF u = t THEN Home(t) ELSE pc[u]
    BY <1>2, <2>1 DEF PC, Home
  <2>3. Control'
    BY <1>1, <1>2, <2>1, <2>2, WaitExitAssumption DEF Control, Roots, Home, Runnable
  <2>4. Extends(sched, sched')
    BY <2>1 DEF Extends
  <2> QED BY <1>1, <1>2, <2>1, <2>2, <2>3, <2>4, SwitchStep DEF Home
<1>4. CASE find_child(pid[t]) # {}
  <2>1. sched' = thread_block(sched, "WAITING") /\ pc' = [pc EXCEPT ![t] = "wait"]
        /\ UNCHANGED <<all_list, pids, pid, parent_pid, exit_status>>
    BY <1>4 DEF sys_wait, Goto
  <2>2. /\ pc' \in [Threads -> PC]
        /\ \A u \in Threads : pc'[u] = IF u = t THEN "wait" ELSE pc[u]
    BY <1>2, <2>1 DEF PC
  <2>3. Suspends(sched, sched', {}, "WAITING")
    BY <1>1, <1>2, <2>1, ThreadBlockFacts DEF Suspended
  <2>4. /\ sched'.status[t] = "WAITING"
        /\ \A u \in Threads \ {idle_thread, t} :
             /\ Runnable(sched.status[u]) => Runnable(sched'.status[u])
             /\ ~Runnable(sched.status[u]) => sched'.status[u] = sched.status[u]
    BY <1>1, <2>3 DEF Suspends
  <2>5. Control'
    <3>1. /\ pc'[init] \in {"boot", "reap", "wait"}
          /\ pc'[main_thread] \in {"main", "gone"}
          /\ pc'[idle_thread] \in {"idle", "halt"}
          /\ \A u \in Threads \ Roots : pc'[u] \in {"user", "wait", "zombie", "free", "lost"}
      BY <1>1, <1>2, <2>2, WaitExitAssumption, ThreadAssumption DEF Control, Roots
    <3>2. ASSUME NEW u \in Threads \ {idle_thread}
          PROVE  /\ pc'[u] \in {"user", "boot", "reap", "main"} => Runnable(sched'.status[u])
                 /\ pc'[u] = "wait" => Runnable(sched'.status[u]) \/ sched'.status[u] = "WAITING"
                 /\ pc'[u] = "zombie" => sched'.status[u] = "HANGING"
                 /\ pc'[u] \in {"gone", "free", "lost"} => sched'.status[u] = "DIED"
      <4>1. CASE u = t
        BY <2>2, <2>4, <4>1
      <4>2. CASE u # t
        BY <1>2, <2>2, <2>4, <4>2 DEF Control, Runnable
      <4> QED BY <4>1, <4>2
    <3> QED BY <3>1, <3>2 DEF Control
  <2>6. \A u \in Threads \ {idle_thread} :
          /\ sched'.status[u] = "DIED" <=> sched.status[u] = "DIED"
          /\ sched'.status[u] = "HANGING" => sched.status[u] = "HANGING"
          /\ sched'.status[u] = "WAITING" =>
               sched.status[u] = "WAITING" \/ find_hanging_child(pid[u]) = {}
    BY <1>1, <2>4 DEF Runnable
  <2> QED BY <1>1, <2>1, <2>2, <2>3, <2>5, <2>6, SwitchStep DEF Suspends
<1> QED BY <1>3, <1>4

(* sys_wait with a child that hangs: the child leaves both lists, its page *)
(* and its pid are free again.                                             *)
LEMMA ReapStep ==
  ASSUME IInv, NEW t \in Threads, sys_wait(t), find_hanging_child(pid[t]) # {}
  PROVE  IInv' /\ ~sched'.panic
<1>0. At(t, "user") \/ At(t, "reap") \/ At(t, "wait")
  BY DEF sys_wait, Home
<1>1. /\ ~sched.panic /\ sched.cur = t /\ sched.status[t] = "RUNNING"
      /\ t \notin {main_thread, idle_thread} /\ t \in Live
  BY <1>0, CallerFacts
<1>2. /\ ThreadState(sched) /\ DOMAIN sched = Fields /\ Ticks(sched)
      /\ RunQueueConsistent(sched, {})
      /\ {} \in SUBSET (Threads \ {idle_thread})
      /\ all_list \in Seq(Threads) /\ NoDuplicates(all_list)
      /\ Live \subseteq Threads
      /\ \A u \in Threads : u \in Live <=> sched.status[u] # "DIED"
      /\ \A u, v \in Live : pid[u] \in pids /\ (pid[u] = pid[v] => u = v)
      /\ sched.status \in [Threads -> Status]
      /\ sched.status[idle_thread] \in {"RUNNING", "READY", "BLOCKED"}
      /\ Control /\ Parentage /\ WaitersChildless
      /\ pc \in [Threads -> PC]
  BY <1>1, InvFacts
<1>3. PICK c \in find_hanging_child(pid[t]) : Reap(t, c)
  BY DEF sys_wait
<1>4. c \in Live /\ parent_pid[c] = pid[t] /\ sched.status[c] = "HANGING"
  BY <1>2, <1>3, FindHangingFacts
<1>5. c \in Threads /\ c # t /\ c \notin Roots /\ pc[c] = "zombie"
  <2>1. c \in Threads /\ c # t
    BY <1>1, <1>2, <1>4
  <2> QED BY <1>1, <1>4, <2>1, InvFacts
<1>6. /\ sched' = thread_exit(sched, c, FALSE)
      /\ all_list' = list_remove(all_list, c)
      /\ pids' = pids \ {pid[c]}
      /\ pc' = [pc EXCEPT ![c] = "free", ![t] = Home(t)]
      /\ UNCHANGED <<pid, parent_pid, exit_status>>
  BY <1>3 DEF Reap, sys_wait
<1>7. /\ ThreadState(sched') /\ Extends(sched, sched') /\ ~sched'.panic
      /\ RunQueueConsistent(sched', {}) /\ Ticks(sched')
      /\ sched'.cur = sched.cur
      /\ sched'.status = [sched.status EXCEPT ![c] = "DIED"]
  BY <1>1, <1>2, <1>4, <1>5, <1>6, BuryFacts
<1>8. /\ all_list' \in Seq(Threads) /\ NoDuplicates(all_list')
      /\ Live' = Live \ {c}
  <2>1. elem_find(all_list, c)
    BY <1>4 DEF Live
  <2>2. /\ all_list' \in Seq(Threads) /\ NoDuplicates(all_list')
        /\ \A x : elem_find(all_list', x) <=> elem_find(all_list, x) /\ x # c
    BY <1>2, <1>6, <2>1, RemoveFacts
  <2> QED BY <2>2 DEF Live
<1>9. /\ pc' \in [Threads -> PC] /\ pc'[c] = "free" /\ pc'[t] = Home(t)
      /\ \A u \in Threads \ {c, t} : pc'[u] = pc[u]
  BY <1>2, <1>5, <1>6 DEF PC, Home
<1>10. sched'.status[c] = "DIED" /\ \A u \in Threads \ {c} : sched'.status[u] = sched.status[u]
  BY <1>2, <1>5, <1>7
<1>11. Control'
  <2> DEFINE D == {c, t}
  <2>1. /\ \A u \in Threads \ D : pc'[u] = pc[u]
        /\ \A u \in Threads \ (D \cup {idle_thread}) : sched'.status[u] = sched.status[u]
    BY <1>9, <1>10
  <2>2. /\ init \in D => pc'[init] \in {"boot", "reap", "wait"}
        /\ main_thread \notin D /\ idle_thread \notin D
        /\ \A u \in D \ Roots : pc'[u] \in {"user", "wait", "zombie", "free", "lost"}
    BY <1>1, <1>5, <1>9 DEF Home, Roots
  <2>3. Runnable(sched'.status[t])
    BY <1>1, <1>5, <1>10 DEF Runnable
  <2>4. \A u \in D :
          /\ pc'[u] \in {"user", "boot", "reap", "main"} => Runnable(sched'.status[u])
          /\ pc'[u] # "wait" /\ pc'[u] # "zombie"
          /\ pc'[u] \in {"gone", "free", "lost"} => sched'.status[u] = "DIED"
    BY <1>9, <1>10, <2>3 DEF Home
  <2>5. D \in SUBSET Threads
    BY <1>5
  <2> HIDE DEF D
  <2> QED BY <1>2, <2>1, <2>2, <2>4, <2>5, ControlStep
<1>12. Parentage'
  <2>1. pid'[init] = 1 /\ \A u \in Roots : parent_pid'[u] = -1
    BY <1>2, <1>6 DEF Parentage
  <2>2. ASSUME NEW u \in Live' \ Roots
        PROVE  \E p \in Live' \ {main_thread, idle_thread} :
                 pid'[p] = parent_pid'[u] /\ pc'[p] # "zombie"
    <3>1. PICK p \in Live \ {main_thread, idle_thread} :
            pid[p] = parent_pid[u] /\ pc[p] # "zombie"
      BY <1>2, <1>8 DEF Parentage
    <3>2. pc'[p] # "zombie"
      BY <1>2, <1>5, <1>9, <3>1 DEF Home
    <3> QED BY <1>5, <1>6, <1>8, <3>1, <3>2
  <2> QED BY <2>1, <2>2 DEF Parentage
<1>13. WaitersChildless'
  <2>1. \A u \in Live' : sched'.status[u] = sched.status[u] /\ u \in Live
    BY <1>2, <1>8, <1>10
  <2> SUFFICES ASSUME NEW u \in Live' \ {init}, NEW v \in Live',
                      sched'.status[u] = "WAITING",
                      parent_pid'[v] = pid'[u], sched'.status[v] = "HANGING"
               PROVE  FALSE
    BY DEF WaitersChildless
  <2>2. WaitersChildless
    BY <1>2
  <2> QED BY <1>6, <2>1, <2>2 DEF WaitersChildless
<1>14. \A u, v \in Live' : pid'[u] \in pids' /\ (pid'[u] = pid'[v] => u = v)
  BY <1>2, <1>4, <1>6, <1>8
<1>15. \A u \in Threads : u \in Live' <=> sched'.status[u] # "DIED"
  BY <1>2, <1>8, <1>10
<1>16. DOMAIN sched' = Fields
  BY <1>2, <1>7 DEF Extends
<1>17. /\ pids' \subseteq 1..MaxPid /\ pid' \in [Threads -> 0..MaxPid]
       /\ parent_pid' \in [Threads -> -1..MaxPid]
       /\ exit_status' \in [Threads -> -128..127]
  BY <1>6 DEF IInv, TypeOK
<1> QED BY <1>7, <1>8, <1>9, <1>11, <1>12, <1>13, <1>14, <1>15, <1>16, <1>17, NextSound

-----------------------------------------------------------------------------
(* sys_fork: the child gets a pid of its own, or the ASSERT of bitmap_scan *)
(* fails and no pid is free afterwards either.                             *)
LEMMA ForkStep ==
  ASSUME IInv, NEW t \in Threads, sys_fork(t)
  PROVE  IInv' /\ (FreePids # {} => ~sched'.panic)
<1>1. /\ ~sched.panic /\ sched.cur = t /\ sched.status[t] = "RUNNING"
      /\ t \notin {main_thread, idle_thread} /\ t \in Live
  BY CallerFacts DEF sys_fork
<1>2. /\ ThreadState(sched) /\ DOMAIN sched = Fields /\ Ticks(sched)
      /\ RunQueueConsistent(sched, {})
      /\ all_list \in Seq(Threads) /\ NoDuplicates(all_list)
      /\ Live \subseteq Threads
      /\ \A u \in Threads : u \in Live <=> sched.status[u] # "DIED"
      /\ \A u, v \in Live : pid[u] \in pids /\ (pid[u] = pid[v] => u = v)
      /\ sched.status \in [Threads -> Status]
      /\ Control /\ Parentage
      /\ pc \in [Threads -> PC]
  BY <1>1, InvFacts
<1>3. /\ pids \subseteq 1..MaxPid /\ pid \in [Threads -> 0..MaxPid]
      /\ parent_pid \in [Threads -> -1..MaxPid]
      /\ exit_status \in [Threads -> -128..127]
  BY DEF IInv, TypeOK
<1>4. PICK c \in Threads :
        /\ pc[c] = "free"
        /\ sched' = Enqueue(init_thread(ASSERT(sched, /\ FreePids # {}
                                                      /\ ~elem_find(all_list, c)), c), c)
        /\ pids' = pids \cup {allocate_pid}
        /\ pid' = [pid EXCEPT ![c] = allocate_pid]
        /\ parent_pid' = [parent_pid EXCEPT ![c] = pid[t]]
        /\ exit_status' = [exit_status EXCEPT ![c] = exit_status[t]]
        /\ all_list' = Append(all_list, c)
        /\ pc' = [pc EXCEPT ![c] = "user", ![t] = Home(t)]
  BY DEF sys_fork
<1>5. /\ sched.status[c] = "DIED" /\ c \notin Live /\ c # t
      /\ c \notin Roots /\ ~elem_find(all_list, c)
  <2>1. c \notin Roots
    BY <1>2, <1>4 DEF Control, Roots
  <2>2. sched.status[c] = "DIED"
    BY <1>2, <1>4, <2>1 DEF Control, Roots
  <2> QED BY <1>1, <1>2, <2>1, <2>2 DEF Live
<1>6. /\ ThreadState(sched') /\ Extends(sched, sched')
      /\ sched'.panic = (FreePids = {})
      /\ RunQueueConsistent(sched', {}) /\ Ticks(sched')
      /\ sched'.status = [sched.status EXCEPT ![c] = "READY"]
  <2>1. c \in Threads \ {idle_thread}
    BY <1>5 DEF Roots
  <2>2. (FreePids # {} /\ ~elem_find(all_list, c)) \in BOOLEAN
    OBVIOUS
  <2> QED BY <1>1, <1>2, <1>4, <1>5, <2>1, <2>2, StartFacts
<1>7. DOMAIN sched' = Fields
  BY <1>2, <1>6 DEF Extends
<1>8. /\ pids' \subseteq 1..MaxPid /\ pid' \in [Threads -> 0..MaxPid]
      /\ parent_pid' \in [Threads -> -1..MaxPid]
      /\ exit_status' \in [Threads -> -128..127]
      /\ pc' \in [Threads -> PC]
  <2>1. allocate_pid \in 0..MaxPid /\ pid[t] \in -1..MaxPid /\ exit_status[t] \in -128..127
    BY <1>3, AllocatePidFacts
  <2> QED BY <1>2, <1>3, <1>4, <2>1, AllocatePidFacts DEF PC, Home
<1>9. /\ all_list' \in Seq(Threads) /\ NoDuplicates(all_list')
      /\ Live' = Live \cup {c}
  <2>1. /\ all_list' \in Seq(Threads) /\ NoDuplicates(all_list')
        /\ \A x : elem_find(all_list', x) <=> elem_find(all_list, x) \/ x = c
    BY <1>2, <1>4, <1>5, AppendFacts
  <2> QED BY <2>1 DEF Live
<1>10. CASE FreePids = {}
  <2>1. pids' = 1..MaxPid
    BY <1>3, <1>4, <1>10, AllocatePidFacts DEF FreePids
  <2>2. FreePids' = {}
    BY <2>1 DEF FreePids
  <2>3. TypeOK'
    BY <1>6, <1>8, <1>9 DEF TypeOK, ThreadState, PC
  <2> QED BY <1>6, <1>7, <1>10, <2>2, <2>3 DEF IInv
<1>11. CASE FreePids # {}
  <2>1. /\ \A u \in Threads \ {c} : pid'[u] = pid[u] /\ parent_pid'[u] = parent_pid[u]
        /\ pid'[c] = allocate_pid /\ parent_pid'[c] = pid[t]
        /\ allocate_pid \notin pids
        /\ \A u \in Threads \ {c} : sched'.status[u] = sched.status[u]
        /\ sched'.status[c] = "READY"
        /\ pc'[c] = "user" /\ pc'[t] = Home(t)
        /\ \A u \in Threads \ {c, t} : pc'[u] = pc[u]
    BY <1>2, <1>3, <1>4, <1>5, <1>6, <1>11, AllocatePidFacts
  <2>2. \A u, v \in Live' : pid'[u] \in pids' /\ (pid'[u] = pid'[v] => u = v)
    BY <1>2, <1>4, <1>5, <1>9, <2>1
  <2>3. \A u \in Threads : u \in Live' <=> sched'.status[u] # "DIED"
    BY <1>2, <1>9, <2>1
  <2>4. Control'
    <3> DEFINE D == {c, t}
    <3>1. /\ \A u \in Threads \ D : pc'[u] = pc[u]
          /\ \A u \in Threads \ (D \cup {idle_thread}) : sched'.status[u] = sched.status[u]
      BY <2>1
    <3>2. /\ init \in D => pc'[init] \in {"boot", "reap", "wait"}
          /\ main_thread \notin D /\ idle_thread \notin D
          /\ \A u \in D \ Roots : pc'[u] \in {"user", "wait", "zombie", "free", "lost"}
      BY <1>1, <1>5, <2>1 DEF Home, Roots
    <3>3. \A u \in D : Runnable(sched'.status[u]) /\ pc'[u] \in {"user", "reap"}
      BY <1>1, <1>5, <2>1 DEF Runnable, Home
    <3>4. D \in SUBSET Threads
      OBVIOUS
    <3> HIDE DEF D
    <3> QED BY <1>2, <3>1, <3>2, <3>3, <3>4, ControlStep
  <2>5. Parentage'
    <3>1. pid'[init] = 1 /\ \A u \in Roots : parent_pid'[u] = -1
      BY <1>2, <1>5, <2>1, WaitExitAssumption, ThreadAssumption DEF Parentage, Roots
    <3>2. ASSUME NEW u \in Live' \ Roots
          PROVE  \E p \in Live' \ {main_thread, idle_thread} :
                   pid'[p] = parent_pid'[u] /\ pc'[p] # "zombie"
      <4>1. CASE u = c
        BY <1>1, <1>5, <1>9, <2>1, <4>1 DEF Home
      <4>2. CASE u # c
        <5>1. PICK p \in Live \ {main_thread, idle_thread} :
                pid[p] = parent_pid[u] /\ pc[p] # "zombie"
          BY <1>2, <1>9, <4>2 DEF Parentage
        <5>2. p \in Threads \ {c} /\ u \in Threads \ {c}
          BY <1>2, <1>5, <1>9, <4>2
        <5>3. pc'[p] # "zombie" /\ pid'[p] = parent_pid'[u]
          BY <2>1, <5>1, <5>2 DEF Home
        <5> QED BY <1>9, <5>1, <5>3
      <4> QED BY <4>1, <4>2
    <3> QED BY <3>1, <3>2 DEF Parentage
  <2>6. WaitersChildless'
    <3> SUFFICES ASSUME NEW u \in Live' \ {init}, NEW v \in Live',
                        sched'.status[u] = "WAITING",
                        parent_pid'[v] = pid'[u], sched'.status[v] = "HANGING"
                 PROVE  FALSE
      BY DEF WaitersChildless
    <3>1. u # c /\ v # c
      BY <2>1
    <3>2. WaitersChildless
      BY <1>1, InvFacts
    <3> QED BY <1>2, <1>9, <2>1, <3>1, <3>2 DEF WaitersChildless
  <2> QED BY <1>6, <1>7, <1>8, <1>9, <1>11, <2>2, <2>3, <2>4, <2>5, <2>6, NextSound
<1> QED BY <1>10, <1>11

(* A fork that fails half-way takes a pid and a page, and the process      *)
(* tables do not change.                                                   *)
LEMMA ForkFailsStep ==
  ASSUME IInv, NEW t \in Threads, sys_fork_fails(t)
  PROVE  IInv' /\ (FreePids # {} => ~sched'.panic)
<1>1. /\ ~sched.panic /\ sched.cur = t /\ sched.status[t] = "RUNNING"
      /\ t \notin {main_thread, idle_thread} /\ t \in Live
  BY CallerFacts DEF sys_fork_fails
<1>2. /\ ThreadState(sched) /\ DOMAIN sched = Fields /\ Ticks(sched)
      /\ RunQueueConsistent(sched, {})
      /\ all_list \in Seq(Threads) /\ NoDuplicates(all_list)
      /\ Live \subseteq Threads
      /\ \A u \in Threads : u \in Live <=> sched.status[u] # "DIED"
      /\ \A u, v \in Live : pid[u] \in pids /\ (pid[u] = pid[v] => u = v)
      /\ Control /\ Parentage /\ WaitersChildless
      /\ pc \in [Threads -> PC]
  BY <1>1, InvFacts
<1>3. PICK c \in Threads : pc[c] = "free" /\ pc' = [pc EXCEPT ![c] = "lost", ![t] = Home(t)]
  BY DEF sys_fork_fails
<1>4. /\ sched' = ASSERT(sched, FreePids # {})
      /\ pids' = pids \cup {allocate_pid}
      /\ UNCHANGED <<all_list, pid, parent_pid, exit_status>>
  BY DEF sys_fork_fails
<1>5. /\ pids \subseteq 1..MaxPid /\ pid' \in [Threads -> 0..MaxPid]
      /\ parent_pid' \in [Threads -> -1..MaxPid]
      /\ exit_status' \in [Threads -> -128..127]
  BY <1>4 DEF IInv, TypeOK
<1>6. pids' \subseteq 1..MaxPid
  BY <1>4, <1>5, AllocatePidFacts
<1>7. c \notin Roots /\ c # t /\ sched.status[c] = "DIED"
  <2>1. c \notin Roots
    BY <1>2, <1>3 DEF Control, Roots
  <2>2. sched.status[c] = "DIED"
    BY <1>2, <1>3, <2>1 DEF Control, Roots
  <2> QED BY <1>1, <2>1, <2>2
<1>8. /\ pc' \in [Threads -> PC] /\ pc'[c] = "lost" /\ pc'[t] = Home(t)
      /\ \A u \in Threads \ {c, t} : pc'[u] = pc[u]
  BY <1>2, <1>3, <1>7 DEF PC, Home
<1>9. CASE FreePids = {}
  <2>1. /\ sched'.panic = TRUE /\ ThreadState(sched') /\ DOMAIN sched' = Fields
        /\ Ticks(sched')
    BY <1>2, <1>4, <1>9 DEF ASSERT, ThreadState, Fields, Ticks
  <2>2. pids' = 1..MaxPid
    BY <1>4, <1>5, <1>9, AllocatePidFacts DEF FreePids
  <2>3. FreePids' = {}
    BY <2>2 DEF FreePids
  <2>4. TypeOK'
    BY <1>2, <1>4, <1>5, <1>6, <1>8, <2>1 DEF TypeOK, ThreadState, PC
  <2> QED BY <1>9, <2>1, <2>3, <2>4 DEF IInv
<1>10. CASE FreePids # {}
  <2>1. sched' = sched
    BY <1>2, <1>4, <1>10, AssertFacts
  <2>2. Live' = Live
    BY <1>4 DEF Live
  <2>3. \A u, v \in Live' : pid'[u] \in pids' /\ (pid'[u] = pid'[v] => u = v)
    BY <1>2, <1>4, <2>2
  <2>4. Control'
    <3> DEFINE D == {c, t}
    <3>1. \A u \in Threads \ D : pc'[u] = pc[u]
      BY <1>8
    <3>2. /\ init \in D => pc'[init] \in {"boot", "reap", "wait"}
          /\ main_thread \notin D /\ idle_thread \notin D
          /\ \A u \in D \ Roots : pc'[u] \in {"user", "wait", "zombie", "free", "lost"}
      BY <1>1, <1>7, <1>8 DEF Home, Roots
    <3>3. \A u \in D :
            \/ Runnable(sched'.status[u]) /\ pc'[u] \in {"user", "reap"}
            \/ sched'.status[u] = "DIED" /\ pc'[u] = "lost"
      BY <1>1, <1>7, <1>8, <2>1 DEF Runnable, Home
    <3>4. D \in SUBSET Threads
      OBVIOUS
    <3> HIDE DEF D
    <3> QED BY <1>2, <2>1, <3>1, <3>2, <3>3, <3>4, ControlStep
  <2>5. Parentage'
    <3>1. \A u \in Live \ Roots : \E p \in Live \ {main_thread, idle_thread} :
            pid[p] = parent_pid[u] /\ pc'[p] # "zombie"
      <4>1. \A u \in Threads : pc'[u] = "zombie" => pc[u] = "zombie"
        BY <1>8 DEF Home
      <4> QED BY <1>2, <4>1 DEF Parentage
    <3> QED BY <1>2, <1>4, <2>2, <3>1 DEF Parentage, Roots
  <2>6. WaitersChildless'
    BY <1>2, <1>4, <2>1, <2>2 DEF WaitersChildless
  <2>7. \A u \in Threads : u \in Live' <=> sched'.status[u] # "DIED"
    BY <1>2, <2>1, <2>2
  <2> QED BY <1>1, <1>2, <1>4, <1>5, <1>6, <1>8, <2>1, <2>3, <2>4, <2>5, <2>6, <2>7, NextSound
<1> QED BY <1>9, <1>10

(* The end of the boot thread. *)
LEMMA MainExitStep ==
  ASSUME IInv, MainExit
  PROVE  IInv' /\ ~sched'.panic
<1>1. ~sched.panic /\ sched.cur = main_thread /\ pc[main_thread] = "main"
  BY DEF MainExit, At
<1>2. /\ ThreadState(sched) /\ DOMAIN sched = Fields /\ Ticks(sched)
      /\ RunQueueConsistent(sched, {})
      /\ {} \in SUBSET (Threads \ {idle_thread})
      /\ all_list \in Seq(Threads) /\ NoDuplicates(all_list)
      /\ Live \subseteq Threads
      /\ \A u \in Threads : u \in Live <=> sched.status[u] # "DIED"
      /\ \A u, v \in Live : pid[u] \in pids /\ (pid[u] = pid[v] => u = v)
      /\ \A u \in Threads : sched.status[u] = "RUNNING" <=> u = sched.cur
      /\ sched.status[idle_thread] \in {"RUNNING", "READY", "BLOCKED"}
      /\ Control /\ Parentage /\ WaitersChildless
      /\ pc \in [Threads -> PC]
  BY <1>1, InvFacts
<1>3. /\ sched' = thread_exit(sched, main_thread, TRUE)
      /\ all_list' = list_remove(all_list, main_thread)
      /\ pids' = pids \ {pid[main_thread]}
      /\ pc' = [pc EXCEPT ![main_thread] = "gone"]
      /\ UNCHANGED <<pid, parent_pid, exit_status>>
  BY DEF MainExit, Goto
<1>4. main_thread \in Threads /\ main_thread # init /\ main_thread # idle_thread
      /\ init \in Threads /\ idle_thread \in Threads
  BY WaitExitAssumption, ThreadAssumption
<1>5. Suspends(sched, sched', {}, "DIED")
  BY <1>1, <1>2, <1>3, <1>4, ThreadExitFacts
<1>6. /\ ThreadState(sched') /\ ~sched'.panic /\ RunQueueConsistent(sched', {})
      /\ Ticks(sched') /\ DOMAIN sched' = Fields
  BY <1>2, <1>5 DEF Suspends, Extends
<1>7. /\ sched'.status[main_thread] = "DIED"
      /\ \A u \in Threads \ {main_thread, idle_thread} :
           /\ Runnable(sched.status[u]) => Runnable(sched'.status[u])
           /\ ~Runnable(sched.status[u]) => sched'.status[u] = sched.status[u]
      /\ sched'.status[idle_thread] \in {"RUNNING", "READY", "BLOCKED"}
  BY <1>1, <1>4, <1>5 DEF Suspends, RunQueueConsistent
<1>8. /\ all_list' \in Seq(Threads) /\ NoDuplicates(all_list')
      /\ Live' = Live \ {main_thread}
  <2>1. main_thread \in Live
    BY <1>1, <1>2, <1>4
  <2>2. /\ all_list' \in Seq(Threads) /\ NoDuplicates(all_list')
        /\ \A x : elem_find(all_list', x) <=> elem_find(all_list, x) /\ x # main_thread
    BY <1>2, <1>3, <2>1, RemoveFacts DEF Live
  <2> QED BY <2>2 DEF Live
<1>9. /\ pc' \in [Threads -> PC] /\ pc'[main_thread] = "gone"
      /\ \A u \in Threads \ {main_thread} : pc'[u] = pc[u]
  BY <1>2, <1>3, <1>4 DEF PC
<1>10. Control'
  <2> DEFINE D == {main_thread}
  <2>1. /\ \A u \in Threads \ D : pc'[u] = pc[u]
        /\ \A u \in Threads \ (D \cup {idle_thread}) :
             /\ Runnable(sched.status[u]) => Runnable(sched'.status[u])
             /\ ~Runnable(sched.status[u]) => sched'.status[u] = sched.status[u]
        /\ init \notin D /\ idle_thread \notin D /\ D \ Roots = {}
        /\ \A u \in D : pc'[u] = "gone" /\ sched'.status[u] = "DIED"
        /\ D \in SUBSET Threads
    BY <1>4, <1>7, <1>9 DEF Roots
  <2> HIDE DEF D
  <2> QED BY <1>2, <2>1, ControlStep
<1>11. Parentage'
  <2>1. \A u \in Live' \ Roots : \E p \in Live' \ {main_thread, idle_thread} :
          pid[p] = parent_pid[u] /\ pc'[p] # "zombie"
    BY <1>2, <1>8, <1>9 DEF Parentage
  <2> QED BY <1>2, <1>3, <2>1 DEF Parentage, Roots
<1>12. WaitersChildless'
  <2>1. \A u \in Live' : u \in Live
            /\ (sched'.status[u] = "WAITING" => sched.status[u] = "WAITING")
            /\ (sched'.status[u] = "HANGING" => sched.status[u] = "HANGING")
    BY <1>2, <1>7, <1>8 DEF Runnable
  <2> SUFFICES ASSUME NEW u \in Live' \ {init}, NEW v \in Live',
                      sched'.status[u] = "WAITING",
                      parent_pid'[v] = pid'[u], sched'.status[v] = "HANGING"
               PROVE  FALSE
    BY DEF WaitersChildless
  <2>2. WaitersChildless
    BY <1>2
  <2> QED BY <1>3, <2>1, <2>2 DEF WaitersChildless
<1>13. \A u, v \in Live' : pid'[u] \in pids' /\ (pid'[u] = pid'[v] => u = v)
  <2>1. main_thread \in Live
    BY <1>1, <1>2, <1>4
  <2> QED BY <1>2, <1>3, <1>8, <2>1
<1>14. \A u \in Threads : u \in Live' <=> sched'.status[u] # "DIED"
  BY <1>2, <1>7, <1>8 DEF Runnable
<1>15. /\ pids' \subseteq 1..MaxPid /\ pid' \in [Threads -> 0..MaxPid]
       /\ parent_pid' \in [Threads -> -1..MaxPid]
       /\ exit_status' \in [Threads -> -128..127]
  BY <1>3 DEF IInv, TypeOK
<1> QED BY <1>6, <1>8, <1>9, <1>10, <1>11, <1>12, <1>13, <1>14, <1>15, NextSound

(* sys_exit looks its parent up and wakes it if it waits: no ASSERT fails, *)
(* because Parentage says that the parent is there.                        *)
LEMMA WakeParentFacts ==
  ASSUME IInv, NEW t \in Threads, At(t, "user")
  PROVE  LET w == WakeParent(ASSERT(sched, parent_pid[t] # -1), t)
         IN  /\ ThreadState(w) /\ Extends(sched, w) /\ ~w.panic
             /\ RunQueueConsistent(w, {}) /\ Ticks(w) /\ w.cur = sched.cur
             /\ \A u \in Threads :
                  w.status[u] = IF /\ u \in Live /\ pid[u] = parent_pid[t]
                                   /\ sched.status[u] = "WAITING"
                                THEN "READY" ELSE sched.status[u]
<1> DEFINE w == WakeParent(ASSERT(sched, parent_pid[t] # -1), t)
           parent == pid2thread(parent_pid[t])
<1>1. /\ ~sched.panic /\ t \in Live /\ t \notin Roots
  BY CallerFacts DEF Roots
<1>2. /\ ThreadState(sched) /\ Ticks(sched) /\ RunQueueConsistent(sched, {})
      /\ {} \in SUBSET (Threads \ {idle_thread})
      /\ all_list \in Seq(Threads) /\ Live \subseteq Threads
      /\ \A u, v \in Live : pid[u] \in pids /\ (pid[u] = pid[v] => u = v)
      /\ Parentage /\ sched.status \in [Threads -> Status]
  BY <1>1, InvFacts
<1>3. PICK p \in Live : pid[p] = parent_pid[t]
  BY <1>1, <1>2 DEF Parentage
<1>4. parent # {} /\ \A u \in parent : u \in Live /\ pid[u] = parent_pid[t] /\ u = p
  BY <1>2, <1>3, Pid2threadFacts
<1>5. parent_pid[t] # -1
  <2>1. pid[p] \in 1..MaxPid
    BY <1>2, <1>3 DEF IInv, TypeOK
  <2> QED BY <1>3, <2>1, WaitExitAssumption
<1>6. ASSERT(sched, parent_pid[t] # -1) = sched /\ ASSERT(sched, parent # {}) = sched
  BY <1>2, <1>4, <1>5, AssertFacts
<1>7. w = IF \E u \in parent : sched.status[u] = "WAITING"
          THEN thread_unblock(sched, CHOOSE u \in parent : TRUE) ELSE sched
  BY <1>6 DEF WakeParent
<1>8. (CHOOSE u \in parent : TRUE) = p /\ p \in parent
  BY <1>4
<1> HIDE DEF w, parent
<1>9. CASE sched.status[p] = "WAITING"
  <2>1. w = thread_unblock(sched, p)
    BY <1>7, <1>8, <1>9
  <2>2. p \in Threads /\ sched.status[p] \in Suspended
    BY <1>2, <1>9 DEF Suspended
  <2>3. /\ ThreadState(w) /\ Extends(sched, w) /\ ~w.panic
        /\ RunQueueConsistent(w, {})
        /\ w.status = [sched.status EXCEPT ![p] = "READY"]
        /\ w.cur = sched.cur /\ w.this_tick = sched.this_tick
    BY <1>1, <1>2, <2>1, <2>2, WakeFacts
  <2>4. Ticks(w)
    BY <1>2, <2>3 DEF Ticks
  <2>5. \A u \in Threads : (u \in Live /\ pid[u] = parent_pid[t]) <=> u = p
    BY <1>2, <1>3
  <2>6. \A u \in Threads :
          w.status[u] = IF /\ u \in Live /\ pid[u] = parent_pid[t]
                           /\ sched.status[u] = "WAITING"
                        THEN "READY" ELSE sched.status[u]
    BY <1>2, <1>9, <2>2, <2>3, <2>5
  <2> QED BY <2>3, <2>4, <2>6 DEF w
<1>10. CASE sched.status[p] # "WAITING"
  <2>1. w = sched
    BY <1>4, <1>7, <1>10
  <2>2. \A u \in Live : pid[u] = parent_pid[t] => u = p
    BY <1>2, <1>3
  <2> QED BY <1>1, <1>2, <1>10, <2>1, <2>2 DEF w, Extends
<1> QED BY <1>9, <1>10

(* int8_t *)
LEMMA ToInt8Type ==
  ASSUME NEW n \in Int
  PROVE  ToInt8(n) \in -128..127
<1>1. (n + 128) % 256 \in 0..255
  OBVIOUS
<1> QED BY <1>1 DEF ToInt8

(* sys_exit: the caller hangs, its children go to init and its parent, if  *)
(* it waits, is woken.                                                     *)
LEMMA ExitStep ==
  ASSUME IInv, NEW t \in Threads, NEW status \in Statuses, sys_exit(t, status)
  PROVE  IInv' /\ ~sched'.panic
<1> DEFINE w == WakeParent(ASSERT(sched, parent_pid[t] # -1), t)
<1>0. At(t, "user")
  BY DEF sys_exit
<1>1. /\ ~sched.panic /\ sched.cur = t /\ t \in Live /\ t \notin Roots
  BY <1>0, CallerFacts DEF Roots
<1>2. /\ DOMAIN sched = Fields
      /\ {} \in SUBSET (Threads \ {idle_thread})
      /\ all_list \in Seq(Threads) /\ NoDuplicates(all_list)
      /\ Live \subseteq Threads
      /\ \A u \in Threads : u \in Live <=> sched.status[u] # "DIED"
      /\ \A u, v \in Live : pid[u] \in pids /\ (pid[u] = pid[v] => u = v)
      /\ sched.status[idle_thread] \in {"RUNNING", "READY", "BLOCKED"}
      /\ sched.status \in [Threads -> Status]
      /\ Control /\ Parentage /\ WaitersChildless
      /\ pc \in [Threads -> PC]
  BY <1>1, InvFacts
<1>3. /\ ThreadState(w) /\ Extends(sched, w) /\ ~w.panic
      /\ RunQueueConsistent(w, {}) /\ Ticks(w) /\ w.cur = sched.cur
      /\ \A u \in Threads :
           w.status[u] = IF /\ u \in Live /\ pid[u] = parent_pid[t]
                            /\ sched.status[u] = "WAITING"
                         THEN "READY" ELSE sched.status[u]
  BY <1>0, WakeParentFacts
<1>4. /\ sched' = thread_block(w, "HANGING")
      /\ exit_status' = [exit_status EXCEPT ![t] = ToInt8(status)]
      /\ parent_pid' = Adopted(t)
      /\ pc' = [pc EXCEPT ![t] = "zombie"]
      /\ UNCHANGED <<all_list, pids, pid>>
  BY DEF sys_exit, Goto
<1> HIDE DEF w
<1>5. Suspends(w, sched', {}, "HANGING")
  <2>1. w.cur # idle_thread
    BY <1>1, <1>3 DEF Roots
  <2> QED BY <1>2, <1>3, <1>4, <2>1, ThreadBlockFacts DEF Suspended
<1>6. /\ ThreadState(sched') /\ ~sched'.panic /\ RunQueueConsistent(sched', {})
      /\ Ticks(sched') /\ DOMAIN sched' = Fields
  BY <1>2, <1>3, <1>5 DEF Suspends, Extends
<1>7. /\ sched'.status[t] = "HANGING"
      /\ \A u \in Threads \ {t, idle_thread} :
           /\ Runnable(w.status[u]) => Runnable(sched'.status[u])
           /\ ~Runnable(w.status[u]) => sched'.status[u] = w.status[u]
      /\ sched'.status[idle_thread] \in {"RUNNING", "READY", "BLOCKED"}
  BY <1>1, <1>3, <1>5 DEF Suspends, RunQueueConsistent, Roots
<1>8. Live' = Live
  BY <1>4 DEF Live
<1>9. /\ pc' \in [Threads -> PC] /\ pc'[t] = "zombie"
      /\ \A u \in Threads \ {t} : pc'[u] = pc[u]
  BY <1>2, <1>4 DEF PC
<1>10. /\ pids' \subseteq 1..MaxPid /\ pid' \in [Threads -> 0..MaxPid]
       /\ parent_pid' \in [Threads -> -1..MaxPid]
       /\ exit_status' \in [Threads -> -128..127]
  <2>1. ToInt8(status) \in -128..127
    BY ToInt8Type, WaitExitAssumption
  <2>2. parent_pid \in [Threads -> -1..MaxPid] /\ exit_status \in [Threads -> -128..127]
    BY DEF IInv, TypeOK
  <2>3. exit_status' \in [Threads -> -128..127]
    BY <1>4, <2>1, <2>2
  <2>4. 1 \in -1..MaxPid
    BY WaitExitAssumption
  <2>5. parent_pid' \in [Threads -> -1..MaxPid]
    BY <1>4, <2>2, <2>4 DEF Adopted
  <2> QED BY <1>4, <2>3, <2>5 DEF IInv, TypeOK
<1>11. Control'
  <2> DEFINE woken == {u \in Threads : /\ u \in Live /\ pid[u] = parent_pid[t]
                                       /\ sched.status[u] = "WAITING"}
             D == {t} \cup (woken \ {idle_thread})
  <2>1. t \notin woken
    <3>1. sched.status[t] = "RUNNING"
      BY <1>0, CallerFacts
    <3> QED BY <3>1
  <2>2. \A u \in woken \ {idle_thread} :
           Runnable(sched'.status[u]) /\ pc'[u] = pc[u] /\ pc[u] = "wait"
    <3>1. \A u \in woken \ {idle_thread} : pc[u] = "wait"
      BY <1>2 DEF Control, Runnable, Roots, PC
    <3>2. \A u \in woken \ {idle_thread} : Runnable(w.status[u])
      BY <1>3 DEF Runnable
    <3> QED BY <1>7, <1>9, <2>1, <3>1, <3>2
  <2>3. \A u \in Threads \ D : pc'[u] = pc[u]
    BY <1>9
  <2>4. \A u \in Threads \ (D \cup {idle_thread}) :
           /\ Runnable(sched.status[u]) => Runnable(sched'.status[u])
           /\ ~Runnable(sched.status[u]) => sched'.status[u] = sched.status[u]
    BY <1>3, <1>7
  <2>5. /\ idle_thread \notin D /\ D \in SUBSET Threads
        /\ \A u \in D : u = t \/ (Runnable(sched'.status[u]) /\ pc'[u] = "wait" /\ pc[u] = "wait")
    BY <1>1, <2>2 DEF Roots
  <2> HIDE DEF D, woken
  <2>6. /\ init \in D => pc'[init] = "wait"
        /\ main_thread \notin D
        /\ \A u \in D : pc'[u] \in {"wait", "zombie"}
        /\ \A u \in D : pc'[u] = "wait" => Runnable(sched'.status[u])
        /\ \A u \in D : pc'[u] = "zombie" => sched'.status[u] = "HANGING"
    BY <1>1, <1>2, <1>7, <1>9, <2>5 DEF Control, Roots
  <2> QED BY <1>2, <2>3, <2>4, <2>5, <2>6, ControlStep
<1>12. /\ \A u \in Threads : parent_pid'[u] = IF u \in Live /\ parent_pid[u] = pid[t]
                                              THEN 1 ELSE parent_pid[u]
       /\ pid[init] = 1 /\ init \in Live /\ init # t
  <2>1. parent_pid'  = [c \in Threads |-> IF elem_find(all_list, c) /\ parent_pid[c] = pid[t]
                                          THEN 1 ELSE parent_pid[c]]
    BY <1>4 DEF Adopted
  <2>2. init \in Threads \ {idle_thread} /\ sched.status[init] # "DIED"
    BY <1>2, WaitExitAssumption DEF Control, Runnable
  <2> QED BY <1>1, <1>2, <2>1, <2>2 DEF Live, Parentage, Roots
<1>13. Parentage'
  <2>1. \A u \in Roots : parent_pid'[u] = -1
    <3>1. pid[t] # -1
      BY <1>1, <1>2, WaitExitAssumption DEF IInv, TypeOK
    <3>2. \A u \in Roots : u \in Threads /\ parent_pid[u] = -1
      BY <1>2, WaitExitAssumption, ThreadAssumption DEF Roots, Parentage
    <3> QED BY <1>12, <3>1, <3>2
  <2>2. ASSUME NEW u \in Live \ Roots
        PROVE  \E p \in Live \ {main_thread, idle_thread} :
                 pid[p] = parent_pid'[u] /\ pc'[p] # "zombie"
    <3>1. CASE parent_pid[u] = pid[t]
      <4>1. parent_pid'[u] = 1
        BY <1>2, <1>12, <3>1
      <4>2. pc'[init] # "zombie"
        BY <1>2, <1>9, <1>12 DEF Control
      <4>3. init \in Live \ {main_thread, idle_thread}
        BY <1>12, WaitExitAssumption
      <4> QED BY <1>12, <4>1, <4>2, <4>3
    <3>2. CASE parent_pid[u] # pid[t]
      <4>1. PICK p \in Live \ {main_thread, idle_thread} :
              pid[p] = parent_pid[u] /\ pc[p] # "zombie"
        BY <1>2 DEF Parentage
      <4>2. p # t /\ p \in Threads
        BY <1>2, <3>2, <4>1
      <4>3. parent_pid'[u] = parent_pid[u] /\ pc'[p] = pc[p]
        BY <1>2, <1>9, <1>12, <3>2, <4>2
      <4> QED BY <4>1, <4>3
    <3> QED BY <3>1, <3>2
  <2> QED BY <1>4, <1>8, <1>12, <2>1, <2>2 DEF Parentage, Roots
<1>14. WaitersChildless'
  <2> SUFFICES ASSUME NEW u \in Live \ {init}, NEW v \in Live,
                      sched'.status[u] = "WAITING",
                      parent_pid'[v] = pid[u], sched'.status[v] = "HANGING"
               PROVE  FALSE
    BY <1>4, <1>8 DEF WaitersChildless
  <2>1. /\ u \in Threads /\ v \in Threads /\ u # t /\ u # idle_thread /\ v # idle_thread
    BY <1>2, <1>7
  <2>2. sched.status[u] = "WAITING" /\ pid[u] # parent_pid[t]
    BY <1>3, <1>7, <2>1 DEF Runnable
  <2>3. parent_pid'[v] = parent_pid[v]
    <3>1. pid[u] # 1
      BY <1>2, <1>12
    <3> QED BY <1>12, <2>1, <3>1
  <2>4. v # t
    BY <2>2, <2>3
  <2>5. sched.status[v] = "HANGING"
    BY <1>3, <1>7, <2>1, <2>4 DEF Runnable
  <2>6. WaitersChildless
    BY <1>2
  <2> QED BY <2>2, <2>3, <2>5, <2>6 DEF WaitersChildless
<1>15. \A u \in Threads : u \in Live' <=> sched'.status[u] # "DIED"
  <2>1. \A u \in Threads \ {t, idle_thread} : sched'.status[u] = "DIED" <=> sched.status[u] = "DIED"
    BY <1>3, <1>7 DEF Runnable
  <2> QED BY <1>1, <1>2, <1>7, <1>8, <2>1
<1>16. \A u, v \in Live' : pid'[u] \in pids' /\ (pid'[u] = pid'[v] => u = v)
  BY <1>2, <1>4, <1>8
<1> QED BY <1>2, <1>4, <1>6, <1>9, <1>10, <1>11, <1>13, <1>14, <1>15, <1>16, NextSound

-----------------------------------------------------------------------------
(* thread_init leaves IInv true. *)
LEMMA InitHolds ==
  ASSUME Init
  PROVE  IInv
<1> DEFINE booted == <<init, main_thread, idle_thread>>
<1>0. /\ init \in Threads /\ main_thread \in Threads /\ idle_thread \in Threads
      /\ init # main_thread /\ init # idle_thread /\ main_thread # idle_thread
      /\ MaxPid \in Nat /\ MaxPid >= 3
  BY WaitExitAssumption, ThreadAssumption
<1>1. /\ booted \in Seq(Threads) /\ Len(booted) = 3
      /\ booted[1] = init /\ booted[2] = main_thread /\ booted[3] = idle_thread
  BY <1>0
<1>2. /\ sched = [cur       |-> main_thread,
                  status    |-> [t \in Threads |->
                                   IF t = main_thread THEN "RUNNING"
                                   ELSE IF t \in {init, idle_thread} THEN "READY"
                                   ELSE "DIED"],
                  ready     |-> <<init, idle_thread>>,
                  this_tick |-> time_slice,
                  panic     |-> FALSE]
      /\ all_list = booted
      /\ pids = 1..3
      /\ pid = [t \in Threads |-> IF elem_find(booted, t)
                                  THEN CHOOSE i \in 1..3 : booted[i] = t
                                  ELSE 0]
      /\ parent_pid = [t \in Threads |-> -1]
      /\ exit_status = [t \in Threads |-> 0]
      /\ pc = [t \in Threads |-> CASE t = init -> "boot"
                                   [] t = main_thread -> "main"
                                   [] t = idle_thread -> "idle"
                                   [] OTHER -> "free"]
  BY DEF Init
<1> HIDE DEF booted
<1>3. \A t : elem_find(booted, t) <=> t \in Roots
  BY <1>1 DEF elem_find, Roots
<1>4. NoDuplicates(booted)
  BY <1>0, <1>1 DEF NoDuplicates
<1>5. /\ pid \in [Threads -> 0..MaxPid]
      /\ pid[init] = 1 /\ pid[main_thread] = 2 /\ pid[idle_thread] = 3
  <2>1. /\ (CHOOSE i \in 1..3 : booted[i] = init) = 1
        /\ (CHOOSE i \in 1..3 : booted[i] = main_thread) = 2
        /\ (CHOOSE i \in 1..3 : booted[i] = idle_thread) = 3
    BY <1>0, <1>1
  <2>2. pid[init] = 1 /\ pid[main_thread] = 2 /\ pid[idle_thread] = 3
    BY <1>0, <1>2, <1>3, <2>1 DEF Roots
  <2>3. \A t \in Threads \ Roots : pid[t] = 0
    BY <1>2, <1>3
  <2>4. \A t \in Threads : pid[t] \in 0..MaxPid
    <3>1. \A t \in Threads : pid[t] \in {0, 1, 2, 3}
      BY <2>2, <2>3 DEF Roots
    <3>2. {0, 1, 2, 3} \subseteq 0..MaxPid
      BY <1>0
    <3> QED BY <3>1, <3>2
  <2> QED BY <1>2, <2>2, <2>4
<1>6. pc \in [Threads -> PC]
  BY <1>2 DEF PC
<1>7. /\ pc[init] = "boot" /\ pc[main_thread] = "main" /\ pc[idle_thread] = "idle"
      /\ \A t \in Threads \ Roots : pc[t] = "free"
  BY <1>0, <1>2 DEF Roots
<1>8. /\ sched.status[main_thread] = "RUNNING"
      /\ sched.status[init] = "READY" /\ sched.status[idle_thread] = "READY"
      /\ \A t \in Threads \ Roots : sched.status[t] = "DIED"
      /\ sched.cur = main_thread /\ sched.panic = FALSE
      /\ sched.ready = <<init, idle_thread>> /\ sched.this_tick = time_slice
  BY <1>0, <1>2 DEF Roots
<1>9. /\ DOMAIN sched = Fields /\ sched = [f \in DOMAIN sched |-> sched[f]]
      /\ sched.status \in [Threads -> Status]
  BY <1>0, <1>2 DEF Fields, Status
<1>10. /\ sched.ready \in Seq(Threads)
       /\ \A t : elem_find(sched.ready, t) <=> t \in {init, idle_thread}
       /\ NoDuplicates(sched.ready)
  <2>1. /\ sched.ready \in Seq(Threads) /\ Len(sched.ready) = 2
        /\ sched.ready[1] = init /\ sched.ready[2] = idle_thread
    BY <1>0, <1>8
  <2> QED BY <1>0, <2>1 DEF elem_find, NoDuplicates
<1>11. ThreadState(sched) /\ Ticks(sched)
  <2>1. ThreadState(sched)
    BY <1>0, <1>8, <1>9, <1>10, ThreadAssumption DEF ThreadState, Fields
  <2>2. ASSUME NEW t \in Threads PROVE sched.this_tick[t] <= time_slice[t]
    <3>1. time_slice[t] \in Nat
      BY ThreadAssumption
    <3>2. sched.this_tick[t] = time_slice[t]
      BY <1>8
    <3> QED BY <3>1, <3>2
  <2> QED BY <2>1, <2>2 DEF Ticks
<1>12. RunQueueConsistent(sched, {})
  BY <1>0, <1>8, <1>10 DEF RunQueueConsistent, Roots
<1>13. \A t : t \in Live <=> t \in Roots
  BY <1>0, <1>2, <1>3 DEF Live, Roots
<1>14. TablesConsistent
  <2>1. \A t, u \in Live : pid[t] \in pids /\ (pid[t] = pid[u] => t = u)
    <3>1. pids = 1..3
      BY <1>2
    <3> QED BY <1>0, <1>5, <1>13, <3>1 DEF Roots
  <2>2. \A t \in Threads : t \in Live <=> sched.status[t] # "DIED"
    BY <1>8, <1>13 DEF Roots
  <2> QED BY <1>2, <1>4, <1>12, <2>1, <2>2 DEF TablesConsistent
<1>15. Control
  BY <1>0, <1>7, <1>8 DEF Control, Runnable, Roots
<1>16. Parentage
  <2>1. \A t \in Roots : parent_pid[t] = -1
    BY <1>0, <1>2 DEF Roots
  <2> QED BY <1>5, <1>13, <2>1 DEF Parentage
<1>17. NoLostWakeup
  BY <1>8, <1>13 DEF NoLostWakeup, Roots
<1>18. TypeOK
  <2>1. /\ pids \subseteq 1..MaxPid /\ parent_pid \in [Threads -> -1..MaxPid]
        /\ exit_status \in [Threads -> -128..127]
    BY <1>0, <1>2
  <2> QED BY <1>1, <1>2, <1>5, <1>6, <1>11, <2>1 DEF TypeOK, ThreadState, PC
<1> QED BY <1>8, <1>9, <1>11, <1>14, <1>15, <1>16, <1>17, <1>18 DEF IInv, Sound

(* Every step preserves IInv. *)
LEMMA NextHolds ==
  ASSUME IInv, [Next]_vars
  PROVE  IInv'
<1>1. ASSUME NEW t \in Threads, sys_fork(t) PROVE IInv'
  BY <1>1, ForkStep
<1>2. ASSUME NEW t \in Threads, sys_fork_fails(t) PROVE IInv'
  BY <1>2, ForkFailsStep
<1>3. ASSUME NEW t \in Threads, sys_wait(t) PROVE IInv'
  BY <1>3, SleepStep, ReapStep
<1>4. ASSUME NEW t \in Threads, NEW status \in Statuses, sys_exit(t, status) PROVE IInv'
  BY <1>4, ExitStep
<1>5. CASE MainExit
  BY <1>5, MainExitStep
<1>6. CASE IdleBlock
  BY <1>6, IdleBlockStep
<1>7. CASE Timer
  BY <1>7, TimerStep
<1>8. CASE UNCHANGED vars
  <2>1. Live' = Live /\ FreePids' = FreePids
    BY <1>8 DEF vars, Live, FreePids
  <2>2. NoLostWakeup' <=> NoLostWakeup
    <3>1. TypeOK /\ TypeOK'
      BY <1>8 DEF IInv, TypeOK, vars
    <3>2. WaitersChildless' <=> WaitersChildless
      BY <1>8, <2>1 DEF vars, WaitersChildless
    <3> QED BY <3>1, <3>2, WaitersForm, WaitersFormNext DEF TypeOK
  <2> QED BY <1>8, <2>1, <2>2 DEF vars, IInv, TypeOK, Sound, TablesConsistent, Control, Parentage
<1> QED BY <1>1, <1>2, <1>3, <1>4, <1>5, <1>6, <1>7, <1>8 DEF Next

(* IInv holds in every reachable state.                                    *)
LEMMA Inductive == Spec => []IInv
<1>1. Init => IInv
  BY InitHolds
<1>2. IInv /\ [Next]_vars => IInv'
  BY NextHolds
<1> QED BY <1>1, <1>2, PTL DEF Spec

(* Whatever programs do, the tables keep their types.                      *)
THEOREM WaitExitTypeCorrect == Spec => []TypeOK
<1>1. IInv => TypeOK
  BY DEF IInv
<1> QED BY <1>1, Inductive, PTL

(* The kernel can panic in fork, exit and wait only because the pid pool   *)
(* has run dry, for every number of tasks: every other ASSERT on the way   *)
(* (the parent of a process that exits is found, no task is linked twice,  *)
(* only suspended threads are woken) holds.                                *)
THEOREM OnlyPidsRunOut == Spec => [](sched.panic => FreePids = {})
<1>1. IInv => (sched.panic => FreePids = {})
  BY DEF IInv
<1> QED BY <1>1, Inductive, PTL

-----------------------------------------------------------------------------
(* The pid pool *)

(* A pid more for a task more, a pid less for a task less.                 *)
LEMMA CountFacts ==
  ASSUME NEW S, IsFiniteSet(S), NEW T, IsFiniteSet(T), Cardinality(S) <= Cardinality(T)
  PROVE  /\ \A x, y : y \notin T => Cardinality(S \cup {x}) <= Cardinality(T \cup {y})
         /\ \A x, y : x \in S => Cardinality(S \ {x}) <= Cardinality(T \ {y})
<1>1. Cardinality(S) \in Nat /\ Cardinality(T) \in Nat
  BY FS_CardinalityType
<1>2. ASSUME NEW x, NEW y, y \notin T
      PROVE  Cardinality(S \cup {x}) <= Cardinality(T \cup {y})
  <2>1. Cardinality(S \cup {x}) = IF x \in S THEN Cardinality(S) ELSE Cardinality(S) + 1
    BY FS_AddElement
  <2>2. Cardinality(T \cup {y}) = Cardinality(T) + 1
    BY <1>2, FS_AddElement
  <2> QED BY <1>1, <2>1, <2>2
<1>3. ASSUME NEW x, NEW y, x \in S
      PROVE  Cardinality(S \ {x}) <= Cardinality(T \ {y})
  <2>1. Cardinality(S \ {x}) = Cardinality(S) - 1
    BY <1>3, FS_RemoveElement
  <2>2. Cardinality(T \ {y}) = IF y \in T THEN Cardinality(T) - 1 ELSE Cardinality(T)
    BY FS_RemoveElement
  <2> QED BY <1>1, <2>1, <2>2
<1> QED BY <1>2, <1>3

(* A free page for a task_struct means a free pid.                         *)
LEMMA PidLeft ==
  ASSUME PidsSuffice, IInv, Counting, NEW c \in Threads, pc[c] = "free"
  PROVE  FreePids # {}
<1> SUFFICES ASSUME FreePids = {}
             PROVE  FALSE
  OBVIOUS
<1>1. pids = 1..MaxPid
  BY DEF IInv, TypeOK, FreePids
<1>2. Cardinality(pids) = MaxPid
  BY <1>1, FS_Interval, WaitExitAssumption
<1>3. Holders \in SUBSET (Threads \ {c})
  BY DEF Holders
<1>4. IsFiniteSet(Threads \ {c}) /\ Cardinality(Threads \ {c}) = Cardinality(Threads) - 1
  BY FS_RemoveElement DEF PidsSuffice
<1>5. Cardinality(Holders) <= Cardinality(Threads \ {c})
  BY <1>3, <1>4, FS_Subset
<1>6. Cardinality(Holders) \in Nat /\ Cardinality(Threads) \in Nat
  BY <1>3, <1>4, FS_Subset, FS_CardinalityType DEF PidsSuffice
<1> QED BY <1>2, <1>4, <1>5, <1>6, WaitExitAssumption DEF PidsSuffice, Counting

(* The first three tasks have the first three pids.                        *)
LEMMA InitCounts ==
  ASSUME Init
  PROVE  Counting
<1>1. IInv /\ pids = 1..3
  BY InitHolds DEF Init
<1>2. Holders = ({init} \cup {main_thread}) \cup {idle_thread}
  BY WaitExitAssumption, ThreadAssumption DEF Holders, Init
<1>3. /\ IsFiniteSet({init}) /\ Cardinality({init}) = 1
      /\ main_thread \notin {init} /\ idle_thread \notin {init} \cup {main_thread}
  BY FS_Singleton, WaitExitAssumption
<1>4. /\ IsFiniteSet({init} \cup {main_thread})
      /\ Cardinality({init} \cup {main_thread}) = 2
  BY <1>3, FS_AddElement
<1>5. Cardinality(({init} \cup {main_thread}) \cup {idle_thread}) = 3
  <2>1. PICK two : two = {init} \cup {main_thread}
    OBVIOUS
  <2>2. IsFiniteSet(two) /\ Cardinality(two) = 2 /\ idle_thread \notin two
    BY <1>3, <1>4, <2>1
  <2>3. Cardinality(two \cup {idle_thread}) = Cardinality(two) + 1
    BY ONLY <2>2, FS_AddElement
  <2> QED BY ONLY <2>1, <2>2, <2>3
<1>6. Cardinality(1..3) = 3
  <2>1. \A n \in Nat : Cardinality(1..n) = n
    BY FS_Interval
  <2>2. 3 \in Nat
    OBVIOUS
  <2> QED BY <2>1, <2>2, Zenon
<1> QED BY <1>1, <1>2, <1>5, <1>6 DEF Counting

(* Every step preserves Counting, and none panics.                         *)
LEMMA CountingStep ==
  ASSUME PidsSuffice, IInv, Counting, NoPanic, [Next]_vars
  PROVE  Counting' /\ NoPanic'
<1>1. /\ IsFiniteSet(pids) /\ IsFiniteSet(Holders)
      /\ Cardinality(pids) <= Cardinality(Holders)
      /\ pc \in [Threads -> PC] /\ ~sched.panic
  <2>1. IsFiniteSet(1..MaxPid)
    BY FS_Interval, WaitExitAssumption
  <2>2. pids \in SUBSET (1..MaxPid) /\ Holders \in SUBSET Threads
    BY DEF IInv, TypeOK, Holders
  <2> QED BY <2>1, <2>2, FS_Subset DEF PidsSuffice, Counting, IInv, TypeOK, PC, NoPanic
<1>2. /\ \A x, y : y \notin Holders =>
           Cardinality(pids \cup {x}) <= Cardinality(Holders \cup {y})
      /\ \A x, y : x \in pids =>
           Cardinality(pids \ {x}) <= Cardinality(Holders \ {y})
  BY <1>1, CountFacts
<1>3. ASSUME NEW t \in Threads, sys_fork(t) \/ sys_fork_fails(t)
      PROVE  Counting' /\ NoPanic'
  <2>1. PICK c \in Threads :
          /\ pc[c] = "free" /\ pids' = pids \cup {allocate_pid}
          /\ \E label \in {"user", "lost"} :
               pc' = [pc EXCEPT ![c] = label, ![t] = Home(t)]
    BY <1>3 DEF sys_fork, sys_fork_fails
  <2>2. pc[t] \in {"user", "boot"}
    BY <1>3 DEF sys_fork, sys_fork_fails, At
  <2>3. c \notin Holders /\ Holders' = Holders \cup {c}
    BY <1>1, <2>1, <2>2 DEF Holders, Home
  <2>4. NoPanic'
    BY <1>3, <2>1, PidLeft, ForkStep, ForkFailsStep DEF NoPanic
  <2> QED BY <1>2, <2>1, <2>3, <2>4 DEF Counting
<1>4. ASSUME Holders' = Holders, pids' = pids
      PROVE  Counting'
  BY <1>1, <1>4 DEF Counting
<1>5. ASSUME NEW t \in Threads, sys_wait(t)
      PROVE  Counting' /\ NoPanic'
  <2>0. pc[t] \in {"user", "reap", "wait"} /\ (At(t, "user") \/ At(t, "reap") \/ At(t, "wait"))
    BY <1>5 DEF sys_wait, At, Home
  <2>1. CASE find_hanging_child(pid[t]) = {}
    <3>1. pids' = pids /\ \E label \in {Home(t), "wait"} : pc' = [pc EXCEPT ![t] = label]
      BY <1>5, <2>1 DEF sys_wait, Goto
    <3>2. Holders' = Holders
      BY <1>1, <2>0, <3>1 DEF Holders, Home
    <3> QED BY <1>4, <1>5, <2>1, <3>1, <3>2, SleepStep DEF NoPanic
  <2>2. CASE find_hanging_child(pid[t]) # {}
    <3>1. PICK c \in find_hanging_child(pid[t]) : Reap(t, c)
      BY <1>5, <2>2 DEF sys_wait
    <3>2. /\ c \in Live /\ pid[c] \in pids /\ c \in Threads
          /\ sched.status[c] = "HANGING" /\ sched.status[t] = "RUNNING"
      <4>1. /\ all_list \in Seq(Threads) /\ Live \subseteq Threads
            /\ \A u, v \in Live : pid[u] \in pids /\ (pid[u] = pid[v] => u = v)
        BY <1>1, InvFacts
      <4> QED BY <2>0, <3>1, <4>1, FindHangingFacts, CallerFacts
    <3>3. pids' = pids \ {pid[c]} /\ pc' = [pc EXCEPT ![c] = "free", ![t] = Home(t)]
      BY <3>1 DEF Reap
    <3>4. Holders' = Holders \ {c}
      BY <1>1, <2>0, <3>2, <3>3 DEF Holders, Home
    <3> QED BY <1>2, <1>5, <2>2, <3>2, <3>3, <3>4, ReapStep DEF Counting, NoPanic
  <2> QED BY <2>1, <2>2
<1>6. ASSUME NEW t \in Threads, NEW status \in Statuses, sys_exit(t, status)
      PROVE  Counting' /\ NoPanic'
  <2>1. pids' = pids /\ pc' = [pc EXCEPT ![t] = "zombie"] /\ pc[t] = "user"
    BY <1>6 DEF sys_exit, Goto, At
  <2>2. Holders' = Holders
    BY <1>1, <2>1 DEF Holders
  <2> QED BY <1>4, <1>6, <2>1, <2>2, ExitStep DEF NoPanic
<1>7. CASE MainExit
  <2>1. /\ pids' = pids \ {pid[main_thread]}
        /\ pc' = [pc EXCEPT ![main_thread] = "gone"] /\ pc[main_thread] = "main"
        /\ main_thread \in Threads
    BY <1>7, WaitExitAssumption DEF MainExit, Goto, At
  <2>2. pid[main_thread] \in pids
    <3>1. sched.status[main_thread] = "RUNNING"
      BY <1>1, <1>7, InvFacts, WaitExitAssumption DEF MainExit, At
    <3> QED BY <1>1, <3>1, InvFacts, WaitExitAssumption
  <2>3. Holders' = Holders \ {main_thread}
    BY <1>1, <2>1 DEF Holders
  <2> QED BY <1>2, <1>7, <2>1, <2>2, <2>3, MainExitStep DEF Counting, NoPanic
<1>8. CASE IdleBlock
  <2>1. pids' = pids /\ pc' = [pc EXCEPT ![idle_thread] = "halt"] /\ pc[idle_thread] = "idle"
    BY <1>8 DEF IdleBlock, Goto, At
  <2>2. Holders' = Holders
    BY <1>1, <2>1, ThreadAssumption DEF Holders
  <2> QED BY <1>4, <1>8, <2>1, <2>2, IdleBlockStep DEF NoPanic
<1>9. CASE Timer
  <2>1. pids' = pids /\ \A u \in Threads :
          pc'[u] = IF u = sched.cur /\ pc[u] = "halt" THEN "idle" ELSE pc[u]
    BY <1>1, <1>9 DEF Timer
  <2>2. Holders' = Holders
    BY <1>1, <2>1 DEF Holders
  <2> QED BY <1>4, <1>9, <2>1, <2>2, TimerStep DEF NoPanic
<1>10. CASE UNCHANGED vars
  BY <1>1, <1>10 DEF vars, Counting, Holders, NoPanic
<1> QED BY <1>3, <1>5, <1>6, <1>7, <1>8, <1>9, <1>10 DEF Next

(* The pids suffice for the tasks, and fork, exit and wait never panic.    *)
LEMMA PidsLast ==
  ASSUME PidsSuffice
  PROVE  Spec => [](IInv /\ Counting /\ NoPanic)
<1>1. Init => Counting /\ NoPanic
  BY InitCounts DEF NoPanic, Init
<1>2. (IInv /\ Counting /\ NoPanic) /\ [Next]_vars => (Counting /\ NoPanic)'
  BY CountingStep
<1> QED BY <1>1, <1>2, Inductive, PTL DEF Spec

(* No ASSERT or PANIC is reached as long as there are at most as many      *)
(* task_structs as pids.                                                   *)
THEOREM WaitExitPanicFree ==
  ASSUME PidsSuffice
  PROVE  Spec => []NoPanic
BY PidsLast, PTL

(* The run queue and thread_all_list agree with the thread table, and live *)
(* tasks have pids of their own that are marked in the bitmap.             *)
THEOREM TablesAgree ==
  ASSUME PidsSuffice
  PROVE  Spec => []TablesConsistent
<1>1. IInv /\ NoPanic => TablesConsistent
  BY DEF IInv, NoPanic, Sound
<1> QED BY <1>1, PidsLast, PTL

(* A process other than init never sleeps in sys_wait while one of its     *)
(* children hangs.                                                         *)
THEOREM WaitersWoken ==
  ASSUME PidsSuffice
  PROVE  Spec => []NoLostWakeup
<1>1. IInv /\ NoPanic => NoLostWakeup
  BY DEF IInv, NoPanic, Sound
<1> QED BY <1>1, PidsLast, PTL

-----------------------------------------------------------------------------
(* Refinement of module Family *)

(* The process tree says what parent_pid says.                             *)
LEMMA ParentsFacts ==
  "none" \notin Threads /\ IInv /\ NoPanic =>
    /\ DOMAIN Parents = Live /\ Parents = [t \in Live |-> Parents[t]]
    /\ \A t \in Live \cap Roots : Parents[t] = "none"
    /\ \A t \in Live \ Roots : /\ Parents[t] \in Live \ {main_thread, idle_thread}
                              /\ pid[Parents[t]] = parent_pid[t]
                              /\ pc[Parents[t]] # "zombie"
    /\ \A t \in Live \ Roots, p \in Live : pid[p] = parent_pid[t] => Parents[t] = p
<1> SUFFICES ASSUME "none" \notin Threads, IInv, NoPanic
             PROVE  /\ DOMAIN Parents = Live /\ Parents = [t \in Live |-> Parents[t]]
                    /\ \A t \in Live \cap Roots : Parents[t] = "none"
                    /\ \A t \in Live \ Roots :
                         /\ Parents[t] \in Live \ {main_thread, idle_thread}
                         /\ pid[Parents[t]] = parent_pid[t]
                         /\ pc[Parents[t]] # "zombie"
                    /\ \A t \in Live \ Roots, p \in Live :
                         pid[p] = parent_pid[t] => Parents[t] = p
  OBVIOUS
<1>1. /\ all_list \in Seq(Threads) /\ Live \subseteq Threads
      /\ \A t, u \in Live : pid[t] \in pids /\ (pid[t] = pid[u] => t = u)
      /\ Parentage
  BY InvFacts DEF NoPanic
<1>2. DOMAIN Parents = Live /\ Parents = [t \in Live |-> Parents[t]]
  BY DEF Parents
<1>3. \A t \in Live \cap Roots : Parents[t] = "none"
  BY <1>1 DEF Parents, Parentage
<1>4. ASSUME NEW t \in Live \ Roots
      PROVE  /\ Parents[t] \in Live \ {main_thread, idle_thread}
             /\ pid[Parents[t]] = parent_pid[t]
             /\ pc[Parents[t]] # "zombie"
             /\ \A p \in Live : pid[p] = parent_pid[t] => Parents[t] = p
  <2>1. PICK p \in Live \ {main_thread, idle_thread} :
          pid[p] = parent_pid[t] /\ pc[p] # "zombie"
    BY <1>1 DEF Parentage
  <2>2. parent_pid[t] # -1
    <3>1. pid[p] \in 1..MaxPid
      BY <1>1, <2>1 DEF IInv, TypeOK
    <3> QED BY <2>1, <3>1, WaitExitAssumption
  <2>3. /\ pid2thread(parent_pid[t]) # {}
        /\ \A u \in pid2thread(parent_pid[t]) : u = p
    BY <1>1, <2>1, Pid2threadFacts
  <2>4. Parents[t] = CHOOSE u \in pid2thread(parent_pid[t]) : TRUE
    BY <2>2 DEF Parents
  <2>5. Parents[t] = p
    BY <2>3, <2>4
  <2> QED BY <1>1, <2>1, <2>5
<1> QED BY <1>2, <1>3, <1>4

(* The processes that hang are those suspended in sys_exit.                *)
LEMMA ZombiesFacts ==
  IInv /\ NoPanic => Zombies = [t \in {u \in Live : pc[u] = "zombie"} |-> exit_status[t]]
<1> SUFFICES ASSUME IInv, NoPanic
             PROVE  {u \in Live : sched.status[u] = "HANGING"} = {u \in Live : pc[u] = "zombie"}
  BY DEF Zombies
<1>1. /\ Live \subseteq Threads /\ Control
      /\ \A t \in Threads : sched.status[t] = "HANGING" => pc[t] = "zombie" /\ t \notin Roots
  BY InvFacts DEF NoPanic
<1>2. \A t \in Threads : pc[t] = "zombie" => t # idle_thread
  BY <1>1 DEF Control
<1> QED BY <1>1, <1>2 DEF Control

(* Both hold of the next state as well.                                    *)
LEMMA NextParents ==
  "none" \notin Threads /\ IInv' /\ NoPanic' =>
    /\ DOMAIN Parents' = Live' /\ Parents' = [t \in Live' |-> Parents'[t]]
    /\ \A t \in Live' \cap Roots : Parents'[t] = "none"
    /\ \A t \in Live' \ Roots, p \in Live' : pid'[p] = parent_pid'[t] => Parents'[t] = p
    /\ Zombies' = [t \in {u \in Live' : pc'[u] = "zombie"} |-> exit_status'[t]]
<1>1. ("none" \notin Threads /\ IInv /\ NoPanic =>
         /\ DOMAIN Parents = Live /\ Parents = [t \in Live |-> Parents[t]]
         /\ \A t \in Live \cap Roots : Parents[t] = "none"
         /\ \A t \in Live \ Roots : /\ Parents[t] \in Live \ {main_thread, idle_thread}
                                   /\ pid[Parents[t]] = parent_pid[t]
                                   /\ pc[Parents[t]] # "zombie"
         /\ \A t \in Live \ Roots, p \in Live : pid[p] = parent_pid[t] => Parents[t] = p)'
  BY ParentsFacts, PTL
<1>2. (IInv /\ NoPanic =>
         Zombies = [t \in {u \in Live : pc[u] = "zombie"} |-> exit_status[t]])'
  BY ZombiesFacts, PTL
<1> QED BY <1>1, <1>2 DEF Roots

(* A process that runs and is neither main nor idle.                       *)
LEMMA CallerAlive ==
  ASSUME "none" \notin Threads, IInv, NEW t \in Threads,
         \/ At(t, "user") \/ At(t, "boot") \/ At(t, "reap") \/ At(t, "wait")
  PROVE  t \in F!Alive /\ NoPanic
<1>1. NoPanic /\ t \in Live /\ pc[t] # "zombie"
  BY CallerFacts DEF NoPanic, At
<1>2. DOMAIN Parents = Live /\ DOMAIN Zombies = {u \in Live : pc[u] = "zombie"}
  BY <1>1, ParentsFacts, ZombiesFacts
<1> QED BY <1>1, <1>2 DEF F!Alive

(* A step that leaves thread_all_list, the pids and the parents alone and  *)
(* suspends nobody in sys_exit does not change the process tree.           *)
LEMMA Stutters ==
  ASSUME "none" \notin Threads, IInv, NoPanic, IInv', NoPanic',
         UNCHANGED <<all_list, pid, parent_pid, exit_status>>,
         \A u \in Threads : pc'[u] = "zombie" <=> pc[u] = "zombie"
  PROVE  UNCHANGED F!vars
<1>1. Live' = Live /\ Live \subseteq Threads
  BY DEF Live
<1>2. Parents' = Parents
  BY <1>1 DEF Parents, pid2thread, list_traversal
<1>3. {u \in Live' : pc'[u] = "zombie"} = {u \in Live : pc[u] = "zombie"}
  BY <1>1
<1>4. Zombies' = Zombies
  BY <1>3, ZombiesFacts, NextParents
<1> QED BY <1>2, <1>4 DEF F!vars

(* sys_fork adds a process whose parent is the caller.                     *)
LEMMA ForkMaps ==
  ASSUME "none" \notin Threads, IInv, NoPanic, IInv', NoPanic',
         NEW t \in Threads, sys_fork(t)
  PROVE  \E c \in Threads : F!Fork(t, c)
<1>1. /\ t \in F!Alive /\ t \in Live /\ t \notin {main_thread, idle_thread}
      /\ sched.status[t] = "RUNNING" /\ t \in Live
  BY CallerAlive, CallerFacts DEF sys_fork
<1>2. /\ all_list \in Seq(Threads) /\ NoDuplicates(all_list)
      /\ Live \subseteq Threads
      /\ \A u \in Threads : u \in Live <=> sched.status[u] # "DIED"
      /\ Control /\ pc \in [Threads -> PC]
  BY InvFacts DEF NoPanic
<1>3. pid \in [Threads -> 0..MaxPid] /\ parent_pid \in [Threads -> -1..MaxPid]
      /\ exit_status \in [Threads -> -128..127]
  BY DEF IInv, TypeOK
<1>4. PICK c \in Threads :
        /\ pc[c] = "free"
        /\ pid' = [pid EXCEPT ![c] = allocate_pid]
        /\ parent_pid' = [parent_pid EXCEPT ![c] = pid[t]]
        /\ exit_status' = [exit_status EXCEPT ![c] = exit_status[t]]
        /\ all_list' = Append(all_list, c)
        /\ pc' = [pc EXCEPT ![c] = "user", ![t] = Home(t)]
  BY DEF sys_fork
<1>5. c \notin Live /\ c # t /\ c \notin Roots
  <2>1. c \notin Roots
    BY <1>2, <1>4 DEF Control, Roots
  <2>2. sched.status[c] = "DIED"
    BY <1>2, <1>4, <2>1 DEF Control, Roots
  <2> QED BY <1>1, <1>2, <2>1, <2>2
<1>6. Live' = Live \cup {c}
  <2>1. \A x : elem_find(all_list', x) <=> elem_find(all_list, x) \/ x = c
    BY <1>2, <1>4, AppendFacts
  <2> QED BY <2>1 DEF Live
<1>7. /\ \A u \in Threads \ {c} : /\ pid'[u] = pid[u] /\ parent_pid'[u] = parent_pid[u]
                                  /\ exit_status'[u] = exit_status[u]
      /\ parent_pid'[c] = pid[t]
      /\ \A u \in Live : pc'[u] = "zombie" <=> pc[u] = "zombie"
      /\ pc'[c] # "zombie"
  <2>1. pc[t] # "zombie" /\ Home(t) # "zombie"
    BY <1>1 DEF F!Alive, sys_fork, At, Home
  <2> QED BY <1>2, <1>3, <1>4, <1>5, <2>1
<1>8. DOMAIN Parents = Live /\ Parents = [u \in Live |-> Parents[u]]
  BY ParentsFacts
<1>9. Parents' = F!Put(Parents, c, t)
  <2>1. DOMAIN Parents' = Live \cup {c}
        /\ Parents' = [u \in Live \cup {c} |-> Parents'[u]]
    BY <1>6, NextParents
  <2>2. Parents'[c] = t
    BY <1>1, <1>5, <1>6, <1>7, NextParents
  <2>3. \A u \in Live : Parents'[u] = Parents[u]
    <3>1. \A u \in Live \cap Roots : Parents'[u] = Parents[u]
      BY <1>6, ParentsFacts, NextParents
    <3>2. ASSUME NEW u \in Live \ Roots PROVE Parents'[u] = Parents[u]
      <4>1. Parents[u] \in Live /\ pid[Parents[u]] = parent_pid[u]
        BY ParentsFacts
      <4>2. pid'[Parents[u]] = parent_pid'[u]
        BY <1>2, <1>5, <1>7, <4>1
      <4> QED BY <1>6, <4>1, <4>2, NextParents
    <3> QED BY <3>1, <3>2
  <2> QED BY <1>5, <1>8, <2>1, <2>2, <2>3 DEF F!Put
<1>10. Zombies' = Zombies
  <2>1. {u \in Live' : pc'[u] = "zombie"} = {u \in Live : pc[u] = "zombie"}
    BY <1>6, <1>7
  <2>2. \A u \in Live : exit_status'[u] = exit_status[u]
    BY <1>2, <1>5, <1>7
  <2> QED BY <2>1, <2>2, ZombiesFacts, NextParents
<1> QED BY <1>1, <1>5, <1>8, <1>9, <1>10 DEF F!Fork

(* sys_exit leaves the status of the caller as an int8_t behind, and its   *)
(* children to init.                                                       *)
LEMMA ExitMaps ==
  ASSUME "none" \notin Threads, IInv, NoPanic, IInv', NoPanic',
         NEW t \in Threads, NEW status \in Statuses, sys_exit(t, status)
  PROVE  F!Exit(t, ToInt8(status))
<1>1. /\ t \in F!Alive /\ t \in Live /\ t \notin Roots /\ pc[t] = "user"
  BY CallerAlive, CallerFacts DEF sys_exit, At, Roots
<1>2. /\ Live \subseteq Threads /\ Control /\ Parentage /\ pc \in [Threads -> PC]
      /\ \A u \in Threads : u \in Live <=> sched.status[u] # "DIED"
      /\ \A u, v \in Live : pid[u] = pid[v] => u = v
  BY InvFacts DEF NoPanic
<1>3. exit_status \in [Threads -> -128..127] /\ pid \in [Threads -> 0..MaxPid]
  BY DEF IInv, TypeOK
<1>4. /\ exit_status' = [exit_status EXCEPT ![t] = ToInt8(status)]
      /\ parent_pid' = Adopted(t)
      /\ pc' = [pc EXCEPT ![t] = "zombie"]
      /\ UNCHANGED <<all_list, pids, pid>>
  BY DEF sys_exit, Goto
<1>5. Live' = Live
  BY <1>4 DEF Live
<1>6. \A u \in Live : parent_pid'[u] = IF parent_pid[u] = pid[t] THEN 1 ELSE parent_pid[u]
  BY <1>2, <1>4 DEF Adopted, Live
<1>7. /\ DOMAIN Parents = Live /\ DOMAIN Parents' = Live
      /\ Parents' = [u \in Live |-> Parents'[u]]
      /\ \A u \in Live \cap Roots : Parents[u] = "none" /\ Parents'[u] = "none"
      /\ \A u \in Live \ Roots : Parents[u] \in Live /\ pid[Parents[u]] = parent_pid[u]
      /\ \A u \in Live \ Roots, p \in Live : pid[p] = parent_pid[u] => Parents[u] = p
      /\ \A u \in Live \ Roots, p \in Live : pid[p] = parent_pid'[u] => Parents'[u] = p
  BY <1>4, <1>5, ParentsFacts, NextParents
<1>8. pid[init] = 1 /\ init \in Live
  <2>1. init \in Threads \ {idle_thread} /\ sched.status[init] # "DIED"
    BY <1>2, WaitExitAssumption DEF Control, Runnable
  <2> QED BY <1>2, <2>1 DEF Parentage
<1>9. \A u \in Live : Parents'[u] = IF Parents[u] = t THEN init ELSE Parents[u]
  <2>1. \A u \in Live \cap Roots : Parents[u] # t
    BY <1>7
  <2>2. ASSUME NEW u \in Live \ Roots
        PROVE  Parents'[u] = IF Parents[u] = t THEN init ELSE Parents[u]
    <3>1. CASE parent_pid[u] = pid[t]
      BY <1>1, <1>6, <1>7, <1>8, <3>1
    <3>2. CASE parent_pid[u] # pid[t]
      BY <1>6, <1>7, <3>2
    <3> QED BY <3>1, <3>2
  <2> QED BY <1>7, <2>1, <2>2
<1>10. Parents' = [u \in DOMAIN Parents |-> IF Parents[u] = t THEN init ELSE Parents[u]]
  BY <1>7, <1>9
<1>11. Zombies' = F!Put(Zombies, t, ToInt8(status))
  <2> DEFINE Z == {u \in Live : pc[u] = "zombie"}
  <2>1. {u \in Live' : pc'[u] = "zombie"} = Z \cup {t}
    BY <1>1, <1>2, <1>4, <1>5
  <2>2. /\ exit_status'[t] = ToInt8(status)
        /\ \A u \in Z : u # t /\ exit_status'[u] = exit_status[u]
    BY <1>1, <1>2, <1>3, <1>4
  <2>3. Zombies = [u \in Z |-> exit_status[u]]
    BY ZombiesFacts
  <2>4. Zombies' = [u \in Z \cup {t} |-> exit_status'[u]]
    BY <2>1, NextParents
  <2> HIDE DEF Z
  <2> QED BY <2>2, <2>3, <2>4 DEF F!Put
<1> QED BY <1>1, <1>10, <1>11 DEF F!Exit, Roots

(* sys_wait with a child that hangs takes its status and removes it.       *)
LEMMA ReapMaps ==
  ASSUME "none" \notin Threads, IInv, NoPanic, IInv', NoPanic',
         NEW t \in Threads, sys_wait(t), find_hanging_child(pid[t]) # {}
  PROVE  \E c \in Threads : F!Wait(t, c)
<1>0. At(t, "user") \/ At(t, "reap") \/ At(t, "wait")
  BY DEF sys_wait, Home
<1>1. t \in F!Alive /\ t \in Live /\ pc[t] # "zombie"
  BY <1>0, CallerAlive, CallerFacts DEF At
<1>2. /\ all_list \in Seq(Threads) /\ NoDuplicates(all_list)
      /\ Live \subseteq Threads /\ pc \in [Threads -> PC]
      /\ \A u \in Threads : sched.status[u] = "HANGING" => pc[u] = "zombie" /\ u \notin Roots
  BY InvFacts DEF NoPanic
<1>3. PICK c \in find_hanging_child(pid[t]) : Reap(t, c)
  BY DEF sys_wait
<1>4. /\ c \in Live /\ parent_pid[c] = pid[t] /\ sched.status[c] = "HANGING"
      /\ c \in Threads /\ pc[c] = "zombie" /\ c \notin Roots /\ c # t
  BY <1>1, <1>2, <1>3, FindHangingFacts
<1>5. /\ all_list' = list_remove(all_list, c)
      /\ pc' = [pc EXCEPT ![c] = "free", ![t] = Home(t)]
      /\ UNCHANGED <<pid, parent_pid, exit_status>>
  BY <1>3 DEF Reap, sys_wait
<1>6. Live' = Live \ {c}
  <2>1. \A x : elem_find(all_list', x) <=> elem_find(all_list, x) /\ x # c
    BY <1>2, <1>4, <1>5, RemoveFacts DEF Live
  <2> QED BY <2>1 DEF Live
<1>7. DOMAIN Parents = Live /\ Parents[c] = t
  BY <1>1, <1>4, ParentsFacts
<1>8. Parents' = F!Remove(Parents, c)
  <2>1. Parents' = [u \in Live \ {c} |-> Parents'[u]]
    BY <1>6, NextParents
  <2>2. \A u \in (Live \ {c}) \cap Roots : Parents'[u] = Parents[u]
    BY <1>6, ParentsFacts, NextParents
  <2>3. ASSUME NEW u \in (Live \ {c}) \ Roots PROVE Parents'[u] = Parents[u]
    <3>1. Parents[u] \in Live /\ pid[Parents[u]] = parent_pid[u] /\ pc[Parents[u]] # "zombie"
      BY ParentsFacts
    <3>2. Parents[u] \in Live \ {c}
      BY <1>4, <3>1
    <3> QED BY <1>5, <1>6, <3>1, <3>2, NextParents
  <2> QED BY <1>7, <2>1, <2>2, <2>3 DEF F!Remove
<1>9. c \in DOMAIN Zombies /\ Zombies' = F!Remove(Zombies, c)
  <2> DEFINE Z == {u \in Live : pc[u] = "zombie"}
  <2>1. {u \in Live' : pc'[u] = "zombie"} = Z \ {c}
    BY <1>1, <1>2, <1>4, <1>5, <1>6 DEF Home
  <2>2. Zombies = [u \in Z |-> exit_status[u]]
    BY ZombiesFacts
  <2>3. Zombies' = [u \in Z \ {c} |-> exit_status[u]]
    BY <1>5, <2>1, NextParents
  <2>4. c \in Z
    BY <1>4
  <2> HIDE DEF Z
  <2> QED BY <2>2, <2>3, <2>4 DEF F!Remove
<1> QED BY <1>1, <1>4, <1>7, <1>8, <1>9 DEF F!Wait

(* The boot thread leaves; it has no children.                             *)
LEMMA LeaveMaps ==
  ASSUME "none" \notin Threads, IInv, NoPanic, IInv', NoPanic', MainExit
  PROVE  F!Leave(main_thread)
<1>1. /\ main_thread \in Threads /\ main_thread # init /\ pc[main_thread] = "main"
      /\ main_thread # idle_thread
  BY WaitExitAssumption DEF MainExit, At
<1>2. /\ all_list \in Seq(Threads) /\ NoDuplicates(all_list)
      /\ Live \subseteq Threads /\ pc \in [Threads -> PC] /\ Control
      /\ \A u \in Threads : u \in Live <=> sched.status[u] # "DIED"
  BY InvFacts DEF NoPanic
<1>3. main_thread \in Live
  BY <1>1, <1>2 DEF Control, Runnable
<1>4. /\ all_list' = list_remove(all_list, main_thread)
      /\ pc' = [pc EXCEPT ![main_thread] = "gone"]
      /\ UNCHANGED <<pid, parent_pid, exit_status>>
  BY DEF MainExit, Goto
<1>5. Live' = Live \ {main_thread}
  <2>1. \A x : elem_find(all_list', x) <=> elem_find(all_list, x) /\ x # main_thread
    BY <1>2, <1>3, <1>4, RemoveFacts DEF Live
  <2> QED BY <2>1 DEF Live
<1>6. /\ DOMAIN Parents = Live
      /\ DOMAIN Zombies = {u \in Live : pc[u] = "zombie"}
  BY ParentsFacts, ZombiesFacts
<1>7. \A u \in Live : Parents[u] # main_thread
  BY <1>1, ParentsFacts
<1>8. Parents' = F!Remove(Parents, main_thread)
  <2>1. Parents' = [u \in Live \ {main_thread} |-> Parents'[u]]
    BY <1>5, NextParents
  <2>2. \A u \in (Live \ {main_thread}) \cap Roots : Parents'[u] = Parents[u]
    BY <1>5, ParentsFacts, NextParents
  <2>3. ASSUME NEW u \in (Live \ {main_thread}) \ Roots PROVE Parents'[u] = Parents[u]
    <3>1. Parents[u] \in Live' /\ pid[Parents[u]] = parent_pid[u]
      BY <1>5, <1>7, ParentsFacts
    <3> QED BY <1>4, <1>5, <3>1, NextParents
  <2> QED BY <1>6, <2>1, <2>2, <2>3 DEF F!Remove
<1>9. Zombies' = Zombies
  <2>1. {u \in Live' : pc'[u] = "zombie"} = {u \in Live : pc[u] = "zombie"}
    BY <1>1, <1>2, <1>4, <1>5
  <2> QED BY <1>4, <2>1, ZombiesFacts, NextParents
<1> QED BY <1>1, <1>3, <1>6, <1>7, <1>8, <1>9 DEF F!Leave, F!Alive

(* Every step is a step of the process tree, or does not change it.        *)
LEMMA StepMaps ==
  ASSUME "none" \notin Threads, IInv, NoPanic, IInv', NoPanic', [Next]_vars
  PROVE  [F!Next]_F!vars
<1>0. /\ pc \in [Threads -> PC] /\ sched.cur \in Threads
      /\ Live \subseteq Threads
  BY InvFacts DEF NoPanic
<1>1. ASSUME NEW t \in Threads, sys_fork(t) PROVE F!Next
  BY <1>1, ForkMaps DEF F!Next
<1>2. ASSUME NEW t \in Threads, sys_fork_fails(t) PROVE UNCHANGED F!vars
  <2>1. PICK c \in Threads : /\ pc[c] = "free"
                             /\ pc' = [pc EXCEPT ![c] = "lost", ![t] = Home(t)]
    BY <1>2 DEF sys_fork_fails
  <2>2. pc[t] # "zombie" /\ UNCHANGED <<all_list, pid, parent_pid, exit_status>>
    BY <1>2 DEF sys_fork_fails, At
  <2>3. \A u \in Threads : pc'[u] = "zombie" <=> pc[u] = "zombie"
    BY <1>0, <2>1, <2>2 DEF Home
  <2> QED BY <2>2, <2>3, Stutters
<1>3. ASSUME NEW t \in Threads, sys_wait(t) PROVE [F!Next]_F!vars
  <2>1. CASE find_hanging_child(pid[t]) # {}
    BY <1>3, <2>1, ReapMaps DEF F!Next
  <2>2. CASE find_hanging_child(pid[t]) = {}
    <3>1. pc' = [pc EXCEPT ![t] = Home(t)] \/ pc' = [pc EXCEPT ![t] = "wait"]
      BY <1>3, <2>2 DEF sys_wait, Goto
    <3>2. pc[t] # "zombie" /\ UNCHANGED <<all_list, pid, parent_pid, exit_status>>
      BY <1>3, <2>2 DEF sys_wait, At, Home
    <3>3. \A u \in Threads : pc'[u] = "zombie" <=> pc[u] = "zombie"
      BY <1>0, <3>1, <3>2 DEF Home
    <3> QED BY <3>2, <3>3, Stutters
  <2> QED BY <2>1, <2>2
<1>4. ASSUME NEW t \in Threads, NEW status \in Statuses, sys_exit(t, status) PROVE F!Next
  BY <1>4, ExitMaps DEF F!Next
<1>5. CASE MainExit
  BY <1>5, LeaveMaps DEF F!Next
<1>6. CASE IdleBlock
  <2>1. /\ UNCHANGED <<all_list, pid, parent_pid, exit_status>>
        /\ \A u \in Threads : pc'[u] = "zombie" <=> pc[u] = "zombie"
    BY <1>0, <1>6 DEF IdleBlock, Goto, At
  <2> QED BY <2>1, Stutters
<1>7. CASE Timer
  <2>1. /\ UNCHANGED <<all_list, pid, parent_pid, exit_status>>
        /\ \A u \in Threads : pc'[u] = "zombie" <=> pc[u] = "zombie"
    BY <1>0, <1>7 DEF Timer
  <2> QED BY <2>1, Stutters
<1>8. CASE UNCHANGED vars
  <2>1. /\ UNCHANGED <<all_list, pid, parent_pid, exit_status>>
        /\ \A u \in Threads : pc'[u] = "zombie" <=> pc[u] = "zombie"
    BY <1>8 DEF vars
  <2> QED BY <2>1, Stutters
<1> QED BY <1>1, <1>2, <1>3, <1>4, <1>5, <1>6, <1>7, <1>8 DEF Next

(* The machine starts with the three roots of the tree.                    *)
LEMMA InitMaps ==
  ASSUME "none" \notin Threads, Init, IInv, NoPanic
  PROVE  F!Init
<1>1. all_list = <<init, main_thread, idle_thread>> /\ Roots \subseteq Threads
  BY WaitExitAssumption, ThreadAssumption DEF Init, Roots
<1>2. Live = Roots
  BY <1>1 DEF Live, Roots, elem_find
<1>3. Parents = [t \in Roots |-> "none"]
  BY <1>2, ParentsFacts
<1>4. \A t \in Roots : pc[t] # "zombie"
  BY <1>1, WaitExitAssumption, ThreadAssumption DEF Init, Roots
<1>5. Zombies = [t \in {} |-> 0]
  <2>1. {u \in Live : pc[u] = "zombie"} = {}
    BY <1>2, <1>4
  <2>2. Zombies = [t \in {} |-> exit_status[t]]
    BY <2>1, ZombiesFacts
  <2> QED BY <2>2
<1> QED BY <1>3, <1>5 DEF F!Init, Roots

(* fork, exit and wait implement the process tree of module Family, though *)
(* they know processes by pids that are used again.                        *)
THEOREM FamilyRefinement ==
  ASSUME PidsSuffice, "none" \notin Threads
  PROVE  Spec => ImplementsFamily
<1>1. Init /\ (IInv /\ Counting /\ NoPanic) => F!Init
  BY InitMaps
<1>2. IInv /\ NoPanic /\ IInv' /\ NoPanic' /\ [Next]_vars => [F!Next]_F!vars
  BY StepMaps
<1> QED BY <1>1, <1>2, PidsLast, PTL DEF Spec, ImplementsFamily, F!Spec
=============================================================================
