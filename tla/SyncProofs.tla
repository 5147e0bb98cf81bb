----------------------------- MODULE SyncProofs -----------------------------
(***************************************************************************)
(* The kernel mutex is correct for every number of threads, every time     *)
(* slice and every nesting depth: the invariants that the runs of module   *)
(* Sync check on four threads are theorems here, and so is the refinement  *)
(* of module Mutex.                                                        *)
(*                                                                         *)
(* None of the invariants is inductive. IInv adds to them what ties a      *)
(* thread's control point to its status (Control), to the semaphore and to *)
(* holder (Ownership), and holder_repeat_nr to the caller's own count of   *)
(* its acquires (Counting). Every action is shown to preserve IInv: by     *)
(* SwitchStep if it only switches threads, by SuspendStep if a thread      *)
(* leaves the CPU for good or for an event, by LocalStep if the running    *)
(* thread moves on without touching the scheduler, by StartStep for the    *)
(* two halves of thread_start, and on its own where it changes the         *)
(* semaphore.                                                              *)
(***************************************************************************)
EXTENDS Sync, ThreadProofs

(* The thread that thread_start has initialised and not yet enqueued. *)
Fresh == {t \in Threads : pc[t] = "fresh"}

(* What the control point of a thread says about its status. *)
Control ==
  /\ pc[idle_thread] \in {"idle", "halt"}
  /\ \A t \in Workers :
       /\ pc[t] \notin {"idle", "halt"}
       /\ pc[t] \in {"new", "gone"} => sched.status[t] = "DIED"
       /\ pc[t] = "asleep" => Runnable(sched.status[t]) \/ sched.status[t] = "BLOCKED"
       /\ pc[t] = "paused" => Runnable(sched.status[t]) \/ sched.status[t] = "WAITING"
       /\ pc[t] \notin {"new", "gone", "asleep", "paused"} => Runnable(sched.status[t])

(* Exactly one thread is between the return of sema_down and the end of    *)
(* sema_up when the semaphore is 0, none when it is 1; holder names a      *)
(* thread at exactly the control points between its two writes.            *)
Ownership ==
  /\ \A t, u \in Threads : Owner(t) /\ Owner(u) => t = u
  /\ Available(sched, mutex) <=> \A t \in Threads : ~Owner(t)
  /\ \A t \in Threads :
       holder = t <=> pc[t] \in {"repeat", "inside", "nested", "release"}

(* What t itself knows of its acquires and releases.  At "release" it has  *)
(* already counted the release, at "nested" the acquire.                   *)
Balanced(t) ==
  /\ pc[t] = "inside" => calls[t] = repeat
  /\ pc[t] = "nested" => calls[t] = repeat + 1
  /\ pc[t] = "release" => calls[t] = repeat - 1
  /\ pc[t] \in {"acquire", "down", "asleep", "holder", "repeat"} => calls[t] = 1
  /\ pc[t] \in {"run", "clear", "up", "paused", "start", "fresh", "idle", "halt",
                "new", "gone"} => calls[t] = 0

(* holder_repeat_nr is 0 whenever a new holder looks at it, and at least 1 *)
(* while the mutex is held: what the ASSERTs of mutex_acquire and          *)
(* mutex_release rely on.                                                  *)
Counting ==
  /\ (\A t \in Threads : pc[t] \notin {"inside", "nested", "release", "clear"}) => repeat = 0
  /\ \A t \in Threads : pc[t] \in {"inside", "nested", "release"} => repeat >= 1
  /\ \A t \in Threads : pc[t] = "clear" => repeat = 1
  /\ \A t \in Threads : Balanced(t)

(* The inductive invariant. *)
IInv ==
  /\ TypeOK /\ NoPanic /\ QueuesConsistent
  /\ Control /\ Ownership /\ Counting /\ NoLostWakeup

-----------------------------------------------------------------------------
(* What the lemmas of ThreadProofs ask of the state, from IInv.            *)
LEMMA InvFacts ==
  ASSUME IInv
  PROVE  /\ SemaState(sched) /\ ThreadState(sched) /\ DOMAIN sched = Fields \cup {"sema"}
         /\ Ticks(sched) /\ ~sched.panic
         /\ Fresh \in SUBSET (Threads \ {idle_thread})
         /\ RunQueueConsistent(sched, Fresh)
         /\ sched.cur \in Threads /\ sched.status \in [Threads -> Status]
         /\ sched.sema[mutex].value \in {0, 1}
         /\ sched.sema[mutex].waiters \in Seq(Threads)
         /\ \A t \in Threads : sched.status[t] = "RUNNING" <=> t = sched.cur
<1>1. SemaState(sched) /\ ThreadState(sched) /\ DOMAIN sched = Fields \cup {"sema"}
  BY KernelStateFacts DEF IInv, TypeOK, SemaState
<1>2. Fresh \in SUBSET (Threads \ {idle_thread})
  BY DEF IInv, Control, Fresh
<1>3. RunQueueConsistent(sched, Fresh) /\ ~sched.panic /\ Ticks(sched)
  BY DEF IInv, QueuesConsistent, NoPanic, TypeOK, Ticks, Fresh
<1>4. sched.sema[mutex].value \in {0, 1} /\ sched.sema[mutex].waiters \in Seq(Threads)
  BY <1>1, SemaParts, SyncAssumption
<1> QED BY <1>1, <1>2, <1>3, <1>4 DEF ThreadState, RunQueueConsistent

(* The types of the next state, from those of its parts. *)
LEMMA NextState ==
  ASSUME SemaState(sched'), DOMAIN sched' = Fields \cup {"sema"}, Ticks(sched'),
         holder' \in Threads \cup {NOBODY}, repeat' \in Nat,
         pc' \in [Threads -> PC], calls' \in [Threads -> Nat]
  PROVE  TypeOK'
BY KernelStateFacts DEF TypeOK, Ticks

(* A switch of threads that suspends nobody and leaves the mutex alone     *)
(* preserves IInv, also when it takes idle out of its hlt.                 *)
LEMMA SwitchStep ==
  ASSUME IInv, Switched(sched, sched', Fresh),
         pc' \in [Threads -> PC], pc'[idle_thread] \in {"idle", "halt"},
         \A t \in Workers : pc'[t] = pc[t],
         UNCHANGED <<holder, repeat, calls>>
  PROVE  IInv'
<1>1. /\ SemaState(sched) /\ DOMAIN sched = Fields \cup {"sema"}
      /\ Fresh \in SUBSET (Threads \ {idle_thread})
  BY InvFacts
<1>2. DOMAIN sched' = Fields \cup {"sema"} /\ sched'.sema = sched.sema
  BY <1>1 DEF Switched, Extends, Fields
<1>3. SemaState(sched')
  BY <1>1, <1>2 DEF Switched, SemaState
<1>4. TypeOK'
  BY <1>2, <1>3, NextState DEF Switched, IInv, TypeOK
<1>5. pc[idle_thread] \in {"idle", "halt"} /\ idle_thread \in Threads
  BY ThreadAssumption DEF IInv, Control
<1>6. Fresh' = Fresh
  BY <1>5 DEF Fresh, Workers
<1>7. \A t \in Workers : IF Runnable(sched.status[t]) THEN Runnable(sched'.status[t])
                         ELSE sched'.status[t] = sched.status[t]
  BY DEF Switched, SwitchFrame, Workers
<1>8. Control'
  BY <1>7 DEF IInv, Control, Runnable
<1>9. \A t \in Threads : Waits(t)' <=> Waits(t)
  BY <1>2 DEF Waits
<1>10. QueuesConsistent'
  <2>1. RunQueueConsistent(sched, Fresh)'
    BY <1>6 DEF Switched
  <2>2. NoDuplicates(sched.sema[mutex].waiters)'
    BY <1>2 DEF IInv, QueuesConsistent
  <2>3. ASSUME NEW t \in Threads
        PROVE  (Waits(t) <=> pc[t] = "asleep" /\ sched.status[t] = "BLOCKED")'
    <3>1. CASE t = idle_thread
      BY <1>5, <1>9, <3>1 DEF IInv, QueuesConsistent
    <3>2. CASE t \in Workers
      BY <1>7, <1>9, <3>2 DEF IInv, QueuesConsistent, Runnable
    <3> QED BY <3>1, <3>2 DEF Workers
  <2> QED BY <2>1, <2>2, <2>3 DEF QueuesConsistent, Fresh
<1>11. \A t \in Threads :
         \/ pc'[t] = pc[t]
         \/ pc'[t] \in {"idle", "halt"} /\ pc[t] \in {"idle", "halt"}
  BY <1>5 DEF Workers
<1>12. \A t \in Threads : Owner(t)' <=> Owner(t)
  BY <1>11 DEF Owner
<1>13. Ownership'
  <2>1. Available(sched, mutex)' <=> Available(sched, mutex)
    BY <1>2 DEF Available
  <2>2. \A t \in Threads : (holder = t <=> pc[t] \in {"repeat", "inside", "nested", "release"})'
    BY <1>11 DEF IInv, Ownership
  <2> QED BY <1>12, <2>1, <2>2 DEF IInv, Ownership
<1>14. Counting'
  BY <1>11 DEF IInv, Counting, Balanced
<1>15. NoLostWakeup'
  BY <1>2, <1>9, <1>11 DEF IInv, NoLostWakeup, Available
<1> QED BY <1>4, <1>8, <1>10, <1>13, <1>14, <1>15 DEF IInv, NoPanic, Switched

(* A thread outside the mutex that leaves the CPU in thread_block or       *)
(* thread_exit preserves IInv.                                             *)
LEMMA SuspendStep ==
  ASSUME IInv, NEW label, NEW status, sched.cur \in Workers, pc[sched.cur] = "run",
         \/ label = "paused" /\ status = "WAITING"
         \/ label = "gone" /\ status = "DIED",
         Suspends(sched, sched', Fresh, status),
         pc' = [pc EXCEPT ![sched.cur] = label],
         UNCHANGED <<holder, repeat, calls>>
  PROVE  IInv'
<1> DEFINE t == sched.cur
<1>1. /\ SemaState(sched) /\ DOMAIN sched = Fields \cup {"sema"}
      /\ Fresh \in SUBSET (Threads \ {idle_thread})
      /\ t \in Threads /\ t # idle_thread /\ idle_thread \in Threads
  BY InvFacts, ThreadAssumption DEF Workers
<1>2. DOMAIN sched' = Fields \cup {"sema"} /\ sched'.sema = sched.sema
  BY <1>1 DEF Suspends, Extends, Fields
<1>3. SemaState(sched')
  BY <1>1, <1>2 DEF Suspends, SemaState
<1>4. pc \in [Threads -> PC] /\ pc' \in [Threads -> PC]
  BY <1>1 DEF IInv, TypeOK, PC
<1>5. TypeOK'
  BY <1>2, <1>3, <1>4, NextState DEF Suspends, IInv, TypeOK
<1>6. pc'[t] = label /\ \A u \in Threads \ {t} : pc'[u] = pc[u]
  BY <1>1, <1>4
<1>7. Fresh' = Fresh
  BY <1>1, <1>6 DEF Fresh
<1>8. /\ sched'.status[t] = status
      /\ \A u \in Workers \ {t} :
           IF Runnable(sched.status[u]) THEN Runnable(sched'.status[u])
                                        ELSE sched'.status[u] = sched.status[u]
  BY <1>1 DEF Suspends, Workers
<1>9. Control'
  <2>1. ASSUME NEW u \in Workers
        PROVE  (/\ pc[u] \notin {"idle", "halt"}
                /\ pc[u] \in {"new", "gone"} => sched.status[u] = "DIED"
                /\ pc[u] = "asleep" => Runnable(sched.status[u]) \/ sched.status[u] = "BLOCKED"
                /\ pc[u] = "paused" => Runnable(sched.status[u]) \/ sched.status[u] = "WAITING"
                /\ pc[u] \notin {"new", "gone", "asleep", "paused"} => Runnable(sched.status[u]))'
    <3>1. CASE u = t
      BY <1>6, <1>8, <3>1
    <3>2. CASE u # t
      BY <1>6, <1>8, <3>2 DEF IInv, Control, Runnable, Workers
    <3> QED BY <3>1, <3>2
  <2>2. pc'[idle_thread] \in {"idle", "halt"}
    BY <1>1, <1>6 DEF IInv, Control
  <2> QED BY <2>1, <2>2 DEF Control
<1>10. \A u \in Threads : Waits(u)' <=> Waits(u)
  BY <1>2 DEF Waits
<1>11. QueuesConsistent'
  <2>1. RunQueueConsistent(sched, Fresh)'
    BY <1>7 DEF Suspends
  <2>2. NoDuplicates(sched.sema[mutex].waiters)'
    BY <1>2 DEF IInv, QueuesConsistent
  <2>3. ASSUME NEW u \in Threads
        PROVE  (Waits(u) <=> pc[u] = "asleep" /\ sched.status[u] = "BLOCKED")'
    <3>1. CASE u = t
      BY <1>6, <1>10, <3>1 DEF IInv, QueuesConsistent
    <3>2. CASE u = idle_thread
      BY <1>1, <1>6, <1>10, <3>2 DEF IInv, QueuesConsistent, Control
    <3>3. CASE u \in Workers \ {t}
      BY <1>6, <1>8, <1>10, <3>3 DEF IInv, QueuesConsistent, Runnable
    <3> QED BY <3>1, <3>2, <3>3 DEF Workers
  <2> QED BY <2>1, <2>2, <2>3 DEF QueuesConsistent, Fresh
<1>12. \A u \in Threads : pc'[u] = pc[u] \/ (pc[u] = "run" /\ pc'[u] \in {"paused", "gone"})
  BY <1>6
<1>13. \A u \in Threads : Owner(u)' <=> Owner(u)
  BY <1>12 DEF Owner
<1>14. Ownership'
  <2>1. Available(sched, mutex)' <=> Available(sched, mutex)
    BY <1>2 DEF Available
  <2>2. \A u \in Threads : (holder = u <=> pc[u] \in {"repeat", "inside", "nested", "release"})'
    BY <1>12 DEF IInv, Ownership
  <2> QED BY <1>13, <2>1, <2>2 DEF IInv, Ownership
<1>15. Counting'
  BY <1>12 DEF IInv, Counting, Balanced
<1>16. NoLostWakeup'
  BY <1>2, <1>10, <1>12 DEF IInv, NoLostWakeup, Available
<1> QED BY <1>5, <1>9, <1>11, <1>14, <1>15, <1>16 DEF IInv, NoPanic, Suspends

(* A statement of the running thread that does not touch the scheduler     *)
(* preserves every part of IInv but Ownership and Counting, which are left *)
(* to the action.                                                          *)
LEMMA LocalStep ==
  ASSUME IInv, NEW t \in Workers, NEW label, sched.cur = t, sched' = sched,
         pc[t] # "asleep",
         label \in PC \ {"idle", "halt", "new", "gone", "asleep", "paused", "fresh"},
         pc' = [pc EXCEPT ![t] = label],
         holder' \in Threads \cup {NOBODY}, repeat' \in Nat, calls' \in [Threads -> Nat]
  PROVE  /\ TypeOK' /\ NoPanic' /\ QueuesConsistent' /\ Control' /\ NoLostWakeup'
         /\ pc'[t] = label /\ \A u \in Threads \ {t} : pc'[u] = pc[u]
<1>1. /\ t \in Threads /\ t # idle_thread /\ idle_thread \in Threads
      /\ pc \in [Threads -> PC] /\ sched.status[t] = "RUNNING"
  BY InvFacts, ThreadAssumption DEF Workers, IInv, TypeOK
<1>2. pc'[t] = label /\ \A u \in Threads \ {t} : pc'[u] = pc[u]
  BY <1>1
<1>3. TypeOK'
  BY <1>1 DEF IInv, TypeOK
<1>4. Fresh' = Fresh
  <2>1. pc[t] # "fresh"
    BY <1>1, InvFacts DEF RunQueueConsistent, Fresh
  <2> QED BY <1>1, <1>2, <2>1 DEF Fresh
<1>5. Control'
  BY <1>1, <1>2 DEF IInv, Control, Runnable
<1>6. QueuesConsistent'
  <2>1. RunQueueConsistent(sched, Fresh)'
    BY <1>4, InvFacts
  <2>2. \A u \in Threads : (Waits(u) <=> pc[u] = "asleep" /\ sched.status[u] = "BLOCKED")'
    BY <1>1, <1>2 DEF IInv, QueuesConsistent, Waits
  <2> QED BY <2>1, <2>2 DEF IInv, QueuesConsistent, Fresh
<1>7. NoLostWakeup'
  BY <1>1, <1>2 DEF IInv, NoLostWakeup, Available, Waits
<1> QED BY <1>2, <1>3, <1>5, <1>6, <1>7 DEF IInv, NoPanic
-----------------------------------------------------------------------------
(* The types an action on the mutex needs. *)
LEMMA StepTypes ==
  ASSUME IInv, NEW t \in Workers
  PROVE  /\ t \in Threads /\ holder \in Threads \cup {NOBODY} /\ repeat \in Nat
         /\ calls \in [Threads -> Nat] /\ NOBODY \notin Threads /\ t # NOBODY
BY SyncAssumption DEF Workers, IInv, TypeOK

(* The unlocked comparison of holder in mutex_acquire, and the count of a  *)
(* nested call, preserve IInv.                                             *)
LEMMA AcquireTestInv ==
  ASSUME IInv, NEW t \in Workers, AcquireTest(t)
  PROVE  IInv'
<1>0. /\ t \in Threads /\ repeat \in Nat /\ sched.cur = t /\ sched' = sched
      /\ holder' = holder /\ calls' = calls /\ pc[t] \in {"acquire", "nested"}
  BY StepTypes DEF AcquireTest, At
<1>1. CASE holder # t
  <2>1. pc' = [pc EXCEPT ![t] = "down"] /\ repeat' = repeat
    BY <1>1 DEF AcquireTest, Goto
  <2>2. /\ TypeOK' /\ NoPanic' /\ QueuesConsistent' /\ Control' /\ NoLostWakeup'
        /\ pc'[t] = "down" /\ \A u \in Threads \ {t} : pc'[u] = pc[u]
    BY <1>0, <2>1, LocalStep, StepTypes DEF PC
  <2>3. pc[t] = "acquire"
    BY <1>0, <1>1 DEF IInv, Ownership
  <2>4. Ownership'
    BY <1>0, <2>2, <2>3 DEF IInv, Ownership, Owner, Available
  <2>5. Counting'
    BY <1>0, <2>1, <2>2, <2>3 DEF IInv, Counting, Balanced
  <2> QED BY <2>2, <2>4, <2>5 DEF IInv
<1>2. CASE holder = t
  <2>1. pc' = [pc EXCEPT ![t] = "inside"] /\ repeat' = repeat + 1
    BY <1>2 DEF AcquireTest, Goto
  <2>2. /\ TypeOK' /\ NoPanic' /\ QueuesConsistent' /\ Control' /\ NoLostWakeup'
        /\ pc'[t] = "inside" /\ \A u \in Threads \ {t} : pc'[u] = pc[u]
    <3>1. repeat' \in Nat
      BY <1>0, <2>1
    <3>2. "inside" \in PC /\ pc[t] # "asleep"
      BY <1>0 DEF PC
    <3> QED BY <1>0, <2>1, <3>1, <3>2, LocalStep, StepTypes
  <2>3. pc[t] = "nested"
    BY <1>0, <1>2 DEF IInv, Ownership
  <2>4. Ownership'
    BY <1>0, <2>2, <2>3 DEF IInv, Ownership, Owner, Available
  <2>5. Counting'
    <3>1. \A u \in Threads \ {t} : ~Owner(u)
      BY <1>0, <2>3 DEF IInv, Ownership, Owner
    <3> QED BY <1>0, <2>1, <2>2, <2>3, <3>1 DEF IInv, Counting, Balanced, Owner
  <2> QED BY <2>2, <2>4, <2>5 DEF IInv
<1> QED BY <1>1, <1>2

(* Writing holder after sema_down preserves IInv. *)
LEMMA AcquireHolderInv ==
  ASSUME IInv, NEW t \in Workers, AcquireHolder(t)
  PROVE  IInv'
<1>0. /\ t \in Threads /\ sched.cur = t /\ sched' = sched
      /\ holder' = t /\ repeat' = repeat /\ calls' = calls /\ pc[t] = "holder"
      /\ pc' = [pc EXCEPT ![t] = "repeat"]
  BY StepTypes DEF AcquireHolder, At, Goto
<1>1. /\ TypeOK' /\ NoPanic' /\ QueuesConsistent' /\ Control' /\ NoLostWakeup'
      /\ pc'[t] = "repeat" /\ \A u \in Threads \ {t} : pc'[u] = pc[u]
  BY <1>0, LocalStep, StepTypes DEF PC
<1>2. \A u \in Threads \ {t} : ~Owner(u)
  BY <1>0 DEF IInv, Ownership, Owner
<1>3. Ownership'
  BY <1>0, <1>1, <1>2 DEF IInv, Ownership, Owner, Available
<1>4. Counting'
  BY <1>0, <1>1 DEF IInv, Counting, Balanced
<1> QED BY <1>1, <1>3, <1>4 DEF IInv

(* Writing holder_repeat_nr preserves IInv, and the ASSERT in front of it  *)
(* holds.                                                                  *)
LEMMA AcquireRepeatInv ==
  ASSUME IInv, NEW t \in Workers, AcquireRepeat(t)
  PROVE  IInv'
<1>0. /\ t \in Threads /\ sched.cur = t
      /\ holder' = holder /\ repeat' = 1 /\ calls' = calls /\ pc[t] = "repeat"
      /\ pc' = [pc EXCEPT ![t] = "inside"] /\ sched' = ASSERT(sched, repeat = 0)
  BY StepTypes DEF AcquireRepeat, At, Goto
<1>1. \A u \in Threads \ {t} : ~Owner(u)
  BY <1>0 DEF IInv, Ownership, Owner
<1>2. repeat = 0
  BY <1>0, <1>1 DEF IInv, Counting, Balanced, Owner
<1>3. sched' = sched
  BY <1>0, <1>2, InvFacts, AssertFacts
<1>4. /\ TypeOK' /\ NoPanic' /\ QueuesConsistent' /\ Control' /\ NoLostWakeup'
      /\ pc'[t] = "inside" /\ \A u \in Threads \ {t} : pc'[u] = pc[u]
  BY <1>0, <1>3, LocalStep, StepTypes DEF PC
<1>5. Ownership'
  BY <1>0, <1>1, <1>3, <1>4 DEF IInv, Ownership, Owner, Available
<1>6. Counting'
  BY <1>0, <1>1, <1>4 DEF IInv, Counting, Balanced, Owner
<1> QED BY <1>4, <1>5, <1>6 DEF IInv

(* The first half of mutex_release preserves IInv, and its ASSERTs hold. *)
LEMMA ReleaseTestInv ==
  ASSUME IInv, NEW t \in Workers, ReleaseTest(t)
  PROVE  IInv'
<1>0. /\ t \in Threads /\ sched.cur = t /\ calls' = calls /\ pc[t] = "release"
      /\ repeat \in Nat /\ t # NOBODY /\ NOBODY \notin Threads
  BY StepTypes DEF ReleaseTest, At
<1>1. holder = t /\ repeat >= 1 /\ \A u \in Threads \ {t} : ~Owner(u)
  BY <1>0 DEF IInv, Ownership, Owner, Counting, Balanced
<1>2. CASE repeat > 1
  <2>1. /\ sched' = ASSERT(sched, holder = t) /\ repeat' = repeat - 1 /\ holder' = holder
        /\ pc' = [pc EXCEPT ![t] = "inside"]
    <3>1. calls[t] > 0
      BY <1>0, <1>2 DEF IInv, Counting, Balanced
    <3> QED BY <1>0, <1>2, <3>1 DEF ReleaseTest, Released, Goto
  <2>2. sched' = sched
    BY <1>1, <2>1, InvFacts, AssertFacts
  <2>3. /\ TypeOK' /\ NoPanic' /\ QueuesConsistent' /\ Control' /\ NoLostWakeup'
        /\ pc'[t] = "inside" /\ \A u \in Threads \ {t} : pc'[u] = pc[u]
    <3>1. repeat' \in Nat
      BY <1>0, <1>2, <2>1
    <3>2. "inside" \in PC /\ pc[t] # "asleep"
      BY <1>0 DEF PC
    <3> QED BY <1>0, <1>1, <2>1, <2>2, <3>1, <3>2, LocalStep, StepTypes
  <2>4. Ownership'
    BY <1>0, <2>1, <2>2, <2>3 DEF IInv, Ownership, Owner, Available
  <2>5. Counting'
    BY <1>0, <1>1, <1>2, <2>1, <2>3 DEF IInv, Counting, Balanced, Owner
  <2> QED BY <2>3, <2>4, <2>5 DEF IInv
<1>3. CASE repeat <= 1
  <2>1. /\ sched' = ASSERT(sched, holder = t /\ repeat = 1) /\ repeat' = repeat
        /\ holder' = NOBODY /\ pc' = [pc EXCEPT ![t] = "clear"]
    BY <1>0, <1>3 DEF ReleaseTest, Goto
  <2>2. repeat = 1
    BY <1>0, <1>1, <1>3
  <2>3. sched' = sched
    BY <1>1, <2>1, <2>2, InvFacts, AssertFacts
  <2>4. /\ TypeOK' /\ NoPanic' /\ QueuesConsistent' /\ Control' /\ NoLostWakeup'
        /\ pc'[t] = "clear" /\ \A u \in Threads \ {t} : pc'[u] = pc[u]
    BY <1>0, <2>1, <2>3, LocalStep, StepTypes DEF PC
  <2>5. Ownership'
    BY <1>0, <1>1, <2>1, <2>3, <2>4 DEF IInv, Ownership, Owner, Available
  <2>6. Counting'
    BY <1>0, <1>1, <2>1, <2>2, <2>4 DEF IInv, Counting, Balanced, Owner
  <2> QED BY <2>4, <2>5, <2>6 DEF IInv
<1> QED BY <1>0, <1>2, <1>3

(* Clearing holder_repeat_nr before sema_up preserves IInv. *)
LEMMA ReleaseClearInv ==
  ASSUME IInv, NEW t \in Workers, ReleaseClear(t)
  PROVE  IInv'
<1>0. /\ t \in Threads /\ sched.cur = t /\ sched' = sched
      /\ holder' = holder /\ repeat' = 0 /\ calls' = calls /\ pc[t] = "clear"
      /\ pc' = [pc EXCEPT ![t] = "up"]
  BY StepTypes DEF ReleaseClear, At, Goto
<1>1. /\ TypeOK' /\ NoPanic' /\ QueuesConsistent' /\ Control' /\ NoLostWakeup'
      /\ pc'[t] = "up" /\ \A u \in Threads \ {t} : pc'[u] = pc[u]
  BY <1>0, LocalStep, StepTypes DEF PC
<1>2. \A u \in Threads \ {t} : ~Owner(u)
  BY <1>0 DEF IInv, Ownership, Owner
<1>3. Ownership'
  BY <1>0, <1>1, <1>2 DEF IInv, Ownership, Owner, Available
<1>4. Counting'
  BY <1>0, <1>1, <1>2 DEF IInv, Counting, Balanced, Owner
<1> QED BY <1>1, <1>3, <1>4 DEF IInv

(* What a thread does between its calls preserves IInv. *)
LEMMA AroundInv ==
  ASSUME IInv, NEW t \in Workers, Request(t) \/ Inside(t) \/ Resume(t)
  PROVE  IInv'
<1>0. /\ t \in Threads /\ sched.cur = t /\ sched' = sched
      /\ holder' = holder /\ repeat' = repeat /\ calls \in [Threads -> Nat]
      /\ repeat \in Nat
  BY StepTypes DEF Request, Inside, Resume, At
<1>1. PICK label \in PC, n \in Nat :
        /\ pc' = [pc EXCEPT ![t] = label] /\ calls' = [calls EXCEPT ![t] = n]
        /\ \/ pc[t] = "run" /\ label = "acquire" /\ n = 1
           \/ pc[t] = "inside" /\ label = "nested" /\ n = calls[t] + 1
           \/ pc[t] = "inside" /\ label = "release" /\ n = calls[t] - 1
           \/ pc[t] = "paused" /\ label = "run" /\ n = calls[t]
  <2>1. CASE Request(t)
    BY <2>1 DEF Request, At, Goto, PC
  <2>2. CASE Inside(t)
    <3>1. calls[t] \in Nat /\ calls[t] + 1 \in Nat /\ calls[t] - 1 \in Nat
      BY <1>0, <2>2 DEF IInv, Counting, Balanced, Inside, At
    <3> QED BY <2>2, <3>1 DEF Inside, At, Goto, PC
  <2>3. CASE Resume(t)
    <3>1. calls' = [calls EXCEPT ![t] = calls[t]] /\ calls[t] \in Nat
      BY <1>0, <2>3 DEF Resume
    <3> QED BY <2>3, <3>1 DEF Resume, At, Goto, PC
  <2> QED BY <2>1, <2>2, <2>3
<1>2. /\ calls' \in [Threads -> Nat] /\ calls'[t] = n
      /\ \A u \in Threads \ {t} : calls'[u] = calls[u]
  BY <1>0, <1>1
<1>3. /\ TypeOK' /\ NoPanic' /\ QueuesConsistent' /\ Control' /\ NoLostWakeup'
      /\ pc'[t] = label /\ \A u \in Threads \ {t} : pc'[u] = pc[u]
  <2>1. /\ label \in PC \ {"idle", "halt", "new", "gone", "asleep", "paused", "fresh"}
        /\ pc[t] # "asleep"
    BY <1>1
  <2>2. pc' = [pc EXCEPT ![t] = label]
    BY <1>1
  <2> QED BY <1>0, <1>2, <2>1, <2>2, LocalStep, StepTypes
<1>4. Ownership'
  BY <1>0, <1>1, <1>3 DEF IInv, Ownership, Owner, Available
<1>5. Counting'
  <2>1. \A u \in Threads :
          /\ pc'[u] \in {"inside", "nested", "release"} <=> pc[u] \in {"inside", "nested", "release"}
          /\ pc'[u] = "clear" <=> pc[u] = "clear"
    BY <1>0, <1>1, <1>3
  <2>2. (\A u \in Threads : pc'[u] \notin {"inside", "nested", "release", "clear"})
          => \A u \in Threads : pc[u] \notin {"inside", "nested", "release", "clear"}
    BY <2>1
  <2>3. \A u \in Threads \ {t} : Balanced(u)'
    BY <1>0, <1>2, <1>3 DEF IInv, Counting, Balanced
  <2>4. Balanced(t)'
    BY <1>0, <1>1, <1>2, <1>3 DEF IInv, Counting, Balanced
  <2> QED BY <1>0, <2>1, <2>2, <2>3, <2>4 DEF IInv, Counting
<1> QED BY <1>3, <1>4, <1>5 DEF IInv

-----------------------------------------------------------------------------
(* The run queue agrees with the thread table after thread_unblock. *)
LEMMA QueueAfterUnblock ==
  ASSUME NEW s, ThreadState(s), NEW fresh, RunQueueConsistent(s, fresh),
         NEW h \in Threads, s.status[h] \in Suspended, NEW r,
         r.ready = <<h>> \o s.ready, r.status = [s.status EXCEPT ![h] = "READY"],
         r.cur = s.cur
  PROVE  RunQueueConsistent(r, fresh)
<1>1. ~elem_find(s.ready, h) /\ h \notin fresh /\ h # s.cur
  BY DEF RunQueueConsistent, Suspended
<1>2. /\ \A x : elem_find(r.ready, x) <=> elem_find(s.ready, x) \/ x = h
      /\ NoDuplicates(r.ready)
  BY <1>1, PushFacts DEF ThreadState, RunQueueConsistent
<1>3. r.status[h] = "READY" /\ \A x \in Threads \ {h} : r.status[x] = s.status[x]
  BY DEF ThreadState
<1>4. \A x \in Threads : r.status[x] = "READY" <=> elem_find(r.ready, x) \/ x \in fresh
  BY <1>2, <1>3 DEF RunQueueConsistent
<1>5. \A x \in Threads : r.status[x] = "RUNNING" <=> x = r.cur
  BY <1>1, <1>3 DEF RunQueueConsistent
<1>6. \A x \in fresh : ~elem_find(r.ready, x)
  BY <1>1, <1>2 DEF RunQueueConsistent
<1>7. r.status[idle_thread] \in {"RUNNING", "READY", "BLOCKED"}
  BY <1>3, ThreadAssumption DEF RunQueueConsistent
<1> QED BY <1>2, <1>4, <1>5, <1>6, <1>7 DEF RunQueueConsistent

(* sema_down that finds the mutex free, called or resumed, preserves IInv. *)
LEMMA AcquireDownTakesInv ==
  ASSUME IInv, NEW t \in Workers, AcquireDown(t), Available(sched, mutex)
  PROVE  IInv'
<1>0. /\ t \in Threads /\ t # idle_thread /\ idle_thread \in Threads
      /\ sched.cur = t /\ pc[t] \in {"down", "asleep"}
      /\ holder' = holder /\ repeat' = repeat /\ calls' = calls
      /\ sched' = sema_down(sched, mutex)
      /\ pc' = [pc EXCEPT ![t] = "holder"]
  BY ThreadAssumption DEF AcquireDown, At, Goto, Workers
<1>1. /\ SemaState(sched) /\ DOMAIN sched = Fields \cup {"sema"} /\ Ticks(sched)
      /\ ~sched.panic /\ RunQueueConsistent(sched, Fresh)
      /\ sched.sema[mutex].waiters \in Seq(Threads)
      /\ sched.status[t] = "RUNNING" /\ mutex \in Semas
  BY <1>0, InvFacts, SyncAssumption
<1>2. PICK w \in Seq(Threads) : w = sched.sema[mutex].waiters
  BY <1>1
<1>3. SemaChanged(sched, sched', mutex, 0, w)
  BY <1>0, <1>1, <1>2, SemaDownTakes
<1>4. /\ SemaState(sched') /\ DOMAIN sched' = Fields \cup {"sema"}
      /\ sched'.cur = sched.cur /\ sched'.status = sched.status
      /\ sched'.ready = sched.ready /\ sched'.this_tick = sched.this_tick
      /\ sched'.panic = sched.panic
  BY <1>1, <1>3 DEF SemaChanged
<1>5. sched'.sema[mutex] = [value |-> 0, waiters |-> w]
  BY <1>3 DEF SemaChanged
<1>6. pc \in [Threads -> PC] /\ pc' \in [Threads -> PC]
  BY <1>0 DEF IInv, TypeOK, PC
<1>7. pc'[t] = "holder" /\ \A u \in Threads \ {t} : pc'[u] = pc[u]
  BY <1>0, <1>6
<1>8. TypeOK'
  BY <1>0, <1>1, <1>4, <1>6, NextState DEF IInv, TypeOK, Ticks
<1>9. Control'
  BY <1>0, <1>1, <1>4, <1>7 DEF IInv, Control, Runnable
<1>10. QueuesConsistent'
  <2>1. Fresh' = Fresh
    BY <1>0, <1>7 DEF Fresh
  <2>2. RunQueueConsistent(sched, Fresh)'
    BY <1>1, <1>4, <2>1 DEF RunQueueConsistent
  <2>3. \A u \in Threads : Waits(u)' <=> Waits(u)
    BY <1>2, <1>5 DEF Waits
  <2>4. \A u \in Threads : (Waits(u) <=> pc[u] = "asleep" /\ sched.status[u] = "BLOCKED")'
    BY <1>0, <1>1, <1>4, <1>7, <2>3 DEF IInv, QueuesConsistent
  <2>5. NoDuplicates(sched.sema[mutex].waiters)'
    BY <1>2, <1>5 DEF IInv, QueuesConsistent
  <2> QED BY <2>2, <2>4, <2>5 DEF QueuesConsistent, Fresh
<1>11. \A u \in Threads : ~Owner(u)
  BY DEF IInv, Ownership
<1>12. ~Available(sched, mutex)'
  BY <1>5 DEF Available
<1>13. Ownership'
  <2>1. \A u \in Threads : Owner(u)' <=> u = t
    BY <1>0, <1>7, <1>11 DEF Owner
  <2>2. \A u \in Threads : (holder = u <=> pc[u] \in {"repeat", "inside", "nested", "release"})'
    BY <1>0, <1>7 DEF IInv, Ownership
  <2> QED BY <1>0, <1>12, <2>1, <2>2 DEF Ownership
<1>14. Counting'
  BY <1>0, <1>7, <1>11 DEF IInv, Counting, Balanced, Owner
<1>15. NoLostWakeup'
  BY <1>12 DEF NoLostWakeup
<1> QED BY <1>1, <1>4, <1>8, <1>9, <1>10, <1>13, <1>14, <1>15 DEF IInv, NoPanic

(* sema_down that finds the mutex taken, for the first time or after a     *)
(* wakeup that another thread overtook, preserves IInv.                    *)
LEMMA AcquireDownSleepsInv ==
  ASSUME IInv, NEW t \in Workers, AcquireDown(t), ~Available(sched, mutex)
  PROVE  IInv'
<1>0. /\ t \in Threads /\ t # idle_thread /\ idle_thread \in Threads
      /\ sched.cur = t /\ pc[t] \in {"down", "asleep"}
      /\ holder' = holder /\ repeat' = repeat /\ calls' = calls
      /\ sched' = sema_down(sched, mutex)
      /\ pc' = [pc EXCEPT ![t] = "asleep"]
  BY ThreadAssumption DEF AcquireDown, At, Goto, Workers
<1>1. /\ SemaState(sched) /\ DOMAIN sched = Fields \cup {"sema"} /\ Ticks(sched)
      /\ ~sched.panic /\ RunQueueConsistent(sched, Fresh)
      /\ Fresh \in SUBSET (Threads \ {idle_thread})
      /\ sched.status[t] = "RUNNING" /\ mutex \in Semas
  BY <1>0, InvFacts, SyncAssumption
<1>2. ~elem_find(sched.sema[mutex].waiters, t)
  BY <1>0, <1>1 DEF IInv, QueuesConsistent, Waits
<1>3. PICK w \in Seq(Threads) : w = sched.sema[mutex].waiters
  BY InvFacts
<1>4. PICK v \in Seq(Threads) :
        /\ v = Append(w, t) /\ NoDuplicates(v)
        /\ \A x : elem_find(v, x) <=> elem_find(w, x) \/ x = t
  <2>1. NoDuplicates(w)
    BY <1>3 DEF IInv, QueuesConsistent
  <2>2. /\ Append(w, t) \in Seq(Threads) /\ NoDuplicates(Append(w, t))
        /\ \A x : elem_find(Append(w, t), x) <=> elem_find(w, x) \/ x = t
    BY <1>0, <1>2, <1>3, <2>1, AppendFacts
  <2> QED BY <2>2
<1>5. /\ SemaState(sched') /\ DOMAIN sched' = Fields \cup {"sema"} /\ ~sched'.panic
      /\ RunQueueConsistent(sched', Fresh) /\ Ticks(sched')
      /\ sched'.sema[mutex] = [value |-> 0, waiters |-> v]
      /\ sched'.status[t] = "BLOCKED"
      /\ \A u \in Threads \ {idle_thread, t} :
           IF Runnable(sched.status[u]) THEN Runnable(sched'.status[u])
                                        ELSE sched'.status[u] = sched.status[u]
  <2>1. Slept(sched, sched', mutex, Fresh)
    BY <1>0, <1>1, <1>2, SemaDownSleeps
  <2>2. v = Append(sched.sema[mutex].waiters, sched.cur)
    BY <1>0, <1>3, <1>4
  <2> QED BY <1>0, <1>1, <2>1, <2>2 DEF Slept
<1>6. sched'.sema[mutex] = [value |-> 0, waiters |-> v]
  BY <1>5
<1>7. pc \in [Threads -> PC] /\ pc' \in [Threads -> PC]
  BY <1>0 DEF IInv, TypeOK, PC
<1>8. pc'[t] = "asleep" /\ \A u \in Threads \ {t} : pc'[u] = pc[u]
  BY <1>0, <1>7
<1>9. TypeOK'
  BY <1>0, <1>5, <1>7, NextState DEF IInv, TypeOK
<1>10. Control'
  <2>1. ASSUME NEW u \in Workers
        PROVE  (/\ pc[u] \notin {"idle", "halt"}
                /\ pc[u] \in {"new", "gone"} => sched.status[u] = "DIED"
                /\ pc[u] = "asleep" => Runnable(sched.status[u]) \/ sched.status[u] = "BLOCKED"
                /\ pc[u] = "paused" => Runnable(sched.status[u]) \/ sched.status[u] = "WAITING"
                /\ pc[u] \notin {"new", "gone", "asleep", "paused"} => Runnable(sched.status[u]))'
    <3>1. CASE u = t
      BY <1>5, <1>8, <3>1
    <3>2. CASE u # t
      BY <1>5, <1>8, <3>2 DEF IInv, Control, Runnable, Workers
    <3> QED BY <3>1, <3>2
  <2>2. pc'[idle_thread] \in {"idle", "halt"}
    BY <1>0, <1>8 DEF IInv, Control
  <2> QED BY <2>1, <2>2 DEF Control
<1>11. QueuesConsistent'
  <2>1. Fresh' = Fresh
    BY <1>0, <1>8 DEF Fresh
  <2>2. RunQueueConsistent(sched, Fresh)'
    BY <1>5, <2>1
  <2>3. \A u \in Threads : Waits(u)' <=> Waits(u) \/ u = t
    BY <1>3, <1>4, <1>6 DEF Waits
  <2>4. ASSUME NEW u \in Threads
        PROVE  (Waits(u) <=> pc[u] = "asleep" /\ sched.status[u] = "BLOCKED")'
    <3>1. CASE u = t
      BY <1>5, <1>8, <2>3, <3>1
    <3>2. CASE u = idle_thread
      BY <1>0, <1>8, <2>3, <3>2 DEF IInv, QueuesConsistent, Control
    <3>3. CASE u \in Threads \ {idle_thread, t}
      BY <1>5, <1>8, <2>3, <3>3 DEF IInv, QueuesConsistent, Runnable
    <3> QED BY <3>1, <3>2, <3>3
  <2>5. NoDuplicates(sched.sema[mutex].waiters)'
    BY <1>4, <1>6
  <2> QED BY <2>2, <2>4, <2>5 DEF QueuesConsistent, Fresh
<1>12. ~Available(sched, mutex)'
  BY <1>6 DEF Available
<1>13. \A u \in Threads : Owner(u)' <=> Owner(u)
  BY <1>0, <1>8 DEF Owner
<1>14. Ownership'
  <2>1. \A u \in Threads : (holder = u <=> pc[u] \in {"repeat", "inside", "nested", "release"})'
    BY <1>0, <1>8 DEF IInv, Ownership
  <2> QED BY <1>12, <1>13, <2>1 DEF IInv, Ownership
<1>15. Counting'
  BY <1>0, <1>8 DEF IInv, Counting, Balanced
<1>16. NoLostWakeup'
  BY <1>12 DEF NoLostWakeup
<1> QED BY <1>5, <1>9, <1>10, <1>11, <1>14, <1>15, <1>16 DEF IInv, NoPanic

(* sema_up preserves IInv, whether somebody waits or not. If so, the woken *)
(* thread is the one NoLostWakeup asks for.                                *)
LEMMA ReleaseUpInv ==
  ASSUME IInv, NEW t \in Workers, ReleaseUp(t)
  PROVE  IInv'
<1>0. /\ t \in Threads /\ t # idle_thread /\ idle_thread \in Threads
      /\ sched.cur = t /\ pc[t] = "up"
      /\ holder' = holder /\ repeat' = repeat /\ calls' = calls
      /\ sched' = sema_up(sched, mutex)
      /\ pc' = [pc EXCEPT ![t] = "run"]
  <2>1. t \in Threads /\ pc[t] = "up"
    BY DEF ReleaseUp, At, Workers
  <2>2. ~(calls[t] > 0)
    BY <2>1 DEF IInv, Counting, Balanced
  <2> QED BY <2>1, <2>2, ThreadAssumption DEF ReleaseUp, Released, At, Goto, Workers
<1>1. /\ SemaState(sched) /\ DOMAIN sched = Fields \cup {"sema"} /\ Ticks(sched)
      /\ ~sched.panic /\ RunQueueConsistent(sched, Fresh)
      /\ sched.sema[mutex].value \in {0, 1} /\ sched.cur \in Threads
      /\ sched.status \in [Threads -> Status]
      /\ sched.status[t] = "RUNNING" /\ mutex \in Semas
  BY <1>0, InvFacts, SyncAssumption
<1>2. Owner(t) /\ \A u \in Threads \ {t} : ~Owner(u)
  BY <1>0 DEF IInv, Ownership, Owner
<1>3. sched.sema[mutex].value = 0
  BY <1>0, <1>1, <1>2 DEF IInv, Ownership, Available
<1>4. PICK w \in Seq(Threads) : w = sched.sema[mutex].waiters
  BY InvFacts
<1>5. pc \in [Threads -> PC] /\ pc' \in [Threads -> PC]
  BY <1>0 DEF IInv, TypeOK, PC
<1>6. pc'[t] = "run" /\ \A u \in Threads \ {t} : pc'[u] = pc[u]
  BY <1>0, <1>5
<1>7. \E v \in Seq(Threads) :
        /\ SemaState(sched') /\ DOMAIN sched' = Fields \cup {"sema"} /\ ~sched'.panic
        /\ sched'.this_tick = sched.this_tick
        /\ sched'.sema[mutex] = [value |-> 1, waiters |-> v] /\ NoDuplicates(v)
        /\ RunQueueConsistent(sched', Fresh)
        /\ \/ /\ v = <<>> /\ sched'.status = sched.status
              /\ \A u \in Threads : elem_find(v, u) <=> elem_find(w, u)
           \/ \E h \in Threads :
                /\ pc[h] = "asleep" /\ sched'.status[h] = "READY"
                /\ \A u \in Threads \ {h} : sched'.status[u] = sched.status[u]
                /\ \A u \in Threads : elem_find(v, u) <=> elem_find(w, u) /\ u # h
  <2>1. CASE w = <<>>
    <3>1. SemaChanged(sched, sched', mutex, 1, w)
      BY <1>0, <1>1, <1>3, <1>4, <2>1, SemaUpEmpty
    <3>2. /\ SemaState(sched') /\ DOMAIN sched' = Fields \cup {"sema"}
          /\ sched'.cur = sched.cur /\ sched'.status = sched.status
          /\ sched'.ready = sched.ready /\ sched'.this_tick = sched.this_tick
          /\ sched'.panic = sched.panic
      BY <1>1, <3>1 DEF SemaChanged
    <3>3. sched'.sema[mutex] = [value |-> 1, waiters |-> w]
      BY <3>1 DEF SemaChanged
    <3>4. RunQueueConsistent(sched', Fresh)
      BY <1>1, <3>2 DEF RunQueueConsistent
    <3>5. NoDuplicates(w)
      BY <1>4 DEF IInv, QueuesConsistent
    <3> QED BY <1>1, <2>1, <3>2, <3>3, <3>4, <3>5
  <2>2. CASE w # <<>>
    <3>1. PICK h \in Threads : h = Head(w) /\ elem_find(w, h)
      BY <1>4, <2>2, TailFacts DEF IInv, QueuesConsistent
    <3>2. pc[h] = "asleep" /\ sched.status[h] = "BLOCKED"
      BY <1>4, <3>1 DEF IInv, QueuesConsistent, Waits
    <3>3. sched.status[h] \in Suspended /\ ~elem_find(sched.ready, h)
      BY <1>1, <3>2 DEF Suspended, RunQueueConsistent
    <3>4. PICK v \in Seq(Threads) :
            /\ v = Tail(w) /\ NoDuplicates(v)
            /\ \A u : elem_find(v, u) <=> elem_find(w, u) /\ u # h
      <4>1. NoDuplicates(w)
        BY <1>4 DEF IInv, QueuesConsistent
      <4>2. /\ Tail(w) \in Seq(Threads) /\ NoDuplicates(Tail(w))
            /\ \A u : elem_find(Tail(w), u) <=> elem_find(w, u) /\ u # Head(w)
        BY <2>2, <4>1, TailFacts
      <4> QED BY <3>1, <4>2
    <3>5. NoDuplicates(sched.sema[mutex].waiters)
      BY DEF IInv, QueuesConsistent
    <3>6. /\ SemaState(sched') /\ DOMAIN sched' = Fields \cup {"sema"} /\ ~sched'.panic
          /\ sched'.cur = sched.cur /\ sched'.this_tick = sched.this_tick
          /\ sched'.ready = <<h>> \o sched.ready
          /\ sched'.status = [sched.status EXCEPT ![h] = "READY"]
          /\ sched'.sema[mutex] = [value |-> 1, waiters |-> v]
      <4>1. h = Head(sched.sema[mutex].waiters) /\ sched.sema[mutex].waiters # <<>>
        BY <1>4, <2>2, <3>1
      <4>2. Woke(sched, sched', mutex, h)
        BY <1>0, <1>1, <1>3, <3>3, <3>5, <4>1, SemaUpWakes
      <4>3. Tail(sched.sema[mutex].waiters) = v
        BY <1>4, <3>4
      <4> QED BY <1>1, <4>2, <4>3 DEF Woke
    <3>7. sched'.sema[mutex] = [value |-> 1, waiters |-> v]
      BY <3>6
    <3>8. RunQueueConsistent(sched', Fresh)
      BY <1>1, <3>3, <3>6, QueueAfterUnblock DEF SemaState
    <3>9. /\ sched'.status[h] = "READY"
          /\ \A u \in Threads \ {h} : sched'.status[u] = sched.status[u]
      BY <1>1, <3>6
    <3> QED BY <3>2, <3>4, <3>6, <3>7, <3>8, <3>9
  <2> QED BY <2>1, <2>2
<1>8. PICK v \in Seq(Threads) :
        /\ SemaState(sched') /\ DOMAIN sched' = Fields \cup {"sema"} /\ ~sched'.panic
        /\ sched'.this_tick = sched.this_tick
        /\ sched'.sema[mutex] = [value |-> 1, waiters |-> v] /\ NoDuplicates(v)
        /\ RunQueueConsistent(sched', Fresh)
        /\ \/ /\ v = <<>> /\ sched'.status = sched.status
              /\ \A u \in Threads : elem_find(v, u) <=> elem_find(w, u)
           \/ \E h \in Threads :
                /\ pc[h] = "asleep" /\ sched'.status[h] = "READY"
                /\ \A u \in Threads \ {h} : sched'.status[u] = sched.status[u]
                /\ \A u \in Threads : elem_find(v, u) <=> elem_find(w, u) /\ u # h
  BY <1>7
<1>9. TypeOK'
  BY <1>0, <1>1, <1>5, <1>8, NextState DEF IInv, TypeOK, Ticks
<1>10. Control'
  <2>1. \A u \in Threads :
          \/ sched'.status[u] = sched.status[u]
          \/ pc[u] = "asleep" /\ sched'.status[u] = "READY"
    BY <1>8
  <2>2. Runnable("READY") /\ Runnable("RUNNING")
    BY DEF Runnable
  <2>3. Runnable(sched'.status[t])
    BY <1>0, <1>1, <2>1, <2>2
  <2>4. ASSUME NEW u \in Workers
        PROVE  (/\ pc[u] \notin {"idle", "halt"}
                /\ pc[u] \in {"new", "gone"} => sched.status[u] = "DIED"
                /\ pc[u] = "asleep" => Runnable(sched.status[u]) \/ sched.status[u] = "BLOCKED"
                /\ pc[u] = "paused" => Runnable(sched.status[u]) \/ sched.status[u] = "WAITING"
                /\ pc[u] \notin {"new", "gone", "asleep", "paused"} => Runnable(sched.status[u]))'
    <3>1. CASE u = t
      BY <1>6, <2>3, <3>1
    <3>2. CASE u # t
      BY <1>6, <2>1, <2>2, <3>2 DEF IInv, Control, Workers
    <3> QED BY <3>1, <3>2
  <2>5. pc'[idle_thread] \in {"idle", "halt"}
    BY <1>0, <1>6 DEF IInv, Control
  <2> QED BY <2>4, <2>5 DEF Control
<1>11. \A u \in Threads : (Waits(u) <=> elem_find(w, u)) /\ (Waits(u)' <=> elem_find(v, u))
  BY <1>4, <1>8 DEF Waits
<1>12. QueuesConsistent'
  <2>1. Fresh' = Fresh
    BY <1>0, <1>6 DEF Fresh
  <2>2. RunQueueConsistent(sched, Fresh)'
    BY <1>8, <2>1
  <2>3. \A u \in Threads : (Waits(u) <=> pc[u] = "asleep" /\ sched.status[u] = "BLOCKED")'
    BY <1>0, <1>1, <1>6, <1>8, <1>11 DEF IInv, QueuesConsistent
  <2>4. NoDuplicates(sched.sema[mutex].waiters)'
    BY <1>8
  <2> QED BY <2>2, <2>3, <2>4 DEF QueuesConsistent, Fresh
<1>13. Ownership'
  <2>1. \A u \in Threads : ~Owner(u)'
    BY <1>2, <1>6 DEF Owner
  <2>2. Available(sched, mutex)'
    BY <1>8 DEF Available
  <2>3. \A u \in Threads : (holder = u <=> pc[u] \in {"repeat", "inside", "nested", "release"})'
    BY <1>0, <1>6 DEF IInv, Ownership
  <2> QED BY <2>1, <2>2, <2>3 DEF Ownership
<1>14. Counting'
  BY <1>0, <1>2, <1>6 DEF IInv, Counting, Balanced, Owner
<1>15. NoLostWakeup'
  BY <1>0, <1>6, <1>8, <1>11 DEF NoLostWakeup
<1> QED BY <1>8, <1>9, <1>10, <1>12, <1>13, <1>14, <1>15 DEF IInv, NoPanic

-----------------------------------------------------------------------------
(* thread_yield, the clock interrupt and the idle loop preserve IInv. *)
LEMMA SwitchesInv ==
  ASSUME IInv,
         \/ \E t \in Workers : Yield(t)
         \/ Timer
         \/ IdleBlock
  PROVE  IInv'
<1>0. /\ ThreadState(sched) /\ ~sched.panic /\ Ticks(sched)
      /\ Fresh \in SUBSET (Threads \ {idle_thread})
      /\ RunQueueConsistent(sched, Fresh) /\ sched.cur \in Threads
      /\ pc \in [Threads -> PC] /\ pc[idle_thread] \in {"idle", "halt"}
      /\ \A t \in Workers : pc[t] \notin {"idle", "halt"}
      /\ idle_thread \in Threads /\ {"idle", "halt"} \subseteq PC
  BY InvFacts, ThreadAssumption DEF IInv, TypeOK, Control, PC
<1>1. CASE \E t \in Workers : Yield(t)
  <2>1. sched' = thread_yield(sched) /\ pc' = pc /\ UNCHANGED <<holder, repeat, calls>>
    BY <1>1 DEF Yield
  <2>2. Switched(sched, sched', Fresh)
    BY <1>0, <2>1, YieldFacts
  <2> QED BY <1>0, <2>1, <2>2, SwitchStep
<1>2. CASE Timer
  <2>1. /\ sched' = intr_timer_handler(sched) /\ UNCHANGED <<holder, repeat, calls>>
        /\ pc' = [pc EXCEPT ![sched.cur] = IF @ = "halt" THEN "idle" ELSE @]
    BY <1>2 DEF Timer, LeaveHalt
  <2>2. Switched(sched, sched', Fresh)
    BY <1>0, <2>1, TimerFacts
  <2>3. /\ pc' \in [Threads -> PC] /\ pc'[idle_thread] \in {"idle", "halt"}
        /\ \A t \in Workers : pc'[t] = pc[t]
    BY <1>0, <2>1 DEF Workers
  <2> QED BY <2>1, <2>2, <2>3, SwitchStep
<1>3. CASE IdleBlock
  <2>1. /\ sched' = thread_block(sched, "BLOCKED") /\ UNCHANGED <<holder, repeat, calls>>
        /\ sched.cur = idle_thread /\ pc' = [pc EXCEPT ![idle_thread] = "halt"]
    BY <1>3 DEF IdleBlock, At, Goto
  <2>2. "BLOCKED" \in Suspended
    BY DEF Suspended
  <2>3. Suspends(sched, sched', Fresh, "BLOCKED")
    BY <1>0, <2>1, <2>2, ThreadBlockFacts
  <2>4. Switched(sched, sched', Fresh)
    BY <2>1, <2>3 DEF Suspends, Switched, SwitchFrame
  <2>5. /\ pc' \in [Threads -> PC] /\ pc'[idle_thread] \in {"idle", "halt"}
        /\ \A t \in Workers : pc'[t] = pc[t]
    BY <1>0, <2>1 DEF Workers
  <2> QED BY <2>1, <2>4, <2>5, SwitchStep
<1> QED BY <1>1, <1>2, <1>3

(* thread_block outside the mutex and thread_exit preserve IInv. *)
LEMMA SuspendsInv ==
  ASSUME IInv, NEW t \in Workers, Pause(t) \/ Exit(t)
  PROVE  IInv'
<1>0. /\ ThreadState(sched) /\ ~sched.panic /\ Ticks(sched)
      /\ Fresh \in SUBSET (Threads \ {idle_thread})
      /\ RunQueueConsistent(sched, Fresh)
      /\ sched.cur = t /\ pc[t] = "run" /\ t # idle_thread
      /\ UNCHANGED <<holder, repeat, calls>>
  BY InvFacts DEF Pause, Exit, At, Workers
<1>1. CASE Pause(t)
  <2>1. sched' = thread_block(sched, "WAITING") /\ pc' = [pc EXCEPT ![sched.cur] = "paused"]
    BY <1>0, <1>1 DEF Pause, Goto
  <2>2. "WAITING" \in Suspended
    BY DEF Suspended
  <2>3. Suspends(sched, sched', Fresh, "WAITING")
    BY <1>0, <2>1, <2>2, ThreadBlockFacts
  <2> QED BY <1>0, <2>1, <2>3, SuspendStep
<1>2. CASE Exit(t)
  <2>1. /\ sched' = thread_exit(sched, sched.cur, TRUE)
        /\ pc' = [pc EXCEPT ![sched.cur] = "gone"]
    BY <1>0, <1>2 DEF Exit, Goto
  <2>2. Suspends(sched, sched', Fresh, "DIED")
    BY <1>0, <2>1, ThreadExitFacts
  <2> QED BY <1>0, <2>1, <2>2, SuspendStep
<1> QED BY <1>1, <1>2

(* An interrupt that unblocks a waiting thread preserves IInv. *)
LEMMA EventInv ==
  ASSUME IInv, Event
  PROVE  IInv'
<1>1. PICK t \in Threads :
        /\ pc[t] = "paused" /\ sched.status[t] = "WAITING"
        /\ sched' = thread_unblock(sched, t)
  BY DEF Event
<1>2. /\ pc' = [pc EXCEPT ![sched.cur] = IF @ = "halt" THEN "idle" ELSE @]
      /\ holder' = holder /\ repeat' = repeat /\ calls' = calls
  BY DEF Event, LeaveHalt
<1>3. /\ SemaState(sched) /\ ThreadState(sched) /\ DOMAIN sched = Fields \cup {"sema"}
      /\ ~sched.panic /\ Ticks(sched) /\ RunQueueConsistent(sched, Fresh)
      /\ sched.cur \in Threads /\ sched.status \in [Threads -> Status]
  BY InvFacts
<1>4. sched.status[t] \in Suspended /\ ~elem_find(sched.ready, t)
  BY <1>1, <1>3 DEF Suspended, RunQueueConsistent
<1>5. /\ ThreadState(sched') /\ Extends(sched, sched') /\ ~sched'.panic
      /\ sched'.ready = <<t>> \o sched.ready
      /\ sched'.status = [sched.status EXCEPT ![t] = "READY"]
      /\ sched'.cur = sched.cur /\ sched'.this_tick = sched.this_tick
  BY <1>1, <1>3, <1>4, UnblockFacts
<1>6. sched'.status[t] = "READY" /\ \A u \in Threads \ {t} : sched'.status[u] = sched.status[u]
  BY <1>3, <1>5
<1>7. /\ DOMAIN sched' = Fields \cup {"sema"} /\ sched'.sema = sched.sema
      /\ SemaState(sched') /\ Ticks(sched')
  BY <1>3, <1>5 DEF Extends, Fields, SemaState, Ticks
<1>8. pc \in [Threads -> PC] /\ {"idle", "halt"} \subseteq PC /\ idle_thread \in Threads
  BY ThreadAssumption DEF IInv, TypeOK, PC
<1>9. /\ pc' \in [Threads -> PC] /\ pc'[idle_thread] \in {"idle", "halt"}
      /\ pc[idle_thread] \in {"idle", "halt"}
      /\ \A u \in Workers : pc'[u] = pc[u]
  BY <1>2, <1>3, <1>8 DEF Workers, IInv, Control
<1>10. TypeOK'
  BY <1>2, <1>7, <1>9, NextState DEF IInv, TypeOK
<1>11. t \in Workers
  BY <1>1, <1>9 DEF Workers
<1>12. Control'
  BY <1>1, <1>6, <1>9 DEF IInv, Control, Runnable, Workers
<1>13. \A u \in Threads : pc'[u] = pc[u] \/ (u = idle_thread /\ pc'[u] \in {"idle", "halt"}
                                                /\ pc[u] \in {"idle", "halt"})
  BY <1>9 DEF Workers
<1>14. \A u \in Threads : Waits(u)' <=> Waits(u)
  BY <1>7 DEF Waits
<1>15. QueuesConsistent'
  <2>1. Fresh' = Fresh
    BY <1>13 DEF Fresh
  <2>2. RunQueueConsistent(sched, Fresh)'
    BY <1>3, <1>4, <1>5, <2>1, QueueAfterUnblock
  <2>3. \A u \in Threads : (Waits(u) <=> pc[u] = "asleep" /\ sched.status[u] = "BLOCKED")'
    BY <1>1, <1>6, <1>13, <1>14 DEF IInv, QueuesConsistent
  <2>4. NoDuplicates(sched.sema[mutex].waiters)'
    BY <1>7 DEF IInv, QueuesConsistent
  <2> QED BY <2>2, <2>3, <2>4 DEF QueuesConsistent, Fresh
<1>16. Ownership'
  <2>1. \A u \in Threads : Owner(u)' <=> Owner(u)
    BY <1>13 DEF Owner
  <2>2. Available(sched, mutex)' <=> Available(sched, mutex)
    BY <1>7 DEF Available
  <2>3. \A u \in Threads : (holder = u <=> pc[u] \in {"repeat", "inside", "nested", "release"})'
    BY <1>2, <1>13 DEF IInv, Ownership
  <2> QED BY <2>1, <2>2, <2>3 DEF IInv, Ownership
<1>17. Counting'
  BY <1>2, <1>13 DEF IInv, Counting, Balanced
<1>18. NoLostWakeup'
  BY <1>7, <1>13, <1>14 DEF IInv, NoLostWakeup, Available
<1> QED BY <1>5, <1>10, <1>12, <1>15, <1>16, <1>17, <1>18 DEF IInv, NoPanic

-----------------------------------------------------------------------------
(* Both halves of thread_start: a thread becomes READY, and the set of     *)
(* fresh threads follows.                                                  *)
LEMMA StartStep ==
  ASSUME IInv, NEW c \in Workers, c # main_thread, NEW label, NEW child,
         \/ pc[c] = "new" /\ pc[main_thread] = "run" /\ label = "start" /\ child = "fresh"
         \/ pc[c] = "fresh" /\ pc[main_thread] = "start" /\ label = "run" /\ child = "run",
         pc' = [pc EXCEPT ![c] = child, ![main_thread] = label],
         UNCHANGED <<holder, repeat, calls>>,
         SemaState(sched'), DOMAIN sched' = Fields \cup {"sema"}, ~sched'.panic,
         Ticks(sched'), sched'.sema = sched.sema,
         sched'.status[c] = "READY",
         \A u \in Threads \ {c} : sched'.status[u] = sched.status[u],
         RunQueueConsistent(sched', {u \in Threads : pc'[u] = "fresh"})
  PROVE  IInv'
<1>1. /\ main_thread \in Workers /\ main_thread \in Threads /\ c \in Threads
      /\ idle_thread \in Threads /\ c # idle_thread /\ main_thread # idle_thread
  BY SyncAssumption, ThreadAssumption DEF Workers
<1>2. pc \in [Threads -> PC] /\ pc' \in [Threads -> PC]
  BY <1>1 DEF IInv, TypeOK, PC
<1>3. /\ pc'[c] = child /\ pc'[main_thread] = label
      /\ \A u \in Threads \ {c, main_thread} : pc'[u] = pc[u]
  BY <1>1, <1>2
<1>4. TypeOK'
  BY <1>2, NextState DEF IInv, TypeOK
<1>5. Control'
  BY <1>1, <1>3 DEF IInv, Control, Runnable, Workers
<1>6. \A u \in Threads : pc'[u] = pc[u] \/ {pc[u], pc'[u]} \subseteq {"new", "fresh", "run", "start"}
  BY <1>1, <1>3
<1>7. \A u \in Threads : Waits(u)' <=> Waits(u)
  BY DEF Waits
<1>8. QueuesConsistent'
  <2>2. RunQueueConsistent(sched, Fresh)'
    BY DEF Fresh
  <2>3. ASSUME NEW u \in Threads
        PROVE  (Waits(u) <=> pc[u] = "asleep" /\ sched.status[u] = "BLOCKED")'
    <3>1. Waits(u) <=> pc[u] = "asleep" /\ sched.status[u] = "BLOCKED"
      BY DEF IInv, QueuesConsistent
    <3>2. CASE u \in {c, main_thread}
      BY <1>3, <1>7, <3>1, <3>2
    <3>3. CASE u \notin {c, main_thread}
      BY <1>3, <1>7, <3>1, <3>3
    <3> QED BY <3>2, <3>3
  <2>4. NoDuplicates(sched.sema[mutex].waiters)'
    BY DEF IInv, QueuesConsistent
  <2> QED BY <2>2, <2>3, <2>4 DEF QueuesConsistent, Fresh
<1>9. Ownership'
  <2>1. \A u \in Threads : Owner(u)' <=> Owner(u)
    BY <1>6 DEF Owner
  <2>2. Available(sched, mutex)' <=> Available(sched, mutex)
    BY DEF Available
  <2>3. \A u \in Threads : (holder = u <=> pc[u] \in {"repeat", "inside", "nested", "release"})'
    BY <1>6 DEF IInv, Ownership
  <2> QED BY <2>1, <2>2, <2>3 DEF IInv, Ownership
<1>10. Counting'
  BY <1>6 DEF IInv, Counting, Balanced
<1>11. NoLostWakeup'
  BY <1>6, <1>7 DEF IInv, NoLostWakeup, Available
<1> QED BY <1>4, <1>5, <1>8, <1>9, <1>10, <1>11 DEF IInv, NoPanic

(* init_thread, before the new thread is enqueued, preserves IInv. *)
LEMMA StartInitInv ==
  ASSUME IInv, StartInit
  PROVE  IInv'
<1>1. PICK c \in Threads :
        /\ pc[c] = "new" /\ sched' = init_thread(sched, c)
        /\ pc' = [pc EXCEPT ![c] = "fresh", ![main_thread] = "start"]
  BY DEF StartInit
<1>2. /\ pc[main_thread] = "run" /\ UNCHANGED <<holder, repeat, calls>>
      /\ c # main_thread /\ c \in Workers
  BY <1>1 DEF StartInit, At, IInv, Control, Workers
<1>3. /\ SemaState(sched) /\ ThreadState(sched) /\ DOMAIN sched = Fields \cup {"sema"}
      /\ ~sched.panic /\ Ticks(sched) /\ RunQueueConsistent(sched, Fresh)
      /\ sched.status \in [Threads -> Status] /\ sched.this_tick \in [Threads -> Nat]
  BY InvFacts DEF ThreadState
<1>4. /\ DOMAIN sched' = DOMAIN sched /\ sched' = [f \in DOMAIN sched' |-> sched'[f]]
      /\ \A f \in DOMAIN sched \ {"status", "this_tick"} : sched'[f] = sched[f]
      /\ sched'.status = [sched.status EXCEPT ![c] = "READY"]
      /\ sched'.this_tick = [sched.this_tick EXCEPT ![c] = time_slice[c]]
  BY <1>1, <1>3 DEF init_thread, ThreadState, Fields
<1>5. /\ sched'.cur = sched.cur /\ sched'.ready = sched.ready
      /\ sched'.panic = sched.panic /\ sched'.sema = sched.sema
  BY <1>3, <1>4 DEF Fields
<1>6. /\ sched'.status[c] = "READY" /\ sched'.status \in [Threads -> Status]
      /\ \A u \in Threads \ {c} : sched'.status[u] = sched.status[u]
  BY <1>3, <1>4 DEF Status
<1>7. sched'.this_tick \in [Threads -> Nat] /\ Ticks(sched')
  BY <1>3, <1>4, ThreadAssumption DEF Ticks
<1>8. SemaState(sched')
  <2>1. ThreadState(sched')
    BY <1>3, <1>4, <1>5, <1>6, <1>7 DEF ThreadState
  <2> QED BY <1>3, <1>4, <1>5, <2>1 DEF SemaState
<1>9. RunQueueConsistent(sched', Fresh \cup {c})
  <2>1. sched.status[c] = "DIED"
    BY <1>1, <1>2 DEF IInv, Control
  <2>2. ~elem_find(sched.ready, c) /\ c # sched.cur /\ c # idle_thread
    BY <1>2, <1>3, <2>1 DEF RunQueueConsistent, Workers
  <2>3. \A u \in Threads : sched'.status[u] = "READY" <=>
                           elem_find(sched'.ready, u) \/ u \in Fresh \cup {c}
    BY <1>3, <1>5, <1>6, <2>2 DEF RunQueueConsistent
  <2>4. \A u \in Fresh \cup {c} : ~elem_find(sched'.ready, u)
    BY <1>3, <1>5, <2>2 DEF RunQueueConsistent
  <2>5. \A u \in Threads : sched'.status[u] = "RUNNING" <=> u = sched'.cur
    BY <1>3, <1>5, <1>6, <2>2 DEF RunQueueConsistent
  <2>6. sched'.status[idle_thread] \in {"RUNNING", "READY", "BLOCKED"}
    BY <1>3, <1>6, <2>2, ThreadAssumption DEF RunQueueConsistent
  <2>7. NoDuplicates(sched'.ready)
    BY <1>3, <1>5 DEF RunQueueConsistent
  <2> QED BY <2>3, <2>4, <2>5, <2>6, <2>7 DEF RunQueueConsistent
<1>10. RunQueueConsistent(sched', {u \in Threads : pc'[u] = "fresh"})
  <2>1. {u \in Threads : pc'[u] = "fresh"} = Fresh \cup {c}
    BY <1>1, <1>2, SyncAssumption DEF Fresh, IInv, TypeOK
  <2> QED BY <1>9, <2>1
<1> QED BY <1>1, <1>2, <1>3, <1>4, <1>5, <1>6, <1>7, <1>8, <1>10, StartStep

(* The list_append that ends thread_start preserves IInv, although         *)
(* interrupts were on since init_thread.                                   *)
LEMMA StartEnqueueInv ==
  ASSUME IInv, StartEnqueue
  PROVE  IInv'
<1>1. PICK c \in Threads :
        /\ pc[c] = "fresh" /\ sched' = Enqueue(sched, c)
        /\ pc' = [pc EXCEPT ![c] = "run", ![main_thread] = "run"]
  BY DEF StartEnqueue
<1>2. /\ pc[main_thread] = "start" /\ UNCHANGED <<holder, repeat, calls>>
      /\ c # main_thread /\ c \in Workers /\ c \in Fresh
  BY <1>1 DEF StartEnqueue, At, IInv, Control, Workers, Fresh
<1>3. /\ SemaState(sched) /\ ThreadState(sched) /\ DOMAIN sched = Fields \cup {"sema"}
      /\ ~sched.panic /\ Ticks(sched) /\ RunQueueConsistent(sched, Fresh)
      /\ sched.ready \in Seq(Threads)
  BY InvFacts DEF ThreadState
<1>4. ~elem_find(sched.ready, c) /\ sched.status[c] = "READY"
  BY <1>2, <1>3 DEF RunQueueConsistent
<1>5. ASSERT(sched, ~elem_find(sched.ready, c)) = sched
  BY <1>3, <1>4, AssertFacts DEF elem_find
<1>6. sched' = [sched EXCEPT !.ready = Append(sched.ready, c)]
  BY <1>1, <1>5 DEF Enqueue
<1>7. PICK list \in Seq(Threads) :
        /\ list = Append(sched.ready, c) /\ NoDuplicates(list)
        /\ \A x : elem_find(list, x) <=> elem_find(sched.ready, x) \/ x = c
  <2>1. NoDuplicates(sched.ready)
    BY <1>3 DEF RunQueueConsistent
  <2>2. /\ Append(sched.ready, c) \in Seq(Threads) /\ NoDuplicates(Append(sched.ready, c))
        /\ \A x : elem_find(Append(sched.ready, c), x) <=> elem_find(sched.ready, x) \/ x = c
    BY <1>3, <1>4, <2>1, AppendFacts
  <2> QED BY <2>2
<1>8. /\ DOMAIN sched' = DOMAIN sched /\ sched' = [f \in DOMAIN sched' |-> sched'[f]]
      /\ \A f \in DOMAIN sched \ {"ready"} : sched'[f] = sched[f]
      /\ sched'.ready = list
  BY <1>3, <1>6, <1>7 DEF ThreadState, Fields
<1>9. /\ sched'.cur = sched.cur /\ sched'.status = sched.status
      /\ sched'.this_tick = sched.this_tick
      /\ sched'.panic = sched.panic /\ sched'.sema = sched.sema
  BY <1>3, <1>8 DEF Fields
<1>10. SemaState(sched') /\ Ticks(sched')
  <2>1. ThreadState(sched')
    BY <1>3, <1>8, <1>9 DEF ThreadState
  <2> QED BY <1>3, <1>8, <1>9, <2>1 DEF SemaState, Ticks
<1>11. RunQueueConsistent(sched', Fresh \ {c})
  BY <1>2, <1>3, <1>4, <1>7, <1>8, <1>9 DEF RunQueueConsistent
<1>12. RunQueueConsistent(sched', {u \in Threads : pc'[u] = "fresh"})
  <2>1. {u \in Threads : pc'[u] = "fresh"} = Fresh \ {c}
    BY <1>1, <1>2, SyncAssumption DEF Fresh, IInv, TypeOK
  <2> QED BY <1>11, <2>1
<1>13. /\ sched'.status[c] = "READY" /\ ~sched'.panic
       /\ \A u \in Threads \ {c} : sched'.status[u] = sched.status[u]
  BY <1>3, <1>4, <1>9
<1> QED BY <1>1, <1>2, <1>3, <1>8, <1>9, <1>10, <1>12, <1>13, StartStep

-----------------------------------------------------------------------------
(* The state after thread_init satisfies IInv. *)
LEMMA InitInv ==
  ASSUME Init
  PROVE  IInv
<1>1. /\ main_thread \in Threads /\ idle_thread \in Threads /\ main_thread # idle_thread
      /\ mutex \in Semas /\ NOBODY \notin Threads /\ time_slice \in [Threads -> Nat]
      /\ NoDuplicates(booted) /\ elem_find(booted, idle_thread)
  BY SyncAssumption, ThreadAssumption
<1>2. booted \in Seq(Threads) /\ ~elem_find(booted, main_thread)
  BY SyncAssumption DEF elem_find
<1>3. /\ sched.cur = main_thread /\ sched.ready = booted /\ sched.this_tick = time_slice
      /\ sched.panic = FALSE
      /\ sched.status = [t \in Threads |-> IF t = main_thread THEN "RUNNING"
                                           ELSE IF elem_find(booted, t) THEN "READY"
                                           ELSE "DIED"]
      /\ sched.sema = [x \in Semas |-> sema_init(1)]
  BY DEF Init
<1>4. /\ holder = NOBODY /\ repeat = 0 /\ calls = [t \in Threads |-> 0]
      /\ pc = [t \in Threads |->
                 IF t = idle_thread THEN "idle"
                 ELSE IF t = main_thread \/ elem_find(booted, t) THEN "run"
                 ELSE "new"]
  BY DEF Init
<1>5. sched.sema \in [Semas -> [value : {0, 1}, waiters : Seq(Threads)]]
  BY <1>3 DEF sema_init
<1>6. sched \in KernelState
  <2>1. sched.status \in [Threads -> Status]
    BY <1>3 DEF Status
  <2>2. sched = [cur |-> sched.cur, status |-> sched.status, ready |-> sched.ready,
                 this_tick |-> sched.this_tick, panic |-> sched.panic, sema |-> sched.sema]
    BY DEF Init
  <2>3. sched.cur \in Threads /\ sched.ready \in Seq(Threads)
        /\ sched.this_tick \in [Threads -> Nat] /\ sched.panic \in BOOLEAN
    BY <1>1, <1>2, <1>3
  <2> QED BY <1>5, <2>1, <2>2, <2>3 DEF KernelState
<1>7. TypeOK
  <2>1. pc \in [Threads -> PC]
    BY <1>4 DEF PC
  <2> QED BY <1>1, <1>3, <1>4, <1>6, <2>1 DEF TypeOK
<1>8. NoPanic
  BY <1>3 DEF NoPanic
<1>9. sched.sema[mutex].value = 1 /\ sched.sema[mutex].waiters = <<>>
  BY <1>1, <1>3 DEF sema_init
<1>10. \A t \in Threads : pc[t] \in {"idle", "run", "new"}
  BY <1>4
<1>11. \A t \in Threads : ~Waits(t)
  BY <1>9 DEF Waits, elem_find
<1>12. QueuesConsistent
  <2>1. Fresh = {}
    BY <1>10 DEF Fresh
  <2>2. RunQueueConsistent(sched, {})
    BY <1>1, <1>2, <1>3 DEF RunQueueConsistent
  <2>3. NoDuplicates(sched.sema[mutex].waiters)
    BY <1>9 DEF NoDuplicates
  <2> QED BY <1>10, <1>11, <2>1, <2>2, <2>3 DEF QueuesConsistent, Fresh
<1>13. Control
  BY <1>1, <1>3, <1>4 DEF Control, Runnable, Workers
<1>14. Ownership
  BY <1>1, <1>4, <1>9, <1>10 DEF Ownership, Owner, Available
<1>15. Counting
  BY <1>4, <1>10 DEF Counting, Balanced
<1>16. NoLostWakeup
  BY <1>9 DEF NoLostWakeup
<1> QED BY <1>7, <1>8, <1>12, <1>13, <1>14, <1>15, <1>16 DEF IInv

(* Every action preserves IInv. *)
LEMMA NextInv ==
  ASSUME IInv, Next
  PROVE  IInv'
<1>1. ASSUME NEW t \in Workers, Step(t) PROVE IInv'
  <2>1. CASE AcquireDown(t)
    <3>1. CASE Available(sched, mutex)
      BY <2>1, <3>1, AcquireDownTakesInv
    <3>2. CASE ~Available(sched, mutex)
      BY <2>1, <3>2, AcquireDownSleepsInv
    <3> QED BY <3>1, <3>2
  <2>2. CASE AcquireTest(t)
    BY <2>2, AcquireTestInv
  <2>3. CASE AcquireHolder(t)
    BY <2>3, AcquireHolderInv
  <2>4. CASE AcquireRepeat(t)
    BY <2>4, AcquireRepeatInv
  <2>5. CASE ReleaseTest(t)
    BY <2>5, ReleaseTestInv
  <2>6. CASE ReleaseClear(t)
    BY <2>6, ReleaseClearInv
  <2>7. CASE ReleaseUp(t)
    BY <2>7, ReleaseUpInv
  <2>8. CASE Request(t) \/ Inside(t) \/ Resume(t)
    BY <2>8, AroundInv
  <2>9. CASE Yield(t)
    BY <2>9, SwitchesInv
  <2>10. CASE Pause(t) \/ Exit(t)
    BY <2>10, SuspendsInv
  <2>11. CASE StartInit \/ StartEnqueue
    BY <2>11, StartInitInv, StartEnqueueInv
  <2> QED BY <1>1, <2>1, <2>2, <2>3, <2>4, <2>5, <2>6, <2>7, <2>8, <2>9, <2>10, <2>11 DEF Step
<1>2. CASE IdleBlock \/ Timer
  BY <1>2, SwitchesInv
<1>3. CASE Event
  BY <1>3, EventInv
<1> QED BY <1>1, <1>2, <1>3 DEF Next

(* IInv holds in every reachable state, for every number of threads, all   *)
(* time slices and every nesting depth.                                    *)
THEOREM Invariance == Spec => []IInv
<1>1. Init => IInv
  BY InitInv
<1>2. IInv /\ [Next]_vars => IInv'
  <2>1. ASSUME IInv, Next PROVE IInv'
    BY <2>1, NextInv
  <2>2. ASSUME IInv, UNCHANGED vars PROVE IInv'
    BY <2>2 DEF vars, IInv, TypeOK, NoPanic, QueuesConsistent, Control, Ownership,
                Counting, Balanced, NoLostWakeup, Owner, Waits
  <2> QED BY <2>1, <2>2
<1> QED BY <1>1, <1>2, PTL DEF Spec

(* Every state is well typed; the uint8_t value of the mutex's semaphore   *)
(* stays 0 or 1, and no thread has more ticks than its slice.              *)
THEOREM TypeCorrect == Spec => []TypeOK
<1>1. IInv => TypeOK
  BY DEF IInv
<1> QED BY <1>1, Invariance, PTL

(* No ASSERT of thread.c or sync.c ever fails, whatever the clock          *)
(* interrupts between two statements of mutex_acquire, mutex_release and   *)
(* thread_start.                                                           *)
THEOREM PanicFree == Spec => []NoPanic
<1>1. IInv => NoPanic
  BY DEF IInv
<1> QED BY <1>1, Invariance, PTL

(* Thread table, run queue and waiters always agree: the one general_tag   *)
(* of a thread is never linked twice.                                      *)
THEOREM QueuesAgree == Spec => []QueuesConsistent
<1>1. IInv => QueuesConsistent
  BY DEF IInv
<1> QED BY <1>1, Invariance, PTL

(* At most one thread is between mutex_acquire and mutex_release, and the  *)
(* unlocked test of holder in mutex_acquire is never misled.               *)
THEOREM Exclusion == Spec => []MutualExclusion
<1>1. IInv => MutualExclusion
  BY DEF IInv, Ownership, MutualExclusion, Owner
<1> QED BY <1>1, Invariance, PTL

(* sema_up never loses a wakeup. *)
THEOREM WakeupsKept == Spec => []NoLostWakeup
<1>1. IInv => NoLostWakeup
  BY DEF IInv
<1> QED BY <1>1, Invariance, PTL

-----------------------------------------------------------------------------
(* The refinement mapping of module Sync, named: the threads inside. *)
Sections == {t \in Threads : InSection(t)}

(* The refinement mapping of module Sync, named: how deep. *)
Depth == IF \E t \in Threads : InSection(t) THEN repeat ELSE 0

(* A step that moves no thread in or out of its section and does not count *)
(* is a stutter of the abstract mutex.                                     *)
LEMMA SameSections ==
  ASSUME \A u \in Threads : InSection(u)' <=> InSection(u), repeat' = repeat
  PROVE  UNCHANGED <<Sections, Depth>>
BY DEF Sections, Depth

(* The abstract state while t has the semaphore. *)
LEMMA SectionOf ==
  ASSUME IInv, NEW t \in Threads, Owner(t)
  PROVE  /\ Sections = IF InSection(t) THEN {t} ELSE {}
         /\ Depth = IF InSection(t) THEN repeat ELSE 0
<1>1. \A u \in Threads \ {t} : ~InSection(u)
  BY DEF IInv, Ownership, Owner, InSection
<1> QED BY <1>1 DEF Sections, Depth

(* The abstract state after a step that leaves the semaphore with t. *)
LEMMA SectionNext ==
  ASSUME IInv', NEW t \in Threads, Owner(t)'
  PROVE  /\ Sections' = IF InSection(t)' THEN {t} ELSE {}
         /\ Depth' = IF InSection(t)' THEN repeat' ELSE 0
<1>1. \A u \in Threads \ {t} : ~InSection(u)'
  BY DEF IInv, Ownership, Owner, InSection
<1> QED BY <1>1 DEF Sections, Depth

(* The steps the abstract mutex does not see. *)
LEMMA StutterRefines ==
  ASSUME IInv, NEW t \in Workers,
         \/ (AcquireTest(t) /\ holder # t) \/ AcquireDown(t) \/ AcquireHolder(t)
         \/ ReleaseUp(t) \/ Request(t) \/ Inside(t) \/ Yield(t) \/ Pause(t)
         \/ Resume(t) \/ Exit(t) \/ StartInit \/ StartEnqueue
         \/ IdleBlock \/ Timer \/ Event
  PROVE  UNCHANGED <<Sections, Depth>>
<1>1. /\ pc \in [Threads -> PC] /\ t \in Threads /\ main_thread \in Threads
      /\ idle_thread \in Threads /\ sched.cur \in Threads
  BY InvFacts, SyncAssumption, ThreadAssumption DEF IInv, TypeOK, Workers
<1>2. CASE \/ (AcquireTest(t) /\ holder # t) \/ AcquireDown(t) \/ AcquireHolder(t)
           \/ ReleaseUp(t) \/ Request(t) \/ Inside(t) \/ Yield(t) \/ Pause(t)
           \/ Resume(t) \/ Exit(t)
  <2>1. repeat' = repeat
    BY <1>2 DEF AcquireTest, AcquireDown, AcquireHolder, ReleaseUp, Request, Inside,
                Yield, Pause, Resume, Exit
  <2>2. /\ pc'[t] \in {"inside", "nested", "release"} <=> pc[t] \in {"inside", "nested", "release"}
        /\ \A u \in Threads \ {t} : pc'[u] = pc[u]
    <3>1. CASE AcquireTest(t) /\ holder # t
      <4>1. pc[t] = "acquire" /\ pc' = [pc EXCEPT ![t] = "down"]
        BY <1>1, <3>1 DEF AcquireTest, At, Goto, IInv, Ownership
      <4> QED BY <1>1, <4>1
    <3>2. CASE AcquireDown(t)
      BY <1>1, <3>2 DEF AcquireDown, At, Goto
    <3>3. CASE ReleaseUp(t)
      <4>1. pc[t] = "up" /\ ~(calls[t] > 0)
        BY <1>1, <3>3 DEF ReleaseUp, At, IInv, Counting, Balanced
      <4> QED BY <1>1, <3>3, <4>1 DEF ReleaseUp, Released, Goto
    <3>4. CASE AcquireHolder(t) \/ Request(t) \/ Pause(t) \/ Resume(t) \/ Exit(t)
      BY <1>1, <3>4 DEF AcquireHolder, Request, Pause, Resume, Exit, At, Goto
    <3>5. CASE Inside(t)
      BY <1>1, <3>5 DEF Inside, At, Goto
    <3>6. CASE Yield(t)
      BY <3>6 DEF Yield
    <3> QED BY <1>2, <3>1, <3>2, <3>3, <3>4, <3>5, <3>6
  <2>3. \A u \in Threads : InSection(u)' <=> InSection(u)
    BY <1>1, <2>2 DEF InSection
  <2> QED BY <2>1, <2>3, SameSections
<1>3. CASE StartInit \/ StartEnqueue
  <2>1. repeat' = repeat
    BY <1>3 DEF StartInit, StartEnqueue
  <2>2. \A u \in Threads : InSection(u)' <=> InSection(u)
    BY <1>1, <1>3 DEF StartInit, StartEnqueue, At, InSection
  <2> QED BY <2>1, <2>2, SameSections
<1>4. CASE IdleBlock \/ Timer \/ Event
  <2>1. repeat' = repeat
    BY <1>4 DEF IdleBlock, Timer, Event
  <2>2. \A u \in Threads : InSection(u)' <=> InSection(u)
    <3>1. CASE IdleBlock
      BY <1>1, <3>1 DEF IdleBlock, At, Goto, InSection
    <3>2. CASE Timer \/ Event
      <4>1. pc' = [pc EXCEPT ![sched.cur] = IF @ = "halt" THEN "idle" ELSE @]
        BY <3>2 DEF Timer, Event, LeaveHalt
      <4> QED BY <1>1, <4>1 DEF InSection
    <3> QED BY <1>4, <3>1, <3>2
  <2> QED BY <2>1, <2>2, SameSections
<1> QED BY <1>2, <1>3, <1>4

(* mutex_acquire's and mutex_release's writes of holder_repeat_nr are      *)
(* Enter, Reenter and Leave of the abstract mutex, and the write of 0 is a *)
(* stutter.                                                                *)
LEMMA MutexStep ==
  ASSUME IInv, IInv', NEW t \in Workers,
         \/ (AcquireTest(t) /\ holder = t) \/ AcquireRepeat(t)
         \/ ReleaseTest(t) \/ ReleaseClear(t)
  PROVE  \/ \E u \in Threads :
              \/ Sections = {} /\ Sections' = {u} /\ Depth' = 1
              \/ Sections = {u} /\ Depth' = Depth + 1 /\ Sections' = Sections
              \/ /\ Sections = {u}
                 /\ \/ Depth > 1 /\ Depth' = Depth - 1 /\ Sections' = Sections
                    \/ Depth = 1 /\ Depth' = 0 /\ Sections' = {}
         \/ UNCHANGED <<Sections, Depth>>
<1>1. pc \in [Threads -> PC] /\ t \in Threads /\ repeat \in Nat
  BY DEF IInv, TypeOK, Workers
<1>2. CASE AcquireTest(t) /\ holder = t
  <2>1. pc[t] = "nested" /\ pc'[t] = "inside" /\ repeat' = repeat + 1
    BY <1>1, <1>2 DEF AcquireTest, At, Goto, IInv, Ownership
  <2>2. Owner(t) /\ InSection(t) /\ Owner(t)' /\ InSection(t)'
    BY <2>1 DEF Owner, InSection
  <2>3. Sections = {t} /\ Depth = repeat /\ Sections' = {t} /\ Depth' = repeat'
    BY <1>1, <2>2, SectionOf, SectionNext
  <2> QED BY <1>1, <2>1, <2>3
<1>3. CASE AcquireRepeat(t)
  <2>1. pc[t] = "repeat" /\ pc'[t] = "inside" /\ repeat' = 1
    BY <1>1, <1>3 DEF AcquireRepeat, At, Goto
  <2>2. Owner(t) /\ ~InSection(t) /\ Owner(t)' /\ InSection(t)'
    BY <2>1 DEF Owner, InSection
  <2>3. Sections = {} /\ Sections' = {t} /\ Depth' = repeat'
    BY <1>1, <2>2, SectionOf, SectionNext
  <2> QED BY <1>1, <2>1, <2>3
<1>4. CASE ReleaseTest(t)
  <2>1. pc[t] = "release"
    BY <1>4 DEF ReleaseTest, At
  <2>2. Owner(t) /\ InSection(t) /\ repeat >= 1
    BY <1>1, <2>1 DEF Owner, InSection, IInv, Counting, Balanced
  <2>3. Sections = {t} /\ Depth = repeat
    BY <1>1, <2>2, SectionOf
  <2>4. CASE repeat > 1
    <3>1. pc'[t] = "inside" /\ repeat' = repeat - 1
      <4>1. calls[t] > 0
        BY <1>1, <2>1, <2>4 DEF IInv, Counting, Balanced
      <4> QED BY <1>1, <1>4, <2>4, <4>1 DEF ReleaseTest, Released, Goto
    <3>2. Owner(t)' /\ InSection(t)'
      BY <3>1 DEF Owner, InSection
    <3>3. Sections' = {t} /\ Depth' = repeat'
      BY <1>1, <3>2, SectionNext
    <3> QED BY <1>1, <2>3, <2>4, <3>1, <3>3
  <2>5. CASE repeat <= 1
    <3>1. pc'[t] = "clear"
      BY <1>1, <1>4, <2>5 DEF ReleaseTest, Goto
    <3>2. Owner(t)' /\ ~InSection(t)'
      BY <3>1 DEF Owner, InSection
    <3>3. Sections' = {} /\ Depth' = 0
      BY <1>1, <3>2, SectionNext
    <3>4. repeat = 1
      BY <1>1, <2>2, <2>5
    <3> QED BY <1>1, <2>3, <3>3, <3>4
  <2> QED BY <1>1, <2>4, <2>5
<1>5. CASE ReleaseClear(t)
  <2>1. pc[t] = "clear" /\ pc'[t] = "up"
    BY <1>1, <1>5 DEF ReleaseClear, At, Goto
  <2>2. Owner(t) /\ ~InSection(t) /\ Owner(t)' /\ ~InSection(t)'
    BY <2>1 DEF Owner, InSection
  <2>3. Sections = {} /\ Depth = 0 /\ Sections' = {} /\ Depth' = 0
    BY <1>1, <2>2, SectionOf, SectionNext
  <2> QED BY <2>3
<1> QED BY <1>2, <1>3, <1>4, <1>5

(* sync.c implements a re-entrant mutex: every behaviour of the statement  *)
(* by statement model is one of module Mutex.                              *)
THEOREM Refinement == Spec => ImplementsMutex
<1>1. Init => M!Init
  <2> SUFFICES ASSUME Init PROVE M!Init
    OBVIOUS
  <2>1. \A t \in Threads : ~InSection(t)
    BY DEF Init, InSection
  <2> QED BY <2>1 DEF M!Init
<1>2. IInv /\ IInv' /\ [Next]_vars => [M!Next]_<<Sections, Depth>>
  <2> SUFFICES ASSUME IInv, IInv', [Next]_vars
               PROVE  M!Next \/ UNCHANGED <<Sections, Depth>>
    OBVIOUS
  <2>0. main_thread \in Workers
    BY SyncAssumption DEF Workers
  <2>1. CASE UNCHANGED vars
    BY <2>1 DEF vars, Sections, Depth, InSection
  <2>2. CASE IdleBlock \/ Timer \/ Event
    BY <2>0, <2>2, StutterRefines
  <2>3. ASSUME NEW t \in Workers, Step(t)
        PROVE  M!Next \/ UNCHANGED <<Sections, Depth>>
    <3>1. CASE \/ (AcquireTest(t) /\ holder = t) \/ AcquireRepeat(t)
               \/ ReleaseTest(t) \/ ReleaseClear(t)
      BY <3>1, MutexStep DEF M!Next, M!Enter, M!Reenter, M!Leave, Sections, Depth
    <3>2. CASE ~(\/ (AcquireTest(t) /\ holder = t) \/ AcquireRepeat(t)
                 \/ ReleaseTest(t) \/ ReleaseClear(t))
      BY <2>3, <3>2, StutterRefines DEF Step
    <3> QED BY <3>1, <3>2
  <2> QED BY <2>1, <2>2, <2>3 DEF Next
<1>3. [M!Next]_<<Sections, Depth>> <=>
      [M!Next]_<<{t \in Threads : InSection(t)},
                 IF \E t \in Threads : InSection(t) THEN repeat ELSE 0>>
  BY DEF Sections, Depth
<1> QED BY <1>1, <1>2, <1>3, Invariance, PTL DEF Spec, ImplementsMutex, M!Spec
=============================================================================
