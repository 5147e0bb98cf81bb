---------------------------- MODULE ThreadProofs ----------------------------
(***************************************************************************)
(* What the operators of modules Thread (thread/thread.c, device/timer.c)  *)
(* and Sema (thread/sync.c) do to a consistent kernel state, for any       *)
(* number of threads and semaphores and any time slices. The state may     *)
(* have more fields than the operator's own (KMutex adds one): every lemma *)
(* says that those are left alone.                                         *)
(*                                                                         *)
(* The run queue is reasoned about through elem_find and NoDuplicates      *)
(* only, so that no proof outside the first section looks at the indices   *)
(* of a sequence.                                                          *)
(***************************************************************************)
EXTENDS KMutex, TLAPS

(* The fields of the scheduler's record. *)
Fields == {"cur", "status", "ready", "this_tick", "panic"}

(* s is a record with the fields of module Thread, well typed. *)
ThreadState(s) ==
  /\ s = [f \in DOMAIN s |-> s[f]]
  /\ Fields \subseteq DOMAIN s
  /\ s.cur \in Threads
  /\ s.status \in [Threads -> Status]
  /\ s.ready \in Seq(Threads)
  /\ s.this_tick \in [Threads -> Nat]
  /\ s.panic \in BOOLEAN

(* r has the fields of s, and those that are not the scheduler's own have  *)
(* not changed.                                                            *)
Extends(s, r) ==
  /\ DOMAIN r = DOMAIN s
  /\ \A f \in DOMAIN s \ Fields : r[f] = s[f]

(* list_append adds exactly one element, and keeps the list free of        *)
(* duplicates when the element was not in it: the fact behind              *)
(* ASSERT(!elem_find(...)) in front of every list_append.                  *)
LEMMA AppendFacts ==
  ASSUME NEW S, NEW list \in Seq(S), NEW e \in S
  PROVE  /\ Append(list, e) \in Seq(S)
         /\ \A x : elem_find(Append(list, e), x) <=> elem_find(list, x) \/ x = e
         /\ NoDuplicates(list) /\ ~elem_find(list, e) => NoDuplicates(Append(list, e))
<1> DEFINE l == Append(list, e)
<1>1. /\ l \in Seq(S) /\ Len(l) = Len(list) + 1 /\ Len(list) \in Nat
      /\ \A i \in 1..Len(list) : l[i] = list[i]
      /\ l[Len(l)] = e
  OBVIOUS
<1> HIDE DEF l
<1>2. ASSUME NEW x PROVE elem_find(l, x) <=> elem_find(list, x) \/ x = e
  <2>1. elem_find(l, x) => elem_find(list, x) \/ x = e
    BY <1>1 DEF elem_find
  <2>2. x = e => elem_find(l, x)
    BY <1>1 DEF elem_find
  <2>3. elem_find(list, x) => elem_find(l, x)
    BY <1>1 DEF elem_find
  <2> QED BY <2>1, <2>2, <2>3
<1>3. NoDuplicates(list) /\ ~elem_find(list, e) => NoDuplicates(l)
  BY <1>1 DEF NoDuplicates, elem_find
<1> QED BY <1>1, <1>2, <1>3 DEF l

(* The same for list_push. *)
LEMMA PushFacts ==
  ASSUME NEW S, NEW list \in Seq(S), NEW e \in S
  PROVE  /\ <<e>> \o list \in Seq(S)
         /\ \A x : elem_find(<<e>> \o list, x) <=> elem_find(list, x) \/ x = e
         /\ NoDuplicates(list) /\ ~elem_find(list, e) => NoDuplicates(<<e>> \o list)
<1> DEFINE l == <<e>> \o list
<1>1. /\ l \in Seq(S) /\ Len(l) = Len(list) + 1 /\ Len(list) \in Nat
      /\ \A i \in 1..Len(list) : l[i + 1] = list[i]
      /\ l[1] = e
  OBVIOUS
<1> HIDE DEF l
<1>0. \A i \in 1..Len(l) : i = 1 \/ (i - 1 \in 1..Len(list) /\ l[i] = list[i - 1])
  <2> SUFFICES ASSUME NEW i \in 1..Len(l), i # 1
               PROVE  i - 1 \in 1..Len(list) /\ l[i] = list[i - 1]
    OBVIOUS
  <2>1. i - 1 \in 1..Len(list) /\ (i - 1) + 1 = i
    BY <1>1
  <2> QED BY <2>1, <1>1
<1>2. ASSUME NEW x PROVE elem_find(l, x) <=> elem_find(list, x) \/ x = e
  <2>1. elem_find(l, x) => elem_find(list, x) \/ x = e
    BY <1>0, <1>1 DEF elem_find
  <2>2. x = e => elem_find(l, x)
    BY <1>1 DEF elem_find
  <2>3. elem_find(list, x) => elem_find(l, x)
    BY <1>1 DEF elem_find
  <2> QED BY <2>1, <2>2, <2>3
<1>3. ASSUME NoDuplicates(list), ~elem_find(list, e),
             NEW i \in 1..Len(l), NEW j \in 1..Len(l), l[i] = l[j]
      PROVE  i = j
  <2>1. CASE i = 1 /\ j # 1
    BY <1>0, <1>1, <1>3, <2>1 DEF elem_find
  <2>2. CASE i # 1 /\ j = 1
    BY <1>0, <1>1, <1>3, <2>2 DEF elem_find
  <2>3. CASE i # 1 /\ j # 1
    <3>1. /\ i - 1 \in 1..Len(list) /\ j - 1 \in 1..Len(list)
          /\ list[i - 1] = list[j - 1]
      BY <1>0, <1>3, <2>3
    <3>2. i - 1 = j - 1
      BY <1>3, <3>1 DEF NoDuplicates
    <3> QED BY <3>2
  <2> QED BY <2>1, <2>2, <2>3
<1> QED BY <1>1, <1>2, <1>3 DEF l, NoDuplicates

(* list_pop takes exactly the front element out. *)
LEMMA TailFacts ==
  ASSUME NEW S, NEW list \in Seq(S), list # <<>>, NoDuplicates(list)
  PROVE  /\ Head(list) \in S
         /\ Tail(list) \in Seq(S)
         /\ elem_find(list, Head(list))
         /\ \A x : elem_find(Tail(list), x) <=> elem_find(list, x) /\ x # Head(list)
         /\ NoDuplicates(Tail(list))
<1> DEFINE l == Tail(list)
<1>1. /\ l \in Seq(S) /\ Len(list) = Len(l) + 1 /\ Len(l) \in Nat
      /\ \A i \in 1..Len(l) : l[i] = list[i + 1]
      /\ Head(list) = list[1] /\ Head(list) \in S
  OBVIOUS
<1> HIDE DEF l
<1>0. \A i \in 1..Len(list) : i = 1 \/ (i - 1 \in 1..Len(l) /\ list[i] = l[i - 1])
  <2> SUFFICES ASSUME NEW i \in 1..Len(list), i # 1
               PROVE  i - 1 \in 1..Len(l) /\ list[i] = l[i - 1]
    OBVIOUS
  <2>1. i - 1 \in 1..Len(l) /\ (i - 1) + 1 = i
    BY <1>1
  <2> QED BY <2>1, <1>1
<1>2. ASSUME NEW x PROVE elem_find(l, x) <=> elem_find(list, x) /\ x # Head(list)
  <2>1. elem_find(l, x) => elem_find(list, x)
    BY <1>1 DEF elem_find
  <2>2. elem_find(l, x) => x # list[1]
    BY <1>1 DEF elem_find, NoDuplicates
  <2>3. elem_find(list, x) /\ x # list[1] => elem_find(l, x)
    BY <1>0, <1>1 DEF elem_find
  <2> QED BY <1>1, <2>1, <2>2, <2>3
<1>3. NoDuplicates(l)
  BY <1>1 DEF NoDuplicates
<1>4. elem_find(list, Head(list))
  BY <1>1 DEF elem_find
<1> QED BY <1>1, <1>2, <1>3, <1>4 DEF l

(* list_empty, in terms of elem_find. *)
LEMMA EmptyFacts ==
  ASSUME NEW S, NEW list \in Seq(S)
  PROVE  list # <<>> <=> \E x \in S : elem_find(list, x)
<1>1. CASE list = <<>>
  BY <1>1 DEF elem_find
<1>2. CASE list # <<>>
  <2>1. Len(list) \in Nat /\ Len(list) > 0 /\ list[1] \in S
    BY <1>2
  <2> QED BY <1>2, <2>1 DEF elem_find
<1> QED BY <1>1, <1>2

(* list_remove takes exactly the given element out, wherever it is.        *)
LEMMA RemoveFacts ==
  ASSUME NEW S, NEW list \in Seq(S), NEW e, elem_find(list, e), NoDuplicates(list)
  PROVE  /\ list_remove(list, e) \in Seq(S)
         /\ \A x : elem_find(list_remove(list, e), x) <=> elem_find(list, x) /\ x # e
         /\ NoDuplicates(list_remove(list, e))
<1> DEFINE at == CHOOSE i \in 1..Len(list) : list[i] = e
           n == Len(list)
           l == [i \in 1..n - 1 |-> IF i < at THEN list[i] ELSE list[i + 1]]
<1>0. list_remove(list, e) = l
  BY DEF list_remove
<1>1. at \in 1..n /\ list[at] = e /\ n \in Nat /\ \A i \in 1..n : list[i] \in S
  BY DEF elem_find
<1> HIDE DEF at, n
<1>2. \A i \in 1..n - 1 : l[i] = IF i < at THEN list[i] ELSE list[i + 1]
  OBVIOUS
<1>3. l \in Seq(S) /\ Len(l) = n - 1
  <2>1. n - 1 \in Nat /\ l \in [1..n - 1 -> S]
    BY <1>1
  <2> QED BY <2>1
<1> HIDE DEF l
<1>4. \A i \in 1..n : i = at \/ \E j \in 1..n - 1 : l[j] = list[i]
  <2> SUFFICES ASSUME NEW i \in 1..n, i # at
               PROVE  \E j \in 1..n - 1 : l[j] = list[i]
    OBVIOUS
  <2>1. CASE i < at
    BY <1>1, <1>2, <2>1
  <2>2. CASE i > at
    <3>1. i - 1 \in 1..n - 1 /\ ~(i - 1 < at) /\ (i - 1) + 1 = i
      BY <1>1, <2>2
    <3> QED BY <1>2, <3>1
  <2> QED BY <1>1, <2>1, <2>2
<1>5. ASSUME NEW x PROVE elem_find(l, x) <=> elem_find(list, x) /\ x # e
  <2>1. elem_find(l, x) => elem_find(list, x) /\ x # e
    <3> SUFFICES ASSUME NEW j \in 1..n - 1, l[j] = x
                 PROVE  elem_find(list, x) /\ x # e
      BY <1>3 DEF elem_find
    <3>1. PICK i \in 1..n : i # at /\ list[i] = x
      BY <1>1, <1>2
    <3> QED BY <1>1, <3>1 DEF elem_find, NoDuplicates, n
  <2>2. elem_find(list, x) /\ x # e => elem_find(l, x)
    BY <1>1, <1>3, <1>4 DEF elem_find, n
  <2> QED BY <2>1, <2>2
<1>6. ASSUME NEW i \in 1..n - 1, NEW j \in 1..n - 1, l[i] = l[j] PROVE i = j
  BY <1>1, <1>2, <1>6 DEF NoDuplicates, n
<1> QED BY <1>0, <1>3, <1>5, <1>6 DEF NoDuplicates

-----------------------------------------------------------------------------
(* thread_unblock of a suspended thread that is in no run queue fails no   *)
(* ASSERT, makes it READY and puts it in front.                            *)
LEMMA UnblockFacts ==
  ASSUME NEW s, ThreadState(s), ~s.panic, NEW t \in Threads,
         s.status[t] \in Suspended, ~elem_find(s.ready, t)
  PROVE  LET r == thread_unblock(s, t)
         IN  /\ ThreadState(r) /\ Extends(s, r) /\ ~r.panic
             /\ r.ready = <<t>> \o s.ready
             /\ r.status = [s.status EXCEPT ![t] = "READY"]
             /\ r.cur = s.cur /\ r.this_tick = s.this_tick
<1> USE DEF thread_unblock, ASSERT, Extends, Fields
<1>1. /\ thread_unblock(s, t).status = [s.status EXCEPT ![t] = "READY"]
      /\ thread_unblock(s, t).ready = <<t>> \o s.ready
      /\ thread_unblock(s, t).panic = FALSE
      /\ thread_unblock(s, t).cur = s.cur
      /\ thread_unblock(s, t).this_tick = s.this_tick
      /\ Extends(s, thread_unblock(s, t))
  BY DEF ThreadState
<1>2. thread_unblock(s, t) = [f \in DOMAIN thread_unblock(s, t) |-> thread_unblock(s, t)[f]]
  BY DEF ThreadState
<1>3. <<t>> \o s.ready \in Seq(Threads)
  BY PushFacts DEF ThreadState
<1>4. [s.status EXCEPT ![t] = "READY"] \in [Threads -> Status]
  BY DEF ThreadState, Status
<1>5. ThreadState(thread_unblock(s, t))
  BY <1>1, <1>2, <1>3, <1>4 DEF ThreadState
<1> QED BY <1>1, <1>5

(* An ASSERT that holds changes nothing.                                   *)
LEMMA AssertFacts ==
  ASSUME NEW s, ThreadState(s), NEW c, c
  PROVE  ASSERT(s, c) = s
<1> DEFINE r == ASSERT(s, c)
<1>1. r = [f \in DOMAIN s |-> r[f]] /\ s = [f \in DOMAIN s |-> s[f]]
  BY DEF ASSERT, ThreadState
<1>2. \A f \in DOMAIN s : r[f] = s[f]
  BY DEF ASSERT, ThreadState
<1> HIDE DEF r
<1> QED BY <1>1, <1>2 DEF r

(* thread_unblock keeps the run queue in agreement with the thread table.  *)
LEMMA WakeFacts ==
  ASSUME NEW s, ThreadState(s), ~s.panic, NEW t \in Threads,
         NEW fresh \in SUBSET (Threads \ {idle_thread}), RunQueueConsistent(s, fresh),
         s.status[t] \in Suspended
  PROVE  LET r == thread_unblock(s, t)
         IN  /\ ThreadState(r) /\ Extends(s, r) /\ ~r.panic
             /\ RunQueueConsistent(r, fresh)
             /\ r.status = [s.status EXCEPT ![t] = "READY"]
             /\ r.cur = s.cur /\ r.this_tick = s.this_tick
<1> DEFINE r == thread_unblock(s, t)
<1>1. ~elem_find(s.ready, t) /\ t # s.cur /\ t \notin fresh
  BY DEF RunQueueConsistent, ThreadState, Suspended
<1>2. /\ ThreadState(r) /\ Extends(s, r) /\ ~r.panic
      /\ r.ready = <<t>> \o s.ready
      /\ r.status = [s.status EXCEPT ![t] = "READY"]
      /\ r.cur = s.cur /\ r.this_tick = s.this_tick
  BY <1>1, UnblockFacts
<1>3. /\ \A x : elem_find(r.ready, x) <=> elem_find(s.ready, x) \/ x = t
      /\ NoDuplicates(r.ready)
  BY <1>1, <1>2, PushFacts DEF ThreadState, RunQueueConsistent
<1> HIDE DEF r
<1>4. RunQueueConsistent(r, fresh)
  BY <1>1, <1>2, <1>3 DEF ThreadState, RunQueueConsistent
<1> QED BY <1>2, <1>4 DEF r

-----------------------------------------------------------------------------
(* The state inside schedule between the if and the list_pop: the old      *)
(* thread has been put away, and nobody is RUNNING.                        *)
Detached(s, fresh) ==
  /\ \A t \in Threads : s.status[t] = "READY" <=> elem_find(s.ready, t) \/ t \in fresh
  /\ \A t \in fresh : ~elem_find(s.ready, t)
  /\ NoDuplicates(s.ready)
  /\ \A t \in Threads : s.status[t] # "RUNNING"
  /\ s.status[idle_thread] \in {"READY", "BLOCKED"}

(* In the run queue or on the CPU. *)
Runnable(status) == status \in {"READY", "RUNNING"}

(* No thread but idle is suspended, revived or lost between s and r. *)
SwitchFrame(s, r) ==
  \A t \in Threads \ {idle_thread} :
    IF Runnable(s.status[t]) THEN Runnable(r.status[t])
                             ELSE r.status[t] = s.status[t]

(* No thread has more ticks left than its time slice. *)
Ticks(s) == \A t \in Threads : s.this_tick[t] <= time_slice[t]

(* With nobody ready, schedule finds idle BLOCKED and unblocks it without  *)
(* a failed ASSERT: afterwards there is someone to run.                    *)
LEMMA WakeIdleFacts ==
  ASSUME NEW s, ThreadState(s), ~s.panic,
         NEW fresh \in SUBSET (Threads \ {idle_thread}), Detached(s, fresh)
  PROVE  LET r == WakeIdle(s)
         IN  /\ ThreadState(r) /\ Extends(s, r) /\ ~r.panic
             /\ Detached(r, fresh) /\ r.ready # <<>>
             /\ SwitchFrame(s, r) /\ r.this_tick = s.this_tick
<1>1. CASE s.ready # <<>>
  BY <1>1 DEF WakeIdle, SwitchFrame, Extends
<1>2. CASE s.ready = <<>>
  <2> DEFINE r == thread_unblock(s, idle_thread)
  <2>1. r = WakeIdle(s)
    BY <1>2 DEF WakeIdle
  <2>2. ~elem_find(s.ready, idle_thread) /\ \A x \in Threads : ~elem_find(s.ready, x)
    BY <1>2, EmptyFacts, ThreadAssumption DEF ThreadState
  <2>3. s.status[idle_thread] \in Suspended
    BY <2>2, ThreadAssumption DEF Detached, Suspended
  <2>4. /\ ThreadState(r) /\ Extends(s, r) /\ ~r.panic
        /\ r.ready = <<idle_thread>> \o s.ready
        /\ r.status = [s.status EXCEPT ![idle_thread] = "READY"]
        /\ r.cur = s.cur /\ r.this_tick = s.this_tick
    BY <2>2, <2>3, UnblockFacts, ThreadAssumption
  <2> HIDE DEF r
  <2>5. /\ \A x : elem_find(r.ready, x) <=> elem_find(s.ready, x) \/ x = idle_thread
        /\ NoDuplicates(r.ready)
    BY <2>2, <2>4, PushFacts, ThreadAssumption DEF ThreadState, Detached
  <2>6. Detached(r, fresh)
    BY <2>2, <2>4, <2>5, ThreadAssumption DEF Detached, ThreadState
  <2>7. r.ready # <<>>
    BY <2>4, <2>5, EmptyFacts, ThreadAssumption DEF ThreadState
  <2>8. SwitchFrame(s, r)
    BY <2>4 DEF SwitchFrame, ThreadState
  <2> QED BY <2>1, <2>4, <2>6, <2>7, <2>8
<1> QED BY <1>1, <1>2

(* The end of schedule: the front of the queue gets the CPU and the run    *)
(* queue agrees with the thread table again.                               *)
LEMMA DispatchFacts ==
  ASSUME NEW s, ThreadState(s), ~s.panic, s.ready # <<>>,
         NEW fresh \in SUBSET (Threads \ {idle_thread}), Detached(s, fresh)
  PROVE  LET r == Dispatch(s)
         IN  /\ ThreadState(r) /\ Extends(s, r) /\ ~r.panic
             /\ RunQueueConsistent(r, fresh)
             /\ SwitchFrame(s, r) /\ r.this_tick = s.this_tick
<1> DEFINE r == Dispatch(s)
           next == Head(s.ready)
<1>1. /\ next \in Threads /\ Tail(s.ready) \in Seq(Threads)
      /\ elem_find(s.ready, next)
      /\ \A x : elem_find(Tail(s.ready), x) <=> elem_find(s.ready, x) /\ x # next
      /\ NoDuplicates(Tail(s.ready))
  BY TailFacts DEF ThreadState, Detached
<1>2. /\ r.cur = next /\ r.ready = Tail(s.ready)
      /\ r.status = [s.status EXCEPT ![next] = "RUNNING"]
      /\ r.this_tick = s.this_tick /\ r.panic = s.panic
      /\ Extends(s, r)
      /\ r = [f \in DOMAIN r |-> r[f]]
  BY DEF Dispatch, ThreadState, Extends, Fields
<1> HIDE DEF r, next
<1>3. ThreadState(r)
  BY <1>1, <1>2 DEF ThreadState, Extends, Status
<1>4. RunQueueConsistent(r, fresh)
  BY <1>1, <1>2, ThreadAssumption DEF ThreadState, Detached, RunQueueConsistent
<1>5. SwitchFrame(s, r)
  BY <1>1, <1>2 DEF SwitchFrame, ThreadState, Detached, Runnable
<1> QED BY <1>2, <1>3, <1>4, <1>5 DEF r

(* What every switch of threads leaves true. *)
Switched(s, r, fresh) ==
  /\ ThreadState(r) /\ Extends(s, r) /\ ~r.panic
  /\ RunQueueConsistent(r, fresh)
  /\ SwitchFrame(s, r)
  /\ Ticks(r)

(* schedule, called by a thread that has already given up the RUNNING      *)
(* status.                                                                 *)
LEMMA SwitchFacts ==
  ASSUME NEW s, ThreadState(s), ~s.panic, Ticks(s),
         NEW fresh \in SUBSET (Threads \ {idle_thread}), Detached(s, fresh)
  PROVE  Switched(s, schedule(s), fresh)
<1> DEFINE w == WakeIdle(s)
           r == Dispatch(w)
<1>0. schedule(s) = r
  BY DEF schedule, Detached, ThreadState
<1>1. /\ ThreadState(w) /\ Extends(s, w) /\ ~w.panic
      /\ Detached(w, fresh) /\ w.ready # <<>>
      /\ SwitchFrame(s, w) /\ w.this_tick = s.this_tick
  BY WakeIdleFacts
<1> HIDE DEF w
<1>2. /\ ThreadState(r) /\ Extends(w, r) /\ ~r.panic
      /\ RunQueueConsistent(r, fresh)
      /\ SwitchFrame(w, r) /\ r.this_tick = w.this_tick
  BY <1>1, DispatchFacts
<1> HIDE DEF r
<1>3. Extends(s, r)
  BY <1>1, <1>2 DEF Extends
<1>4. SwitchFrame(s, r)
  BY <1>1, <1>2 DEF SwitchFrame
<1>5. Ticks(r)
  BY <1>1, <1>2 DEF Ticks
<1> QED BY <1>0, <1>2, <1>3, <1>4, <1>5 DEF Switched

(* schedule, called for a thread that is still RUNNING (the clock          *)
(* interrupt).                                                             *)
LEMMA PreemptFacts ==
  ASSUME NEW s, ThreadState(s), ~s.panic, Ticks(s),
         NEW fresh \in SUBSET (Threads \ {idle_thread}), RunQueueConsistent(s, fresh)
  PROVE  Switched(s, schedule(s), fresh)
<1> DEFINE q == Requeue(s)
           w == WakeIdle(q)
           r == Dispatch(w)
<1>0. schedule(s) = r
  BY DEF schedule, RunQueueConsistent, ThreadState
<1>1. ~elem_find(s.ready, s.cur) /\ s.cur \notin fresh /\ s.status[s.cur] = "RUNNING"
  BY DEF RunQueueConsistent, ThreadState
<1>2. /\ Append(s.ready, s.cur) \in Seq(Threads)
      /\ \A x : elem_find(Append(s.ready, s.cur), x) <=> elem_find(s.ready, x) \/ x = s.cur
      /\ NoDuplicates(Append(s.ready, s.cur))
  BY <1>1, AppendFacts DEF ThreadState, RunQueueConsistent
<1>3. /\ q.cur = s.cur /\ q.ready = Append(s.ready, s.cur)
      /\ q.status = [s.status EXCEPT ![s.cur] = "READY"]
      /\ q.this_tick = [s.this_tick EXCEPT ![s.cur] = time_slice[s.cur]]
      /\ q.panic = FALSE
      /\ Extends(s, q)
      /\ q = [f \in DOMAIN q |-> q[f]]
  BY <1>1 DEF Requeue, ASSERT, ThreadState, Extends, Fields
<1> HIDE DEF q
<1>4. ThreadState(q) /\ Ticks(q)
  <2>1. time_slice[s.cur] \in Nat
    BY ThreadAssumption DEF ThreadState
  <2>2. q.this_tick \in [Threads -> Nat]
    BY <1>3, <2>1 DEF ThreadState
  <2>3. q.status \in [Threads -> Status]
    BY <1>3 DEF ThreadState, Status
  <2>4. ASSUME NEW t \in Threads PROVE q.this_tick[t] <= time_slice[t]
    <3>1. CASE t = s.cur
      <4>1. q.this_tick[t] = time_slice[s.cur]
        BY <1>3, <3>1 DEF ThreadState
      <4> QED BY <2>1, <3>1, <4>1
    <3>2. CASE t # s.cur
      <4>1. q.this_tick[t] = s.this_tick[t]
        BY <1>3, <3>2 DEF ThreadState
      <4> QED BY <4>1 DEF Ticks
    <3> QED BY <3>1, <3>2
  <2> QED BY <1>2, <1>3, <2>2, <2>3, <2>4 DEF ThreadState, Extends, Ticks
<1>5. Detached(q, fresh)
  BY <1>2, <1>3, ThreadAssumption DEF ThreadState, RunQueueConsistent, Detached
<1>7. SwitchFrame(s, q)
  BY <1>1, <1>3 DEF SwitchFrame, ThreadState, Runnable
<1>8. Switched(q, schedule(q), fresh) /\ schedule(q) = r
  BY <1>3, <1>4, <1>5, SwitchFacts DEF schedule, Detached, ThreadState
<1> HIDE DEF w, r
<1>9. Extends(s, r) /\ SwitchFrame(s, r)
  BY <1>3, <1>7, <1>8 DEF Extends, SwitchFrame, Switched
<1> QED BY <1>0, <1>8, <1>9 DEF Switched

(* The running thread leaves the CPU with the given status: what changes   *)
(* for it, for idle and for the others.                                    *)
Suspends(s, r, fresh, status) ==
  /\ ThreadState(r) /\ Extends(s, r) /\ ~r.panic
  /\ RunQueueConsistent(r, fresh)
  /\ Ticks(r)
  /\ s.cur # idle_thread => r.status[s.cur] = status
  /\ \A t \in Threads \ {idle_thread, s.cur} :
       IF Runnable(s.status[t]) THEN Runnable(r.status[t])
                                ELSE r.status[t] = s.status[t]

(* A thread writes its status and calls schedule, as thread_block and      *)
(* thread_exit do: the thread keeps that status, idle excepted, which      *)
(* schedule may switch in again at once.                                   *)
LEMMA BlockFacts ==
  ASSUME NEW s, ThreadState(s), ~s.panic, Ticks(s),
         NEW fresh \in SUBSET (Threads \ {idle_thread}), RunQueueConsistent(s, fresh),
         NEW status \in Suspended \cup {"DIED"}, s.cur = idle_thread => status = "BLOCKED"
  PROVE  Suspends(s, schedule([s EXCEPT !.status[s.cur] = status]), fresh, status)
<1> DEFINE q == [s EXCEPT !.status[s.cur] = status]
           r == schedule(q)
<1>1. ~elem_find(s.ready, s.cur) /\ s.cur \notin fresh
  BY DEF RunQueueConsistent, ThreadState
<1>2. /\ q.cur = s.cur /\ q.ready = s.ready
      /\ q.status = [s.status EXCEPT ![s.cur] = status]
      /\ q.this_tick = s.this_tick /\ q.panic = s.panic
      /\ Extends(s, q)
      /\ q = [f \in DOMAIN q |-> q[f]]
  BY DEF ThreadState, Extends, Fields
<1> HIDE DEF q
<1>3. ThreadState(q)
  BY <1>2 DEF ThreadState, Extends, Status, Suspended
<1>4. Detached(q, fresh)
  <2>1. status \notin {"READY", "RUNNING"}
    BY DEF Suspended
  <2> QED BY <1>1, <1>2, <2>1, ThreadAssumption DEF ThreadState, RunQueueConsistent, Detached
<1>5. Switched(q, r, fresh)
  BY <1>2, <1>3, <1>4, SwitchFacts DEF Ticks
<1> HIDE DEF r
<1>6. Extends(s, r)
  BY <1>2, <1>5 DEF Extends, Switched
<1>7. ASSUME s.cur # idle_thread PROVE r.status[s.cur] = status
  BY <1>2, <1>5, <1>7 DEF Switched, SwitchFrame, ThreadState, Runnable, Suspended
<1>8. \A t \in Threads \ {idle_thread, s.cur} :
        IF Runnable(s.status[t]) THEN Runnable(r.status[t]) ELSE r.status[t] = s.status[t]
  BY <1>2, <1>5 DEF Switched, SwitchFrame, ThreadState
<1> QED BY <1>5, <1>6, <1>7, <1>8 DEF q, r, Suspends, Switched

(* thread_yield keeps the scheduler consistent and suspends nobody. *)
LEMMA YieldFacts ==
  ASSUME NEW s, ThreadState(s), ~s.panic, Ticks(s),
         NEW fresh \in SUBSET (Threads \ {idle_thread}), RunQueueConsistent(s, fresh)
  PROVE  Switched(s, thread_yield(s), fresh)
<1> DEFINE q == [ASSERT(s, ~elem_find(s.ready, s.cur))
                   EXCEPT !.ready = Append(@, s.cur), !.status[s.cur] = "READY"]
           r == schedule(q)
<1>0. thread_yield(s) = r
  BY DEF thread_yield, ASSERT, ThreadState, Fields
<1>1. ~elem_find(s.ready, s.cur) /\ s.cur \notin fresh /\ s.status[s.cur] = "RUNNING"
  BY DEF RunQueueConsistent, ThreadState
<1>2. /\ Append(s.ready, s.cur) \in Seq(Threads)
      /\ \A x : elem_find(Append(s.ready, s.cur), x) <=> elem_find(s.ready, x) \/ x = s.cur
      /\ NoDuplicates(Append(s.ready, s.cur))
  BY <1>1, AppendFacts DEF ThreadState, RunQueueConsistent
<1>3. /\ q.cur = s.cur /\ q.ready = Append(s.ready, s.cur)
      /\ q.status = [s.status EXCEPT ![s.cur] = "READY"]
      /\ q.this_tick = s.this_tick
      /\ q.panic = FALSE
      /\ Extends(s, q)
      /\ q = [f \in DOMAIN q |-> q[f]]
  BY <1>1 DEF ASSERT, ThreadState, Extends, Fields
<1> HIDE DEF q
<1>4. ThreadState(q)
  BY <1>2, <1>3 DEF ThreadState, Extends, Status
<1>5. Detached(q, fresh)
  BY <1>2, <1>3, ThreadAssumption DEF ThreadState, RunQueueConsistent, Detached
<1>6. Ticks(q)
  BY <1>3 DEF Ticks
<1>7. SwitchFrame(s, q)
  BY <1>1, <1>3 DEF SwitchFrame, ThreadState, Runnable
<1>8. Switched(q, r, fresh)
  BY <1>3, <1>4, <1>5, <1>6, SwitchFacts
<1> HIDE DEF r
<1>9. Extends(s, r) /\ SwitchFrame(s, r)
  BY <1>3, <1>7, <1>8 DEF Extends, SwitchFrame, Switched
<1> QED BY <1>0, <1>8, <1>9 DEF Switched

(* The clock interrupt keeps the scheduler consistent, whether it only     *)
(* counts a tick or preempts.                                              *)
LEMMA TimerFacts ==
  ASSUME NEW s, ThreadState(s), ~s.panic, Ticks(s),
         NEW fresh \in SUBSET (Threads \ {idle_thread}), RunQueueConsistent(s, fresh)
  PROVE  Switched(s, intr_timer_handler(s), fresh)
<1>1. CASE s.this_tick[s.cur] = 0
  BY <1>1, PreemptFacts DEF intr_timer_handler
<1>2. CASE s.this_tick[s.cur] # 0
  <2> DEFINE r == [s EXCEPT !.this_tick[s.cur] = @ - 1]
  <2>1. intr_timer_handler(s) = r
    BY <1>2 DEF intr_timer_handler
  <2>2. /\ r.cur = s.cur /\ r.ready = s.ready /\ r.status = s.status
        /\ r.this_tick = [s.this_tick EXCEPT ![s.cur] = @ - 1]
        /\ r.panic = s.panic
        /\ Extends(s, r)
        /\ r = [f \in DOMAIN r |-> r[f]]
    BY DEF ThreadState, Extends, Fields
  <2> HIDE DEF r
  <2>3. s.this_tick[s.cur] - 1 \in Nat
    BY <1>2 DEF ThreadState
  <2>4. ThreadState(r)
    <3>1. r.this_tick \in [Threads -> Nat]
      BY <2>2, <2>3 DEF ThreadState
    <3> QED BY <2>2, <3>1 DEF ThreadState, Extends
  <2>5. ASSUME NEW t \in Threads PROVE r.this_tick[t] <= time_slice[t]
    <3>0. s.this_tick[t] \in Nat /\ time_slice[t] \in Nat /\ s.this_tick[t] <= time_slice[t]
      BY ThreadAssumption DEF ThreadState, Ticks
    <3>1. CASE t = s.cur
      <4>1. r.this_tick[t] = s.this_tick[t] - 1
        BY <2>2, <3>1 DEF ThreadState
      <4> QED BY <3>0, <4>1
    <3>2. CASE t # s.cur
      <4>1. r.this_tick[t] = s.this_tick[t]
        BY <2>2, <3>2 DEF ThreadState
      <4> QED BY <3>0, <4>1
    <3> QED BY <3>1, <3>2
  <2>6. RunQueueConsistent(r, fresh)
    BY <2>2 DEF RunQueueConsistent
  <2>7. SwitchFrame(s, r)
    BY <2>2 DEF SwitchFrame
  <2> QED BY <2>1, <2>2, <2>4, <2>5, <2>6, <2>7 DEF Switched, Ticks
<1> QED BY <1>1, <1>2

(* thread_block suspends the running thread and nobody else. *)
LEMMA ThreadBlockFacts ==
  ASSUME NEW s, ThreadState(s), ~s.panic, Ticks(s),
         NEW fresh \in SUBSET (Threads \ {idle_thread}), RunQueueConsistent(s, fresh),
         NEW status \in Suspended, s.cur = idle_thread => status = "BLOCKED"
  PROVE  Suspends(s, thread_block(s, status), fresh, status)
BY BlockFacts DEF thread_block

(* thread_exit of the running thread: list_remove is not reached, as a     *)
(* running thread is in no run queue, and the thread stays DIED.           *)
LEMMA ThreadExitFacts ==
  ASSUME NEW s, ThreadState(s), ~s.panic, Ticks(s),
         NEW fresh \in SUBSET (Threads \ {idle_thread}), RunQueueConsistent(s, fresh),
         s.cur # idle_thread
  PROVE  Suspends(s, thread_exit(s, s.cur, TRUE), fresh, "DIED")
<1>1. ~elem_find(s.ready, s.cur)
  BY DEF RunQueueConsistent, ThreadState
<1>2. thread_exit(s, s.cur, TRUE) = schedule([s EXCEPT !.status[s.cur] = "DIED"])
  <2> DEFINE q == [s EXCEPT !.status[s.cur] = "DIED"]
             d == [s EXCEPT !.status[s.cur] = "DIED",
                            !.ready = IF elem_find(@, s.cur)
                                      THEN list_remove(@, s.cur) ELSE @]
  <2>1. q = [f \in DOMAIN s |-> q[f]] /\ d = [f \in DOMAIN s |-> d[f]]
    BY DEF ThreadState
  <2>2. \A f \in DOMAIN s : d[f] = q[f]
    BY <1>1 DEF ThreadState, Fields
  <2> HIDE DEF q, d
  <2>3. d = q
    BY <2>1, <2>2
  <2> QED BY <2>3 DEF thread_exit, q, d
<1>3. "DIED" \in Suspended \cup {"DIED"}
  OBVIOUS
<1>4. Suspends(s, schedule([s EXCEPT !.status[s.cur] = "DIED"]), fresh, "DIED")
  BY <1>3, BlockFacts
<1> QED BY <1>2, <1>4

(* A dead task_struct is initialised and put into the run queue in one     *)
(* interrupts-off step (sys_fork): the new thread is READY, and nobody     *)
(* else notices.  ASSERTs that fail on the way show only in panic.         *)
LEMMA StartFacts ==
  ASSUME NEW s, ThreadState(s), ~s.panic, Ticks(s),
         RunQueueConsistent(s, {}), NEW t \in Threads \ {idle_thread},
         s.status[t] = "DIED", NEW c \in BOOLEAN
  PROVE  LET r == Enqueue(init_thread(ASSERT(s, c), t), t)
         IN  /\ ThreadState(r) /\ Extends(s, r) /\ r.panic = ~c
             /\ RunQueueConsistent(r, {}) /\ Ticks(r)
             /\ r.cur = s.cur
             /\ r.status = [s.status EXCEPT ![t] = "READY"]
<1> DEFINE r == Enqueue(init_thread(ASSERT(s, c), t), t)
<1>1. ~elem_find(s.ready, t) /\ t # s.cur
  BY DEF RunQueueConsistent, ThreadState
<1>2. /\ Append(s.ready, t) \in Seq(Threads)
      /\ \A x : elem_find(Append(s.ready, t), x) <=> elem_find(s.ready, x) \/ x = t
      /\ NoDuplicates(Append(s.ready, t))
  BY <1>1, AppendFacts DEF ThreadState, RunQueueConsistent
<1>3. /\ r.cur = s.cur /\ r.ready = Append(s.ready, t)
      /\ r.status = [s.status EXCEPT ![t] = "READY"]
      /\ r.this_tick = [s.this_tick EXCEPT ![t] = time_slice[t]]
      /\ r.panic = ~c
      /\ Extends(s, r)
      /\ r = [f \in DOMAIN r |-> r[f]]
  BY <1>1 DEF Enqueue, init_thread, ASSERT, ThreadState, Extends, Fields
<1> HIDE DEF r
<1>4. time_slice[t] \in Nat
  BY ThreadAssumption
<1>5. r.this_tick \in [Threads -> Nat] /\ Ticks(r)
  <2>1. r.this_tick \in [Threads -> Nat]
    BY <1>3, <1>4 DEF ThreadState
  <2>2. ASSUME NEW u \in Threads PROVE r.this_tick[u] <= time_slice[u]
    <3>1. CASE u = t
      <4>1. r.this_tick[u] = time_slice[t]
        BY <1>3, <3>1 DEF ThreadState
      <4> QED BY <1>4, <3>1, <4>1
    <3>2. CASE u # t
      <4>1. r.this_tick[u] = s.this_tick[u]
        BY <1>3, <3>2 DEF ThreadState
      <4> QED BY <4>1 DEF Ticks
    <3> QED BY <3>1, <3>2
  <2> QED BY <2>1, <2>2 DEF Ticks
<1>6. ThreadState(r)
  BY <1>2, <1>3, <1>5 DEF ThreadState, Extends, Status
<1>7. RunQueueConsistent(r, {})
  BY <1>1, <1>2, <1>3, ThreadAssumption DEF ThreadState, RunQueueConsistent
<1> QED BY <1>3, <1>5, <1>6, <1>7 DEF r

(* thread_exit of a thread that hangs, by another one (sys_wait): the      *)
(* thread is in no run queue, so it only dies.                             *)
LEMMA BuryFacts ==
  ASSUME NEW s, ThreadState(s), ~s.panic, Ticks(s),
         NEW fresh \in SUBSET (Threads \ {idle_thread}), RunQueueConsistent(s, fresh),
         NEW t \in Threads, s.status[t] = "HANGING"
  PROVE  LET r == thread_exit(s, t, FALSE)
         IN  /\ ThreadState(r) /\ Extends(s, r) /\ ~r.panic
             /\ RunQueueConsistent(r, fresh) /\ Ticks(r)
             /\ r.cur = s.cur
             /\ r.status = [s.status EXCEPT ![t] = "DIED"]
<1> DEFINE r == thread_exit(s, t, FALSE)
<1>1. ~elem_find(s.ready, t) /\ t # s.cur /\ t \notin fresh
  BY DEF RunQueueConsistent, ThreadState
<1>2. /\ r.cur = s.cur /\ r.ready = s.ready /\ r.this_tick = s.this_tick
      /\ r.status = [s.status EXCEPT ![t] = "DIED"]
      /\ r.panic = s.panic
      /\ Extends(s, r)
      /\ r = [f \in DOMAIN r |-> r[f]]
  BY <1>1 DEF thread_exit, ThreadState, Extends, Fields
<1> HIDE DEF r
<1>3. ThreadState(r)
  BY <1>2 DEF ThreadState, Extends, Status
<1>4. RunQueueConsistent(r, fresh)
  BY <1>1, <1>2, ThreadAssumption DEF ThreadState, RunQueueConsistent
<1> QED BY <1>2, <1>3, <1>4 DEF r, Ticks

-----------------------------------------------------------------------------
(* Semaphores.  The conclusions are named (SemaChanged, Slept, Woke):      *)
(* modules that use them unfold only the parts they need.                  *)

(* A scheduler state with a sema field, and perhaps more. *)
SemaState(s) ==
  /\ ThreadState(s)
  /\ "sema" \in DOMAIN s
  /\ s.sema \in [Semas -> [value : {0, 1}, waiters : Seq(Threads)]]

(* KernelState is SemaState with no further field. *)
LEMMA KernelStateFacts ==
  ASSUME NEW s
  PROVE  s \in KernelState <=> SemaState(s) /\ DOMAIN s = Fields \cup {"sema"}
<1>1. ASSUME s \in KernelState PROVE SemaState(s) /\ DOMAIN s = Fields \cup {"sema"}
  <2>1. s = [f \in DOMAIN s |-> s[f]]
    BY <1>1 DEF KernelState
  <2>2. DOMAIN s = Fields \cup {"sema"}
    BY <1>1 DEF KernelState, Fields
  <2>3. /\ s.cur \in Threads /\ s.status \in [Threads -> Status]
        /\ s.ready \in Seq(Threads) /\ s.this_tick \in [Threads -> Nat]
        /\ s.panic \in BOOLEAN
        /\ s.sema \in [Semas -> [value : {0, 1}, waiters : Seq(Threads)]]
    BY <1>1 DEF KernelState
  <2> QED BY <2>1, <2>2, <2>3 DEF SemaState, ThreadState
<1>2. ASSUME SemaState(s), DOMAIN s = Fields \cup {"sema"} PROVE s \in KernelState
  <2> DEFINE r == [cur |-> s.cur, status |-> s.status, ready |-> s.ready,
                   this_tick |-> s.this_tick, panic |-> s.panic, sema |-> s.sema]
  <2>1. r \in KernelState
    BY <1>2 DEF SemaState, ThreadState, KernelState
  <2>2. r = s
    BY <1>2 DEF SemaState, ThreadState, Fields
  <2> QED BY <2>1, <2>2
<1> QED BY <1>1, <1>2

(* Semaphore x gets value v and waiters w. *)
SetSema(s, x, v, w) == [s EXCEPT !.sema[x] = [value |-> v, waiters |-> w]]

(* r is s with semaphore x changed, and nothing else. *)
SemaChanged(s, r, x, v, w) ==
  /\ SemaState(r) /\ DOMAIN r = DOMAIN s
  /\ \A f \in DOMAIN s \ {"sema"} : r[f] = s[f]
  /\ r.cur = s.cur /\ r.status = s.status /\ r.ready = s.ready
  /\ r.this_tick = s.this_tick /\ r.panic = s.panic
  /\ r.sema[x] = [value |-> v, waiters |-> w]
  /\ \A y \in Semas \ {x} : r.sema[y] = s.sema[y]

(* What SetSema changes and what it leaves alone. *)
LEMMA SemaUpdate ==
  ASSUME NEW s, SemaState(s), NEW x \in Semas, NEW v \in {0, 1}, NEW w \in Seq(Threads)
  PROVE  SemaChanged(s, SetSema(s, x, v, w), x, v, w)
<1> DEFINE q == SetSema(s, x, v, w)
<1>1. /\ DOMAIN q = DOMAIN s /\ q = [f \in DOMAIN s |-> q[f]]
      /\ \A f \in DOMAIN s \ {"sema"} : q[f] = s[f]
      /\ q.sema = [s.sema EXCEPT ![x] = [value |-> v, waiters |-> w]]
  BY DEF SemaState, ThreadState, SetSema
<1> HIDE DEF q
<1>2. q.sema \in [Semas -> [value : {0, 1}, waiters : Seq(Threads)]]
  <2> DEFINE E == [value : {0, 1}, waiters : Seq(Threads)]
             e == [value |-> v, waiters |-> w]
  <2>1. e \in E
    OBVIOUS
  <2>2. s.sema \in [Semas -> E] /\ q.sema = [s.sema EXCEPT ![x] = e]
    BY <1>1 DEF SemaState
  <2> HIDE DEF E, e
  <2>3. q.sema \in [Semas -> E]
    BY <2>1, <2>2
  <2> QED BY <2>3 DEF E
<1>3. /\ q.cur = s.cur /\ q.status = s.status /\ q.ready = s.ready
      /\ q.this_tick = s.this_tick /\ q.panic = s.panic
  BY <1>1 DEF SemaState, ThreadState, Fields
<1>4. ThreadState(q)
  BY <1>1, <1>3 DEF ThreadState, SemaState
<1>5. /\ q.sema[x] = [value |-> v, waiters |-> w]
      /\ \A y \in Semas \ {x} : q.sema[y] = s.sema[y]
  BY <1>1 DEF SemaState
<1> QED BY <1>1, <1>2, <1>3, <1>4, <1>5 DEF SemaState, SemaChanged, q

(* A semaphore's value is 0 or 1 and its waiters are threads. *)
LEMMA SemaParts ==
  ASSUME NEW s, SemaState(s), NEW x \in Semas
  PROVE  s.sema[x].value \in {0, 1} /\ s.sema[x].waiters \in Seq(Threads)
BY DEF SemaState

(* Assigning the value of a semaphore, as a SetSema. *)
LEMMA SetValue ==
  ASSUME NEW s, SemaState(s), NEW x \in Semas, NEW v
  PROVE  [s EXCEPT !.sema[x].value = v] = SetSema(s, x, v, s.sema[x].waiters)
<1>1. s.sema[x] \in [value : {0, 1}, waiters : Seq(Threads)]
  BY DEF SemaState
<1>2. [s.sema[x] EXCEPT !.value = v] = [value |-> v, waiters |-> s.sema[x].waiters]
  BY <1>1
<1> QED BY <1>2 DEF SetSema

(* Assigning the waiters of a semaphore, as a SetSema. *)
LEMMA SetWaiters ==
  ASSUME NEW s, SemaState(s), NEW x \in Semas, NEW w
  PROVE  [s EXCEPT !.sema[x].waiters = w] = SetSema(s, x, s.sema[x].value, w)
<1>1. s.sema[x] \in [value : {0, 1}, waiters : Seq(Threads)]
  BY DEF SemaState
<1>2. [s.sema[x] EXCEPT !.waiters = w] = [value |-> s.sema[x].value, waiters |-> w]
  BY <1>1
<1> QED BY <1>2 DEF SetSema

-----------------------------------------------------------------------------
(* sema_down with the value at 1 takes the resource, and its ASSERT(value  *)
(* == 0) does not fail.                                                    *)
LEMMA SemaDownTakes ==
  ASSUME NEW s, SemaState(s), ~s.panic, NEW x \in Semas, Available(s, x)
  PROVE  SemaChanged(s, sema_down(s, x), x, 0, s.sema[x].waiters)
<1>1. s.sema[x].value = 1 /\ s.sema[x].waiters \in Seq(Threads)
  BY SemaParts DEF Available
<1>2. ASSERT(s, s.sema[x].value - 1 = 0) = s
  BY <1>1 DEF ASSERT, SemaState, ThreadState, Fields
<1>3. sema_down(s, x) = [s EXCEPT !.sema[x].value = s.sema[x].value - 1]
  BY <1>2 DEF sema_down
<1>4. sema_down(s, x) = SetSema(s, x, 0, s.sema[x].waiters)
  BY <1>1, <1>3, SetValue
<1> QED BY <1>1, <1>4, SemaUpdate

(* The running thread has gone to sleep on x: it is the last of the        *)
(* waiters and BLOCKED, another thread has the CPU.                        *)
Slept(s, r, x, fresh) ==
  /\ SemaState(r) /\ DOMAIN r = DOMAIN s /\ ~r.panic
  /\ \A f \in DOMAIN s \ (Fields \cup {"sema"}) : r[f] = s[f]
  /\ RunQueueConsistent(r, fresh) /\ Ticks(r)
  /\ r.sema[x] = [value |-> 0, waiters |-> Append(s.sema[x].waiters, s.cur)]
  /\ \A y \in Semas \ {x} : r.sema[y] = s.sema[y]
  /\ r.status[s.cur] = "BLOCKED"
  /\ \A t \in Threads \ {idle_thread, s.cur} :
       IF Runnable(s.status[t]) THEN Runnable(r.status[t])
                                ELSE r.status[t] = s.status[t]

(* sema_down with the value at 0 queues the running thread and blocks it:  *)
(* neither the ASSERT on the waiters nor one of schedule fails.            *)
LEMMA SemaDownSleeps ==
  ASSUME NEW s, SemaState(s), ~s.panic, Ticks(s), NEW x \in Semas, ~Available(s, x),
         NEW fresh \in SUBSET (Threads \ {idle_thread}), RunQueueConsistent(s, fresh),
         s.cur # idle_thread, ~elem_find(s.sema[x].waiters, s.cur)
  PROVE  Slept(s, sema_down(s, x), x, fresh)
<1> DEFINE w == Append(s.sema[x].waiters, s.cur)
           q == SetSema(s, x, 0, w)
           r == thread_block(q, "BLOCKED")
<1>1. /\ s.sema[x].value = 0 /\ w \in Seq(Threads)
  BY SemaParts, AppendFacts DEF Available, SemaState, ThreadState
<1>2. ASSERT(s, ~elem_find(s.sema[x].waiters, s.cur)) = s
  BY AssertFacts DEF SemaState, elem_find
<1>3. sema_down(s, x) = thread_block([s EXCEPT !.sema[x].waiters = w], "BLOCKED")
  BY <1>2 DEF sema_down
<1>4. sema_down(s, x) = r
  <2>1. [s EXCEPT !.sema[x].waiters = w] = SetSema(s, x, s.sema[x].value, w)
    BY SetWaiters
  <2> QED BY <1>1, <1>3, <2>1
<1>5. SemaChanged(s, q, x, 0, w)
  <2> HIDE DEF w
  <2> QED BY <1>1, SemaUpdate
<1> HIDE DEF q
<1>6. ThreadState(q) /\ Ticks(q) /\ RunQueueConsistent(q, fresh)
  BY <1>5 DEF SemaChanged, SemaState, Ticks, RunQueueConsistent
<1>7. "BLOCKED" \in Suspended
  BY DEF Suspended
<1>8. Suspends(q, r, fresh, "BLOCKED")
  BY <1>5, <1>6, <1>7, ThreadBlockFacts DEF SemaChanged
<1> HIDE DEF r, w
<1>9. /\ DOMAIN r = DOMAIN s /\ r.sema = q.sema
      /\ \A f \in DOMAIN s \ (Fields \cup {"sema"}) : r[f] = s[f]
  BY <1>5, <1>8 DEF SemaChanged, Suspends, Extends, Fields, SemaState
<1>10. SemaState(r)
  BY <1>5, <1>8, <1>9 DEF SemaChanged, SemaState, Suspends
<1>11. /\ r.sema[x] = [value |-> 0, waiters |-> w]
       /\ \A y \in Semas \ {x} : r.sema[y] = s.sema[y]
       /\ q.cur = s.cur /\ q.status = s.status
  BY <1>5, <1>9 DEF SemaChanged
<1> QED BY <1>4, <1>8, <1>9, <1>10, <1>11 DEF Suspends, Slept, w

(* sema_up with nobody waiting only raises the value. *)
LEMMA SemaUpEmpty ==
  ASSUME NEW s, SemaState(s), ~s.panic, NEW x \in Semas, s.sema[x].value = 0,
         s.sema[x].waiters = <<>>
  PROVE  SemaChanged(s, sema_up(s, x), x, 1, s.sema[x].waiters)
<1>1. ASSERT(s, s.sema[x].value = 0) = s
  BY AssertFacts DEF SemaState
<1>2. sema_up(s, x) = [s EXCEPT !.sema[x].value = s.sema[x].value + 1]
  BY <1>1 DEF sema_up
<1>3. sema_up(s, x) = SetSema(s, x, 1, s.sema[x].waiters)
  BY <1>2, SetValue
<1> QED BY <1>3, SemaParts, SemaUpdate

(* The two assignments of sema_up to a semaphore, taken together. *)
LEMMA PopAndRaise ==
  ASSUME NEW u, SemaState(u), NEW x \in Semas, u.sema[x].value = 0, NEW w
  PROVE  [[u EXCEPT !.sema[x].waiters = w] EXCEPT !.sema[x].value = @ + 1]
           = SetSema(u, x, 1, w)
<1>1. [u EXCEPT !.sema[x].waiters = w] = SetSema(u, x, 0, w)
  <2>1. u.sema[x] \in [value : {0, 1}, waiters : Seq(Threads)]
    BY DEF SemaState
  <2>2. [u.sema[x] EXCEPT !.waiters = w] = [value |-> 0, waiters |-> w]
    BY <2>1
  <2> QED BY <2>2 DEF SetSema
<1>2. PICK p : p = SetSema(u, x, 0, w)
  OBVIOUS
<1>3. p.sema = [u.sema EXCEPT ![x] = [value |-> 0, waiters |-> w]]
  BY <1>2 DEF SemaState, ThreadState, SetSema
<1>4. p.sema[x] = [value |-> 0, waiters |-> w]
  BY <1>3 DEF SemaState
<1>5. [p.sema[x] EXCEPT !.value = p.sema[x].value + 1] = [value |-> 1, waiters |-> w]
  BY <1>4
<1>6. [p EXCEPT !.sema[x].value = @ + 1] = SetSema(p, x, 1, w)
  BY <1>5 DEF SetSema
<1>7. SetSema(p, x, 1, w) = SetSema(u, x, 1, w)
  BY <1>2, <1>3 DEF SetSema, SemaState, ThreadState
<1> QED BY <1>1, <1>2, <1>6, <1>7

(* h, the first waiter of x, is at the front of the run queue and out of   *)
(* the waiters, and the value is 1.                                        *)
Woke(s, r, x, h) ==
  /\ SemaState(r) /\ DOMAIN r = DOMAIN s /\ ~r.panic
  /\ \A f \in DOMAIN s \ (Fields \cup {"sema"}) : r[f] = s[f]
  /\ r.cur = s.cur /\ r.this_tick = s.this_tick
  /\ r.ready = <<h>> \o s.ready
  /\ r.status = [s.status EXCEPT ![h] = "READY"]
  /\ r.sema[x] = [value |-> 1, waiters |-> Tail(s.sema[x].waiters)]
  /\ \A y \in Semas \ {x} : r.sema[y] = s.sema[y]

(* sema_up with a waiter: the ASSERTs of thread_unblock hold, as the       *)
(* waiter is suspended and in no run queue.                                *)
LEMMA SemaUpWakes ==
  ASSUME NEW s, SemaState(s), ~s.panic, NEW x \in Semas, s.sema[x].value = 0,
         NEW h \in Threads, h = Head(s.sema[x].waiters),
         s.sema[x].waiters # <<>>, NoDuplicates(s.sema[x].waiters),
         s.status[h] \in Suspended, ~elem_find(s.ready, h)
  PROVE  Woke(s, sema_up(s, x), x, h)
<1> DEFINE u == thread_unblock(s, h)
<1>1. ASSERT(s, s.sema[x].value = 0) = s
  BY AssertFacts DEF SemaState
<1>2. /\ ThreadState(u) /\ Extends(s, u) /\ ~u.panic
      /\ u.ready = <<h>> \o s.ready
      /\ u.status = [s.status EXCEPT ![h] = "READY"]
      /\ u.cur = s.cur /\ u.this_tick = s.this_tick
  BY UnblockFacts DEF SemaState
<1>3. PICK w \in Seq(Threads) : w = Tail(s.sema[x].waiters)
  BY SemaParts, TailFacts
<1>4. sema_up(s, x) = [[u EXCEPT !.sema[x].waiters = Tail(@)] EXCEPT !.sema[x].value = @ + 1]
  BY <1>1 DEF sema_up
<1>5. DOMAIN u = DOMAIN s /\ u.sema = s.sema /\ SemaState(u)
  BY <1>2 DEF Extends, SemaState, Fields
<1>6. PICK v : v = u
  OBVIOUS
<1> HIDE DEF u
<1>7. sema_up(s, x) = SetSema(v, x, 1, w)
  <2>1. sema_up(s, x) = [[v EXCEPT !.sema[x].waiters = w] EXCEPT !.sema[x].value = @ + 1]
    BY <1>3, <1>4, <1>5, <1>6
  <2>2. SemaState(v) /\ v.sema[x].value = 0
    BY <1>5, <1>6
  <2>3. [[v EXCEPT !.sema[x].waiters = w] EXCEPT !.sema[x].value = @ + 1] = SetSema(v, x, 1, w)
    BY <2>2, PopAndRaise
  <2> QED BY <2>1, <2>3
<1>8. SemaChanged(v, sema_up(s, x), x, 1, w)
  BY <1>5, <1>6, <1>7, SemaUpdate
<1>9. PICK r : r = sema_up(s, x)
  OBVIOUS
<1>10. /\ SemaState(r) /\ DOMAIN r = DOMAIN s /\ ~r.panic
       /\ \A f \in DOMAIN s \ {"sema"} : r[f] = v[f]
       /\ r.cur = v.cur /\ r.this_tick = v.this_tick
       /\ r.ready = v.ready /\ r.status = v.status
       /\ r.sema[x] = [value |-> 1, waiters |-> w]
       /\ \A y \in Semas \ {x} : r.sema[y] = s.sema[y]
  BY <1>2, <1>5, <1>6, <1>8, <1>9 DEF SemaChanged
<1>11. \A f \in DOMAIN s \ (Fields \cup {"sema"}) : r[f] = s[f]
  BY <1>2, <1>6, <1>10 DEF Extends
<1> QED BY <1>2, <1>3, <1>6, <1>9, <1>10, <1>11 DEF Woke

-----------------------------------------------------------------------------
(***************************************************************************)
(* Semaphores and mutexes together: what the operators of Thread, Sema and *)
(* KMutex do to a kernel state in which everything agrees (KernelSound).   *)
(* Each keeps it so, fails no ASSERT, and changes what its frame (Taken,   *)
(* Queued, Raised, LetGo, Blocked, Woken, Switches) says and nothing       *)
(* else.  The system call modules prove their invariants from these        *)
(* frames, and do not look into the operators again.                       *)
(***************************************************************************)

(* The threads linked into the waiters of semaphore x. *)
Sleepers(s, x) == {t \in Threads : elem_find(s.sema[x].waiters, t)}

(* The waiters of x are linked once each, and all suspended. *)
WaitersSound(s, x) ==
  /\ NoDuplicates(s.sema[x].waiters)
  /\ \A t \in Sleepers(s, x) : t # idle_thread /\ s.status[t] = "BLOCKED"

(* A kernel state in which no ASSERT has failed and the tables agree. *)
KernelSound(s) ==
  /\ SemaState(s) /\ "mutex" \in DOMAIN s /\ s.mutex \in MutexState
  /\ ~s.panic /\ Ticks(s) /\ RunQueueConsistent(s, {})

(* What every step leaves alone: the fields there are, and the semaphores  *)
(* other than those in X.                                                  *)
Keeps(s, r, X) ==
  /\ DOMAIN r = DOMAIN s
  /\ \A f \in DOMAIN s \ (Fields \cup {"sema", "mutex"}) : r[f] = s[f]
  /\ \A y \in Semas \ X : r.sema[y] = s.sema[y]

(* No thread but idle and those in D is suspended or revived.              *)
StatusFrame(s, r, D) ==
  \A t \in Threads \ (D \cup {idle_thread}) :
    IF Runnable(s.status[t]) THEN Runnable(r.status[t])
                             ELSE r.status[t] = s.status[t]

(* Mutex m is taken: the running thread holds it. *)
Taken(s, r, m) ==
  /\ KernelSound(r) /\ Keeps(s, r, {m}) /\ r.cur = s.cur /\ r.status = s.status
  /\ r.sema[m] = [value |-> 0, waiters |-> s.sema[m].waiters]
  /\ r.mutex = [s.mutex EXCEPT ![m] = [holder |-> s.cur, repeat |-> 1]]

(* The running thread has gone to sleep on x. *)
Queued(s, r, x) ==
  /\ KernelSound(r) /\ Keeps(s, r, {x}) /\ r.mutex = s.mutex
  /\ r.sema[x].value = 0
  /\ NoDuplicates(r.sema[x].waiters) /\ Sleepers(r, x) = Sleepers(s, x) \cup {s.cur}
  /\ r.status[s.cur] = "BLOCKED" /\ StatusFrame(s, r, {s.cur})

(* x has been raised, and W, one of its waiters if there are any, woken. *)
Raised(s, r, x, W) ==
  /\ KernelSound(r) /\ Keeps(s, r, {x}) /\ r.mutex = s.mutex /\ r.cur = s.cur
  /\ r.sema[x].value = 1
  /\ NoDuplicates(r.sema[x].waiters) /\ Sleepers(r, x) = Sleepers(s, x) \ W
  /\ W = {} => Sleepers(s, x) = {}
  /\ \A t \in Threads : r.status[t] = IF t \in W THEN "READY" ELSE s.status[t]

(* Mutex m has been released, and W, one of its waiters, woken. *)
LetGo(s, r, m, W) ==
  /\ KernelSound(r) /\ Keeps(s, r, {m}) /\ r.cur = s.cur
  /\ r.mutex = [s.mutex EXCEPT ![m] = mutex_init]
  /\ r.sema[m].value = 1
  /\ NoDuplicates(r.sema[m].waiters) /\ Sleepers(r, m) = Sleepers(s, m) \ W
  /\ W = {} => Sleepers(s, m) = {}
  /\ \A t \in Threads : r.status[t] = IF t \in W THEN "READY" ELSE s.status[t]

(* The running thread has given up the CPU, BLOCKED. *)
Blocked(s, r) ==
  /\ KernelSound(r) /\ Keeps(s, r, {}) /\ r.mutex = s.mutex
  /\ s.cur # idle_thread => r.status[s.cur] = "BLOCKED"
  /\ StatusFrame(s, r, {s.cur})

(* Thread t has been woken. *)
Woken(s, r, t) ==
  /\ KernelSound(r) /\ Keeps(s, r, {}) /\ r.mutex = s.mutex /\ r.cur = s.cur
  /\ r.status = [s.status EXCEPT ![t] = "READY"]

(* The CPU may have gone to another thread. *)
Switches(s, r) ==
  /\ KernelSound(r) /\ Keeps(s, r, {}) /\ r.mutex = s.mutex
  /\ StatusFrame(s, r, {})

-----------------------------------------------------------------------------
(* A step of the scheduler alone keeps semaphores and mutexes.             *)
LEMMA SchedulerStep ==
  ASSUME NEW s, KernelSound(s), NEW r, ThreadState(r), Extends(s, r), ~r.panic,
         Ticks(r), RunQueueConsistent(r, {})
  PROVE  KernelSound(r) /\ Keeps(s, r, {}) /\ r.mutex = s.mutex /\ r.sema = s.sema
<1>1. r.mutex = s.mutex /\ r.sema = s.sema /\ DOMAIN r = DOMAIN s
  BY DEF KernelSound, SemaState, Extends, Fields
<1> QED BY <1>1 DEF KernelSound, SemaState, Keeps, Extends

(* thread_block of the running thread.                                     *)
LEMMA BlockedFacts ==
  ASSUME NEW s, KernelSound(s)
  PROVE  Blocked(s, thread_block(s, "BLOCKED"))
<1>1. /\ ThreadState(s) /\ ~s.panic /\ Ticks(s) /\ RunQueueConsistent(s, {})
      /\ {} \in SUBSET (Threads \ {idle_thread}) /\ "BLOCKED" \in Suspended
  BY DEF KernelSound, SemaState, Suspended
<1>2. PICK r : r = thread_block(s, "BLOCKED")
  OBVIOUS
<1>3. Suspends(s, r, {}, "BLOCKED")
  BY <1>1, <1>2, ThreadBlockFacts
<1>4. KernelSound(r) /\ Keeps(s, r, {}) /\ r.mutex = s.mutex
  BY <1>3, SchedulerStep DEF Suspends
<1> QED BY <1>2, <1>3, <1>4 DEF Suspends, Blocked, StatusFrame

(* The clock interrupt and thread_yield.                                   *)
LEMMA SwitchesFacts ==
  ASSUME NEW s, KernelSound(s)
  PROVE  Switches(s, intr_timer_handler(s)) /\ Switches(s, thread_yield(s))
<1>1. /\ ThreadState(s) /\ ~s.panic /\ Ticks(s) /\ RunQueueConsistent(s, {})
      /\ {} \in SUBSET (Threads \ {idle_thread})
  BY DEF KernelSound, SemaState
<1>2. ASSUME NEW r, Switched(s, r, {}) PROVE Switches(s, r)
  <2>1. KernelSound(r) /\ Keeps(s, r, {}) /\ r.mutex = s.mutex
    BY <1>2, SchedulerStep DEF Switched
  <2> QED BY <1>2, <2>1 DEF Switched, SwitchFrame, Switches, StatusFrame
<1>3. Switched(s, intr_timer_handler(s), {}) /\ Switched(s, thread_yield(s), {})
  BY <1>1, TimerFacts, YieldFacts
<1> QED BY <1>2, <1>3

(* thread_unblock of a suspended thread.                                   *)
LEMMA WokenFacts ==
  ASSUME NEW s, KernelSound(s), NEW t \in Threads, s.status[t] \in Suspended
  PROVE  Woken(s, thread_unblock(s, t), t)
<1>1. /\ ThreadState(s) /\ ~s.panic /\ Ticks(s) /\ RunQueueConsistent(s, {})
      /\ {} \in SUBSET (Threads \ {idle_thread})
  BY DEF KernelSound, SemaState
<1>2. PICK r : r = thread_unblock(s, t)
  OBVIOUS
<1>3. /\ ThreadState(r) /\ Extends(s, r) /\ ~r.panic /\ RunQueueConsistent(r, {})
      /\ r.status = [s.status EXCEPT ![t] = "READY"]
      /\ r.cur = s.cur /\ r.this_tick = s.this_tick
  BY <1>1, <1>2, WakeFacts
<1>4. Ticks(r)
  BY <1>1, <1>3 DEF Ticks
<1>5. KernelSound(r) /\ Keeps(s, r, {}) /\ r.mutex = s.mutex
  BY <1>3, <1>4, SchedulerStep
<1> QED BY <1>2, <1>3, <1>5 DEF Woken

-----------------------------------------------------------------------------
(* sema_down of a semaphore that is 1.                                     *)
LEMMA DownTakes ==
  ASSUME NEW s, KernelSound(s), NEW x \in Semas, Available(s, x)
  PROVE  LET r == sema_down(s, x)
         IN  /\ KernelSound(r) /\ Keeps(s, r, {x}) /\ r.mutex = s.mutex
             /\ r.cur = s.cur /\ r.status = s.status
             /\ r.sema[x] = [value |-> 0, waiters |-> s.sema[x].waiters]
<1>1. PICK r : r = sema_down(s, x)
  OBVIOUS
<1>2. SemaChanged(s, r, x, 0, s.sema[x].waiters)
  BY <1>1, SemaDownTakes DEF KernelSound
<1>3. r.mutex = s.mutex
  BY <1>2 DEF SemaChanged, KernelSound
<1>4. Keeps(s, r, {x})
  BY <1>2 DEF SemaChanged, Keeps
<1>5. KernelSound(r)
  BY <1>2, <1>3 DEF SemaChanged, KernelSound, Ticks, RunQueueConsistent
<1> QED BY <1>1, <1>2, <1>3, <1>4, <1>5 DEF SemaChanged

(* sema_down of a semaphore that is 0.                                     *)
LEMMA DownSleeps ==
  ASSUME NEW s, KernelSound(s), NEW x \in Semas, ~Available(s, x),
         WaitersSound(s, x), s.cur # idle_thread
  PROVE  Queued(s, sema_down(s, x), x)
<1>1. /\ ThreadState(s) /\ ~s.panic /\ Ticks(s) /\ RunQueueConsistent(s, {})
      /\ {} \in SUBSET (Threads \ {idle_thread}) /\ SemaState(s)
      /\ s.cur \in Threads
  BY DEF KernelSound, SemaState, ThreadState
<1>2. ~elem_find(s.sema[x].waiters, s.cur)
  BY <1>1 DEF WaitersSound, Sleepers, RunQueueConsistent
<1>3. PICK r : r = sema_down(s, x)
  OBVIOUS
<1>4. Slept(s, r, x, {})
  BY <1>1, <1>2, <1>3, SemaDownSleeps
<1>5. PICK w \in Seq(Threads) : w = s.sema[x].waiters
  BY <1>1, SemaParts
<1>6. /\ \A u : elem_find(Append(w, s.cur), u) <=> elem_find(w, u) \/ u = s.cur
      /\ NoDuplicates(Append(w, s.cur))
  BY <1>1, <1>2, <1>5, AppendFacts DEF WaitersSound
<1>7. r.sema[x] = [value |-> 0, waiters |-> Append(w, s.cur)]
  BY <1>4, <1>5 DEF Slept
<1>8. /\ r.sema[x].value = 0 /\ NoDuplicates(r.sema[x].waiters)
      /\ Sleepers(r, x) = Sleepers(s, x) \cup {s.cur}
  BY <1>1, <1>5, <1>6, <1>7 DEF Sleepers
<1>9. r.mutex = s.mutex /\ DOMAIN r = DOMAIN s
  BY <1>4 DEF Slept, KernelSound, Fields
<1>10. Keeps(s, r, {x})
  BY <1>4 DEF Slept, Keeps
<1>11. KernelSound(r)
  BY <1>4, <1>9 DEF Slept, KernelSound
<1>12. r.status[s.cur] = "BLOCKED" /\ StatusFrame(s, r, {s.cur})
  BY <1>4 DEF Slept, StatusFrame
<1> QED BY <1>3, <1>8, <1>9, <1>10, <1>11, <1>12 DEF Queued

(* sema_up of a semaphore that is 0.                                       *)
LEMMA UpFacts ==
  ASSUME NEW s, KernelSound(s), NEW x \in Semas, s.sema[x].value = 0, WaitersSound(s, x)
  PROVE  \E W \in SUBSET Sleepers(s, x) : Raised(s, sema_up(s, x), x, W)
<1>1. /\ ThreadState(s) /\ ~s.panic /\ Ticks(s) /\ RunQueueConsistent(s, {})
      /\ SemaState(s) /\ s.status \in [Threads -> Status]
  BY DEF KernelSound, SemaState, ThreadState
<1>2. PICK w \in Seq(Threads) : w = s.sema[x].waiters
  BY <1>1, SemaParts
<1>3. PICK r : r = sema_up(s, x)
  OBVIOUS
<1>4. CASE w = <<>>
  <2>1. SemaChanged(s, r, x, 1, w)
    BY <1>1, <1>2, <1>3, <1>4, SemaUpEmpty
  <2>2. Sleepers(s, x) = {} /\ Sleepers(r, x) = {}
    BY <1>2, <1>4, <2>1 DEF SemaChanged, Sleepers, elem_find
  <2>3. r.mutex = s.mutex /\ Keeps(s, r, {x})
    BY <2>1 DEF SemaChanged, Keeps, KernelSound
  <2>4. KernelSound(r)
    BY <1>1, <2>1, <2>3 DEF SemaChanged, KernelSound, Ticks, RunQueueConsistent
  <2>5. r.sema[x].value = 1 /\ NoDuplicates(r.sema[x].waiters)
    BY <1>2, <2>1 DEF SemaChanged, WaitersSound
  <2>6. Raised(s, r, x, {})
    BY <2>1, <2>2, <2>3, <2>4, <2>5 DEF Raised, SemaChanged
  <2> QED BY <1>3, <2>6
<1>5. CASE w # <<>>
  <2>1. PICK h \in Threads : h = Head(w)
    BY <1>2, <1>5, TailFacts DEF WaitersSound
  <2>2. /\ elem_find(w, h) /\ NoDuplicates(Tail(w))
        /\ \A u : elem_find(Tail(w), u) <=> elem_find(w, u) /\ u # h
    BY <1>2, <1>5, <2>1, TailFacts DEF WaitersSound
  <2>3. h \in Sleepers(s, x) /\ s.status[h] = "BLOCKED" /\ s.status[h] \in Suspended
    BY <1>2, <2>2 DEF Sleepers, WaitersSound, Suspended
  <2>4. ~elem_find(s.ready, h)
    BY <1>1, <2>3 DEF RunQueueConsistent
  <2>5. Woke(s, r, x, h)
    BY <1>1, <1>2, <1>3, <1>5, <2>1, <2>3, <2>4, SemaUpWakes DEF WaitersSound
  <2>6. r.mutex = s.mutex /\ Keeps(s, r, {x}) /\ DOMAIN r = DOMAIN s
    BY <2>5 DEF Woke, Keeps, KernelSound, Fields
  <2>7. RunQueueConsistent(r, {})
    <3>1. PICK u : u = thread_unblock(s, h)
      OBVIOUS
    <3>2. /\ RunQueueConsistent(u, {}) /\ u.status = r.status /\ u.cur = r.cur
          /\ u.ready = r.ready
      <4>1. /\ RunQueueConsistent(u, {}) /\ u.cur = s.cur
            /\ u.status = [s.status EXCEPT ![h] = "READY"]
        BY <1>1, <2>3, <3>1, WakeFacts
      <4>2. u.ready = <<h>> \o s.ready
        BY <1>1, <2>3, <2>4, <3>1, UnblockFacts
      <4> QED BY <2>5, <4>1, <4>2 DEF Woke
    <3> QED BY <3>2 DEF RunQueueConsistent
  <2>8. KernelSound(r)
    BY <1>1, <2>5, <2>6, <2>7 DEF Woke, KernelSound, Ticks
  <2>9. /\ r.sema[x].value = 1 /\ NoDuplicates(r.sema[x].waiters)
        /\ Sleepers(r, x) = Sleepers(s, x) \ {h}
    <3>1. r.sema[x] = [value |-> 1, waiters |-> Tail(w)]
      BY <1>2, <2>5 DEF Woke
    <3> QED BY <1>2, <2>2, <3>1 DEF Sleepers
  <2>10. \A t \in Threads : r.status[t] = IF t \in {h} THEN "READY" ELSE s.status[t]
    BY <1>1, <2>5 DEF Woke
  <2>11. Raised(s, r, x, {h})
    BY <2>5, <2>6, <2>8, <2>9, <2>10 DEF Raised, Woke
  <2> QED BY <1>3, <2>3, <2>11
<1> QED BY <1>4, <1>5

-----------------------------------------------------------------------------
(* Mutexes *)

(* Assigning to a mutex is no business of the scheduler.                   *)
LEMMA SetMutex ==
  ASSUME NEW s, KernelSound(s), NEW m \in Mutexes,
         NEW e \in [holder : Threads \cup {NULL}, repeat : Nat]
  PROVE  LET r == [s EXCEPT !.mutex[m] = e]
         IN  /\ KernelSound(r) /\ Keeps(s, r, {}) /\ r.sema = s.sema
             /\ r.cur = s.cur /\ r.status = s.status
             /\ r.mutex = [s.mutex EXCEPT ![m] = e]
<1>1. PICK r : r = [s EXCEPT !.mutex[m] = e]
  OBVIOUS
<1>2. /\ DOMAIN r = DOMAIN s /\ r = [f \in DOMAIN s |-> r[f]]
      /\ \A f \in DOMAIN s \ {"mutex"} : r[f] = s[f]
      /\ r.mutex = [s.mutex EXCEPT ![m] = e]
  BY <1>1 DEF KernelSound, SemaState, ThreadState
<1>3. /\ r.cur = s.cur /\ r.status = s.status /\ r.ready = s.ready
      /\ r.this_tick = s.this_tick /\ r.panic = s.panic /\ r.sema = s.sema
  BY <1>2 DEF KernelSound, SemaState, ThreadState, Fields
<1>4. r.mutex \in MutexState
  <2> DEFINE E == [holder : Threads \cup {NULL}, repeat : Nat]
  <2>1. s.mutex \in [Mutexes -> E] /\ e \in E
    BY DEF KernelSound, MutexState
  <2> HIDE DEF E
  <2>2. r.mutex \in [Mutexes -> E]
    BY <1>2, <2>1
  <2> QED BY <2>2 DEF MutexState, E
<1>5. SemaState(r)
  BY <1>2, <1>3 DEF KernelSound, SemaState, ThreadState
<1>6. KernelSound(r) /\ Keeps(s, r, {})
  BY <1>2, <1>3, <1>4, <1>5 DEF KernelSound, Keeps, Ticks, RunQueueConsistent
<1> QED BY <1>1, <1>2, <1>3, <1>6

(* mutex_acquire of a mutex that is free: its ASSERT on holder_repeat_nr   *)
(* holds because nobody holds the mutex.                                   *)
LEMMA AcquireTakes ==
  ASSUME NEW s, KernelSound(s), NEW m \in Mutexes, s.mutex[m] = mutex_init, Available(s, m)
  PROVE  Taken(s, mutex_acquire(s, m), m)
<1>1. m \in Semas /\ s.cur \in Threads /\ s.cur # NULL
  BY KMutexAssumption DEF KernelSound, SemaState, ThreadState
<1>2. s.mutex[m].holder # s.cur /\ s.mutex[m].repeat = 0
  BY <1>1 DEF mutex_init
<1>3. PICK d : d = sema_down(s, m)
  OBVIOUS
<1>4. /\ KernelSound(d) /\ Keeps(s, d, {m}) /\ d.mutex = s.mutex
      /\ d.cur = s.cur /\ d.status = s.status
      /\ d.sema[m] = [value |-> 0, waiters |-> s.sema[m].waiters]
  BY <1>1, <1>3, DownTakes
<1>5. ASSERT(d, s.mutex[m].repeat = 0) = d
  BY <1>2, <1>4, AssertFacts DEF KernelSound, SemaState
<1>6. mutex_acquire(s, m) = [d EXCEPT !.mutex[m] = [holder |-> s.cur, repeat |-> 1]]
  BY <1>2, <1>3, <1>5 DEF mutex_acquire
<1>7. PICK r : r = [d EXCEPT !.mutex[m] = [holder |-> s.cur, repeat |-> 1]]
  OBVIOUS
<1>8. [holder |-> s.cur, repeat |-> 1] \in [holder : Threads \cup {NULL}, repeat : Nat]
  BY <1>1
<1>9. /\ KernelSound(r) /\ Keeps(d, r, {}) /\ r.sema = d.sema
      /\ r.cur = d.cur /\ r.status = d.status
      /\ r.mutex = [d.mutex EXCEPT ![m] = [holder |-> s.cur, repeat |-> 1]]
  <2>1. PICK e \in [holder : Threads \cup {NULL}, repeat : Nat] :
          e = [holder |-> s.cur, repeat |-> 1]
    BY <1>8
  <2> QED BY <1>4, <1>7, <2>1, SetMutex
<1>10. Keeps(s, r, {m})
  BY <1>4, <1>9 DEF Keeps
<1> QED BY <1>4, <1>6, <1>7, <1>9, <1>10 DEF Taken

(* mutex_acquire of a mutex that another thread holds.                     *)
LEMMA AcquireSleeps ==
  ASSUME NEW s, KernelSound(s), NEW m \in Mutexes, s.mutex[m].holder # s.cur,
         ~Available(s, m), WaitersSound(s, m), s.cur # idle_thread
  PROVE  Queued(s, mutex_acquire(s, m), m)
<1>1. m \in Semas
  BY KMutexAssumption
<1>2. mutex_acquire(s, m) = sema_down(s, m)
  BY DEF mutex_acquire
<1> QED BY <1>1, <1>2, DownSleeps

(* mutex_release by the holder, that has acquired it once.                 *)
LEMMA ReleaseFacts ==
  ASSUME NEW s, KernelSound(s), NEW m \in Mutexes, s.mutex[m].holder = s.cur,
         s.mutex[m].repeat = 1, s.sema[m].value = 0, WaitersSound(s, m)
  PROVE  \E W \in SUBSET Sleepers(s, m) : LetGo(s, mutex_release(s, m), m, W)
<1>1. m \in Semas
  BY KMutexAssumption
<1>2. PICK e \in [holder : Threads \cup {NULL}, repeat : Nat] : e = mutex_init
  BY DEF mutex_init
<1>3. PICK d : d = [s EXCEPT !.mutex[m] = e]
  OBVIOUS
<1>4. /\ KernelSound(d) /\ Keeps(s, d, {}) /\ d.sema = s.sema
      /\ d.cur = s.cur /\ d.status = s.status
      /\ d.mutex = [s.mutex EXCEPT ![m] = e]
  BY <1>3, SetMutex
<1>5. mutex_release(s, m) = sema_up(d, m)
  <2>1. /\ ASSERT(s, s.mutex[m].holder = s.cur) = s
        /\ ASSERT(s, s.mutex[m].repeat = 1) = s
    BY AssertFacts DEF KernelSound, SemaState
  <2> QED BY <1>2, <1>3, <2>1 DEF mutex_release
<1>6. WaitersSound(d, m) /\ d.sema[m].value = 0 /\ Sleepers(d, m) = Sleepers(s, m)
  BY <1>4 DEF WaitersSound, Sleepers
<1>7. PICK W \in SUBSET Sleepers(s, m) : Raised(d, sema_up(d, m), m, W)
  BY <1>1, <1>4, <1>6, UpFacts
<1>8. PICK r : r = sema_up(d, m)
  OBVIOUS
<1>9. Raised(d, r, m, W)
  BY <1>7, <1>8
<1>10. Keeps(s, r, {m}) /\ r.mutex = [s.mutex EXCEPT ![m] = mutex_init]
  BY <1>2, <1>4, <1>9 DEF Raised, Keeps
<1>11. LetGo(s, r, m, W)
  BY <1>4, <1>6, <1>9, <1>10 DEF Raised, LetGo
<1> QED BY <1>5, <1>8, <1>11
=============================================================================
