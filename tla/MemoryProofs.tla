---------------------------- MODULE MemoryProofs ----------------------------
(***************************************************************************)
(* Proofs about module Memory, for every number of pages, block sizes and  *)
(* processes that its assumptions allow.                                   *)
(*                                                                         *)
(* The inductive invariant IInv says of a state                            *)
(*   Agree  the pools, the bitmaps of the address spaces and the page      *)
(*          tables agree: a page in use has one user and its bit,          *)
(*   Bits   a virtual page has its bit exactly if it is mapped,            *)
(*   Tasks  the kernel pages of a process are mapped and its own,          *)
(*   Heaps  the arenas of an owner lie in pages of its own and do not      *)
(*          touch; a free block and a pointer given out are blocks of an   *)
(*          arena, none is both; free_cnt counts the free blocks, and an   *)
(*          arena of blocks has one that is not free.                      *)
(*                                                                         *)
(* The first part is about the loops of the code, which the model writes   *)
(* as recursive functions: that the function exists (by induction over the *)
(* length it is built for), and then what it returns.  An induction is a   *)
(* least counterexample: a set of numbers that is not empty has a lowest.  *)
(* Then comes what a call does to pools, page tables and heaps, then one   *)
(* lemma per action, and at the end the theorems.                          *)
(***************************************************************************)
EXTENDS Memory, TLAPS, FiniteSetTheorems, SequenceTheorems, NaturalsInduction

-----------------------------------------------------------------------------
(* Numbers *)

(* A set of numbers that is not empty has a lowest one.                    *)
LEMMA LowestFacts ==
  ASSUME NEW S \in SUBSET Nat, S # {}
  PROVE  Lowest(S) \in S /\ \A i \in S : Lowest(S) <= i
<1>1. IsWellFoundedOn(OpToRel(<, Nat), Nat)
  BY NatLessThanWellFounded
<1>2. PICK k \in S : \A i \in S : ~(<<i, k>> \in OpToRel(<, Nat))
  BY <1>1, WFMin
<1>3. ASSUME NEW i \in S PROVE k <= i
  <2>1. <<i, k>> \in Nat \X Nat
    BY <1>2
  <2>2. ~(i < k)
    BY <1>2, <2>1 DEF OpToRel
  <2> QED BY <2>2
<1> QED BY <1>2, <1>3 DEF Lowest

(* So has one of integers that are not below b.                            *)
LEMMA LowestFrom ==
  ASSUME NEW S \in SUBSET Int, S # {}, NEW b \in Int, \A i \in S : b <= i
  PROVE  Lowest(S) \in S /\ \A i \in S : Lowest(S) <= i
<1> DEFINE T == {j \in Nat : j + b \in S}
<1>1. PICK k \in S : TRUE
  OBVIOUS
<1>2. k - b \in T
  OBVIOUS
<1>3. PICK l \in T : \A j \in T : l <= j
  <2>1. T \in SUBSET Nat /\ T # {}
    BY <1>2
  <2> HIDE DEF T
  <2> QED BY <2>1, LowestFacts
<1>4. ASSUME NEW i \in S PROVE l + b <= i
  <2>1. i - b \in T
    OBVIOUS
  <2> QED BY <1>3, <2>1
<1> QED BY <1>3, <1>4 DEF Lowest

(* What is lowest is so whatever way it is described.                      *)
LEMMA LowestIs ==
  ASSUME NEW S \in SUBSET Int, NEW k \in S, \A i \in S : k <= i
  PROVE  Lowest(S) = k
<1>1. PICK l : l = Lowest(S)
  OBVIOUS
<1>2. l \in S /\ \A i \in S : l <= i
  BY <1>1, LowestFrom
<1>3. l <= k /\ k <= l /\ l \in Int /\ k \in Int
  BY <1>2
<1> QED BY <1>1, <1>3

(* A bounded set of numbers that is not empty has a highest one.           *)
LEMMA HighestFacts ==
  ASSUME NEW S \in SUBSET Nat, S # {}, NEW n \in Nat, \A i \in S : i <= n
  PROVE  \E k \in S : \A i \in S : i <= k
<1> DEFINE T == {j \in 0..n : n - j \in S}
<1>1. T \in SUBSET Nat /\ T # {}
  <2>1. PICK i \in S : TRUE
    OBVIOUS
  <2>2. n - i \in T
    BY <2>1
  <2>3. T \in SUBSET Nat
    OBVIOUS
  <2> HIDE DEF T
  <2> QED BY <2>2, <2>3
<1>2. PICK l \in T : \A j \in T : l <= j
  <2> HIDE DEF T
  <2> QED BY <1>1, LowestFacts
<1>3. n - l \in S
  BY <1>2
<1>4. ASSUME NEW i \in S PROVE i <= n - l
  <2>1. n - i \in T
    OBVIOUS
  <2> HIDE DEF T
  <2>2. l <= n - i /\ l \in Nat
    BY <1>1, <1>2, <2>1
  <2> QED BY <2>2
<1> QED BY <1>3, <1>4

-----------------------------------------------------------------------------
(* bitmap_scan *)

(* The runs the scan may still find at next_bit, with count bits that are  *)
(* 0 behind it.                                                            *)
Found(bits, len, cnt, next_bit, count) ==
  {s \in next_bit - count..len - cnt + 1 :
     \A i \in s..s + cnt - 1 : i >= next_bit => i \notin bits}

Result(S) == IF S = {} THEN -1 ELSE Lowest(S)

Scans(f, bits, len, cnt) ==
  f = [next_bit \in 0..len + 1 |-> [count \in 0..cnt |->
        IF count = cnt THEN next_bit - cnt
        ELSE IF next_bit > len THEN -1
        ELSE f[next_bit + 1][IF next_bit \in bits THEN 0 ELSE count + 1]]]

(* One step of the scan, in terms of the runs that are left.               *)
LEMMA ScanStep ==
  ASSUME NEW bits, NEW len \in Nat, NEW cnt \in Nat, cnt # 0,
         NEW nb \in 0..len + 1, NEW c \in 0..cnt
  PROVE  /\ c = cnt => Result(Found(bits, len, cnt, nb, c)) = nb - cnt
         /\ c # cnt /\ nb > len => Result(Found(bits, len, cnt, nb, c)) = -1
         /\ c # cnt /\ nb <= len =>
              Found(bits, len, cnt, nb, c) =
                Found(bits, len, cnt, nb + 1, IF nb \in bits THEN 0 ELSE c + 1)
<1>1. ASSUME c = cnt PROVE Result(Found(bits, len, cnt, nb, c)) = nb - cnt
  <2> DEFINE S == Found(bits, len, cnt, nb, c)
  <2>1. nb - cnt \in S /\ S \in SUBSET Int /\ \A i \in S : nb - cnt <= i
    BY <1>1 DEF Found
  <2> HIDE DEF S
  <2>2. Lowest(S) = nb - cnt /\ S # {}
    BY <2>1, LowestIs
  <2> QED BY <2>2 DEF S, Result
<1>2. ASSUME c # cnt, nb > len PROVE Found(bits, len, cnt, nb, c) = {}
  BY <1>2 DEF Found
<1>3. ASSUME c # cnt, nb <= len, nb \in bits, NEW s
      PROVE  s \in Found(bits, len, cnt, nb, c) <=> s \in Found(bits, len, cnt, nb + 1, 0)
  <2>1. ASSUME s \in Found(bits, len, cnt, nb, c)
        PROVE  s \in Found(bits, len, cnt, nb + 1, 0)
    <3>1. ~(s <= nb /\ nb <= s + cnt - 1) /\ s \in Int /\ s >= nb - c
      BY <1>3, <2>1 DEF Found
    <3> QED BY <1>3, <2>1, <3>1 DEF Found
  <2>2. ASSUME s \in Found(bits, len, cnt, nb + 1, 0)
        PROVE  s \in Found(bits, len, cnt, nb, c)
    BY <1>3, <2>2 DEF Found
  <2> QED BY <2>1, <2>2
<1>4. ASSUME c # cnt, nb <= len, nb \notin bits, NEW s
      PROVE  s \in Found(bits, len, cnt, nb, c) <=> s \in Found(bits, len, cnt, nb + 1, c + 1)
  <2>1. ASSUME NEW i \in Int PROVE (i >= nb => i \notin bits) <=> (i >= nb + 1 => i \notin bits)
    BY <1>4
  <2>2. nb - c = (nb + 1) - (c + 1)
    OBVIOUS
  <2> QED BY <2>1, <2>2 DEF Found
<1> QED BY <1>1, <1>2, <1>3, <1>4 DEF Result

(* The loop ends, with the first of the runs.                              *)
LEMMA ScanExists ==
  ASSUME NEW bits, NEW len \in Nat, NEW cnt \in Nat, cnt # 0
  PROVE  \E f : Scans(f, bits, len, cnt)
<1>1. PICK f : f = [nb \in 0..len + 1 |->
                     [c \in 0..cnt |-> Result(Found(bits, len, cnt, nb, c))]]
  OBVIOUS
<1>2. ASSUME NEW nb \in 0..len + 1, NEW c \in 0..cnt
      PROVE  f[nb][c] = IF c = cnt THEN nb - cnt
                        ELSE IF nb > len THEN -1
                        ELSE f[nb + 1][IF nb \in bits THEN 0 ELSE c + 1]
  <2>1. f[nb][c] = Result(Found(bits, len, cnt, nb, c))
    BY <1>1
  <2>2. CASE c # cnt /\ nb <= len
    <3>1. PICK d : d = IF nb \in bits THEN 0 ELSE c + 1
      OBVIOUS
    <3>2. nb + 1 \in 0..len + 1 /\ d \in 0..cnt
      BY <2>2, <3>1
    <3>3. f[nb + 1][d] = Result(Found(bits, len, cnt, nb + 1, d))
      BY <1>1, <3>2
    <3> QED BY <2>1, <2>2, <3>1, <3>3, ScanStep
  <2> QED BY <2>1, <2>2, ScanStep
<1>3. Scans(f, bits, len, cnt)
  <2>1. ASSUME NEW nb \in 0..len + 1
        PROVE  f[nb] = [c \in 0..cnt |-> IF c = cnt THEN nb - cnt
                          ELSE IF nb > len THEN -1
                          ELSE f[nb + 1][IF nb \in bits THEN 0 ELSE c + 1]]
    <3>1. f[nb] = [c \in 0..cnt |-> Result(Found(bits, len, cnt, nb, c))]
      BY <1>1
    <3>2. f[nb] = [c \in 0..cnt |-> f[nb][c]]
      BY <3>1
    <3> QED BY <1>2, <3>2
  <2>2. f = [nb \in 0..len + 1 |-> f[nb]]
    BY <1>1
  <2> QED BY <2>1, <2>2 DEF Scans
<1> QED BY <1>3

(* The scan answers for every bit and count as Found says.                 *)
LEMMA ScanIs ==
  ASSUME NEW bits, NEW len \in Nat, NEW cnt \in Nat, cnt # 0,
         NEW f, Scans(f, bits, len, cnt)
  PROVE  \A nb \in 0..len + 1, c \in 0..cnt :
           f[nb][c] = Result(Found(bits, len, cnt, nb, c))
<1> DEFINE Exact(nb) == \A c \in 0..cnt : f[nb][c] = Result(Found(bits, len, cnt, nb, c))
           Wrong == {k \in Nat : k <= len + 1 /\ ~Exact(len + 1 - k)}
<1>1. ASSUME NEW nb \in 0..len + 1, nb <= len => Exact(nb + 1)
      PROVE  Exact(nb)
  <2> TAKE c \in 0..cnt
  <2>1. f[nb][c] = IF c = cnt THEN nb - cnt
                   ELSE IF nb > len THEN -1
                   ELSE f[nb + 1][IF nb \in bits THEN 0 ELSE c + 1]
    <3>1. f[nb] = [d \in 0..cnt |-> IF d = cnt THEN nb - cnt
                     ELSE IF nb > len THEN -1
                     ELSE f[nb + 1][IF nb \in bits THEN 0 ELSE d + 1]]
      BY DEF Scans
    <3> QED BY <3>1
  <2>2. CASE c # cnt /\ nb <= len
    <3>1. PICK d : d = IF nb \in bits THEN 0 ELSE c + 1
      OBVIOUS
    <3>2. d \in 0..cnt
      BY <2>2, <3>1
    <3>3. f[nb + 1][d] = Result(Found(bits, len, cnt, nb + 1, d))
      BY <1>1, <2>2, <3>2
    <3> QED BY <2>1, <2>2, <3>1, <3>3, ScanStep
  <2> QED BY <2>1, <2>2, ScanStep
<1>2. Wrong = {}
  <2>1. SUFFICES ASSUME Wrong # {} PROVE FALSE
    OBVIOUS
  <2>2. Wrong \in SUBSET Nat
    OBVIOUS
  <2>3. PICK k \in Wrong : \A l \in Wrong : k <= l
    <3> HIDE DEF Wrong
    <3> QED BY <2>1, <2>2, LowestFacts
  <2>4. k \in Nat /\ k <= len + 1 /\ ~Exact(len + 1 - k)
    BY <2>3
  <2>5. PICK nb \in 0..len + 1 : nb = len + 1 - k
    BY <2>4
  <2>6. nb <= len /\ ~Exact(nb + 1)
    BY <1>1, <2>4, <2>5
  <2>7. k - 1 \in Nat /\ len + 1 - (k - 1) = nb + 1 /\ k - 1 <= len + 1
    BY <2>4, <2>5, <2>6
  <2>8. k - 1 \in Wrong
    BY <2>6, <2>7
  <2> QED BY <2>3, <2>4, <2>8
<1>3. ASSUME NEW nb \in 0..len + 1 PROVE Exact(nb)
  <2>1. PICK k \in Nat : k = len + 1 - nb
    OBVIOUS
  <2>2. nb = len + 1 - k /\ k <= len + 1
    BY <2>1
  <2>3. k \in Nat /\ k <= len + 1 /\ ~Exact(len + 1 - k) => k \in Wrong
    OBVIOUS
  <2> HIDE DEF Exact, Wrong
  <2>4. Exact(len + 1 - k)
    BY <1>2, <2>2, <2>3
  <2> QED BY <2>2, <2>4
<1> QED BY <1>3

(* The runs of cnt free bits.                                              *)
Runs(bits, len, cnt) ==
  {s \in 0..len - 1 : s + cnt - 1 <= len /\ s..s + cnt - 1 \cap bits = {}}

(* bitmap_scan finds the first run, if there is one.                       *)
LEMMA ScanFinds ==
  ASSUME NEW bits, NEW len \in Nat, NEW cnt \in Nat, cnt # 0, ~IsFull(bits, len)
  PROVE  bitmap_scan(bits, len, cnt) = Result(Runs(bits, len, cnt))
<1> DEFINE first == Lowest(0..len - 1 \ bits)
<1>1. PICK f : /\ Scans(f, bits, len, cnt)
               /\ bitmap_scan(bits, len, cnt) = f[first + 1][1]
  <2>1. PICK f : f = CHOOSE g : Scans(g, bits, len, cnt)
    OBVIOUS
  <2>2. Scans(f, bits, len, cnt)
    BY <2>1, ScanExists
  <2>3. bitmap_scan(bits, len, cnt) = (CHOOSE g : Scans(g, bits, len, cnt))[first + 1][1]
    BY DEF bitmap_scan, Scans
  <2> QED BY <2>1, <2>2, <2>3
<1>2. first \in 0..len - 1 \ bits /\ \A i \in 0..len - 1 \ bits : first <= i
  <2>1. 0..len - 1 \ bits \in SUBSET Nat /\ 0..len - 1 \ bits # {}
    BY DEF IsFull
  <2> QED BY <2>1, LowestFacts
<1>3. PICK k \in 0..len - 1 : k = first /\ k \notin bits /\ \A i \in 0..len - 1 \ bits : k <= i
  BY <1>2
<1> HIDE DEF first
<1>4. f[k + 1][1] = Result(Found(bits, len, cnt, k + 1, 1))
  BY <1>1, ScanIs
<1> DEFINE S == Found(bits, len, cnt, k + 1, 1)
           R == Runs(bits, len, cnt)
<1>5. R \subseteq S
  BY <1>3 DEF Found, Runs
<1>6. ASSUME NEW s \in S PROVE s \in R \/ (s = len /\ cnt = 1 /\ k \in R)
  <2>1. s \in Int /\ s >= k /\ s <= len - cnt + 1
        /\ \A i \in s..s + cnt - 1 : i >= k + 1 => i \notin bits
    BY DEF Found
  <2>2. s..s + cnt - 1 \cap bits = {}
    BY <1>3, <2>1
  <2>3. CASE s <= len - 1
    BY <2>1, <2>2, <2>3 DEF Runs
  <2>4. CASE s > len - 1
    <3>1. s = len /\ cnt = 1
      BY <2>1, <2>4
    <3> QED BY <1>3, <3>1 DEF Runs
  <2> QED BY <2>1, <2>3, <2>4
<1>7. R \in SUBSET Nat /\ len \in Nat /\ \A s \in R : s <= len
  BY DEF Runs
<1> HIDE DEF S, R
<1>8. CASE R = {}
  <2>1. S = {}
    BY <1>6, <1>8
  <2> QED BY <1>1, <1>3, <1>4, <1>8, <2>1 DEF Result, S, R
<1>9. CASE R # {}
  <2>1. PICK l \in R : l = Lowest(R) /\ \A s \in R : l <= s
    BY <1>7, <1>9, LowestFacts
  <2>2. l \in S /\ \A s \in S : l <= s /\ s \in Int
    BY <1>5, <1>6, <1>7, <2>1
  <2>3. Lowest(S) = l
    BY <2>2, LowestIs
  <2> QED BY <1>1, <1>3, <1>4, <1>9, <2>1, <2>2, <2>3 DEF Result, S, R
<1> QED BY <1>8, <1>9

-----------------------------------------------------------------------------
(* The memory *)

(* The virtual pages an address space maps.                                *)
Dom(m, o) == DOMAIN m.space[o].map

(* A memory is a record of records.                                        *)
Shape(m) ==
  /\ m = [taken |-> m.taken, space |-> m.space, panic |-> m.panic]
  /\ m.space = [o \in Owners |-> m.space[o]]
  /\ \A o \in Owners : m.space[o] = [bits |-> m.space[o].bits, map |-> m.space[o].map,
                                     tables |-> m.space[o].tables]

(* Every physical page in use is of the right pool and has its bit.        *)
InPools(m) ==
  /\ m.taken \subseteq 0..KPages + UPages - 1
  /\ \A o \in Owners :
       /\ \A v \in Dom(m, o) : m.space[o].map[v] \in PoolOf(o) \cap m.taken
       /\ \A t \in DOMAIN m.space[o].tables :
            m.space[o].tables[t] \in PoolOf(KERNEL) \cap m.taken
  /\ DOMAIN m.space[KERNEL].tables = {}

(* No physical page is used twice.                                         *)
UsedOnce(m) ==
  \A o, q \in Owners :
    /\ \A v \in Dom(m, o), w \in Dom(m, q) :
         m.space[o].map[v] = m.space[q].map[w] => o = q /\ v = w
    /\ \A t \in DOMAIN m.space[o].tables, u \in DOMAIN m.space[q].tables :
         m.space[o].tables[t] = m.space[q].tables[u] => o = q /\ t = u
    /\ \A v \in Dom(m, o), u \in DOMAIN m.space[q].tables :
         m.space[o].map[v] # m.space[q].tables[u]

(* Every page that has its bit is used.                                    *)
AllUsed(m) ==
  \A page \in m.taken : \E o \in Owners :
    \/ \E v \in Dom(m, o) : m.space[o].map[v] = page
    \/ \E t \in DOMAIN m.space[o].tables : m.space[o].tables[t] = page

(* The bitmap of an address space is one, and covers what is mapped.       *)
BitsCover(m) ==
  \A o \in Owners : m.space[o].bits \subseteq 0..BitmapLen(o) /\ Dom(m, o) \subseteq m.space[o].bits

Agree(m) == Shape(m) /\ InPools(m) /\ UsedOnce(m) /\ AllUsed(m) /\ BitsCover(m)

(* The two ways a call can go.                                             *)
Works(m) == m.panic = "none" /\ Agree(m)
Stops(m) == m.panic = "full" /\ Shape(m)

(* The constants.                                                          *)
LEMMA Numbers ==
  /\ KPages \in Nat /\ UPages \in Nat /\ UVPages \in Nat /\ KPages > 0 /\ UPages > 0
  /\ KERNEL \in Owners /\ KERNEL \notin Procs /\ Procs \subseteq Owners
  /\ \A o \in Owners : /\ BitmapLen(o) \in Nat
                         /\ PoolOf(o) \in SUBSET (0..KPages + UPages - 1)
  /\ \A p \in Procs : BitmapLen(p) = UVPages /\ PoolOf(p) \cap PoolOf(KERNEL) = {}
  /\ BitmapLen(KERNEL) = KPages
BY PagesAssumption DEF Owners, BitmapLen, PoolOf

(* A failed ASSERT is the last one.                                        *)
LEMMA PanicKept ==
  ASSUME NEW m, NEW holds
  PROVE  /\ Stops(m) => Stops(ASSERT(m, holds)) /\ ASSERT(m, holds) = m
         /\ holds => ASSERT(m, holds) = m
         /\ Shape(m) /\ m.panic = "none" => Stops(Panic(m, "full"))
         /\ Stops(m) => Panic(m, "full") = m
BY DEF ASSERT, Panic, Stops, Shape

-----------------------------------------------------------------------------
(* Pages taken *)

(* The entry Extend adds.                                                  *)
LEMMA Extended ==
  ASSUME NEW f, NEW x, NEW y
  PROVE  /\ DOMAIN Extend(f, x, y) = DOMAIN f \cup {x}
         /\ Extend(f, x, y)[x] = y
         /\ \A z \in DOMAIN f : z # x => Extend(f, x, y)[z] = f[z]
BY DEF Extend

(* palloc takes a free page of the pool, or finds that it is full.         *)
LEMMA PallocFacts ==
  ASSUME NEW m, Shape(m), NEW pool \in SUBSET Nat
  PROVE  /\ Stops(m) => Stops(palloc(m, pool))
         /\ m.panic = "none" =>
              \/ Stops(palloc(m, pool))
              \/ /\ NextPage(m, pool) \in pool \ m.taken
                 /\ palloc(m, pool) = [taken |-> m.taken \cup {NextPage(m, pool)},
                                       space |-> m.space, panic |-> "none"]
<1>1. CASE pool \subseteq m.taken
  BY <1>1, PanicKept DEF palloc
<1>2. CASE ~(pool \subseteq m.taken)
  <2>1. Lowest(pool \ m.taken) \in pool \ m.taken
    BY <1>2, LowestFacts
  <2> QED BY <1>2, <2>1 DEF palloc, NextPage, Shape, Stops
<1> QED BY <1>1, <1>2

(* A free page is mapped.                                                  *)
LEMMA MapPage ==
  ASSUME NEW m, Agree(m), NEW o \in Owners, NEW v \in m.space[o].bits, v \notin Dom(m, o),
         NEW page \in PoolOf(o), page \notin m.taken,
         NEW n, Shape(n), n.taken = m.taken \cup {page},
         \A q \in Owners :
           /\ n.space[q].bits = m.space[q].bits /\ n.space[q].tables = m.space[q].tables
           /\ n.space[q].map = IF q = o THEN Extend(m.space[o].map, v, page)
                                        ELSE m.space[q].map
  PROVE  /\ Agree(n)
         /\ \A q \in Owners : Dom(n, q) = IF q = o THEN Dom(m, o) \cup {v} ELSE Dom(m, q)
<1>1. /\ InPools(m) /\ UsedOnce(m) /\ AllUsed(m) /\ BitsCover(m)
      /\ PoolOf(o) \subseteq 0..KPages + UPages - 1 /\ KERNEL \in Owners
  BY Numbers DEF Agree
<1> DEFINE e == Extend(m.space[o].map, v, page)
<1>a. /\ DOMAIN e = DOMAIN m.space[o].map \cup {v} /\ e[v] = page
      /\ \A z \in DOMAIN m.space[o].map : z # v => e[z] = m.space[o].map[z]
  BY DEF Extend
<1>b. \A q \in Owners : n.space[q].map = IF q = o THEN e ELSE m.space[q].map
  OBVIOUS
<1> HIDE DEF e
<1>2. \A q \in Owners : Dom(n, q) = IF q = o THEN Dom(m, o) \cup {v} ELSE Dom(m, q)
  BY <1>a, <1>b DEF Dom
<1>3. \A q \in Owners : \A w \in Dom(n, q) :
        n.space[q].map[w] = IF q = o /\ w = v THEN page ELSE m.space[q].map[w]
  BY <1>a, <1>b DEF Dom
<1>4. InPools(n)
  BY <1>1, <1>2, <1>3 DEF InPools
<1>5. \A q \in Owners : /\ \A w \in Dom(m, q) : m.space[q].map[w] # page
                        /\ \A t \in DOMAIN m.space[q].tables : m.space[q].tables[t] # page
  BY <1>1 DEF InPools
<1>6. UsedOnce(n)
  <2>1. ASSUME NEW q1 \in Owners, NEW q2 \in Owners, NEW w1 \in Dom(n, q1), NEW w2 \in Dom(n, q2),
               n.space[q1].map[w1] = n.space[q2].map[w2]
        PROVE  q1 = q2 /\ w1 = w2
    <3>1. CASE (q1 = o /\ w1 = v) /\ (q2 = o /\ w2 = v)
      BY <3>1
    <3>2. CASE (q1 = o /\ w1 = v) /\ ~(q2 = o /\ w2 = v)
      BY <1>2, <1>3, <1>5, <2>1, <3>2
    <3>3. CASE ~(q1 = o /\ w1 = v) /\ (q2 = o /\ w2 = v)
      BY <1>2, <1>3, <1>5, <2>1, <3>3
    <3>4. CASE ~(q1 = o /\ w1 = v) /\ ~(q2 = o /\ w2 = v)
      BY <1>1, <1>2, <1>3, <2>1, <3>4 DEF UsedOnce
    <3> QED BY <3>1, <3>2, <3>3, <3>4
  <2>2. ASSUME NEW q1 \in Owners, NEW q2 \in Owners, NEW w \in Dom(n, q1),
               NEW t \in DOMAIN n.space[q2].tables
        PROVE  n.space[q1].map[w] # n.space[q2].tables[t]
    BY <1>1, <1>2, <1>3, <1>5 DEF UsedOnce
  <2> QED BY <1>1, <2>1, <2>2 DEF UsedOnce
<1>7. AllUsed(n)
  <2> SUFFICES ASSUME NEW x \in n.taken
               PROVE  \E q \in Owners : \/ \E w \in Dom(n, q) : n.space[q].map[w] = x
                                        \/ \E t \in DOMAIN n.space[q].tables :
                                             n.space[q].tables[t] = x
    BY DEF AllUsed
  <2>1. CASE x = page
    <3>1. v \in Dom(n, o) /\ n.space[o].map[v] = x
      BY <1>2, <1>3, <2>1
    <3> QED BY <3>1
  <2>2. CASE x \in m.taken
    <3>1. PICK q \in Owners : \/ \E w \in Dom(m, q) : m.space[q].map[w] = x
                              \/ \E t \in DOMAIN m.space[q].tables : m.space[q].tables[t] = x
      BY <1>1, <2>2 DEF AllUsed
    <3>2. CASE \E w \in Dom(m, q) : m.space[q].map[w] = x
      <4>1. PICK w \in Dom(m, q) : m.space[q].map[w] = x
        BY <3>2
      <4>2. w \in Dom(n, q) /\ n.space[q].map[w] = x
        BY <1>2, <1>3, <4>1
      <4> QED BY <4>2
    <3> QED BY <3>1, <3>2
  <2> QED BY <2>1, <2>2
<1>8. BitsCover(n)
  BY <1>1, <1>2 DEF BitsCover
<1> QED BY <1>2, <1>4, <1>6, <1>7, <1>8 DEF Agree

(* A free page becomes a page table.                                       *)
LEMMA TablePage ==
  ASSUME NEW m, Agree(m), NEW p \in Procs, NEW t, t \notin DOMAIN m.space[p].tables,
         NEW page \in PoolOf(KERNEL), page \notin m.taken,
         NEW n, Shape(n), n.taken = m.taken \cup {page},
         \A q \in Owners :
           /\ n.space[q].bits = m.space[q].bits /\ n.space[q].map = m.space[q].map
           /\ n.space[q].tables = IF q = p THEN Extend(m.space[p].tables, t, page)
                                           ELSE m.space[q].tables
  PROVE  Agree(n)
<1>1. /\ InPools(m) /\ UsedOnce(m) /\ AllUsed(m) /\ BitsCover(m)
      /\ PoolOf(KERNEL) \subseteq 0..KPages + UPages - 1 /\ KERNEL \in Owners /\ p # KERNEL
      /\ p \in Owners
  BY Numbers DEF Agree
<1> DEFINE e == Extend(m.space[p].tables, t, page)
<1>a. /\ DOMAIN e = DOMAIN m.space[p].tables \cup {t} /\ e[t] = page
      /\ \A z \in DOMAIN m.space[p].tables : z # t => e[z] = m.space[p].tables[z]
  BY DEF Extend
<1>b. \A q \in Owners : n.space[q].tables = IF q = p THEN e ELSE m.space[q].tables
  OBVIOUS
<1> HIDE DEF e
<1>2. \A q \in Owners : /\ Dom(n, q) = Dom(m, q)
                        /\ DOMAIN n.space[q].tables = IF q = p THEN DOMAIN m.space[p].tables \cup {t}
                                                               ELSE DOMAIN m.space[q].tables
  BY <1>a, <1>b DEF Dom
<1>3. \A q \in Owners : \A u \in DOMAIN n.space[q].tables :
        n.space[q].tables[u] = IF q = p /\ u = t THEN page ELSE m.space[q].tables[u]
  BY <1>a, <1>b
<1>4. InPools(n)
  BY <1>1, <1>2, <1>3 DEF InPools
<1>5. \A q \in Owners : /\ \A w \in Dom(m, q) : m.space[q].map[w] # page
                        /\ \A u \in DOMAIN m.space[q].tables : m.space[q].tables[u] # page
  BY <1>1 DEF InPools
<1>6. UsedOnce(n)
  <2>1. ASSUME NEW q1 \in Owners, NEW q2 \in Owners, NEW w1 \in DOMAIN n.space[q1].tables,
               NEW w2 \in DOMAIN n.space[q2].tables,
               n.space[q1].tables[w1] = n.space[q2].tables[w2]
        PROVE  q1 = q2 /\ w1 = w2
    <3>1. CASE (q1 = p /\ w1 = t) /\ (q2 = p /\ w2 = t)
      BY <3>1
    <3>2. CASE (q1 = p /\ w1 = t) /\ ~(q2 = p /\ w2 = t)
      BY <1>2, <1>3, <1>5, <2>1, <3>2
    <3>3. CASE ~(q1 = p /\ w1 = t) /\ (q2 = p /\ w2 = t)
      BY <1>2, <1>3, <1>5, <2>1, <3>3
    <3>4. CASE ~(q1 = p /\ w1 = t) /\ ~(q2 = p /\ w2 = t)
      BY <1>1, <1>2, <1>3, <2>1, <3>4 DEF UsedOnce
    <3> QED BY <3>1, <3>2, <3>3, <3>4
  <2>2. ASSUME NEW q1 \in Owners, NEW q2 \in Owners, NEW w \in Dom(n, q1),
               NEW u \in DOMAIN n.space[q2].tables
        PROVE  n.space[q1].map[w] # n.space[q2].tables[u]
    BY <1>1, <1>2, <1>3, <1>5 DEF UsedOnce
  <2> QED BY <1>1, <1>2, <2>1, <2>2 DEF UsedOnce
<1>7. AllUsed(n)
  <2> SUFFICES ASSUME NEW x \in n.taken
               PROVE  \E q \in Owners : \/ \E w \in Dom(n, q) : n.space[q].map[w] = x
                                        \/ \E u \in DOMAIN n.space[q].tables :
                                             n.space[q].tables[u] = x
    BY DEF AllUsed
  <2>1. CASE x = page
    <3>1. t \in DOMAIN n.space[p].tables /\ n.space[p].tables[t] = x
      BY <1>1, <1>2, <1>3, <2>1
    <3> QED BY <1>1, <3>1
  <2>2. CASE x \in m.taken
    <3>1. PICK q \in Owners : \/ \E w \in Dom(m, q) : m.space[q].map[w] = x
                              \/ \E u \in DOMAIN m.space[q].tables : m.space[q].tables[u] = x
      BY <1>1, <2>2 DEF AllUsed
    <3>2. CASE \E u \in DOMAIN m.space[q].tables : m.space[q].tables[u] = x
      <4>1. PICK u \in DOMAIN m.space[q].tables : m.space[q].tables[u] = x
        BY <3>2
      <4>2. u \in DOMAIN n.space[q].tables /\ n.space[q].tables[u] = x
        BY <1>1, <1>2, <1>3, <4>1
      <4> QED BY <4>2
    <3> QED BY <1>2, <3>1, <3>2
  <2> QED BY <2>1, <2>2
<1>8. BitsCover(n)
  BY <1>1, <1>2 DEF BitsCover
<1> QED BY <1>4, <1>6, <1>7, <1>8 DEF Agree

WithSpace(m, o, r) == [m EXCEPT !.space[o] = r]

WithBits(m, o, e) == [m EXCEPT !.space[o].bits = e]
WithMap(m, o, e) == [m EXCEPT !.space[o].map = e]
WithTables(m, o, e) == [m EXCEPT !.space[o].tables = e]

(* One address space is assigned.                                          *)
LEMMA SpaceSet ==
  ASSUME NEW m, Shape(m), NEW o \in Owners,
         NEW r, r = [bits |-> r.bits, map |-> r.map, tables |-> r.tables],
         NEW n, n = WithSpace(m, o, r)
  PROVE  /\ Shape(n) /\ n.taken = m.taken /\ n.panic = m.panic
         /\ \A q \in Owners : n.space[q] = IF q = o THEN r ELSE m.space[q]
<1>1. PICK sp : sp = [q \in Owners |-> IF q = o THEN r ELSE m.space[q]]
  OBVIOUS
<1>2. [m.space EXCEPT ![o] = r] = sp
  BY <1>1 DEF Shape
<1>3. n = [taken |-> m.taken, space |-> sp, panic |-> m.panic]
  BY <1>2 DEF Shape, WithSpace
<1>4. n.taken = m.taken /\ n.panic = m.panic /\ n.space = sp
  BY <1>3
<1>5. \A q \in Owners : sp[q] = IF q = o THEN r ELSE m.space[q]
  BY <1>1
<1>6. ASSUME NEW q \in Owners
      PROVE  sp[q] = [bits |-> sp[q].bits, map |-> sp[q].map, tables |-> sp[q].tables]
  BY <1>5 DEF Shape
<1>7. sp = [q \in Owners |-> sp[q]]
  BY <1>1
<1> QED BY <1>3, <1>4, <1>5, <1>6, <1>7 DEF Shape

(* One field of an address space is assigned.                              *)
LEMMA FieldsSet ==
  ASSUME NEW m, Shape(m), NEW o \in Owners, NEW e
  PROVE  /\ \A n : n = WithBits(m, o, e) =>
              /\ Shape(n) /\ n.taken = m.taken /\ n.panic = m.panic
              /\ \A q \in Owners : /\ n.space[q].bits = IF q = o THEN e ELSE m.space[q].bits
                                   /\ n.space[q].map = m.space[q].map
                                   /\ n.space[q].tables = m.space[q].tables
         /\ \A n : n = WithMap(m, o, e) =>
              /\ Shape(n) /\ n.taken = m.taken /\ n.panic = m.panic
              /\ \A q \in Owners : /\ n.space[q].map = IF q = o THEN e ELSE m.space[q].map
                                   /\ n.space[q].bits = m.space[q].bits
                                   /\ n.space[q].tables = m.space[q].tables
         /\ \A n : n = WithTables(m, o, e) =>
              /\ Shape(n) /\ n.taken = m.taken /\ n.panic = m.panic
              /\ \A q \in Owners : /\ n.space[q].tables = IF q = o THEN e ELSE m.space[q].tables
                                   /\ n.space[q].bits = m.space[q].bits
                                   /\ n.space[q].map = m.space[q].map
<1>1. ASSUME NEW n, n = WithBits(m, o, e)
      PROVE  /\ Shape(n) /\ n.taken = m.taken /\ n.panic = m.panic
             /\ \A q \in Owners : /\ n.space[q].bits = IF q = o THEN e ELSE m.space[q].bits
                                  /\ n.space[q].map = m.space[q].map
                                  /\ n.space[q].tables = m.space[q].tables
  <2>1. PICK r : r = [bits |-> e, map |-> m.space[o].map, tables |-> m.space[o].tables]
    OBVIOUS
  <2>2. [m.space[o] EXCEPT !.bits = e] = r
    <3>1. PICK x : /\ x = m.space[o]
                   /\ x = [bits |-> x.bits, map |-> x.map, tables |-> x.tables]
      BY DEF Shape
    <3>2. [x EXCEPT !.bits = e] = r
      BY <2>1, <3>1
    <3> QED BY <3>1, <3>2
  <2>3. n = WithSpace(m, o, r)
    BY <1>1, <2>2 DEF WithSpace, WithBits
  <2>4. r = [bits |-> r.bits, map |-> r.map, tables |-> r.tables]
    BY <2>1
  <2>5. /\ Shape(n) /\ n.taken = m.taken /\ n.panic = m.panic
        /\ \A q \in Owners : n.space[q] = IF q = o THEN r ELSE m.space[q]
    BY <2>3, <2>4, SpaceSet
  <2> QED BY <2>1, <2>5
<1>2. ASSUME NEW n, n = WithMap(m, o, e)
      PROVE  /\ Shape(n) /\ n.taken = m.taken /\ n.panic = m.panic
             /\ \A q \in Owners : /\ n.space[q].map = IF q = o THEN e ELSE m.space[q].map
                                  /\ n.space[q].bits = m.space[q].bits
                                  /\ n.space[q].tables = m.space[q].tables
  <2>1. PICK r : r = [bits |-> m.space[o].bits, map |-> e, tables |-> m.space[o].tables]
    OBVIOUS
  <2>2. [m.space[o] EXCEPT !.map = e] = r
    <3>1. PICK x : /\ x = m.space[o]
                   /\ x = [bits |-> x.bits, map |-> x.map, tables |-> x.tables]
      BY DEF Shape
    <3>2. [x EXCEPT !.map = e] = r
      BY <2>1, <3>1
    <3> QED BY <3>1, <3>2
  <2>3. n = WithSpace(m, o, r)
    BY <1>2, <2>2 DEF WithSpace, WithMap
  <2>4. r = [bits |-> r.bits, map |-> r.map, tables |-> r.tables]
    BY <2>1
  <2>5. /\ Shape(n) /\ n.taken = m.taken /\ n.panic = m.panic
        /\ \A q \in Owners : n.space[q] = IF q = o THEN r ELSE m.space[q]
    BY <2>3, <2>4, SpaceSet
  <2> QED BY <2>1, <2>5
<1>3. ASSUME NEW n, n = WithTables(m, o, e)
      PROVE  /\ Shape(n) /\ n.taken = m.taken /\ n.panic = m.panic
             /\ \A q \in Owners : /\ n.space[q].tables = IF q = o THEN e ELSE m.space[q].tables
                                  /\ n.space[q].bits = m.space[q].bits
                                  /\ n.space[q].map = m.space[q].map
  <2>1. PICK r : r = [bits |-> m.space[o].bits, map |-> m.space[o].map, tables |-> e]
    OBVIOUS
  <2>2. [m.space[o] EXCEPT !.tables = e] = r
    <3>1. PICK x : /\ x = m.space[o]
                   /\ x = [bits |-> x.bits, map |-> x.map, tables |-> x.tables]
      BY DEF Shape
    <3>2. [x EXCEPT !.tables = e] = r
      BY <2>1, <3>1
    <3> QED BY <3>1, <3>2
  <2>3. n = WithSpace(m, o, r)
    BY <1>3, <2>2 DEF WithSpace, WithTables
  <2>4. r = [bits |-> r.bits, map |-> r.map, tables |-> r.tables]
    BY <2>1
  <2>5. /\ Shape(n) /\ n.taken = m.taken /\ n.panic = m.panic
        /\ \A q \in Owners : n.space[q] = IF q = o THEN r ELSE m.space[q]
    BY <2>3, <2>4, SpaceSet
  <2> QED BY <2>1, <2>5
<1> QED BY <1>1, <1>2, <1>3

(* n is m with the virtual pages S mapped too.                             *)
Mapped(m, n, o, S) ==
  /\ Works(n)
  /\ \A q \in Owners : /\ n.space[q].bits = m.space[q].bits
                       /\ Dom(n, q) = IF q = o THEN Dom(m, o) \cup S ELSE Dom(m, q)

(* get_a_page_without_opvaddrbitmap maps a page, with a page table if      *)
(* there is none yet.                                                      *)
LEMMA PageMapped ==
  ASSUME NEW m, NEW o \in Owners, NEW v,
         NEW n, n = get_a_page_without_opvaddrbitmap(m, o, v)
  PROVE  /\ Stops(m) => Stops(n)
         /\ Works(m) /\ v \in m.space[o].bits \ Dom(m, o) => Stops(n) \/ Mapped(m, n, o, {v})
<1> DEFINE table == v \div TableSpan
           lone == o = KERNEL \/ table \in DOMAIN m.space[o].tables
<1> DEFINE page == NextPage(m, PoolOf(o))
           m0 == palloc(m, PoolOf(o))
           tpage == NextPage(m0, PoolOf(KERNEL))
           mt == palloc(m0, PoolOf(KERNEL))
           m1 == IF o = KERNEL \/ table \in DOMAIN m0.space[o].tables THEN m0
                 ELSE [mt EXCEPT !.space[o].tables = Extend(@, table, tpage)]
           m2 == ASSERT(m1, v \notin DOMAIN m1.space[o].map)
<1>1. n = [m2 EXCEPT !.space[o].map = Extend(@, v, page)]
  BY DEF get_a_page_without_opvaddrbitmap, page_table_add
<1>2. PoolOf(o) \in SUBSET Nat /\ PoolOf(KERNEL) \in SUBSET Nat /\ KERNEL \in Owners
  BY Numbers
<1>3. ASSUME Stops(m1) PROVE Stops(n)
  <2>1. Stops(m2)
    BY <1>3, PanicKept
  <2> HIDE DEF m2
  <2>2. n.panic = m2.panic /\ Shape(n)
    <3>1. PICK e : e = Extend(m2.space[o].map, v, page)
      OBVIOUS
    <3>2. n = WithMap(m2, o, e)
      BY <1>1, <3>1 DEF WithMap
    <3> QED BY <2>1, <3>2, FieldsSet DEF Stops
  <2> QED BY <2>1, <2>2 DEF Stops
<1>4. ASSUME Stops(m0) PROVE Stops(n)
  <2>1. Stops(mt)
    BY <1>2, <1>4, PallocFacts DEF Stops
  <2>2. Stops(m1)
    <3> HIDE DEF m0, mt, tpage
    <3>1. PICK e : e = Extend(mt.space[o].tables, table, tpage)
      OBVIOUS
    <3>2. Stops(WithTables(mt, o, e))
      BY <2>1, FieldsSet DEF Stops
    <3> QED BY <1>4, <3>1, <3>2 DEF WithTables
  <2> QED BY <1>3, <2>2
<1>5. Stops(m) => Stops(m0)
  BY <1>2, PallocFacts DEF Stops
<1>6. ASSUME Works(m), v \in m.space[o].bits \ Dom(m, o), ~Stops(m0)
      PROVE  Stops(n) \/ Mapped(m, n, o, {v})
  <2>1. /\ page \in PoolOf(o) \ m.taken
        /\ m0 = [taken |-> m.taken \cup {page}, space |-> m.space, panic |-> "none"]
    BY <1>2, <1>6, PallocFacts DEF Works, Agree
  <2> HIDE DEF page, m0
  <2>2. /\ Shape(m0) /\ Shape(m) /\ Agree(m) /\ v \notin DOMAIN m.space[o].map
        /\ m0.taken = m.taken \cup {page} /\ m0.space = m.space /\ m0.panic = "none"
    BY <1>6, <2>1 DEF Works, Agree, Shape, Dom
  <2>3. CASE o = KERNEL \/ table \in DOMAIN m0.space[o].tables
    <3>1. m2 = m0
      BY <2>2, <2>3, PanicKept
    <3> HIDE DEF m2
    <3>2. PICK e : e = Extend(m.space[o].map, v, page)
      OBVIOUS
    <3>3. n = WithMap(m0, o, e)
      BY <1>1, <2>2, <3>1, <3>2 DEF WithMap
    <3>4. /\ Shape(n) /\ n.taken = m0.taken /\ n.panic = m0.panic
          /\ \A q \in Owners : /\ n.space[q].map = IF q = o THEN e ELSE m0.space[q].map
                               /\ n.space[q].bits = m0.space[q].bits
                               /\ n.space[q].tables = m0.space[q].tables
      BY <2>2, <3>3, FieldsSet
    <3>5. Agree(n) /\ \A q \in Owners : Dom(n, q) = IF q = o THEN Dom(m, o) \cup {v} ELSE Dom(m, q)
      BY <1>6, <2>1, <2>2, <3>2, <3>4, MapPage
    <3> QED BY <2>2, <3>4, <3>5 DEF Mapped, Works
  <2>4. CASE ~(o = KERNEL \/ table \in DOMAIN m0.space[o].tables)
    <3>1. o \in Procs /\ o # KERNEL
      BY <2>4 DEF Owners
    <3>2. PICK et : et = Extend(mt.space[o].tables, table, tpage)
      OBVIOUS
    <3>3. m1 = WithTables(mt, o, et)
      BY <2>4, <3>2 DEF WithTables
    <3>4. CASE Stops(mt)
      <4> HIDE DEF mt, m1, m2
      <4>1. Stops(m1)
        BY <3>3, <3>4, FieldsSet DEF Stops
      <4> QED BY <1>3, <4>1
    <3>5. CASE ~Stops(mt)
      <4>1. /\ tpage \in PoolOf(KERNEL) \ m0.taken
            /\ mt = [taken |-> m0.taken \cup {tpage}, space |-> m0.space, panic |-> "none"]
        BY <1>2, <2>2, <3>5, PallocFacts
      <4> HIDE DEF mt, tpage
      <4>2. Shape(mt) /\ mt.space = m.space /\ mt.panic = "none"
            /\ mt.taken = m0.taken \cup {tpage}
        BY <2>2, <4>1 DEF Shape
      <4> HIDE DEF m1
      <4>3. /\ Shape(m1) /\ m1.taken = mt.taken /\ m1.panic = "none"
            /\ \A q \in Owners : /\ m1.space[q].tables = IF q = o THEN et ELSE m.space[q].tables
                                 /\ m1.space[q].bits = m.space[q].bits
                                 /\ m1.space[q].map = m.space[q].map
        BY <3>3, <4>2, FieldsSet
      <4>4. m2 = m1
        BY <2>2, <4>3, PanicKept
      <4> HIDE DEF m2
      <4>5. PICK e : e = Extend(m.space[o].map, v, page)
        OBVIOUS
      <4>6. n = WithMap(m1, o, e)
        BY <1>1, <4>3, <4>4, <4>5 DEF WithMap
      <4>7. /\ Shape(n) /\ n.taken = m1.taken /\ n.panic = m1.panic
            /\ \A q \in Owners : /\ n.space[q].map = IF q = o THEN e ELSE m1.space[q].map
                                 /\ n.space[q].bits = m1.space[q].bits
                                 /\ n.space[q].tables = m1.space[q].tables
        BY <4>3, <4>6, FieldsSet
      <4>8. PICK half : half = [taken |-> m.taken \cup {tpage}, space |-> m1.space,
                                panic |-> "none"]
        OBVIOUS
      <4>9. Shape(half) /\ half.taken = m.taken \cup {tpage} /\ half.space = m1.space
        BY <4>3, <4>8 DEF Shape
      <4>10. Agree(half)
        <5>1. table \notin DOMAIN m.space[o].tables
          BY <2>2, <2>4
        <5>2. tpage \in PoolOf(KERNEL) /\ tpage \notin m.taken
          BY <2>2, <4>1
        <5>3. et = Extend(m.space[o].tables, table, tpage)
          BY <3>2, <4>2
        <5> HIDE DEF table
        <5>4. \A q \in Owners : /\ half.space[q].bits = m.space[q].bits
                                /\ half.space[q].map = m.space[q].map
                                /\ half.space[q].tables =
                                     IF q = o THEN Extend(m.space[o].tables, table, tpage)
                                              ELSE m.space[q].tables
          BY <4>3, <4>9, <5>3
        <5> QED BY <2>2, <3>1, <4>9, <5>1, <5>2, <5>4, TablePage
      <4>11. /\ Agree(n)
             /\ \A q \in Owners : Dom(n, q) = IF q = o THEN Dom(half, o) \cup {v} ELSE Dom(half, q)
        <5>1. v \in half.space[o].bits /\ v \notin Dom(half, o)
          BY <1>6, <2>2, <4>3, <4>9 DEF Dom
        <5>2. page \in PoolOf(o) /\ page \notin half.taken
          BY <2>1, <2>2, <4>1, <4>9
        <5>3. n.taken = half.taken \cup {page}
          BY <2>2, <4>2, <4>3, <4>7, <4>9
        <5>4. \A q \in Owners :
                /\ n.space[q].bits = half.space[q].bits /\ n.space[q].tables = half.space[q].tables
                /\ n.space[q].map = IF q = o THEN Extend(half.space[o].map, v, page)
                                             ELSE half.space[q].map
          BY <4>3, <4>5, <4>7, <4>9
        <5> QED BY <4>7, <4>10, <5>1, <5>2, <5>3, <5>4, MapPage
      <4> QED BY <4>3, <4>7, <4>9, <4>11 DEF Mapped, Works, Dom
    <3> QED BY <3>4, <3>5
  <2> QED BY <2>3, <2>4
<1> QED BY <1>4, <1>5, <1>6

-----------------------------------------------------------------------------
(* Runs of pages *)

(* Induction up to n, on the numbers of which something holds.             *)
LEMMA Upto ==
  ASSUME NEW n \in Nat, NEW T, 0 \in T, \A i \in 0..n - 1 : i \in T => i + 1 \in T
  PROVE  \A i \in 0..n : i \in T
<1> DEFINE W == {i \in 0..n : i \notin T}
<1>1. SUFFICES ASSUME W # {} PROVE FALSE
  OBVIOUS
<1>2. PICK k \in W : \A i \in W : k <= i
  <2>1. W \in SUBSET Nat
    OBVIOUS
  <2> HIDE DEF W
  <2> QED BY <1>1, <2>1, LowestFacts
<1>3. k \in 0..n /\ k \notin T /\ k # 0
  BY <1>2
<1>4. k - 1 \in 0..n - 1 /\ (k - 1) + 1 = k
  BY <1>3
<1>5. k - 1 \notin T
  BY <1>3, <1>4
<1>6. k - 1 \in W
  BY <1>4, <1>5
<1> QED BY <1>2, <1>3, <1>6

(* The loop of malloc_page, up to the k-th page.                           *)
Maps(f, m, o, start, cnt, k) ==
  f = [i \in 0..k |->
        IF i = 0 THEN vaddr_get(m, o, start, cnt)
        ELSE get_a_page_without_opvaddrbitmap(f[i - 1], o, start + i - 1)]

(* The loop of malloc_page ends: it has a result for every length.         *)
LEMMA MapsExist ==
  ASSUME NEW m, NEW o, NEW start, NEW cnt \in Nat
  PROVE  \E f : Maps(f, m, o, start, cnt, cnt)
<1> DEFINE T == {k \in Nat : \E f : Maps(f, m, o, start, cnt, k)}
<1>1. 0 \in T
  <2>1. PICK f : f = [i \in 0..0 |-> vaddr_get(m, o, start, cnt)]
    OBVIOUS
  <2>2. Maps(f, m, o, start, cnt, 0)
    BY <2>1 DEF Maps
  <2> QED BY <2>2
<1>2. ASSUME NEW k \in 0..cnt - 1, k \in T PROVE k + 1 \in T
  <2>1. PICK f : Maps(f, m, o, start, cnt, k)
    BY <1>2
  <2>2. PICK x : x = get_a_page_without_opvaddrbitmap(f[k], o, start + k)
    OBVIOUS
  <2>3. PICK g : g = [i \in 0..k + 1 |-> IF i = k + 1 THEN x ELSE f[i]]
    OBVIOUS
  <2>4. \A i \in 0..k : g[i] = f[i]
    BY <2>3
  <2>5. ASSUME NEW i \in 0..k + 1
        PROVE  g[i] = IF i = 0 THEN vaddr_get(m, o, start, cnt)
                      ELSE get_a_page_without_opvaddrbitmap(g[i - 1], o, start + i - 1)
    <3>1. CASE i = k + 1
      <4>1. i - 1 = k /\ i # 0 /\ start + i - 1 = start + k
        BY <3>1
      <4> QED BY <2>2, <2>3, <2>4, <3>1, <4>1
    <3>2. CASE i # k + 1
      <4>1. i \in 0..k /\ (i # 0 => i - 1 \in 0..k)
        BY <3>2
      <4> QED BY <2>1, <2>4, <4>1 DEF Maps
    <3> QED BY <3>1, <3>2
  <2>6. Maps(g, m, o, start, cnt, k + 1)
    <3>1. g = [i \in 0..k + 1 |-> g[i]]
      BY <2>3
    <3> QED BY <2>5, <3>1 DEF Maps
  <2> QED BY <2>6
<1>3. \A k \in 0..cnt : k \in T
  <2> HIDE DEF T
  <2> QED BY <1>1, <1>2, Upto
<1> QED BY <1>3

Covering(m, o, e) == e \subseteq 0..BitmapLen(o) /\ Dom(m, o) \subseteq e

(* Bits of virtual pages are set.                                          *)
LEMMA BitsSet ==
  ASSUME NEW m, Agree(m), NEW o \in Owners, NEW e, Covering(m, o, e),
         NEW n, n = WithBits(m, o, e)
  PROVE  /\ Agree(n) /\ n.panic = m.panic
         /\ \A q \in Owners : /\ n.space[q].bits = IF q = o THEN e ELSE m.space[q].bits
                              /\ Dom(n, q) = Dom(m, q)
<1>1. /\ Shape(n) /\ n.taken = m.taken /\ n.panic = m.panic
      /\ \A q \in Owners : /\ n.space[q].bits = IF q = o THEN e ELSE m.space[q].bits
                           /\ n.space[q].map = m.space[q].map
                           /\ n.space[q].tables = m.space[q].tables
  BY FieldsSet DEF Agree
<1>2. KERNEL \in Owners
  BY Numbers
<1>3. InPools(n) /\ UsedOnce(n) /\ AllUsed(n)
  <2>1. \A q \in Owners : Dom(n, q) = Dom(m, q)
    BY <1>1 DEF Dom
  <2>2. InPools(n)
    BY <1>1, <1>2, <2>1 DEF Agree, InPools
  <2>3. UsedOnce(n)
    BY <1>1, <2>1 DEF Agree, UsedOnce
  <2>4. AllUsed(n)
    BY <1>1, <2>1 DEF Agree, AllUsed
  <2> QED BY <2>2, <2>3, <2>4
<1>4. BitsCover(n)
  BY <1>1 DEF Agree, BitsCover, Dom, Covering
<1> QED BY <1>1, <1>3, <1>4 DEF Agree, Dom

(* n is m with the virtual pages S reserved.                               *)
Reserved(m, n, o, S) ==
  /\ Works(n)
  /\ \A q \in Owners : /\ n.space[q].bits = IF q = o THEN m.space[o].bits \cup S
                                                     ELSE m.space[q].bits
                       /\ Dom(n, q) = Dom(m, q)

(* Reserving a run sets its bits and changes nothing else.                 *)
LEMMA VaddrGet ==
  ASSUME NEW m, NEW o \in Owners, NEW start, NEW cnt,
         NEW n, n = vaddr_get(m, o, start, cnt)
  PROVE  /\ Stops(m) => Stops(n)
         /\ /\ Works(m) /\ start..start + cnt - 1 \subseteq 0..BitmapLen(o)
            /\ o = KERNEL \/ start < UVPages - 1
            => Reserved(m, n, o, start..start + cnt - 1)
<1> DEFINE e == m.space[o].bits \cup start..start + cnt - 1
           m1 == WithBits(m, o, e)
<1>1. n = ASSERT(m1, o = KERNEL \/ start < UVPages - 1)
  BY DEF vaddr_get, WithBits
<1> HIDE DEF e
<1>2. ASSUME Stops(m) PROVE Stops(n)
  <2>1. Stops(m1)
    BY <1>2, FieldsSet DEF Stops
  <2> HIDE DEF m1
  <2> QED BY <1>1, <2>1, PanicKept
<1>3. ASSUME Works(m), start..start + cnt - 1 \subseteq 0..BitmapLen(o),
             o = KERNEL \/ start < UVPages - 1
      PROVE  Reserved(m, n, o, start..start + cnt - 1)
  <2>1. n = m1
    BY <1>1, <1>3, PanicKept
  <2>2. Covering(m, o, e) /\ Agree(m)
    BY <1>3 DEF e, Works, Agree, BitsCover, Covering
  <2>3. /\ Agree(n) /\ n.panic = m.panic
        /\ \A q \in Owners : /\ n.space[q].bits = IF q = o THEN e ELSE m.space[q].bits
                             /\ Dom(n, q) = Dom(m, q)
    BY <2>1, <2>2, BitsSet
  <2> QED BY <1>3, <2>3 DEF e, Reserved, Works
<1> QED BY <1>2, <1>3

(* The loop maps page after page, or ends in a panic.                      *)
LEMMA MapsMaps ==
  ASSUME NEW m, NEW o \in Owners, NEW start, NEW cnt \in Nat, NEW f,
         Maps(f, m, o, start, cnt, cnt)
  PROVE  /\ Stops(f[0]) => Stops(f[cnt])
         /\ /\ Works(f[0]) /\ start \in Nat /\ start..start + cnt - 1 \subseteq f[0].space[o].bits
            /\ start..start + cnt - 1 \cap Dom(f[0], o) = {}
            => \A i \in 0..cnt : Stops(f[i]) \/ Mapped(f[0], f[i], o, start..start + i - 1)
<1>1. \A i \in 0..cnt - 1 :
        f[i + 1] = get_a_page_without_opvaddrbitmap(f[i], o, start + (i + 1) - 1)
  <2>1. ASSUME NEW i \in 0..cnt - 1
        PROVE  f[i + 1] = get_a_page_without_opvaddrbitmap(f[i], o, start + (i + 1) - 1)
    <3>1. i + 1 \in 0..cnt /\ i + 1 # 0 /\ (i + 1) - 1 = i
      OBVIOUS
    <3> QED BY <3>1 DEF Maps
  <2> QED BY <2>1
<1>2. ASSUME NEW i \in 0..cnt - 1, Stops(f[i]) PROVE Stops(f[i + 1])
  <2>1. PICK g, n, v : g = f[i] /\ n = f[i + 1] /\ v = start + (i + 1) - 1
    OBVIOUS
  <2>2. n = get_a_page_without_opvaddrbitmap(g, o, v) /\ Stops(g)
    BY <1>1, <1>2, <2>1
  <2>3. Stops(n)
    BY <2>2, PageMapped
  <2> QED BY <2>1, <2>3
<1>3. ASSUME Stops(f[0]) PROVE Stops(f[cnt])
  <2> DEFINE T == {i \in 0..cnt : Stops(f[i])}
  <2>1. 0 \in T /\ \A i \in 0..cnt - 1 : i \in T => i + 1 \in T
    BY <1>2, <1>3
  <2>2. \A i \in 0..cnt : i \in T
    <3> HIDE DEF T
    <3> QED BY <2>1, Upto
  <2> QED BY <2>2
<1>4. ASSUME Works(f[0]), start \in Nat, start..start + cnt - 1 \subseteq f[0].space[o].bits,
             start..start + cnt - 1 \cap Dom(f[0], o) = {}
      PROVE  \A i \in 0..cnt : Stops(f[i]) \/ Mapped(f[0], f[i], o, start..start + i - 1)
  <2> DEFINE T == {i \in 0..cnt : Stops(f[i]) \/ Mapped(f[0], f[i], o, start..start + i - 1)}
  <2>1. 0 \in T
    <3>1. start..start + 0 - 1 = {}
      BY <1>4
    <3>2. Mapped(f[0], f[0], o, {})
      BY <1>4 DEF Mapped
    <3>3. Mapped(f[0], f[0], o, start..start + 0 - 1)
      BY <3>1, <3>2
    <3> QED BY <3>3
  <2>2. ASSUME NEW i \in 0..cnt - 1, i \in T PROVE i + 1 \in T
    <3>1. i + 1 \in 0..cnt
      OBVIOUS
    <3>2. CASE Stops(f[i])
      BY <1>2, <3>1, <3>2
    <3>3. CASE Mapped(f[0], f[i], o, start..start + i - 1)
      <4>1. PICK v : v = start + i
        OBVIOUS
      <4>2. v = start + (i + 1) - 1 /\ v \in Nat /\ v \in start..start + cnt - 1
            /\ v \notin start..start + i - 1
            /\ start..start + (i + 1) - 1 = (start..start + i - 1) \cup {v}
        BY <1>4, <4>1
      <4>3. f[i + 1] = get_a_page_without_opvaddrbitmap(f[i], o, v)
        BY <1>1, <4>2
      <4>4. v \in f[i].space[o].bits \ Dom(f[i], o) /\ Works(f[i])
        BY <1>4, <3>3, <4>2 DEF Mapped
      <4>5. Stops(f[i + 1]) \/ Mapped(f[i], f[i + 1], o, {v})
        BY <4>3, <4>4, PageMapped
      <4>6. Stops(f[i + 1]) \/ Mapped(f[0], f[i + 1], o, start..start + (i + 1) - 1)
        BY <3>3, <4>2, <4>5 DEF Mapped
      <4> QED BY <3>1, <4>6
    <3> QED BY <2>2, <3>2, <3>3
  <2>3. \A i \in 0..cnt : i \in T
    <3> HIDE DEF T
    <3> QED BY <2>1, <2>2, Upto
  <2> QED BY <2>3
<1> QED BY <1>3, <1>4

(* n is m with the virtual pages S reserved and mapped.                    *)
Allocated(m, n, o, S) ==
  /\ Works(n)
  /\ \A q \in Owners : IF q = o THEN /\ n.space[q].bits = m.space[q].bits \cup S
                                     /\ Dom(n, q) = Dom(m, q) \cup S
                                ELSE /\ n.space[q].bits = m.space[q].bits
                                     /\ Dom(n, q) = Dom(m, q)

\* The bit of the last virtual page of a process, its stack, is 1.
StackKept(m, o) == o = KERNEL \/ UVPages - 1 \in m.space[o].bits

FreeRuns(m, o, cnt) == Runs(m.space[o].bits, BitmapLen(o), cnt)

(* A run that the scan finds is free, and it is not the end of an address  *)
(* space of a process.                                                     *)
LEMMA RunFacts ==
  ASSUME NEW m, NEW o \in Owners, StackKept(m, o), NEW cnt \in Nat \ {0},
         NEW start \in FreeRuns(m, o, cnt)
  PROVE  /\ start \in Nat /\ start..start + cnt - 1 \subseteq 0..BitmapLen(o)
         /\ start..start + cnt - 1 \cap m.space[o].bits = {}
         /\ o = KERNEL \/ start < UVPages - 1
<1>1. BitmapLen(o) \in Nat /\ (o # KERNEL => BitmapLen(o) = UVPages)
  BY Numbers DEF Owners
<1>2. /\ start \in 0..BitmapLen(o) - 1 /\ start + cnt - 1 <= BitmapLen(o)
      /\ start..start + cnt - 1 \cap m.space[o].bits = {}
  BY DEF FreeRuns, Runs
<1>3. ASSUME o # KERNEL PROVE start < UVPages - 1
  <2>1. start \in start..start + cnt - 1 /\ start # UVPages - 1
    BY <1>1, <1>2, <1>3 DEF StackKept
  <2> QED BY <1>1, <1>2, <1>3, <2>1
<1> QED BY <1>1, <1>2, <1>3

(* malloc_page reserves and maps the first run, finds none, or panics.     *)
LEMMA MallocPage ==
  ASSUME NEW m, NEW o \in Owners, NEW cnt \in Nat \ {0},
         NEW r, r = malloc_page(m, o, cnt)
  PROVE  /\ Stops(m) => Stops(r.mem)
         /\ Works(m) /\ StackKept(m, o) =>
              \/ Stops(r.mem)
              \/ r.vaddr = -1 /\ r.mem = m /\ cnt # 1 /\ FreeRuns(m, o, cnt) = {}
              \/ /\ r.vaddr \in FreeRuns(m, o, cnt) /\ r.vaddr = Lowest(FreeRuns(m, o, cnt))
                 /\ Allocated(m, r.mem, o, r.vaddr..r.vaddr + cnt - 1)
<1> DEFINE bits == m.space[o].bits
           len == BitmapLen(o)
           start == bitmap_scan(bits, len, cnt)
<1>1. PICK f : /\ Maps(f, m, o, start, cnt, cnt)
               /\ r = IF IsFull(bits, len) THEN [mem |-> Panic(m, "full"), vaddr |-> -1]
                      ELSE IF start = -1 THEN [mem |-> m, vaddr |-> -1]
                      ELSE [mem |-> f[cnt], vaddr |-> start]
  <2>1. PICK f : f = CHOOSE g : Maps(g, m, o, start, cnt, cnt)
    OBVIOUS
  <2>2. Maps(f, m, o, start, cnt, cnt)
    BY <2>1, MapsExist
  <2>3. r = IF IsFull(bits, len) THEN [mem |-> Panic(m, "full"), vaddr |-> -1]
            ELSE IF start = -1 THEN [mem |-> m, vaddr |-> -1]
            ELSE [mem |-> (CHOOSE g : Maps(g, m, o, start, cnt, cnt))[cnt], vaddr |-> start]
    BY DEF malloc_page, Maps
  <2> QED BY <2>1, <2>2, <2>3
<1>2. f[0] = vaddr_get(m, o, start, cnt)
  BY <1>1 DEF Maps
<1>3. BitmapLen(o) \in Nat
  BY Numbers
<1>4. IsFull(bits, len) \/ start = Result(FreeRuns(m, o, cnt))
  BY <1>3, ScanFinds DEF FreeRuns
<1> HIDE DEF start
<1>5. ASSUME Stops(m) PROVE Stops(r.mem)
  <2>1. Panic(m, "full") = m
    BY <1>5, PanicKept
  <2>2. Stops(f[cnt])
    BY <1>1, <1>2, <1>5, VaddrGet, MapsMaps
  <2> QED BY <1>1, <1>5, <2>1, <2>2
<1>6. ASSUME Works(m), StackKept(m, o), IsFull(bits, len) PROVE Stops(r.mem)
  BY <1>1, <1>6, PanicKept DEF Works, Agree
<1>7. ASSUME ~IsFull(bits, len), FreeRuns(m, o, cnt) = {}
      PROVE  r.vaddr = -1 /\ r.mem = m /\ cnt # 1
  <2>1. r.vaddr = -1 /\ r.mem = m
    BY <1>1, <1>4, <1>7 DEF Result
  <2>2. ASSUME cnt = 1 PROVE FALSE
    <3>1. PICK i \in 0..len - 1 : i \notin bits
      BY <1>7 DEF IsFull
    <3>2. i..i + cnt - 1 \cap bits = {} /\ i + cnt - 1 <= len
      BY <1>3, <2>2, <3>1
    <3> QED BY <1>7, <3>1, <3>2 DEF FreeRuns, Runs
  <2> QED BY <2>1, <2>2
<1>8. ASSUME Works(m), StackKept(m, o), ~IsFull(bits, len), FreeRuns(m, o, cnt) # {}
      PROVE  \/ Stops(r.mem)
             \/ /\ r.vaddr \in FreeRuns(m, o, cnt) /\ r.vaddr = Lowest(FreeRuns(m, o, cnt))
                /\ Allocated(m, r.mem, o, r.vaddr..r.vaddr + cnt - 1)
  <2>1. FreeRuns(m, o, cnt) \in SUBSET Nat
    BY DEF FreeRuns, Runs
  <2>2. PICK s : s = start /\ s = Lowest(FreeRuns(m, o, cnt)) /\ s \in FreeRuns(m, o, cnt)
    BY <1>4, <1>8, <2>1, LowestFacts DEF Result
  <2>3. /\ s \in Nat /\ s..s + cnt - 1 \subseteq 0..BitmapLen(o)
        /\ s..s + cnt - 1 \cap m.space[o].bits = {}
        /\ o = KERNEL \/ s < UVPages - 1
    BY <1>8, <2>2, RunFacts
  <2>4. r.mem = f[cnt] /\ r.vaddr = s
    BY <1>1, <1>8, <2>2, <2>3
  <2>5. Reserved(m, f[0], o, s..s + cnt - 1)
    BY <1>2, <1>8, <2>2, <2>3, VaddrGet
  <2>6. /\ Works(f[0]) /\ s..s + cnt - 1 \subseteq f[0].space[o].bits
        /\ s..s + cnt - 1 \cap Dom(f[0], o) = {}
    BY <1>8, <2>3, <2>5 DEF Reserved, Works, Agree, BitsCover
  <2>7. Stops(f[cnt]) \/ Mapped(f[0], f[cnt], o, s..s + cnt - 1)
    <3>1. Maps(f, m, o, s, cnt, cnt) /\ cnt \in 0..cnt
      BY <1>1, <2>2
    <3> QED BY <2>3, <2>6, <3>1, MapsMaps
  <2>8. ASSUME Mapped(f[0], f[cnt], o, s..s + cnt - 1)
        PROVE  Allocated(m, r.mem, o, s..s + cnt - 1)
    BY <2>4, <2>5, <2>8 DEF Mapped, Reserved, Allocated
  <2> QED BY <2>2, <2>4, <2>7, <2>8
<1> QED BY <1>5, <1>6, <1>7, <1>8

(* The loop of mfree_page.                                                 *)
Frees(f, m, o, vaddr, cnt) ==
  f = [i \in 0..cnt |->
        IF i = 0 THEN ASSERT(m, cnt >= 1)
        ELSE ASSERT(pfree(f[i - 1], addr_v2p(m, o, vaddr + i - 1)),
                    addr_v2p(m, o, vaddr + i - 1) \in PoolOf(o))]

\* m without the physical pages of the first i virtual pages of a run.
Emptied(m, o, vaddr, i) ==
  [taken |-> m.taken \ {m.space[o].map[w] : w \in vaddr..vaddr + i - 1},
   space |-> m.space, panic |-> "none"]

(* One turn of the loop of mfree_page gives one physical page back.        *)
LEMMA FreeOne ==
  ASSUME NEW m, Works(m), NEW o \in Owners, NEW vaddr \in Nat, NEW cnt \in Nat,
         vaddr..vaddr + cnt - 1 \subseteq Dom(m, o), NEW i \in 1..cnt,
         NEW n, n = Emptied(m, o, vaddr, i - 1)
  PROVE  ASSERT(pfree(n, addr_v2p(m, o, vaddr + i - 1)), addr_v2p(m, o, vaddr + i - 1) \in PoolOf(o))
           = Emptied(m, o, vaddr, i)
<1>1. PICK v, page : v = vaddr + i - 1 /\ page = m.space[o].map[v]
  OBVIOUS
<1>2. v \in Nat /\ v \in vaddr..vaddr + cnt - 1
  BY <1>1
<1>3. page \in PoolOf(o)
  BY <1>1, <1>2 DEF Works, Agree, InPools
<1>4. ASSERT(pfree(n, page), page \in PoolOf(o)) = pfree(n, page)
  BY <1>3 DEF ASSERT
<1>5. vaddr..vaddr + i - 1 = (vaddr..vaddr + (i - 1) - 1) \cup {v}
  BY <1>1, <1>2
<1>6. {m.space[o].map[w] : w \in vaddr..vaddr + i - 1}
        = {m.space[o].map[w] : w \in vaddr..vaddr + (i - 1) - 1} \cup {page}
  BY <1>1, <1>5
<1>7. pfree(n, page) = Emptied(m, o, vaddr, i)
  <2>1. PICK A, B : /\ A = {m.space[o].map[w] : w \in vaddr..vaddr + (i - 1) - 1}
                    /\ B = {m.space[o].map[w] : w \in vaddr..vaddr + i - 1}
    OBVIOUS
  <2>2. n = [taken |-> m.taken \ A, space |-> m.space, panic |-> "none"]
    BY <2>1 DEF Emptied
  <2>3. pfree(n, page) = [taken |-> (m.taken \ A) \ {page}, space |-> m.space, panic |-> "none"]
    <3>1. PICK C, sp : C = m.taken \ A /\ sp = m.space
      OBVIOUS
    <3>2. n = [taken |-> C, space |-> sp, panic |-> "none"]
      BY <2>2, <3>1
    <3>3. pfree(n, page) = [taken |-> C \ {page}, space |-> sp, panic |-> "none"]
      BY ONLY <3>2 DEF pfree
    <3> QED BY <3>1, <3>3
  <2>4. (m.taken \ A) \ {page} = m.taken \ B
    BY <1>6, <2>1
  <2> QED BY <2>1, <2>3, <2>4 DEF Emptied
<1> QED BY <1>1, <1>4, <1>7 DEF addr_v2p

(* The loop of mfree_page gives back the physical pages of the run.        *)
LEMMA FreesEmpties ==
  ASSUME NEW m, Works(m), NEW o \in Owners, NEW vaddr \in Nat, NEW cnt \in Nat \ {0},
         vaddr..vaddr + cnt - 1 \subseteq Dom(m, o)
  PROVE  /\ \E f : Frees(f, m, o, vaddr, cnt)
         /\ \A f : Frees(f, m, o, vaddr, cnt) => f[cnt] = Emptied(m, o, vaddr, cnt)
<1>1. ASSERT(m, cnt >= 1) = Emptied(m, o, vaddr, 0)
  <2>1. vaddr..vaddr + 0 - 1 = {}
    OBVIOUS
  <2>2. ASSERT(m, cnt >= 1) = m
    BY DEF ASSERT
  <2> QED BY <2>1, <2>2 DEF Emptied, Works, Agree, Shape
<1>2. \E f : Frees(f, m, o, vaddr, cnt)
  <2>1. PICK f : f = [i \in 0..cnt |-> Emptied(m, o, vaddr, i)]
    OBVIOUS
  <2>2. ASSUME NEW i \in 0..cnt
        PROVE  f[i] = IF i = 0 THEN ASSERT(m, cnt >= 1)
                      ELSE ASSERT(pfree(f[i - 1], addr_v2p(m, o, vaddr + i - 1)),
                                  addr_v2p(m, o, vaddr + i - 1) \in PoolOf(o))
    <3>1. CASE i = 0
      BY <1>1, <2>1, <3>1
    <3>2. CASE i # 0
      <4>1. i \in 1..cnt /\ i - 1 \in 0..cnt
        BY <3>2
      <4>2. f[i - 1] = Emptied(m, o, vaddr, i - 1) /\ f[i] = Emptied(m, o, vaddr, i)
        BY <2>1, <4>1
      <4>3. PICK n : n = f[i - 1]
        OBVIOUS
      <4> QED BY <3>2, <4>1, <4>2, <4>3, FreeOne
    <3> QED BY <3>1, <3>2
  <2>3. f = [i \in 0..cnt |-> f[i]]
    BY <2>1
  <2>4. Frees(f, m, o, vaddr, cnt)
    BY <2>2, <2>3 DEF Frees
  <2> QED BY <2>4
<1>3. ASSUME NEW f, Frees(f, m, o, vaddr, cnt)
      PROVE  f[cnt] = Emptied(m, o, vaddr, cnt)
  <2> DEFINE T == {i \in 0..cnt : f[i] = Emptied(m, o, vaddr, i)}
  <2>1. 0 \in T
    BY <1>1, <1>3 DEF Frees
  <2>2. ASSUME NEW i \in 0..cnt - 1, i \in T PROVE i + 1 \in T
    <3>1. PICK j \in 1..cnt : j = i + 1
      OBVIOUS
    <3>2. j # 0 /\ j \in 0..cnt /\ j - 1 = i
      BY <3>1
    <3>3. PICK n : n = f[j - 1]
      OBVIOUS
    <3>4. n = Emptied(m, o, vaddr, j - 1)
      BY <2>2, <3>2, <3>3
    <3>5. f[j] = ASSERT(pfree(n, addr_v2p(m, o, vaddr + j - 1)),
                        addr_v2p(m, o, vaddr + j - 1) \in PoolOf(o))
      BY <1>3, <3>2, <3>3 DEF Frees
    <3>6. f[j] = Emptied(m, o, vaddr, j)
      BY <3>4, <3>5, FreeOne
    <3> QED BY <3>1, <3>2, <3>6
  <2>3. \A i \in 0..cnt : i \in T
    <3> HIDE DEF T
    <3> QED BY <2>1, <2>2, Upto
  <2> QED BY <2>3
<1> QED BY <1>2, <1>3

(* n is m without the physical pages gone and what led to them.            *)
Less(m, n, gone) ==
  /\ n.taken = m.taken \ gone
  /\ \A q \in Owners :
       /\ Dom(n, q) \subseteq Dom(m, q) /\ Dom(n, q) \subseteq n.space[q].bits
       /\ n.space[q].bits \subseteq m.space[q].bits
       /\ \A v \in Dom(n, q) : n.space[q].map[v] = m.space[q].map[v]
       /\ \A v \in Dom(m, q) : v \in Dom(n, q) <=> m.space[q].map[v] \notin gone
       /\ DOMAIN n.space[q].tables \subseteq DOMAIN m.space[q].tables
       /\ \A t \in DOMAIN n.space[q].tables : n.space[q].tables[t] = m.space[q].tables[t]
       /\ \A t \in DOMAIN m.space[q].tables :
            t \in DOMAIN n.space[q].tables <=> m.space[q].tables[t] \notin gone

(* A memory that lost some of its physical pages still agrees.             *)
LEMMA PagesFreed ==
  ASSUME NEW m, Agree(m), NEW n, Shape(n), NEW gone, Less(m, n, gone)
  PROVE  Agree(n)
<1>1. InPools(n)
  <2>1. KERNEL \in Owners
    BY Numbers
  <2> QED BY <2>1 DEF InPools, Agree, Less
<1>2. UsedOnce(n)
  <2>1. UsedOnce(m)
    BY DEF Agree
  <2> QED BY <2>1 DEF UsedOnce, Less
<1>3. AllUsed(n)
  <2> SUFFICES ASSUME NEW x \in n.taken
               PROVE  \E q \in Owners : \/ \E w \in Dom(n, q) : n.space[q].map[w] = x
                                        \/ \E t \in DOMAIN n.space[q].tables :
                                             n.space[q].tables[t] = x
    BY DEF AllUsed
  <2>1. x \in m.taken /\ x \notin gone
    BY DEF Less
  <2>2. PICK q \in Owners : \/ \E w \in Dom(m, q) : m.space[q].map[w] = x
                            \/ \E t \in DOMAIN m.space[q].tables : m.space[q].tables[t] = x
    BY <2>1 DEF Agree, AllUsed
  <2> QED BY <2>1, <2>2 DEF Less
<1>4. BitsCover(n)
  BY DEF Agree, BitsCover, Less
<1> QED BY <1>1, <1>2, <1>3, <1>4 DEF Agree

(* n is m without the virtual pages S.                                     *)
Freed(m, n, o, S) ==
  /\ Works(n)
  /\ \A q \in Owners : IF q = o THEN /\ n.space[q].bits = m.space[q].bits \ S
                                     /\ Dom(n, q) = Dom(m, q) \ S
                                ELSE /\ n.space[q].bits = m.space[q].bits
                                     /\ Dom(n, q) = Dom(m, q)

(* mfree_page gives a mapped run back.                                     *)
LEMMA MfreePage ==
  ASSUME NEW m, Works(m), NEW o \in Owners, NEW vaddr \in Nat, NEW cnt \in Nat \ {0},
         vaddr..vaddr + cnt - 1 \subseteq Dom(m, o),
         NEW n, n = mfree_page(m, o, vaddr, cnt)
  PROVE  Freed(m, n, o, vaddr..vaddr + cnt - 1)
<1> DEFINE run == vaddr..vaddr + cnt - 1
<1>1. PICK f : f = CHOOSE g : Frees(g, m, o, vaddr, cnt)
  OBVIOUS
<1>2. f[cnt] = Emptied(m, o, vaddr, cnt)
  BY <1>1, FreesEmpties
<1>3. n = [f[cnt] EXCEPT !.space[o].map = Restrict(@, DOMAIN @ \ run),
                         !.space[o].bits = @ \ run]
  <2>1. n = [(CHOOSE g : Frees(g, m, o, vaddr, cnt))[cnt] EXCEPT
               !.space[o].map = Restrict(@, DOMAIN @ \ run), !.space[o].bits = @ \ run]
    BY DEF mfree_page, Frees
  <2> QED BY <1>1, <2>1
<1>4. PICK e0 : e0 = f[cnt]
  OBVIOUS
<1>5. /\ Shape(e0) /\ e0.panic = "none" /\ e0.space = m.space
      /\ e0.taken = m.taken \ {m.space[o].map[w] : w \in run}
  BY <1>2, <1>4 DEF Emptied, Shape, Works, Agree
<1>6. PICK map : map = Restrict(e0.space[o].map, DOMAIN e0.space[o].map \ run)
  OBVIOUS
<1>7. PICK e1 : e1 = WithMap(e0, o, map)
  OBVIOUS
<1>8. n = WithBits(e1, o, m.space[o].bits \ run)
  <2>1. PICK b : b = e0.space[o].bits \ run
    OBVIOUS
  <2>2. n = WithBits(e1, o, b)
    BY <1>3, <1>4, <1>6, <1>7, <2>1 DEF WithMap, WithBits
  <2> QED BY <1>5, <2>1, <2>2
<1>9. /\ Shape(e1) /\ e1.taken = e0.taken /\ e1.panic = e0.panic
      /\ \A q \in Owners : /\ e1.space[q].map = IF q = o THEN map ELSE m.space[q].map
                           /\ e1.space[q].bits = m.space[q].bits
                           /\ e1.space[q].tables = m.space[q].tables
  BY <1>5, <1>7, FieldsSet
<1>10. /\ Shape(n) /\ n.taken = e1.taken /\ n.panic = e1.panic
       /\ \A q \in Owners : /\ n.space[q].bits = IF q = o THEN m.space[o].bits \ run
                                                        ELSE e1.space[q].bits
                            /\ n.space[q].map = e1.space[q].map
                            /\ n.space[q].tables = e1.space[q].tables
  <2>1. PICK b : b = m.space[o].bits \ run
    OBVIOUS
  <2>2. n = WithBits(e1, o, b)
    BY <1>8, <2>1
  <2>3. /\ Shape(n) /\ n.taken = e1.taken /\ n.panic = e1.panic
        /\ \A q \in Owners : /\ n.space[q].bits = IF q = o THEN b ELSE e1.space[q].bits
                             /\ n.space[q].map = e1.space[q].map
                             /\ n.space[q].tables = e1.space[q].tables
    BY <1>9, <2>2, FieldsSet
  <2> QED BY <2>1, <2>3
<1>11. DOMAIN map = Dom(m, o) \ run /\ \A v \in DOMAIN map : map[v] = m.space[o].map[v]
  BY <1>5, <1>6 DEF Restrict, Dom
<1>12. \A q \in Owners : IF q = o THEN /\ n.space[q].bits = m.space[q].bits \ run
                                       /\ Dom(n, q) = Dom(m, q) \ run
                                  ELSE /\ n.space[q].bits = m.space[q].bits
                                       /\ Dom(n, q) = Dom(m, q)
  BY <1>9, <1>10, <1>11 DEF Dom
<1>13. PICK gone : gone = {m.space[o].map[w] : w \in run}
  OBVIOUS
<1>14. ASSUME NEW q \in Owners, NEW v \in Dom(m, q)
       PROVE  v \in Dom(n, q) <=> m.space[q].map[v] \notin gone
  <2>1. m.space[q].map[v] \in gone <=> q = o /\ v \in run
    BY <1>13 DEF Works, Agree, UsedOnce
  <2> QED BY <1>12, <2>1
<1>15. ASSUME NEW q \in Owners, NEW t \in DOMAIN m.space[q].tables
       PROVE  m.space[q].tables[t] \notin gone
  BY <1>13 DEF Works, Agree, UsedOnce
<1>16. Less(m, n, gone)
  <2>1. n.taken = m.taken \ gone
    BY <1>5, <1>9, <1>10, <1>13
  <2>2. ASSUME NEW q \in Owners
        PROVE  /\ Dom(n, q) \subseteq Dom(m, q) /\ Dom(n, q) \subseteq n.space[q].bits
               /\ n.space[q].bits \subseteq m.space[q].bits
               /\ \A v \in Dom(n, q) : n.space[q].map[v] = m.space[q].map[v]
               /\ n.space[q].tables = m.space[q].tables
    <3>1. Dom(m, q) \subseteq m.space[q].bits
      BY DEF Works, Agree, BitsCover
    <3>2. \A v \in Dom(n, q) : n.space[q].map[v] = m.space[q].map[v]
      BY <1>9, <1>10, <1>11 DEF Dom
    <3>3. n.space[q].tables = m.space[q].tables
      BY <1>9, <1>10
    <3> QED BY <1>12, <3>1, <3>2, <3>3
  <2> QED BY <1>14, <1>15, <2>1, <2>2 DEF Less
<1>17. Agree(n)
  BY <1>10, <1>16, PagesFreed DEF Works
<1> QED BY <1>5, <1>9, <1>10, <1>12, <1>17 DEF Freed, Works

(* get_a_page reserves and maps the page it is asked for.                  *)
LEMMA GetAPage ==
  ASSUME NEW m, Works(m), NEW o \in Owners, NEW v \in 1..BitmapLen(o), v \notin Dom(m, o),
         NEW n, n = get_a_page(m, o, v)
  PROVE  Stops(n) \/ Allocated(m, n, o, {v})
<1> DEFINE e == m.space[o].bits \cup {v}
<1>1. PICK m1 : m1 = WithBits(m, o, e)
  OBVIOUS
<1>2. Agree(m) /\ Covering(m, o, e)
  <2>1. BitmapLen(o) \in Nat
    BY Numbers
  <2> QED BY <2>1 DEF Works, Agree, BitsCover, Covering
<1> HIDE DEF e
<1>3. /\ Agree(m1) /\ m1.panic = m.panic
      /\ \A q \in Owners : /\ m1.space[q].bits = IF q = o THEN e ELSE m.space[q].bits
                           /\ Dom(m1, q) = Dom(m, q)
  BY <1>1, <1>2, BitsSet
<1>4. Works(m1) /\ v \in m1.space[o].bits \ Dom(m1, o)
  BY <1>3 DEF Works, e
<1>5. ASSERT(m1, v > 0) = m1
  BY DEF ASSERT
<1>6. n = get_a_page_without_opvaddrbitmap(m1, o, v)
  BY <1>1, <1>5 DEF get_a_page, WithBits, e
<1>7. Stops(n) \/ Mapped(m1, n, o, {v})
  BY <1>4, <1>6, PageMapped
<1> QED BY <1>3, <1>7 DEF e, Mapped, Allocated

(* A page taken for one address space leaves the bitmaps alone.            *)
LEMMA PageBits ==
  ASSUME NEW m, Shape(m), NEW o \in Owners, NEW v,
         NEW n, n = get_a_page_without_opvaddrbitmap(m, o, v)
  PROVE  Shape(n) /\ \A q \in Owners : n.space[q].bits = m.space[q].bits
<1> DEFINE table == v \div TableSpan
           page == NextPage(m, PoolOf(o))
           m0 == palloc(m, PoolOf(o))
           tpage == NextPage(m0, PoolOf(KERNEL))
           mt == palloc(m0, PoolOf(KERNEL))
           m1 == IF o = KERNEL \/ table \in DOMAIN m0.space[o].tables THEN m0
                 ELSE [mt EXCEPT !.space[o].tables = Extend(@, table, tpage)]
           m2 == ASSERT(m1, v \notin DOMAIN m1.space[o].map)
<1>1. n = [m2 EXCEPT !.space[o].map = Extend(@, v, page)]
  BY DEF get_a_page_without_opvaddrbitmap, page_table_add
<1>2. ASSUME NEW x, Shape(x), NEW pool
      PROVE  Shape(palloc(x, pool)) /\ palloc(x, pool).space = x.space
  BY <1>2 DEF palloc, Panic, Shape
<1>3. Shape(m0) /\ m0.space = m.space
  BY <1>2
<1>4. Shape(mt) /\ mt.space = m.space
  <2> HIDE DEF m0
  <2> QED BY <1>2, <1>3
<1>5. Shape(m1) /\ \A q \in Owners : m1.space[q].bits = m.space[q].bits
  <2> HIDE DEF m0, mt, tpage
  <2>1. PICK e : e = Extend(mt.space[o].tables, table, tpage)
    OBVIOUS
  <2>2. /\ Shape(WithTables(mt, o, e))
        /\ \A q \in Owners : WithTables(mt, o, e).space[q].bits = m.space[q].bits
    BY <1>4, FieldsSet
  <2>3. m1 = m0 \/ m1 = WithTables(mt, o, e)
    BY <2>1 DEF WithTables
  <2> QED BY <1>3, <2>2, <2>3
<1>6. Shape(m2) /\ \A q \in Owners : m2.space[q].bits = m.space[q].bits
  <2> HIDE DEF m1
  <2> QED BY <1>5 DEF ASSERT, Panic, Shape
<1> HIDE DEF m2
<1>7. PICK e : e = Extend(m2.space[o].map, v, page)
  OBVIOUS
<1>8. n = WithMap(m2, o, e)
  BY <1>1, <1>7 DEF WithMap
<1> QED BY <1>6, <1>8, FieldsSet

(* malloc_page touches no bitmap but its own, even if it panics.           *)
LEMMA MallocBits ==
  ASSUME NEW m, Shape(m), NEW o \in Owners, NEW cnt \in Nat \ {0},
         NEW r, r = malloc_page(m, o, cnt), NEW q \in Owners, q # o
  PROVE  Shape(r.mem) /\ r.mem.space[q].bits = m.space[q].bits
<1> DEFINE bits == m.space[o].bits
           len == BitmapLen(o)
           start == bitmap_scan(bits, len, cnt)
<1>1. PICK f : /\ Maps(f, m, o, start, cnt, cnt)
               /\ r = IF IsFull(bits, len) THEN [mem |-> Panic(m, "full"), vaddr |-> -1]
                      ELSE IF start = -1 THEN [mem |-> m, vaddr |-> -1]
                      ELSE [mem |-> f[cnt], vaddr |-> start]
  <2>1. PICK f : f = CHOOSE g : Maps(g, m, o, start, cnt, cnt)
    OBVIOUS
  <2>2. Maps(f, m, o, start, cnt, cnt)
    BY <2>1, MapsExist
  <2>3. r = IF IsFull(bits, len) THEN [mem |-> Panic(m, "full"), vaddr |-> -1]
            ELSE IF start = -1 THEN [mem |-> m, vaddr |-> -1]
            ELSE [mem |-> (CHOOSE g : Maps(g, m, o, start, cnt, cnt))[cnt], vaddr |-> start]
    BY DEF malloc_page, Maps
  <2> QED BY <2>1, <2>2, <2>3
<1>2. f[0] = vaddr_get(m, o, start, cnt)
  BY <1>1 DEF Maps
<1> HIDE DEF start
<1> DEFINE T == {i \in 0..cnt : Shape(f[i]) /\ f[i].space[q].bits = m.space[q].bits}
<1>3. 0 \in T
  <2>1. PICK e : e = m.space[o].bits \cup start..start + cnt - 1
    OBVIOUS
  <2>2. PICK m1 : m1 = WithBits(m, o, e)
    OBVIOUS
  <2>3. Shape(m1) /\ m1.space[q].bits = m.space[q].bits
    BY <2>2, FieldsSet
  <2>4. f[0] = ASSERT(m1, o = KERNEL \/ start < UVPages - 1)
    BY <1>2, <2>1, <2>2 DEF vaddr_get, WithBits
  <2>5. Shape(f[0]) /\ f[0].space = m1.space
    BY <2>3, <2>4 DEF ASSERT, Panic, Shape
  <2> QED BY <2>3, <2>5
<1>4. ASSUME NEW i \in 0..cnt - 1, i \in T PROVE i + 1 \in T
  <2>1. i + 1 \in 0..cnt /\ i + 1 # 0 /\ (i + 1) - 1 = i
    OBVIOUS
  <2>2. PICK g, n, v : g = f[i] /\ n = f[i + 1] /\ v = start + (i + 1) - 1
    OBVIOUS
  <2>3. n = get_a_page_without_opvaddrbitmap(g, o, v)
    BY <1>1, <2>1, <2>2 DEF Maps
  <2>4. Shape(g) /\ g.space[q].bits = m.space[q].bits
    BY <1>4, <2>2
  <2>5. Shape(n) /\ n.space[q].bits = g.space[q].bits
    BY <2>3, <2>4, PageBits
  <2> QED BY <2>1, <2>2, <2>4, <2>5
<1>5. \A i \in 0..cnt : i \in T
  <2> HIDE DEF T
  <2> QED BY <1>3, <1>4, Upto
<1>6. Shape(f[cnt]) /\ f[cnt].space[q].bits = m.space[q].bits
  BY <1>5
<1>7. Shape(Panic(m, "full")) /\ Panic(m, "full").space = m.space
  BY DEF Panic, Shape
<1> HIDE DEF bits, len
<1> QED BY <1>1, <1>6, <1>7

-----------------------------------------------------------------------------
(* The copy of a process *)

Below(pages, v) == {w \in pages : w < v}

Highest(S) == CHOOSE w \in S : \A x \in S : x <= w

(* The loop of copy_body_stack3, over the pages below k.                   *)
Copies(f, m, c, pages, k) ==
  f = [v \in Below(pages, k) |->
        get_a_page_without_opvaddrbitmap(
          IF Below(pages, v) = {} THEN m ELSE f[Highest(Below(pages, v))], c, v)]

(* Pages below a bound are numbers.                                        *)
LEMMA PagesNat ==
  ASSUME NEW n \in Nat, NEW pages \in SUBSET (0..n)
  PROVE  \A w \in pages : w \in Nat /\ w <= n
<1>1. \A w \in pages : w \in 0..n
  OBVIOUS
<1> QED BY <1>1

(* The pages below k + 1 are those below k, and k if it is one.            *)
LEMMA BelowSteps ==
  ASSUME NEW n \in Nat, NEW pages \in SUBSET (0..n)
  PROVE  /\ Below(pages, 0) = {}
         /\ \A k \in 0..n : /\ k \notin Below(pages, k)
                            /\ k \notin pages => Below(pages, k + 1) = Below(pages, k)
                            /\ k \in pages => Below(pages, k + 1) = Below(pages, k) \cup {k}
<1>1. \A w \in pages : w \in Nat /\ w <= n
  BY PagesNat
<1>2. ASSUME NEW w \in Below(pages, 0) PROVE FALSE
  <2>1. w \in Nat /\ w < 0
    BY <1>1 DEF Below
  <2> QED BY <2>1
<1>3. ASSUME NEW k \in 0..n
      PROVE  /\ k \notin Below(pages, k)
             /\ k \notin pages => Below(pages, k + 1) = Below(pages, k)
             /\ k \in pages => Below(pages, k + 1) = Below(pages, k) \cup {k}
  <2>1. k \in Nat
    OBVIOUS
  <2>2. ASSUME NEW w \in pages PROVE w < k + 1 <=> w < k \/ w = k
    <3>1. w \in Nat
      BY <1>1
    <3> QED BY <2>1, <3>1
  <2>3. ~(k < k)
    BY <2>1
  <2>4. \A w \in pages : w \in Below(pages, k + 1) <=> w \in Below(pages, k) \/ w = k
    BY <2>2 DEF Below
  <2>5. Below(pages, k + 1) \subseteq pages /\ Below(pages, k) \subseteq pages
    BY DEF Below
  <2>6. k \notin Below(pages, k)
    BY <2>3 DEF Below
  <2> QED BY <2>4, <2>5, <2>6
<1> QED BY <1>2, <1>3

(* Among the pages below v there is a highest one.                         *)
LEMMA BelowFacts ==
  ASSUME NEW n \in Nat, NEW pages \in SUBSET (0..n), NEW v \in 0..n + 1, Below(pages, v) # {}
  PROVE  /\ Highest(Below(pages, v)) \in Below(pages, v)
         /\ \A w \in Below(pages, v) : w <= Highest(Below(pages, v))
<1>1. Below(pages, v) \in SUBSET Nat /\ \A i \in Below(pages, v) : i <= n
  <2>1. \A i \in Below(pages, v) : i \in Nat /\ i <= n
    BY PagesNat DEF Below
  <2> QED BY <2>1
<1>2. \E k \in Below(pages, v) : \A i \in Below(pages, v) : i <= k
  BY <1>1, HighestFacts
<1> QED BY <1>2 DEF Highest

(* The loop of copy_body_stack3 has a result for every set of pages.       *)
LEMMA CopiesExist ==
  ASSUME NEW m, NEW c, NEW n \in Nat, NEW pages \in SUBSET (0..n)
  PROVE  \E f : Copies(f, m, c, pages, n + 1)
<1>0. /\ Below(pages, 0) = {}
      /\ \A k \in 0..n : /\ k \notin Below(pages, k)
                         /\ k \notin pages => Below(pages, k + 1) = Below(pages, k)
                         /\ k \in pages => Below(pages, k + 1) = Below(pages, k) \cup {k}
  BY BelowSteps
<1> DEFINE T == {k \in 0..n + 1 : \E f : Copies(f, m, c, pages, k)}
<1>1. 0 \in T
  <2>1. Below(pages, 0) = {}
    BY <1>0
  <2>2. PICK f : f = [v \in {} |-> m]
    OBVIOUS
  <2>3. Copies(f, m, c, pages, 0)
    BY <2>1, <2>2 DEF Copies
  <2> QED BY <2>3
<1>2. ASSUME NEW k \in 0..n, k \in T PROVE k + 1 \in T
  <2>1. PICK f : Copies(f, m, c, pages, k)
    BY <1>2
  <2>2. CASE k \notin pages
    <3>1. Below(pages, k + 1) = Below(pages, k)
      BY <1>0, <2>2
    <3>2. Copies(f, m, c, pages, k + 1)
      BY <2>1, <3>1 DEF Copies
    <3> QED BY <3>2
  <2>3. CASE k \in pages
    <3>1. Below(pages, k + 1) = Below(pages, k) \cup {k} /\ k \notin Below(pages, k)
      BY <1>0, <2>3
    <3>2. PICK x : x = get_a_page_without_opvaddrbitmap(
                         IF Below(pages, k) = {} THEN m ELSE f[Highest(Below(pages, k))], c, k)
      OBVIOUS
    <3>3. PICK g : g = [v \in Below(pages, k + 1) |-> IF v = k THEN x ELSE f[v]]
      OBVIOUS
    <3>4. \A v \in Below(pages, k) : g[v] = f[v]
      BY <3>1, <3>3
    <3>5. ASSUME NEW v \in Below(pages, k + 1), Below(pages, v) # {}
          PROVE  Highest(Below(pages, v)) \in Below(pages, k)
      <4>1. v \in 0..n + 1 /\ v <= k
        BY PagesNat DEF Below
      <4>2. PICK h : h = Highest(Below(pages, v))
        OBVIOUS
      <4>3. h \in Below(pages, v)
        BY <3>5, <4>1, <4>2, BelowFacts
      <4>4. h \in pages /\ h \in Nat /\ h < v
        BY <4>3, PagesNat DEF Below
      <4>5. h < k
        BY <4>1, <4>4
      <4> QED BY <4>2, <4>4, <4>5 DEF Below
    <3>6. ASSUME NEW v \in Below(pages, k + 1)
          PROVE  g[v] = get_a_page_without_opvaddrbitmap(
                          IF Below(pages, v) = {} THEN m ELSE g[Highest(Below(pages, v))], c, v)
      <4>1. Below(pages, v) # {} =>
              g[Highest(Below(pages, v))] = f[Highest(Below(pages, v))]
        BY <3>4, <3>5
      <4>2. CASE v = k
        BY <3>2, <3>3, <4>1, <4>2
      <4>3. CASE v # k
        <5>1. v \in Below(pages, k) /\ g[v] = f[v]
          BY <3>1, <3>4, <4>3
        <5> QED BY <2>1, <4>1, <5>1 DEF Copies
      <4> QED BY <4>2, <4>3
    <3>7. g = [v \in Below(pages, k + 1) |-> g[v]]
      BY <3>3
    <3>8. Copies(g, m, c, pages, k + 1)
      BY <3>6, <3>7 DEF Copies
    <3> QED BY <3>8
  <2> QED BY <2>2, <2>3
<1>3. \A k \in 0..n + 1 : k \in T
  <2>1. n + 1 \in Nat /\ \A i \in 0..(n + 1) - 1 : i \in 0..n
    OBVIOUS
  <2> HIDE DEF T
  <2> QED BY <1>1, <1>2, <2>1, Upto
<1> QED BY <1>3

(* Every page of the parent is mapped in the child, or there is a panic.   *)
LEMMA CopyBody ==
  ASSUME NEW m, NEW p \in Procs, NEW c \in Procs, m.space[p].bits \subseteq 0..UVPages,
         m.space[p].bits # {}, NEW n, n = copy_body_stack3(m, p, c)
  PROVE  /\ Stops(m) => Stops(n)
         /\ Works(m) /\ m.space[p].bits \subseteq m.space[c].bits /\ Dom(m, c) = {} =>
              Stops(n) \/ Mapped(m, n, c, m.space[p].bits)
<1> DEFINE pages == m.space[p].bits
<1>1. UVPages \in Nat /\ c \in Owners
  BY Numbers
<1>2. pages \in SUBSET (0..UVPages) /\ Below(pages, UVPages + 1) = pages
  BY <1>1 DEF Below
<1>3. PICK f : Copies(f, m, c, pages, UVPages + 1) /\ n = f[Highest(pages)]
  <2>1. PICK f : f = CHOOSE g : Copies(g, m, c, pages, UVPages + 1)
    OBVIOUS
  <2>2. Copies(f, m, c, pages, UVPages + 1)
    <3> HIDE DEF pages
    <3> QED BY <1>1, <1>2, <2>1, CopiesExist
  <2>3. n = (CHOOSE g : g = [v \in pages |->
               get_a_page_without_opvaddrbitmap(
                 IF Below(pages, v) = {} THEN m ELSE g[Highest(Below(pages, v))], c, v)])[Highest(pages)]
    BY DEF copy_body_stack3, Below, Highest
  <2>4. n = (CHOOSE g : Copies(g, m, c, pages, UVPages + 1))[Highest(pages)]
    <3> HIDE DEF pages
    <3> QED BY <1>2, <2>3 DEF Copies
  <2> QED BY <2>1, <2>2, <2>4
<1>4. Highest(pages) \in pages /\ \A w \in pages : w <= Highest(pages)
  <2> HIDE DEF pages
  <2>1. Below(pages, UVPages + 1) # {} /\ UVPages + 1 \in 0..UVPages + 1
    BY <1>1, <1>2 DEF pages
  <2> QED BY <1>1, <1>2, <2>1, BelowFacts
<1> HIDE DEF pages
<1>5. ASSUME NEW v \in pages
      PROVE  f[v] = get_a_page_without_opvaddrbitmap(
                      IF Below(pages, v) = {} THEN m ELSE f[Highest(Below(pages, v))], c, v)
  BY <1>2, <1>3 DEF Copies
<1>6. ASSUME NEW v \in pages, Below(pages, v) # {}
      PROVE  /\ Highest(Below(pages, v)) \in pages /\ Highest(Below(pages, v)) < v
             /\ Below(pages, v) = {w \in pages : w <= Highest(Below(pages, v))}
  <2>1. v \in 0..UVPages + 1
    BY <1>1, <1>2
  <2>2. PICK h : h = Highest(Below(pages, v))
    OBVIOUS
  <2>3. h \in Below(pages, v) /\ \A w \in Below(pages, v) : w <= h
    BY <1>1, <1>2, <1>6, <2>1, <2>2, BelowFacts
  <2>4. h \in pages /\ h < v /\ \A w \in pages : w < v => w <= h
    BY <2>3 DEF Below
  <2>5. \A w \in pages : w \in Nat
    BY <1>1, <1>2, PagesNat
  <2>6. ASSUME NEW w \in pages PROVE w < v <=> w <= h
    <3>1. w \in Nat /\ h \in Nat /\ v \in Nat
      BY <2>4, <2>5
    <3> QED BY <2>4, <3>1
  <2>7. Below(pages, v) = {w \in pages : w <= h}
    BY <2>6 DEF Below
  <2> QED BY <2>2, <2>4, <2>7
<1>7. ASSUME Stops(m) PROVE Stops(n)
  <2> DEFINE T == {k \in 0..UVPages + 1 : \A v \in Below(pages, k) : Stops(f[v])}
  <2>1. 0 \in T
    BY <1>1, <1>2 DEF Below
  <2>2. ASSUME NEW k \in 0..(UVPages + 1) - 1, k \in T PROVE k + 1 \in T
    <3>1. k + 1 \in 0..UVPages + 1 /\ k \in Nat
      BY <1>1
    <3>2. ASSUME NEW v \in Below(pages, k + 1) PROVE Stops(f[v])
      <4>1. v \in pages /\ v <= k /\ v \in Nat
        BY <1>2, <3>1 DEF Below
      <4>2. PICK g : g = IF Below(pages, v) = {} THEN m ELSE f[Highest(Below(pages, v))]
        OBVIOUS
      <4>3. Stops(g)
        <5>1. CASE Below(pages, v) = {}
          BY <1>7, <4>2, <5>1
        <5>2. CASE Below(pages, v) # {}
          <6>1. PICK h : h = Highest(Below(pages, v))
            OBVIOUS
          <6>2. h \in pages /\ h < v /\ h \in Nat
            BY <1>1, <1>2, <1>6, <4>1, <5>2, <6>1, PagesNat
          <6>3. h \in Below(pages, k)
            BY <3>1, <4>1, <6>2 DEF Below
          <6> QED BY <2>2, <4>2, <5>2, <6>1, <6>3
        <5> QED BY <5>1, <5>2
      <4>4. PICK x : x = f[v]
        OBVIOUS
      <4>5. x = get_a_page_without_opvaddrbitmap(g, c, v)
        BY <1>5, <4>1, <4>2, <4>4
      <4> QED BY <1>1, <4>3, <4>4, <4>5, PageMapped
    <3> QED BY <3>1, <3>2
  <2>3. UVPages + 1 \in T
    <3> HIDE DEF T
    <3>1. \A k \in 0..UVPages + 1 : k \in T
      BY <1>1, <2>1, <2>2, Upto
    <3> QED BY <1>1, <3>1
  <2> QED BY <1>2, <1>3, <1>4, <2>3
<1>8. ASSUME Works(m), pages \subseteq m.space[c].bits, Dom(m, c) = {}
      PROVE  Stops(n) \/ Mapped(m, n, c, pages)
  <2> DEFINE upto(v) == {w \in pages : w <= v}
             P(v) == Stops(f[v]) \/ Mapped(m, f[v], c, upto(v))
             T == {k \in 0..UVPages + 1 : \A v \in Below(pages, k) : P(v)}
  <2>1. 0 \in T
    BY <1>1, <1>2 DEF Below
  <2>2. ASSUME NEW k \in 0..(UVPages + 1) - 1, k \in T PROVE k + 1 \in T
    <3>1. k + 1 \in 0..UVPages + 1 /\ k \in Nat
      BY <1>1
    <3>2. ASSUME NEW v \in Below(pages, k + 1) PROVE P(v)
      <4>1. v \in pages /\ v <= k /\ v \in Nat
        BY <1>2, <3>1 DEF Below
      <4>2. PICK g : g = IF Below(pages, v) = {} THEN m ELSE f[Highest(Below(pages, v))]
        OBVIOUS
      <4>3. Stops(g) \/ Mapped(m, g, c, Below(pages, v))
        <5>1. CASE Below(pages, v) = {}
          <6>1. Mapped(m, m, c, {})
            BY <1>8 DEF Mapped
          <6> QED BY <4>2, <5>1, <6>1
        <5>2. CASE Below(pages, v) # {}
          <6>1. PICK h : h = Highest(Below(pages, v))
            OBVIOUS
          <6>2. h \in pages /\ h < v /\ Below(pages, v) = upto(h)
            BY <1>6, <4>1, <5>2, <6>1
          <6>5. h \in Nat
            BY <1>1, <1>2, <6>2, PagesNat
          <6>3. h \in Below(pages, k)
            BY <3>1, <4>1, <6>2, <6>5 DEF Below
          <6>4. P(h)
            BY <2>2, <6>3
          <6> QED BY <4>2, <5>2, <6>1, <6>2, <6>4
        <5> QED BY <5>1, <5>2
      <4>4. PICK x : x = f[v]
        OBVIOUS
      <4>5. x = get_a_page_without_opvaddrbitmap(g, c, v)
        BY <1>5, <4>1, <4>2, <4>4
      <4>6. CASE Stops(g)
        BY <1>1, <4>4, <4>5, <4>6, PageMapped
      <4>7. CASE Mapped(m, g, c, Below(pages, v))
        <5>1. Works(g) /\ v \in g.space[c].bits \ Dom(g, c)
          BY <1>1, <1>8, <4>1, <4>7 DEF Mapped, Below
        <5>2. Stops(x) \/ Mapped(g, x, c, {v})
          BY <1>1, <4>5, <5>1, PageMapped
        <5>3. upto(v) = Below(pages, v) \cup {v}
          <6>1. \A w \in pages : w \in Nat
            BY <1>1, <1>2, PagesNat
          <6>2. \A w \in pages : w <= v <=> w < v \/ w = v
            BY <4>1, <6>1
          <6> QED BY <4>1, <6>2 DEF Below
        <5> HIDE DEF upto
        <5>4. Stops(x) \/ Mapped(m, x, c, upto(v))
          BY <1>1, <4>7, <5>2, <5>3 DEF Mapped
        <5> QED BY <4>4, <5>4
      <4> QED BY <4>3, <4>6, <4>7
    <3> QED BY <3>1, <3>2
  <2>3. UVPages + 1 \in T
    <3> HIDE DEF T
    <3>1. \A k \in 0..UVPages + 1 : k \in T
      BY <1>1, <2>1, <2>2, Upto
    <3> QED BY <1>1, <3>1
  <2>4. P(Highest(pages))
    BY <1>2, <1>4, <2>3
  <2>5. upto(Highest(pages)) = pages
    BY <1>4
  <2> QED BY <1>3, <2>4, <2>5
<1> QED BY <1>7, <1>8 DEF pages

-----------------------------------------------------------------------------
(* The boot: nothing has been freed, so pages are taken in order           *)

(* palloc does not panic while a page of the pool is free.                 *)
LEMMA PallocFree ==
  ASSUME NEW m, Shape(m), m.panic = "none", NEW pool \in SUBSET Nat, NEW x \in pool, x \notin m.taken,
         NEW n, n = palloc(m, pool)
  PROVE  /\ NextPage(m, pool) \in pool \ m.taken
         /\ \A i \in pool \ m.taken : NextPage(m, pool) <= i
         /\ Shape(n) /\ n.taken = m.taken \cup {NextPage(m, pool)}
         /\ n.space = m.space /\ n.panic = "none"
<1>1. ~(pool \subseteq m.taken)
  OBVIOUS
<1>2. pool \ m.taken \in SUBSET Nat /\ pool \ m.taken # {}
  OBVIOUS
<1>3. NextPage(m, pool) = Lowest(pool \ m.taken)
  BY <1>1 DEF NextPage
<1>4. PICK page : page = NextPage(m, pool)
  OBVIOUS
<1>5. n = [m EXCEPT !.taken = @ \cup {page}]
  BY <1>1, <1>4 DEF palloc
<1>6. Shape(n) /\ n.taken = m.taken \cup {page} /\ n.space = m.space /\ n.panic = "none"
  BY <1>5 DEF Shape
<1> QED BY <1>2, <1>3, <1>4, <1>6, LowestFacts

(* The next page of the kernel's pool.                                     *)
LEMMA KernelPage ==
  ASSUME NEW m, Works(m), NEW n \in Nat, n < KPages, m.taken = 0..n - 1,
         NEW v, v \notin Dom(m, KERNEL),
         NEW x, x = get_a_page_without_opvaddrbitmap(m, KERNEL, v)
  PROVE  x.taken = 0..n /\ x.panic = "none"
<1>1. PoolOf(KERNEL) = 0..KPages - 1 /\ KPages \in Nat /\ KERNEL \in Owners
  BY Numbers DEF PoolOf
<1>2. PoolOf(KERNEL) \in SUBSET Nat /\ n \in PoolOf(KERNEL) /\ n \notin m.taken
  BY <1>1
<1>3. PICK m0 : m0 = palloc(m, PoolOf(KERNEL))
  OBVIOUS
<1>4. PICK page : page = NextPage(m, PoolOf(KERNEL))
  OBVIOUS
<1>5. /\ page \in PoolOf(KERNEL) \ m.taken /\ \A i \in PoolOf(KERNEL) \ m.taken : page <= i
      /\ Shape(m0) /\ m0.taken = m.taken \cup {page} /\ m0.space = m.space /\ m0.panic = "none"
  BY <1>2, <1>3, <1>4, PallocFree DEF Works, Agree
<1>6. page = n
  <2>1. page \in Nat /\ page <= n /\ page \notin 0..n - 1
    BY <1>2, <1>5
  <2> QED BY <2>1
<1>7. m0.taken = 0..n
  BY <1>5, <1>6
<1>8. PICK e : e = Extend(m.space[KERNEL].map, v, page)
  OBVIOUS
<1>9. x = WithMap(m0, KERNEL, e)
  <2>1. ASSERT(m0, v \notin DOMAIN m0.space[KERNEL].map) = m0
    BY <1>5, PanicKept DEF Dom
  <2> QED BY <1>3, <1>4, <1>5, <1>8, <2>1
        DEF get_a_page_without_opvaddrbitmap, page_table_add, WithMap
<1> QED BY <1>1, <1>5, <1>7, <1>9, FieldsSet

(* A first page for a process, and its page table.                         *)
LEMMA FirstPage ==
  ASSUME NEW m, Works(m), NEW n \in Nat, n < KPages, m.taken = 0..n - 1,
         NEW p \in Procs, NEW v \in 1..UVPages, v \notin Dom(m, p),
         NEW x, x = get_a_page(m, p, v)
  PROVE  ~Stops(x)
<1>1. /\ PoolOf(KERNEL) = 0..KPages - 1 /\ PoolOf(p) = KPages..KPages + UPages - 1
      /\ KPages \in Nat /\ UPages \in Nat /\ UPages > 0 /\ p \in Owners /\ p # KERNEL
  BY Numbers DEF PoolOf
<1>2. PICK m1 : m1 = WithBits(m, p, m.space[p].bits \cup {v})
  OBVIOUS
<1>3. /\ Shape(m1) /\ m1.taken = m.taken /\ m1.panic = "none"
      /\ \A q \in Owners : /\ m1.space[q].map = m.space[q].map
                           /\ m1.space[q].tables = m.space[q].tables
  <2>1. PICK e : e = m.space[p].bits \cup {v}
    OBVIOUS
  <2> QED BY <1>1, <1>2, <2>1, FieldsSet DEF Works, Agree
<1>4. x = get_a_page_without_opvaddrbitmap(m1, p, v)
  BY <1>2 DEF get_a_page, WithBits, ASSERT
<1>5. PICK m2 : m2 = palloc(m1, PoolOf(p))
  OBVIOUS
<1>6. PICK page : page = NextPage(m1, PoolOf(p))
  OBVIOUS
<1>7. /\ page \in PoolOf(p)
      /\ Shape(m2) /\ m2.taken = m.taken \cup {page} /\ m2.space = m1.space /\ m2.panic = "none"
  <2>1. PoolOf(p) \in SUBSET Nat /\ KPages \in PoolOf(p) /\ KPages \notin m.taken
    BY <1>1
  <2> QED BY <1>3, <1>5, <1>6, <2>1, PallocFree
<1>8. PICK mt : mt = palloc(m2, PoolOf(KERNEL))
  OBVIOUS
<1>9. Shape(mt) /\ mt.panic = "none" /\ mt.space = m1.space
  <2>1. PoolOf(KERNEL) \in SUBSET Nat /\ n \in PoolOf(KERNEL) /\ n \notin m2.taken
    BY <1>1, <1>7
  <2> QED BY <1>7, <1>8, <2>1, PallocFree
<1>10. PICK et : et = Extend(mt.space[p].tables, v \div TableSpan, NextPage(m2, PoolOf(KERNEL)))
  OBVIOUS
<1>11. PICK m3 : m3 = IF v \div TableSpan \in DOMAIN m2.space[p].tables THEN m2
                      ELSE WithTables(mt, p, et)
  OBVIOUS
<1>12. Shape(m3) /\ m3.panic = "none" /\ m3.space[p].map = m.space[p].map
  <2>1. PICK m4 : m4 = WithTables(mt, p, et)
    OBVIOUS
  <2>2. Shape(m4) /\ m4.panic = "none" /\ m4.space[p].map = m.space[p].map
    BY <1>1, <1>3, <1>9, <2>1, FieldsSet
  <2> QED BY <1>1, <1>3, <1>7, <1>11, <2>1, <2>2
<1>13. PICK e : e = Extend(m3.space[p].map, v, page)
  OBVIOUS
<1>14. x = WithMap(m3, p, e)
  <2>1. ASSERT(m3, v \notin DOMAIN m3.space[p].map) = m3
    BY <1>12, PanicKept DEF Dom
  <2> QED BY <1>1, <1>4, <1>5, <1>6, <1>8, <1>10, <1>11, <1>13, <2>1
        DEF get_a_page_without_opvaddrbitmap, page_table_add, WithMap, WithTables
<1>15. x.panic = "none"
  BY <1>1, <1>12, <1>14, FieldsSet
<1> QED BY <1>15 DEF Stops

(* The memory after n pages of the kernel have been taken.                 *)
Booted(m, n) ==
  /\ Works(m) /\ m.taken = 0..n - 1 /\ Dom(m, KERNEL) = 0..n - 1
  /\ m.space[KERNEL].bits \ {KPages} = 0..n - 1
  /\ \A p \in Procs : m.space[p].bits = {}

(* get_kernel_pages takes the next cnt.                                    *)
LEMMA BootPages ==
  ASSUME NEW m, NEW n \in Nat, Booted(m, n), NEW cnt \in Nat \ {0}, n + cnt <= KPages,
         NEW r, r = get_kernel_pages(m, cnt)
  PROVE  r.vaddr = n /\ Booted(r.mem, n + cnt)
<1> DEFINE bits == m.space[KERNEL].bits
           len == KPages
           start == bitmap_scan(bits, len, cnt)
<1>1. KERNEL \in Owners /\ KPages \in Nat /\ BitmapLen(KERNEL) = KPages /\ StackKept(m, KERNEL)
  BY Numbers DEF StackKept
<1>2. \A i \in 0..KPages - 1 : i \in bits <=> i < n
  BY <1>1 DEF Booted
<1>3. n \in FreeRuns(m, KERNEL, cnt)
  <2>1. n \in 0..len - 1 /\ n + cnt - 1 <= len
    BY <1>1
  <2>2. \A i \in n..n + cnt - 1 : i \in 0..KPages - 1 /\ ~(i < n)
    BY <1>1
  <2>3. n..n + cnt - 1 \cap bits = {}
    <3> HIDE DEF bits
    <3> QED BY <1>2, <2>2
  <2> QED BY <1>1, <2>1, <2>3 DEF FreeRuns, Runs
<1>4. \A i \in FreeRuns(m, KERNEL, cnt) : i \in Int /\ n <= i
  <2>1. ASSUME NEW i \in FreeRuns(m, KERNEL, cnt) PROVE i \in Int /\ n <= i
    <3>1. i \in 0..KPages - 1 /\ i \notin bits
      <4>1. i \in 0..KPages - 1 /\ i..i + cnt - 1 \cap bits = {}
        BY <1>1 DEF FreeRuns, Runs
      <4>2. i \in i..i + cnt - 1
        BY <1>1, <4>1
      <4> QED BY <4>1, <4>2
    <3> QED BY <1>2, <3>1
  <2> QED BY <2>1
<1>5. Lowest(FreeRuns(m, KERNEL, cnt)) = n
  BY <1>3, <1>4, LowestIs
<1>6. ~IsFull(bits, len)
  <2>1. n \in 0..len - 1
    BY <1>1
  <2> HIDE DEF bits
  <2> QED BY <1>2, <2>1 DEF IsFull
<1>7. start = n
  <2>1. start = Result(Runs(bits, len, cnt))
    <3> HIDE DEF bits
    <3> QED BY <1>1, <1>6, ScanFinds
  <2> QED BY <1>1, <1>3, <1>5, <2>1 DEF FreeRuns, Result
<1>8. PICK f : Maps(f, m, KERNEL, n, cnt, cnt) /\ r = [mem |-> f[cnt], vaddr |-> n]
  <2>1. PICK f : f = CHOOSE g : Maps(g, m, KERNEL, start, cnt, cnt)
    OBVIOUS
  <2>2. Maps(f, m, KERNEL, start, cnt, cnt)
    BY <2>1, MapsExist
  <2>3. r = IF IsFull(bits, len) THEN [mem |-> Panic(m, "full"), vaddr |-> -1]
            ELSE IF start = -1 THEN [mem |-> m, vaddr |-> -1]
            ELSE [mem |-> (CHOOSE g : Maps(g, m, KERNEL, start, cnt, cnt))[cnt], vaddr |-> start]
    BY <1>1 DEF get_kernel_pages, malloc_page, Maps
  <2>4. start # -1
    BY <1>7
  <2>5. r = [mem |-> f[cnt], vaddr |-> start]
    BY <1>6, <2>1, <2>3, <2>4
  <2> QED BY <1>7, <2>2, <2>5
<1> HIDE DEF start
<1>9. \A i \in 0..cnt : f[i] = IF i = 0 THEN vaddr_get(m, KERNEL, n, cnt)
                               ELSE get_a_page_without_opvaddrbitmap(f[i - 1], KERNEL, n + i - 1)
  BY <1>8 DEF Maps
<1>10. n..n + cnt - 1 \subseteq 0..KPages /\ n..n + cnt - 1 \cap Dom(m, KERNEL) = {}
  BY <1>1 DEF Booted
<1>11. Reserved(m, f[0], KERNEL, n..n + cnt - 1)
  BY <1>1, <1>9, <1>10, VaddrGet DEF Booted
<1>12. f[0].taken = 0..n - 1
  <2>1. PICK e : e = m.space[KERNEL].bits \cup n..n + cnt - 1
    OBVIOUS
  <2>2. f[0] = WithBits(m, KERNEL, e)
    <3>1. 0 \in 0..cnt
      OBVIOUS
    <3>2. f[0] = vaddr_get(m, KERNEL, n, cnt)
      BY <1>9, <3>1
    <3>3. vaddr_get(m, KERNEL, n, cnt) = [m EXCEPT !.space[KERNEL].bits = @ \cup n..n + cnt - 1]
      BY DEF vaddr_get, ASSERT
    <3> QED BY <2>1, <3>2, <3>3 DEF WithBits
  <2> QED BY <1>1, <2>2, FieldsSet DEF Booted, Works, Agree
<1>13. \A i \in 0..cnt : Stops(f[i]) \/ Mapped(f[0], f[i], KERNEL, n..n + i - 1)
  <2>1. /\ Works(f[0]) /\ n..n + cnt - 1 \subseteq f[0].space[KERNEL].bits
        /\ n..n + cnt - 1 \cap Dom(f[0], KERNEL) = {}
    BY <1>1, <1>10, <1>11 DEF Reserved
  <2> QED BY <1>1, <1>8, <2>1, MapsMaps
<1>14. \A i \in 0..cnt : f[i].taken = 0..n + i - 1 /\ f[i].panic = "none"
  <2> DEFINE T == {i \in 0..cnt : f[i].taken = 0..n + i - 1 /\ f[i].panic = "none"}
  <2>1. 0 \in T
    BY <1>11, <1>12 DEF Reserved, Works
  <2>2. ASSUME NEW i \in 0..cnt - 1, i \in T PROVE i + 1 \in T
    <3>1. Mapped(f[0], f[i], KERNEL, n..n + i - 1)
      BY <1>13, <2>2 DEF Stops
    <3>2. Works(f[i]) /\ n + i \notin Dom(f[i], KERNEL)
      <4>1. Dom(f[i], KERNEL) = Dom(m, KERNEL) \cup n..n + i - 1
        BY <1>1, <1>11, <3>1 DEF Mapped, Reserved
      <4>2. n + i \notin Dom(m, KERNEL) /\ n + i \notin n..n + i - 1
        BY DEF Booted
      <4> QED BY <3>1, <4>1, <4>2 DEF Mapped
    <3>3. n + i \in Nat /\ n + i < KPages /\ f[i].taken = 0..(n + i) - 1
      BY <1>1, <2>2
    <3>4. PICK x : x = get_a_page_without_opvaddrbitmap(f[i], KERNEL, n + i)
      OBVIOUS
    <3>5. f[i + 1] = x
      <4>1. i + 1 \in 0..cnt /\ i + 1 # 0 /\ (i + 1) - 1 = i /\ n + (i + 1) - 1 = n + i
        OBVIOUS
      <4> QED BY <1>9, <3>4, <4>1
    <3>6. x.taken = 0..n + i /\ x.panic = "none"
      BY <3>2, <3>3, <3>4, KernelPage
    <3>7. n + (i + 1) - 1 = n + i /\ i + 1 \in 0..cnt
      OBVIOUS
    <3> QED BY <3>5, <3>6, <3>7
  <2>3. \A i \in 0..cnt : i \in T
    <3> HIDE DEF T
    <3> QED BY <2>1, <2>2, Upto
  <2> QED BY <2>3
<1>15. f[cnt].taken = 0..n + cnt - 1 /\ Mapped(f[0], f[cnt], KERNEL, n..n + cnt - 1)
  <2>1. cnt \in 0..cnt
    OBVIOUS
  <2> QED BY <1>13, <1>14, <2>1 DEF Stops
<1>16. Booted(f[cnt], n + cnt)
  <2>1. /\ Works(f[cnt]) /\ Dom(f[cnt], KERNEL) = 0..n - 1 \cup n..n + cnt - 1
        /\ f[cnt].space[KERNEL].bits = m.space[KERNEL].bits \cup n..n + cnt - 1
    BY <1>1, <1>11, <1>15 DEF Mapped, Reserved, Booted
  <2>2. \A p \in Procs : f[cnt].space[p].bits = {}
    BY <1>11, <1>15, Numbers DEF Mapped, Reserved, Booted
  <2>3. 0..n - 1 \cup n..n + cnt - 1 = 0..n + cnt - 1 /\ KPages \notin n..n + cnt - 1
    BY <1>1
  <2>4. f[cnt].space[KERNEL].bits \ {KPages} = 0..n - 1 \cup n..n + cnt - 1
    BY <2>1, <2>3 DEF Booted
  <2> QED BY <1>15, <2>1, <2>2, <2>3, <2>4 DEF Booted
<1> QED BY <1>8, <1>16

-----------------------------------------------------------------------------
(* Free lists: sequences of numbers in which nothing occurs twice          *)

List(s) == s \in Seq(Nat) /\ \A i, j \in DOMAIN s : s[i] = s[j] => i = j

(* Taking the first element.                                               *)
LEMMA TailFacts ==
  ASSUME NEW s, List(s), s # <<>>
  PROVE  /\ Head(s) \in Range(s) /\ Range(s) \subseteq Nat
         /\ List(Tail(s)) /\ Range(Tail(s)) = Range(s) \ {Head(s)}
<1>1. /\ s \in Seq(Nat) /\ Len(s) \in Nat /\ DOMAIN s = 1..Len(s)
      /\ \A i \in 1..Len(s) : s[i] \in Nat
  BY DEF List
<1>2. Len(s) >= 1 /\ Head(s) = s[1]
  BY <1>1
<1>3. PICK t : t = Tail(s)
  OBVIOUS
<1>4. /\ t \in Seq(Nat) /\ Len(t) = Len(s) - 1 /\ DOMAIN t = 1..Len(s) - 1
      /\ \A i \in 1..Len(s) - 1 : t[i] = s[i + 1]
  BY <1>1, <1>2, <1>3, HeadTailProperties
<1>5. List(t)
  <2>1. ASSUME NEW i \in DOMAIN t, NEW j \in DOMAIN t, t[i] = t[j] PROVE i = j
    <3>1. /\ i \in 1..Len(s) - 1 /\ j \in 1..Len(s) - 1
          /\ \A k \in 1..Len(s) - 1 : k + 1 \in DOMAIN s
      BY <1>1, <1>4
    <3>2. i + 1 = j + 1
      BY <1>4, <2>1, <3>1 DEF List
    <3> QED BY <1>1, <3>1, <3>2
  <2> QED BY <1>4, <2>1 DEF List
<1>6. ASSUME NEW x PROVE x \in Range(t) <=> x \in Range(s) /\ x # Head(s)
  <2>1. ASSUME x \in Range(t) PROVE x \in Range(s) /\ x # Head(s)
    <3>1. PICK i \in DOMAIN t : x = t[i]
      BY <2>1 DEF Range
    <3>2. i \in 1..Len(s) - 1 /\ x = s[i + 1] /\ i + 1 \in DOMAIN s /\ 1 \in DOMAIN s /\ i + 1 # 1
      BY <1>1, <1>2, <1>4, <3>1
    <3> QED BY <1>2, <3>2 DEF Range, List
  <2>2. ASSUME x \in Range(s), x # Head(s) PROVE x \in Range(t)
    <3>1. PICK i \in DOMAIN s : x = s[i]
      BY <2>2 DEF Range
    <3>2. i \in 1..Len(s) /\ i # 1
      BY <1>1, <1>2, <2>2, <3>1
    <3>3. i - 1 \in 1..Len(s) - 1 /\ (i - 1) + 1 = i
      BY <1>1, <3>2
    <3>4. i - 1 \in DOMAIN t /\ t[i - 1] = x
      BY <1>4, <3>1, <3>3
    <3> QED BY <3>4 DEF Range
  <2> QED BY <2>1, <2>2
<1>7. Head(s) \in Range(s) /\ Range(s) \subseteq Nat
  <2>1. 1 \in DOMAIN s
    BY <1>1, <1>2
  <2> QED BY <1>1, <1>2, <2>1 DEF Range
<1> QED BY <1>3, <1>5, <1>6, <1>7

(* Adding one at the end.                                                  *)
LEMMA AppendFacts ==
  ASSUME NEW s, List(s), NEW x \in Nat, x \notin Range(s)
  PROVE  List(Append(s, x)) /\ Range(Append(s, x)) = Range(s) \cup {x}
<1>1. /\ s \in Seq(Nat) /\ Len(s) \in Nat /\ DOMAIN s = 1..Len(s)
      /\ \A i \in 1..Len(s) : s[i] \in Nat
  BY DEF List
<1>2. PICK t : t = Append(s, x)
  OBVIOUS
<1>3. /\ t \in Seq(Nat) /\ DOMAIN t = 1..Len(s) + 1 /\ t[Len(s) + 1] = x
      /\ \A i \in 1..Len(s) : t[i] = s[i]
  BY <1>1, <1>2, AppendProperties
<1>4. \A i \in 1..Len(s) + 1 : i \in 1..Len(s) \/ i = Len(s) + 1
  BY <1>1
<1>5. \A i \in DOMAIN s : s[i] # x
  BY DEF Range
<1>6. ASSUME NEW i \in DOMAIN t, NEW j \in DOMAIN t, t[i] = t[j] PROVE i = j
  <2>1. CASE i \in 1..Len(s) /\ j \in 1..Len(s)
    BY <1>1, <1>3, <1>6, <2>1 DEF List
  <2>2. CASE i = Len(s) + 1 /\ j \in 1..Len(s)
    BY <1>1, <1>3, <1>5, <1>6, <2>2
  <2>3. CASE i \in 1..Len(s) /\ j = Len(s) + 1
    BY <1>1, <1>3, <1>5, <1>6, <2>3
  <2> QED BY <1>3, <1>4, <2>1, <2>2, <2>3
<1>7. ASSUME NEW y PROVE y \in Range(t) <=> y \in Range(s) \/ y = x
  <2>1. DOMAIN t = DOMAIN s \cup {Len(s) + 1}
    BY <1>1, <1>3
  <2> QED BY <1>1, <1>3, <2>1 DEF Range
<1> QED BY <1>2, <1>3, <1>6, <1>7 DEF List

(* The loop of sys_free over the blocks of a page.                         *)
Keeps(f, list, page, k) ==
  f = [n \in 0..k |->
        IF n = 0 THEN <<>>
        ELSE IF block2arena(list[n]) = page THEN f[n - 1]
        ELSE Append(f[n - 1], list[n])]

(* The loop of sys_free has a result for every list.                       *)
LEMMA KeepsExist ==
  ASSUME NEW list, NEW page, NEW len \in Nat
  PROVE  \E f : Keeps(f, list, page, len)
<1> DEFINE T == {k \in 0..len : \E f : Keeps(f, list, page, k)}
<1>1. 0 \in T
  <2>1. PICK f : f = [n \in 0..0 |-> <<>>]
    OBVIOUS
  <2>2. Keeps(f, list, page, 0)
    BY <2>1 DEF Keeps
  <2> QED BY <2>2
<1>2. ASSUME NEW k \in 0..len - 1, k \in T PROVE k + 1 \in T
  <2>1. PICK f : Keeps(f, list, page, k)
    BY <1>2
  <2>2. PICK x : x = IF block2arena(list[k + 1]) = page THEN f[k] ELSE Append(f[k], list[k + 1])
    OBVIOUS
  <2>3. PICK g : g = [n \in 0..k + 1 |-> IF n = k + 1 THEN x ELSE f[n]]
    OBVIOUS
  <2>4. \A n \in 0..k : g[n] = f[n]
    BY <2>3
  <2>5. ASSUME NEW n \in 0..k + 1
        PROVE  g[n] = IF n = 0 THEN <<>>
                      ELSE IF block2arena(list[n]) = page THEN g[n - 1]
                      ELSE Append(g[n - 1], list[n])
    <3>1. CASE n = k + 1
      <4>1. n - 1 = k /\ n # 0
        BY <3>1
      <4> QED BY <2>2, <2>3, <2>4, <3>1, <4>1
    <3>2. CASE n # k + 1
      <4>1. n \in 0..k /\ (n # 0 => n - 1 \in 0..k)
        BY <3>2
      <4> QED BY <2>1, <2>4, <4>1 DEF Keeps
    <3> QED BY <3>1, <3>2
  <2>6. g = [n \in 0..k + 1 |-> g[n]]
    BY <2>3
  <2>7. Keeps(g, list, page, k + 1)
    BY <2>5, <2>6 DEF Keeps
  <2> QED BY <2>7
<1>3. \A k \in 0..len : k \in T
  <2> HIDE DEF T
  <2> QED BY <1>1, <1>2, Upto
<1> QED BY <1>3

(* It leaves the blocks that are in other pages.                           *)
LEMMA ElsewhereFacts ==
  ASSUME NEW s, List(s), NEW page, NEW e, e = Elsewhere(s, page)
  PROVE  List(e) /\ Range(e) = {x \in Range(s) : block2arena(x) # page}
<1>1. /\ s \in Seq(Nat) /\ Len(s) \in Nat /\ DOMAIN s = 1..Len(s)
      /\ \A i \in 1..Len(s) : s[i] \in Nat
  BY DEF List
<1>2. PICK f : Keeps(f, s, page, Len(s)) /\ e = f[Len(s)]
  <2>1. PICK f : f = CHOOSE g : Keeps(g, s, page, Len(s))
    OBVIOUS
  <2>2. Keeps(f, s, page, Len(s))
    BY <1>1, <2>1, KeepsExist
  <2>3. e = (CHOOSE g : Keeps(g, s, page, Len(s)))[Len(s)]
    BY DEF Elsewhere, Keeps
  <2> QED BY <2>1, <2>2, <2>3
<1> DEFINE kept(k) == {x \in {s[i] : i \in 1..k} : block2arena(x) # page}
           T == {k \in 0..Len(s) : List(f[k]) /\ Range(f[k]) = kept(k)}
<1>3. \A n \in 0..Len(s) : f[n] = IF n = 0 THEN <<>>
                                  ELSE IF block2arena(s[n]) = page THEN f[n - 1]
                                  ELSE Append(f[n - 1], s[n])
  BY <1>2 DEF Keeps
<1>4. 0 \in T
  <2>1. f[0] = <<>>
    BY <1>1, <1>3
  <2>2. List(<<>>) /\ Range(<<>>) = {}
    BY DEF List, Range
  <2>3. kept(0) = {}
    OBVIOUS
  <2> QED BY <1>1, <2>1, <2>2, <2>3
<1>5. ASSUME NEW k \in 0..Len(s) - 1, k \in T PROVE k + 1 \in T
  <2>1. k + 1 \in 1..Len(s) /\ k + 1 \in 0..Len(s) /\ k + 1 # 0 /\ (k + 1) - 1 = k /\ k \in Nat
    BY <1>1
  <2>2. PICK x : x = s[k + 1]
    OBVIOUS
  <2>3. x \in Nat
    BY <1>1, <2>1, <2>2
  <2>4. f[k + 1] = IF block2arena(x) = page THEN f[k] ELSE Append(f[k], x)
    BY <1>3, <2>1, <2>2
  <2>5. {s[i] : i \in 1..k + 1} = {s[i] : i \in 1..k} \cup {x}
    <3>1. 1..k + 1 = 1..k \cup {k + 1}
      BY <2>1
    <3> QED BY <2>2, <3>1
  <2>6. x \notin {s[i] : i \in 1..k}
    <3>1. ASSUME NEW i \in 1..k, s[i] = x PROVE FALSE
      <4>1. i \in DOMAIN s /\ k + 1 \in DOMAIN s /\ i # k + 1
        BY <1>1, <2>1
      <4> QED BY <2>2, <3>1, <4>1 DEF List
    <3> QED BY <3>1
  <2>7. List(f[k]) /\ Range(f[k]) = kept(k)
    BY <1>5
  <2>8. CASE block2arena(x) = page
    <3>1. kept(k + 1) = kept(k)
      BY <2>5, <2>8
    <3> QED BY <2>1, <2>4, <2>7, <2>8, <3>1
  <2>9. CASE block2arena(x) # page
    <3>1. kept(k + 1) = kept(k) \cup {x} /\ x \notin kept(k)
      BY <2>5, <2>6, <2>9
    <3>2. List(Append(f[k], x)) /\ Range(Append(f[k], x)) = kept(k) \cup {x}
      <4> HIDE DEF kept
      <4> QED BY <2>3, <2>7, <3>1, AppendFacts
    <3> QED BY <2>1, <2>4, <2>9, <3>1, <3>2
  <2> QED BY <2>8, <2>9
<1>6. \A k \in 0..Len(s) : k \in T
  <2> HIDE DEF T
  <2> QED BY <1>1, <1>4, <1>5, Upto
<1>7. Len(s) \in T
  <2> HIDE DEF T
  <2> QED BY <1>1, <1>6
<1>8. Range(s) = {s[i] : i \in 1..Len(s)}
  BY <1>1 DEF Range
<1> QED BY <1>2, <1>7, <1>8

-----------------------------------------------------------------------------
(* Blocks *)

(* Multiples of c are at least c apart.                                    *)
LEMMA Times ==
  ASSUME NEW a \in Nat, NEW b \in Nat, a < b, NEW c \in Nat
  PROVE  a * c + c <= b * c /\ a * c \in Nat /\ b * c \in Nat
<1>1. PICK d \in Nat : b = a + 1 + d
  <2>1. b - a - 1 \in Nat /\ b = a + 1 + (b - a - 1)
    OBVIOUS
  <2> QED BY <2>1
<1>2. d * c \in Nat /\ a * c \in Nat /\ b * c \in Nat
  OBVIOUS
<1>3. b * c = a * c + c + d * c
  BY <1>1
<1> QED BY <1>2, <1>3

(* What \div is.                                                           *)
LEMMA Quotient ==
  ASSUME NEW a \in Nat, NEW b \in Nat \ {0}
  PROVE  /\ a \div b \in Nat /\ (a \div b) * b <= a /\ a < (a \div b) * b + b
         /\ \A q \in Nat : q * b <= a /\ a < q * b + b => a \div b = q
<1>1. PICK d : d = a \div b
  OBVIOUS
<1>2. d \in Nat /\ d * b <= a /\ a < d * b + b
  BY <1>1
<1>3. ASSUME NEW q \in Nat, q * b <= a, a < q * b + b PROVE d = q
  <2>1. ~(d < q)
    BY <1>2, <1>3, Times
  <2>2. ~(q < d)
    BY <1>2, <1>3, Times
  <2> QED BY <1>2, <2>1, <2>2
<1> QED BY <1>1, <1>2, <1>3

(* The loop of block_desc_init, up to the k-th size.                       *)
Doubles(f, k) == f = [u \in 1..k |-> IF u = 1 THEN MinBlock ELSE 2 * f[u - 1]]

(* The loop of block_desc_init has a result for every number of sizes.     *)
LEMMA DoublesExist ==
  ASSUME NEW len \in Nat
  PROVE  \E f : Doubles(f, len)
<1> DEFINE T == {k \in 0..len : \E f : Doubles(f, k)}
<1>1. 0 \in T
  <2>1. PICK f : f = [u \in 1..0 |-> MinBlock]
    OBVIOUS
  <2>2. 1..0 = {}
    OBVIOUS
  <2>3. Doubles(f, 0)
    BY <2>1, <2>2 DEF Doubles
  <2> QED BY <2>3
<1>2. ASSUME NEW k \in 0..len - 1, k \in T PROVE k + 1 \in T
  <2>1. PICK f : Doubles(f, k)
    BY <1>2
  <2>2. PICK x : x = IF k = 0 THEN MinBlock ELSE 2 * f[k]
    OBVIOUS
  <2>3. PICK g : g = [u \in 1..k + 1 |-> IF u = k + 1 THEN x ELSE f[u]]
    OBVIOUS
  <2>4. \A u \in 1..k : g[u] = f[u]
    BY <2>3
  <2>5. ASSUME NEW u \in 1..k + 1
        PROVE  g[u] = IF u = 1 THEN MinBlock ELSE 2 * g[u - 1]
    <3>1. CASE u = k + 1
      <4>1. u - 1 = k /\ (u # 1 <=> k # 0) /\ (k # 0 => k \in 1..k)
        BY <3>1
      <4> QED BY <2>2, <2>3, <2>4, <3>1, <4>1
    <3>2. CASE u # k + 1
      <4>1. u \in 1..k /\ (u # 1 => u - 1 \in 1..k)
        BY <3>2
      <4> QED BY <2>1, <2>4, <4>1 DEF Doubles
    <3> QED BY <3>1, <3>2
  <2>6. g = [u \in 1..k + 1 |-> g[u]]
    BY <2>3
  <2>7. Doubles(g, k + 1)
    BY <2>5, <2>6 DEF Doubles
  <2> QED BY <2>7
<1>3. \A k \in 0..len : k \in T
  <2> HIDE DEF T
  <2> QED BY <1>1, <1>2, Upto
<1> QED BY <1>3

(* Sizes are positive, grow, and fit into a page with its arena_t.         *)
LEMMA BlockSizes ==
  /\ UnitCnt \in Units /\ PG_SIZE \in Nat \ {0} /\ ArenaSize \in Nat
  /\ \A u \in Units : /\ block_size[u] \in Nat \ {0} /\ block_size[u] <= block_size[UnitCnt]
                      /\ ArenaSize + block_size[u] <= PG_SIZE
<1>1. UnitCnt \in Nat \ {0} /\ MinBlock \in Nat \ {0} /\ UnitCnt \in Units
      /\ PG_SIZE \in Nat \ {0} /\ ArenaSize \in Nat
  BY MemoryAssumption DEF Units
<1>2. Doubles(block_size, UnitCnt)
  <2>1. PICK f : f = CHOOSE g : Doubles(g, UnitCnt)
    OBVIOUS
  <2>2. Doubles(f, UnitCnt)
    BY <1>1, <2>1, DoublesExist
  <2>3. block_size = CHOOSE g : Doubles(g, UnitCnt)
    BY DEF block_size, Doubles, Units
  <2> QED BY <2>1, <2>2, <2>3
<1>3. PICK b : b = block_size
  OBVIOUS
<1>4. \A u \in 1..UnitCnt : b[u] = IF u = 1 THEN MinBlock ELSE 2 * b[u - 1]
  BY <1>2, <1>3 DEF Doubles
<1> DEFINE T == {k \in 0..UnitCnt : \A u \in 1..k : b[u] \in Nat \ {0}}
           S == {k \in 0..UnitCnt : \A u \in UnitCnt - k..UnitCnt : u >= 1 => b[u] <= b[UnitCnt]}
<1>5. \A u \in 1..UnitCnt : b[u] \in Nat \ {0}
  <2>1. 0 \in T
    BY <1>1
  <2>2. ASSUME NEW k \in 0..UnitCnt - 1, k \in T PROVE k + 1 \in T
    <3>1. k + 1 \in 0..UnitCnt /\ k + 1 \in 1..UnitCnt /\ (k + 1) - 1 = k
      BY <1>1
    <3>2. b[k + 1] \in Nat \ {0}
      <4>1. CASE k = 0
        BY <1>1, <1>4, <3>1, <4>1
      <4>2. CASE k # 0
        <5>1. k \in 1..k /\ k + 1 # 1
          BY <4>2
        <5>2. b[k] \in Nat \ {0}
          BY <2>2, <5>1
        <5>3. b[k + 1] = 2 * b[k]
          BY <1>4, <3>1, <5>1
        <5> QED BY <5>2, <5>3
      <4> QED BY <4>1, <4>2
    <3>3. \A u \in 1..k + 1 : u \in 1..k \/ u = k + 1
      BY <3>1
    <3> QED BY <2>2, <3>1, <3>2, <3>3
  <2>3. \A k \in 0..UnitCnt : k \in T
    <3> HIDE DEF T
    <3> QED BY <1>1, <2>1, <2>2, Upto
  <2>4. UnitCnt \in T
    <3> HIDE DEF T
    <3> QED BY <1>1, <2>3
  <2> QED BY <2>4
<1>6. \A u \in 1..UnitCnt : b[u] <= b[UnitCnt]
  <2>1. 0 \in S
    <3>1. \A u \in UnitCnt - 0..UnitCnt : u = UnitCnt
      BY <1>1
    <3>2. b[UnitCnt] <= b[UnitCnt]
      BY <1>1, <1>5
    <3> QED BY <1>1, <3>1, <3>2
  <2>2. ASSUME NEW k \in 0..UnitCnt - 1, k \in S PROVE k + 1 \in S
    <3>1. k + 1 \in 0..UnitCnt
      BY <1>1
    <3>2. ASSUME NEW u \in UnitCnt - (k + 1)..UnitCnt, u >= 1 PROVE b[u] <= b[UnitCnt]
      <4>1. CASE u \in UnitCnt - k..UnitCnt
        BY <2>2, <3>2, <4>1
      <4>2. CASE u = UnitCnt - (k + 1)
        <5>1. /\ u + 1 \in UnitCnt - k..UnitCnt /\ u + 1 >= 1 /\ u + 1 # 1
              /\ u \in 1..UnitCnt /\ u + 1 \in 1..UnitCnt /\ (u + 1) - 1 = u
          BY <1>1, <3>2, <4>2
        <5>2. b[u + 1] <= b[UnitCnt] /\ b[u + 1] = 2 * b[u]
          BY <1>4, <2>2, <5>1
        <5>3. b[u] \in Nat /\ b[UnitCnt] \in Nat
          BY <1>1, <1>5, <5>1
        <5> QED BY <5>2, <5>3
      <4> QED BY <1>1, <3>2, <4>1, <4>2
    <3> QED BY <3>1, <3>2
  <2>3. UnitCnt \in S
    <3> HIDE DEF S
    <3>1. \A k \in 0..UnitCnt : k \in S
      BY <1>1, <2>1, <2>2, Upto
    <3> QED BY <1>1, <3>1
  <2>4. \A u \in 1..UnitCnt : u \in UnitCnt - UnitCnt..UnitCnt /\ u >= 1
    BY <1>1
  <2> QED BY <2>3, <2>4
<1>7. ASSUME NEW u \in Units PROVE ArenaSize + b[u] <= PG_SIZE
  <2>1. b[u] \in Nat /\ b[UnitCnt] \in Nat /\ b[u] <= b[UnitCnt]
    BY <1>1, <1>5, <1>6, <1>7 DEF Units
  <2>2. PG_SIZE >= ArenaSize + b[UnitCnt]
    BY <1>3, PageSizeAssumption
  <2> QED BY <1>1, <2>1, <2>2
<1> QED BY <1>1, <1>3, <1>5, <1>6, <1>7 DEF Units

Blocks(page, u) == {arena2block(page, u, k) : k \in 0..blocks_per_arena(u) - 1}

(* The blocks of an arena: in their page, behind its arena_t, in order.    *)
LEMMA BlockFacts ==
  ASSUME NEW page \in Nat, NEW u \in Units
  PROVE  /\ blocks_per_arena(u) \in Nat \ {0}
         /\ \A x \in Blocks(page, u) :
              /\ x \in Nat /\ block2arena(x) = page
              /\ page * PG_SIZE + ArenaSize <= x /\ x + block_size[u] <= page * PG_SIZE + PG_SIZE
         /\ \A j, k \in 0..blocks_per_arena(u) - 1 :
              j < k => arena2block(page, u, j) + block_size[u] <= arena2block(page, u, k)
<1>1. PICK s, p, a, n : s = block_size[u] /\ p = PG_SIZE /\ a = ArenaSize /\ n = blocks_per_arena(u)
  OBVIOUS
<1>2. s \in Nat \ {0} /\ p \in Nat \ {0} /\ a \in Nat /\ a + s <= p
  BY <1>1, BlockSizes
<1>3. n = (p - a) \div s /\ p - a \in Nat
  BY <1>1, <1>2 DEF blocks_per_arena
<1>4. n \in Nat /\ n * s <= p - a
  BY <1>2, <1>3, Quotient
<1>5. n # 0
  <2>1. p - a < n * s + s
    BY <1>2, <1>3, Quotient
  <2> QED BY <1>2, <1>4, <2>1
<1>6. page * p \in Nat
  BY <1>2
<1>7. ASSUME NEW k \in 0..n - 1
      PROVE  /\ k * s \in Nat /\ k * s + s <= p - a
             /\ arena2block(page, u, k) = page * p + a + k * s
  <2>1. k \in Nat /\ k < n
    BY <1>4
  <2>2. k * s + s <= n * s /\ k * s \in Nat /\ n * s \in Nat
    BY <1>2, <1>4, <2>1, Times
  <2> QED BY <1>1, <1>2, <1>3, <1>4, <2>2 DEF arena2block
<1>8. ASSUME NEW x \in Blocks(page, u)
      PROVE  /\ x \in Nat /\ block2arena(x) = page
             /\ page * p + a <= x /\ x + s <= page * p + p
  <2>1. PICK k \in 0..n - 1 : x = arena2block(page, u, k)
    BY <1>1 DEF Blocks
  <2>2. PICK ks : ks = k * s
    OBVIOUS
  <2>3. PICK pp : pp = page * p
    OBVIOUS
  <2>4. ks \in Nat /\ ks + s <= p - a /\ x = pp + a + ks /\ pp \in Nat
    BY <1>6, <1>7, <2>1, <2>2, <2>3
  <2>5. x \in Nat /\ pp + a <= x /\ x + s <= pp + p /\ pp <= x /\ x < pp + p
    BY <1>2, <2>4
  <2>6. x \div p = page
    BY <1>2, <2>3, <2>5, Quotient
  <2> QED BY <1>1, <2>3, <2>5, <2>6 DEF block2arena
<1>9. ASSUME NEW j \in 0..n - 1, NEW k \in 0..n - 1, j < k
      PROVE  arena2block(page, u, j) + s <= arena2block(page, u, k)
  <2>1. j * s + s <= k * s
    BY <1>2, <1>9, Times
  <2>2. PICK js, ks, pp : js = j * s /\ ks = k * s /\ pp = page * p
    OBVIOUS
  <2>3. js \in Nat /\ ks \in Nat /\ pp \in Nat /\ js + s <= ks
    BY <1>6, <1>7, <2>1, <2>2
  <2>4. arena2block(page, u, j) = pp + a + js /\ arena2block(page, u, k) = pp + a + ks
    BY <1>7, <2>2
  <2> QED BY <1>2, <2>3, <2>4
<1> QED BY <1>1, <1>4, <1>5, <1>8, <1>9

(* The free list of a new arena.                                           *)
LEMMA ArenaFacts ==
  ASSUME NEW page \in Nat, NEW u \in Units
  PROVE  /\ List(Arena(page, u)) /\ Range(Arena(page, u)) = Blocks(page, u)
         /\ Arena(page, u) # <<>>
         /\ IsFiniteSet(Blocks(page, u)) /\ Cardinality(Blocks(page, u)) = blocks_per_arena(u)
<1>1. PICK n : n = blocks_per_arena(u)
  OBVIOUS
<1>2. PICK s : s = Arena(page, u)
  OBVIOUS
<1>3. n \in Nat \ {0} /\ block_size[u] \in Nat \ {0}
  BY <1>1, BlockFacts, BlockSizes
<1>4. s = [k \in 1..n |-> arena2block(page, u, k - 1)]
  BY <1>1, <1>2 DEF Arena
<1>5. \A k \in 1..n : k - 1 \in 0..n - 1
  BY <1>3
<1>6. \A k \in 1..n : s[k] \in Blocks(page, u) /\ s[k] \in Nat
  BY <1>1, <1>4, <1>5, BlockFacts DEF Blocks
<1>7. \A j, k \in 1..n : s[j] = s[k] => j = k
  <2>1. ASSUME NEW j \in 1..n, NEW k \in 1..n, j < k PROVE s[j] # s[k]
    <3>1. j - 1 \in 0..n - 1 /\ k - 1 \in 0..n - 1 /\ j - 1 < k - 1
      BY <1>3, <2>1
    <3>2. s[j] + block_size[u] <= s[k]
      BY <1>1, <1>4, <3>1, BlockFacts
    <3> QED BY <1>3, <1>6, <3>2
  <2>2. \A j, k \in 1..n : j < k \/ k < j \/ j = k
    BY <1>3
  <2> QED BY <2>1, <2>2
<1>8. s \in Seq(Nat) /\ DOMAIN s = 1..n /\ s # <<>>
  <2>1. s \in [1..n -> Nat]
    BY <1>4, <1>6
  <2>2. s \in Seq(Nat) /\ DOMAIN s = 1..n
    BY <1>3, <2>1, IsASeq
  <2>3. 1 \in 1..n /\ DOMAIN <<>> = {}
    BY <1>3
  <2> QED BY <2>2, <2>3
<1>9. Range(s) = Blocks(page, u)
  <2>1. ASSUME NEW x \in Blocks(page, u) PROVE x \in Range(s)
    <3>1. PICK k \in 0..n - 1 : x = arena2block(page, u, k)
      BY <1>1 DEF Blocks
    <3>2. k + 1 \in 1..n /\ (k + 1) - 1 = k
      BY <1>3
    <3>3. s[k + 1] = x
      BY <1>4, <3>1, <3>2
    <3> QED BY <1>8, <3>2, <3>3 DEF Range
  <2> QED BY <1>6, <1>8, <2>1 DEF Range
<1>10. IsFiniteSet(Blocks(page, u)) /\ Cardinality(Blocks(page, u)) = n
  <2>1. s \in Bijection(1..n, Blocks(page, u))
    <3>1. s \in [1..n -> Blocks(page, u)]
      BY <1>4, <1>6
    <3>2. s \in Injection(1..n, Blocks(page, u))
      BY <1>7, <3>1 DEF Injection, IsInjective
    <3>3. s \in Surjection(1..n, Blocks(page, u))
      BY <1>8, <1>9, <3>1 DEF Surjection, Range
    <3> QED BY <3>2, <3>3 DEF Bijection
  <2>2. ExistsBijection(1..n, Blocks(page, u))
    BY <2>1 DEF ExistsBijection
  <2>3. IsFiniteSet(1..n) /\ Cardinality(1..n) = n
    BY <1>3, FS_Interval
  <2> QED BY <2>2, <2>3, FS_Bijection
<1> QED BY <1>1, <1>2, <1>7, <1>8, <1>9, <1>10 DEF List

-----------------------------------------------------------------------------
(* A heap: arenas A in the pages D, free blocks G by size, held pointers h *)

Span(A, page) == page..page + (IF A[page].unit = 0 THEN A[page].free_cnt ELSE 1) - 1

Arenas(A, D) ==
  \A page \in DOMAIN A :
    /\ page \in Nat
    /\ A[page] = [unit |-> A[page].unit, free_cnt |-> A[page].free_cnt]
    /\ A[page].unit \in 0..UnitCnt /\ A[page].free_cnt \in Nat
    /\ A[page].unit = 0 => A[page].free_cnt # 0
    /\ Span(A, page) \subseteq D
    /\ \A other \in DOMAIN A : page # other => Span(A, page) \cap Span(A, other) = {}

FreeListed(G, A) ==
  \A u \in Units : \A x \in G[u] :
    /\ block2arena(x) \in DOMAIN A /\ A[block2arena(x)].unit = u
    /\ x \in Blocks(block2arena(x), u)

HeldApart(G, A, h) ==
  \A x \in DOMAIN h :
    /\ block2arena(x) \in DOMAIN A /\ h[x] \in Nat
    /\ A[block2arena(x)].unit = 0 =>
         /\ x = block2arena(x) * PG_SIZE + ArenaSize
         /\ ArenaSize + h[x] <= A[block2arena(x)].free_cnt * PG_SIZE
    /\ A[block2arena(x)].unit # 0 =>
         /\ x \in Blocks(block2arena(x), A[block2arena(x)].unit)
         /\ x \notin G[A[block2arena(x)].unit]
         /\ h[x] <= block_size[A[block2arena(x)].unit]

FreeIn(G, A, page) == {x \in G[A[page].unit] : block2arena(x) = page}

Counted(G, A) ==
  \A page \in DOMAIN A :
    A[page].unit # 0 => A[page].free_cnt = Cardinality(FreeIn(G, A, page))

Cut(G, A, h, D) == Arenas(A, D) /\ FreeListed(G, A) /\ HeldApart(G, A, h) /\ Counted(G, A)

\* Every arena but the one of this page has a block in use.
InUse(A, page) ==
  \A other \in DOMAIN A \ {page} :
    A[other].unit # 0 => A[other].free_cnt < blocks_per_arena(A[other].unit)

(* The free blocks of an arena: finitely many, no more than it has.        *)
LEMMA FreeFinite ==
  ASSUME NEW G, NEW A, NEW h, NEW D, Cut(G, A, h, D), NEW page \in DOMAIN A, A[page].unit # 0
  PROVE  /\ A[page].unit \in Units /\ FreeIn(G, A, page) \subseteq Blocks(page, A[page].unit)
         /\ IsFiniteSet(FreeIn(G, A, page))
         /\ A[page].free_cnt = Cardinality(FreeIn(G, A, page))
         /\ A[page].free_cnt <= blocks_per_arena(A[page].unit)
         /\ A[page].free_cnt = blocks_per_arena(A[page].unit) =>
              FreeIn(G, A, page) = Blocks(page, A[page].unit)
<1>1. page \in Nat /\ A[page].unit \in 0..UnitCnt
  BY DEF Cut, Arenas
<1>2. A[page].unit \in Units
  BY <1>1, BlockSizes DEF Units
<1>3. FreeIn(G, A, page) \subseteq Blocks(page, A[page].unit)
  BY <1>2 DEF Cut, FreeListed, FreeIn
<1>4. /\ IsFiniteSet(Blocks(page, A[page].unit))
      /\ Cardinality(Blocks(page, A[page].unit)) = blocks_per_arena(A[page].unit)
  BY <1>1, <1>2, ArenaFacts
<1>5. A[page].free_cnt = Cardinality(FreeIn(G, A, page))
  BY DEF Cut, Counted
<1>6. /\ IsFiniteSet(FreeIn(G, A, page))
      /\ Cardinality(FreeIn(G, A, page)) <= Cardinality(Blocks(page, A[page].unit))
      /\ Cardinality(FreeIn(G, A, page)) = Cardinality(Blocks(page, A[page].unit)) =>
           FreeIn(G, A, page) = Blocks(page, A[page].unit)
  BY <1>3, <1>4, FS_Subset
<1> QED BY <1>2, <1>3, <1>4, <1>5, <1>6

(* A page of an arena is one of its pages.                                 *)
LEMMA SpanStarts ==
  ASSUME NEW A, NEW D, Arenas(A, D), NEW page \in DOMAIN A
  PROVE  page \in Span(A, page) /\ page \in D /\ page \in Nat
<1>1. page \in Nat /\ A[page].free_cnt \in Nat /\ (A[page].unit = 0 => A[page].free_cnt # 0)
  BY DEF Arenas
<1>2. page \in Span(A, page)
  BY <1>1 DEF Span
<1> QED BY <1>1, <1>2 DEF Arenas

(* A heap in more pages.                                                   *)
LEMMA MorePages ==
  ASSUME NEW G, NEW A, NEW h, NEW D, Cut(G, A, h, D), NEW E, D \subseteq E
  PROVE  Cut(G, A, h, E)
<1>1. Arenas(A, E)
  BY DEF Cut, Arenas
<1> QED BY <1>1 DEF Cut

(* The arena of a size whose free list is empty.                           *)
LEMMA NewArena ==
  ASSUME NEW G, NEW A, NEW h, NEW D, Cut(G, A, h, D), NEW page \in Nat, page \notin D,
         NEW u \in Units, G[u] = {},
         NEW E, E = D \cup {page},
         NEW G2, \A w \in Units : G2[w] = IF w = u THEN Blocks(page, u) ELSE G[w],
         NEW B, B = Extend(A, page, [unit |-> u, free_cnt |-> blocks_per_arena(u)])
  PROVE  Cut(G2, B, h, E) /\ (InUse(A, page) => InUse(B, page))
<1>1. page \notin DOMAIN A
  BY SpanStarts DEF Cut
<1>2. /\ DOMAIN B = DOMAIN A \cup {page}
      /\ B[page] = [unit |-> u, free_cnt |-> blocks_per_arena(u)]
      /\ \A other \in DOMAIN A : B[other] = A[other]
  <2>1. PICK y : y = [unit |-> u, free_cnt |-> blocks_per_arena(u)]
    OBVIOUS
  <2>2. B = Extend(A, page, y)
    BY <2>1
  <2> QED BY <1>1, <2>1, <2>2 DEF Extend
<1>3. blocks_per_arena(u) \in Nat \ {0} /\ u \in 0..UnitCnt /\ u # 0
  BY BlockFacts, BlockSizes DEF Units
<1>4. Span(B, page) = {page} /\ \A other \in DOMAIN A : Span(B, other) = Span(A, other)
  <2>1. Span(B, page) = page..page
    BY <1>2, <1>3 DEF Span
  <2>2. page..page = {page}
    OBVIOUS
  <2>3. \A other \in DOMAIN A : Span(B, other) = Span(A, other)
    BY <1>2 DEF Span
  <2> QED BY <2>1, <2>2, <2>3
<1>5. Arenas(B, E)
  <2>1. Arenas(A, D)
    BY DEF Cut
  <2>2. \A other \in DOMAIN A : page \notin Span(A, other)
    BY <2>1 DEF Arenas
  <2>3. ASSUME NEW q \in DOMAIN A
        PROVE  /\ q \in Nat /\ B[q] = [unit |-> B[q].unit, free_cnt |-> B[q].free_cnt]
               /\ B[q].unit \in 0..UnitCnt /\ B[q].free_cnt \in Nat
               /\ B[q].unit = 0 => B[q].free_cnt # 0
               /\ Span(B, q) \subseteq E
               /\ \A other \in DOMAIN B : q # other => Span(B, q) \cap Span(B, other) = {}
    <3>1. Span(A, q) \subseteq D
      BY <2>1 DEF Arenas
    <3>2. \A other \in DOMAIN A : q # other => Span(A, q) \cap Span(A, other) = {}
      BY <2>1 DEF Arenas
    <3>3. \A other \in DOMAIN B : q # other => Span(B, q) \cap Span(B, other) = {}
      BY <1>2, <1>4, <2>2, <3>2
    <3>4. /\ q \in Nat /\ A[q] = [unit |-> A[q].unit, free_cnt |-> A[q].free_cnt]
          /\ A[q].unit \in 0..UnitCnt /\ A[q].free_cnt \in Nat
          /\ A[q].unit = 0 => A[q].free_cnt # 0
      BY <2>1 DEF Arenas
    <3> QED BY <1>2, <1>4, <3>1, <3>3, <3>4
  <2>4. \A other \in DOMAIN B : page # other => Span(B, page) \cap Span(B, other) = {}
    BY <1>2, <1>4, <2>2
  <2>5. /\ page \in Nat /\ B[page] = [unit |-> B[page].unit, free_cnt |-> B[page].free_cnt]
        /\ B[page].unit \in 0..UnitCnt /\ B[page].free_cnt \in Nat
        /\ B[page].unit = 0 => B[page].free_cnt # 0
        /\ Span(B, page) \subseteq E
    BY <1>2, <1>3, <1>4
  <2> QED BY <1>2, <2>3, <2>4, <2>5 DEF Arenas
<1>6. FreeListed(G2, B)
  <2>1. ASSUME NEW w \in Units, NEW x \in G2[w]
        PROVE  /\ block2arena(x) \in DOMAIN B /\ B[block2arena(x)].unit = w
               /\ x \in Blocks(block2arena(x), w)
    <3>1. CASE w = u
      <4>1. x \in Blocks(page, u)
        BY <2>1, <3>1
      <4>2. block2arena(x) = page
        BY <4>1, BlockFacts
      <4> QED BY <1>2, <3>1, <4>1, <4>2
    <3>2. CASE w # u
      <4>1. x \in G[w]
        BY <2>1, <3>2
      <4> QED BY <1>2, <4>1 DEF Cut, FreeListed
    <3> QED BY <3>1, <3>2
  <2> QED BY <2>1 DEF FreeListed
<1>7. HeldApart(G2, B, h)
  <2>1. ASSUME NEW x \in DOMAIN h, NEW q, q = block2arena(x)
        PROVE  /\ q \in DOMAIN B /\ h[x] \in Nat
               /\ B[q].unit = 0 => x = q * PG_SIZE + ArenaSize /\ ArenaSize + h[x] <= B[q].free_cnt * PG_SIZE
               /\ B[q].unit # 0 => /\ x \in Blocks(q, B[q].unit) /\ x \notin G2[B[q].unit]
                                   /\ h[x] <= block_size[B[q].unit]
    <3>1. q \in DOMAIN A /\ B[q] = A[q] /\ q # page
      BY <1>1, <1>2, <2>1 DEF Cut, HeldApart
    <3>2. /\ h[x] \in Nat
          /\ A[q].unit = 0 => x = q * PG_SIZE + ArenaSize /\ ArenaSize + h[x] <= A[q].free_cnt * PG_SIZE
          /\ A[q].unit # 0 => /\ x \in Blocks(q, A[q].unit) /\ x \notin G[A[q].unit]
                              /\ h[x] <= block_size[A[q].unit]
      BY <2>1 DEF Cut, HeldApart
    <3>3. A[q].unit # 0 => A[q].unit \in Units
      BY <3>1, FreeFinite
    <3>4. x \notin Blocks(page, u)
      BY <2>1, <3>1, BlockFacts
    <3>5. A[q].unit # 0 => x \notin G2[A[q].unit]
      BY <3>2, <3>3, <3>4
    <3> QED BY <1>2, <3>1, <3>2, <3>5
  <2> QED BY <2>1 DEF HeldApart
<1>8. Counted(G2, B)
  <2>1. ASSUME NEW q \in DOMAIN A, A[q].unit # 0
        PROVE  B[q].free_cnt = Cardinality(FreeIn(G2, B, q))
    <3>1. A[q].unit \in Units /\ A[q].free_cnt = Cardinality(FreeIn(G, A, q)) /\ B[q] = A[q]
      BY <1>2, <2>1, FreeFinite
    <3>2. FreeIn(G2, B, q) = FreeIn(G, A, q)
      <4>1. CASE A[q].unit = u
        <5>1. \A x \in Blocks(page, u) : block2arena(x) # q
          BY <1>1, BlockFacts
        <5> QED BY <3>1, <4>1, <5>1 DEF FreeIn
      <4>2. CASE A[q].unit # u
        BY <3>1, <4>2 DEF FreeIn
      <4> QED BY <4>1, <4>2
    <3> QED BY <3>1, <3>2
  <2>2. B[page].free_cnt = Cardinality(FreeIn(G2, B, page))
    <3>1. FreeIn(G2, B, page) = Blocks(page, u)
      BY <1>2, BlockFacts DEF FreeIn
    <3> QED BY <1>2, <3>1, ArenaFacts
  <2> QED BY <1>2, <2>1, <2>2 DEF Counted
<1>9. InUse(A, page) => InUse(B, page)
  BY <1>2 DEF InUse
<1> QED BY <1>5, <1>6, <1>7, <1>8, <1>9 DEF Cut

(* The arena_t of an allocation of whole pages.                            *)
LEMMA NewLarge ==
  ASSUME NEW G, NEW A, NEW h, NEW D, Cut(G, A, h, D), NEW page \in Nat, NEW cnt \in Nat \ {0},
         page..page + cnt - 1 \cap D = {}, NEW E, E = D \cup page..page + cnt - 1,
         NEW size \in Nat, ArenaSize + size <= cnt * PG_SIZE,
         NEW B, B = Extend(A, page, [unit |-> 0, free_cnt |-> cnt]),
         NEW g, g = Extend(h, page * PG_SIZE + ArenaSize, size)
  PROVE  Cut(G, B, g, E) /\ (InUse(A, page) => InUse(B, page))
<1> DEFINE run == page..page + cnt - 1
           ptr == page * PG_SIZE + ArenaSize
<1>1. page \in run /\ page \notin DOMAIN A
  <2>1. page \in run
    OBVIOUS
  <2> QED BY <2>1, SpanStarts DEF Cut
<1>2. /\ DOMAIN B = DOMAIN A \cup {page}
      /\ B[page] = [unit |-> 0, free_cnt |-> cnt]
      /\ \A other \in DOMAIN A : B[other] = A[other]
  <2>1. PICK y : y = [unit |-> 0, free_cnt |-> cnt]
    OBVIOUS
  <2>2. B = Extend(A, page, y)
    BY <2>1
  <2> QED BY <1>1, <2>1, <2>2 DEF Extend
<1>3. block2arena(ptr) = page
  <2>1. PICK pp : pp = page * PG_SIZE
    OBVIOUS
  <2>2. PICK p, a : p = PG_SIZE /\ a = ArenaSize
    OBVIOUS
  <2>3. p \in Nat \ {0} /\ a \in Nat /\ a < p
    <3>1. /\ PG_SIZE \in Nat \ {0} /\ ArenaSize \in Nat /\ UnitCnt \in Units
          /\ block_size[UnitCnt] \in Nat \ {0} /\ ArenaSize + block_size[UnitCnt] <= PG_SIZE
      BY BlockSizes
    <3> QED BY <2>2, <3>1
  <2>4. pp \in Nat /\ pp <= pp + a /\ pp + a < pp + p /\ pp + a \in Nat
    BY <2>1, <2>2, <2>3
  <2>5. (pp + a) \div p = page
    BY <2>1, <2>2, <2>3, <2>4, Quotient
  <2> QED BY <2>1, <2>2, <2>5 DEF block2arena
<1>4. /\ DOMAIN g = DOMAIN h \cup {ptr} /\ g[ptr] = size
      /\ \A x \in DOMAIN h : x # ptr => g[x] = h[x]
  <2> HIDE DEF ptr
  <2> QED BY DEF Extend, ptr
<1>5. Span(B, page) = run /\ \A other \in DOMAIN A : Span(B, other) = Span(A, other)
  BY <1>2 DEF Span
<1> HIDE DEF run, ptr
<1>6. Arenas(B, E)
  <2>1. Arenas(A, D)
    BY DEF Cut
  <2>2. \A other \in DOMAIN A : run \cap Span(A, other) = {}
    BY <2>1 DEF Arenas, run
  <2>3. ASSUME NEW q \in DOMAIN A
        PROVE  /\ q \in Nat /\ B[q] = [unit |-> B[q].unit, free_cnt |-> B[q].free_cnt]
               /\ B[q].unit \in 0..UnitCnt /\ B[q].free_cnt \in Nat
               /\ B[q].unit = 0 => B[q].free_cnt # 0
               /\ Span(B, q) \subseteq E
               /\ \A other \in DOMAIN B : q # other => Span(B, q) \cap Span(B, other) = {}
    <3>1. Span(A, q) \subseteq D
      BY <2>1 DEF Arenas
    <3>2. \A other \in DOMAIN A : q # other => Span(A, q) \cap Span(A, other) = {}
      BY <2>1 DEF Arenas
    <3>3. \A other \in DOMAIN B : q # other => Span(B, q) \cap Span(B, other) = {}
      BY <1>2, <1>5, <2>2, <3>2
    <3>4. /\ q \in Nat /\ A[q] = [unit |-> A[q].unit, free_cnt |-> A[q].free_cnt]
          /\ A[q].unit \in 0..UnitCnt /\ A[q].free_cnt \in Nat
          /\ A[q].unit = 0 => A[q].free_cnt # 0
      BY <2>1 DEF Arenas
    <3> QED BY <1>2, <1>5, <3>1, <3>3, <3>4
  <2>4. \A other \in DOMAIN B : page # other => Span(B, page) \cap Span(B, other) = {}
    BY <1>2, <1>5, <2>2
  <2>5. /\ page \in Nat /\ B[page] = [unit |-> B[page].unit, free_cnt |-> B[page].free_cnt]
        /\ B[page].unit \in 0..UnitCnt /\ B[page].free_cnt \in Nat
        /\ B[page].unit = 0 => B[page].free_cnt # 0
        /\ Span(B, page) \subseteq E
    <3>1. 0 \in 0..UnitCnt
      BY BlockSizes DEF Units
    <3> QED BY <1>2, <1>5, <3>1 DEF run
  <2> QED BY <1>2, <2>3, <2>4, <2>5 DEF Arenas
<1>7. FreeListed(G, B)
  BY <1>2 DEF Cut, FreeListed
<1>8. HeldApart(G, B, g)
  <2>1. ASSUME NEW x \in DOMAIN h, x # ptr, NEW q, q = block2arena(x)
        PROVE  /\ q \in DOMAIN B /\ g[x] \in Nat
               /\ B[q].unit = 0 => x = q * PG_SIZE + ArenaSize /\ ArenaSize + g[x] <= B[q].free_cnt * PG_SIZE
               /\ B[q].unit # 0 => /\ x \in Blocks(q, B[q].unit) /\ x \notin G[B[q].unit]
                                   /\ g[x] <= block_size[B[q].unit]
    <3>1. q \in DOMAIN A /\ B[q] = A[q] /\ g[x] = h[x]
      BY <1>2, <1>4, <2>1 DEF Cut, HeldApart
    <3> QED BY <1>2, <2>1, <3>1 DEF Cut, HeldApart
  <2>2. B[page].unit = 0 /\ ArenaSize + g[ptr] <= B[page].free_cnt * PG_SIZE /\ g[ptr] \in Nat
    BY <1>2, <1>4
  <2>3. ptr = page * PG_SIZE + ArenaSize
    BY DEF ptr
  <2> QED BY <1>2, <1>3, <1>4, <2>1, <2>2, <2>3 DEF HeldApart
<1>9. Counted(G, B)
  <2>1. \A q \in DOMAIN A : FreeIn(G, B, q) = FreeIn(G, A, q)
    BY <1>2 DEF FreeIn
  <2> QED BY <1>2, <2>1 DEF Cut, Counted
<1>10. InUse(A, page) => InUse(B, page)
  BY <1>2 DEF InUse
<1> QED BY <1>6, <1>7, <1>8, <1>9, <1>10 DEF Cut

\* A with free_cnt of one arena set to c.
SetCnt(A, page, c) == [A EXCEPT ![page].free_cnt = c]

(* Setting free_cnt of an arena of blocks changes nothing else.            *)
LEMMA CntSet ==
  ASSUME NEW A, NEW D, Arenas(A, D), NEW page \in DOMAIN A, A[page].unit # 0, NEW c \in Nat,
         NEW B, B = SetCnt(A, page, c)
  PROVE  /\ DOMAIN B = DOMAIN A /\ B[page] = [unit |-> A[page].unit, free_cnt |-> c]
         /\ \A q \in DOMAIN A : q # page => B[q] = A[q]
         /\ \A q \in DOMAIN A : B[q].unit = A[q].unit /\ Span(B, q) = Span(A, q)
         /\ Arenas(B, D)
<1>1. DOMAIN B = DOMAIN A /\ \A q \in DOMAIN A : q # page => B[q] = A[q]
  BY DEF SetCnt
<1>2. B[page] = [unit |-> A[page].unit, free_cnt |-> c]
  <2>1. A[page] = [unit |-> A[page].unit, free_cnt |-> A[page].free_cnt]
    BY DEF Arenas
  <2>2. B[page] = [A[page] EXCEPT !.free_cnt = c]
    BY DEF SetCnt
  <2> QED BY <2>1, <2>2
<1>3. \A q \in DOMAIN A : B[q].unit = A[q].unit /\ Span(B, q) = Span(A, q)
  BY <1>1, <1>2 DEF Span
<1>4. ASSUME NEW q \in DOMAIN B
      PROVE  /\ q \in Nat /\ B[q] = [unit |-> B[q].unit, free_cnt |-> B[q].free_cnt]
             /\ B[q].unit \in 0..UnitCnt /\ B[q].free_cnt \in Nat
             /\ B[q].unit = 0 => B[q].free_cnt # 0
             /\ Span(B, q) \subseteq D
             /\ \A other \in DOMAIN B : q # other => Span(B, q) \cap Span(B, other) = {}
  <2>1. /\ q \in Nat /\ A[q] = [unit |-> A[q].unit, free_cnt |-> A[q].free_cnt]
        /\ A[q].unit \in 0..UnitCnt /\ A[q].free_cnt \in Nat
        /\ A[q].unit = 0 => A[q].free_cnt # 0
        /\ Span(A, q) \subseteq D
        /\ \A other \in DOMAIN A : q # other => Span(A, q) \cap Span(A, other) = {}
    BY <1>1 DEF Arenas
  <2>2. \A other \in DOMAIN B : q # other => Span(B, q) \cap Span(B, other) = {}
    BY <1>1, <1>3, <2>1
  <2>3. Span(B, q) \subseteq D /\ B[q].unit = A[q].unit
    BY <1>1, <1>3, <2>1
  <2>4. B[q].free_cnt \in Nat /\ B[q] = [unit |-> B[q].unit, free_cnt |-> B[q].free_cnt]
        /\ (B[q].unit = 0 => B[q].free_cnt # 0)
    BY <1>1, <1>2, <2>1
  <2> QED BY <2>1, <2>2, <2>3, <2>4
<1>5. Arenas(B, D)
  BY <1>4 DEF Arenas
<1> QED BY <1>1, <1>2, <1>3, <1>5

OneLess(G2, G, u, x) == \A w \in Units : G2[w] = IF w = u THEN G[u] \ {x} ELSE G[w]
OneMore(G2, G, u, x) == \A w \in Units : G2[w] = IF w = u THEN G[u] \cup {x} ELSE G[w]

(* A block is taken from a free list.                                      *)
LEMMA TakeBlock ==
  ASSUME NEW G, NEW A, NEW h, NEW D, Cut(G, A, h, D), NEW u \in Units, NEW x \in G[u],
         NEW size \in Nat, size <= block_size[u], NEW page, page = block2arena(x), InUse(A, page),
         NEW G2, OneLess(G2, G, u, x),
         NEW c, c = A[page].free_cnt - 1, NEW B, B = SetCnt(A, page, c),
         NEW g, g = Extend(h, x, size)
  PROVE  Cut(G2, B, g, D) /\ InUse(B, -1)
<1>0. \A w \in Units : G2[w] = IF w = u THEN G[u] \ {x} ELSE G[w]
  BY DEF OneLess
<1>1. page \in DOMAIN A /\ A[page].unit = u /\ x \in Blocks(page, u) /\ u # 0
  BY BlockSizes DEF Cut, FreeListed, Units
<1>2. /\ IsFiniteSet(FreeIn(G, A, page)) /\ A[page].free_cnt = Cardinality(FreeIn(G, A, page))
      /\ A[page].free_cnt <= blocks_per_arena(u)
  BY <1>1, FreeFinite
<1>3. page \in Nat /\ A[page].free_cnt \in Nat /\ blocks_per_arena(u) \in Nat
  BY <1>1, BlockFacts DEF Cut, Arenas
<1>4. PICK less : less = FreeIn(G, A, page) \ {x}
  OBVIOUS
<1>5. x \in FreeIn(G, A, page) /\ Cardinality(less) = A[page].free_cnt - 1 /\ IsFiniteSet(less)
  <2>1. x \in FreeIn(G, A, page)
    BY <1>1 DEF FreeIn
  <2> QED BY <1>2, <1>4, <2>1, FS_RemoveElement
<1>6. A[page].free_cnt - 1 \in Nat
  BY <1>5, FS_CardinalityType
<1>7. c = A[page].free_cnt - 1
  OBVIOUS
<1>8. /\ DOMAIN B = DOMAIN A /\ B[page] = [unit |-> u, free_cnt |-> c]
      /\ \A q \in DOMAIN A : q # page => B[q] = A[q]
      /\ \A q \in DOMAIN A : B[q].unit = A[q].unit /\ Span(B, q) = Span(A, q)
      /\ Arenas(B, D)
  <2>1. c \in Nat /\ B = SetCnt(A, page, c) /\ A[page].unit # 0 /\ Arenas(A, D)
    BY <1>1, <1>6, <1>7 DEF Cut
  <2> QED BY <1>1, <2>1, CntSet
<1>9. FreeListed(G2, B)
  <2>1. \A w \in Units : \A y \in G2[w] : y \in G[w]
    BY <1>0
  <2> QED BY <1>8, <2>1 DEF Cut, FreeListed
<1>10. /\ DOMAIN g = DOMAIN h \cup {x} /\ g[x] = size
       /\ \A y \in DOMAIN h : y # x => g[y] = h[y]
  BY DEF Extend
<1>11. HeldApart(G2, B, g)
  <2>1. ASSUME NEW y \in DOMAIN h, y # x, NEW q, q = block2arena(y)
        PROVE  /\ q \in DOMAIN B /\ g[y] \in Nat
               /\ B[q].unit = 0 => y = q * PG_SIZE + ArenaSize /\ ArenaSize + g[y] <= B[q].free_cnt * PG_SIZE
               /\ B[q].unit # 0 => /\ y \in Blocks(q, B[q].unit) /\ y \notin G2[B[q].unit]
                                   /\ g[y] <= block_size[B[q].unit]
    <3>1. /\ q \in DOMAIN A /\ h[y] \in Nat
          /\ A[q].unit = 0 => y = q * PG_SIZE + ArenaSize /\ ArenaSize + h[y] <= A[q].free_cnt * PG_SIZE
          /\ A[q].unit # 0 => /\ y \in Blocks(q, A[q].unit) /\ y \notin G[A[q].unit]
                              /\ h[y] <= block_size[A[q].unit]
      BY <2>1 DEF Cut, HeldApart
    <3>2. A[q].unit # 0 => A[q].unit \in Units
      BY <3>1, FreeFinite
    <3>3. A[q].unit # 0 => y \notin G2[A[q].unit]
      BY <1>0, <3>1, <3>2
    <3>4. q \in DOMAIN B /\ B[q].unit = A[q].unit /\ g[y] = h[y]
      BY <1>8, <1>10, <2>1, <3>1
    <3>5. A[q].unit = 0 => B[q].free_cnt = A[q].free_cnt
      BY <1>1, <1>8, <3>1
    <3> QED BY <3>1, <3>3, <3>4, <3>5
  <2>2. /\ page \in DOMAIN B /\ g[x] \in Nat /\ B[page].unit = u
        /\ x \in Blocks(page, u) /\ x \notin G2[u] /\ g[x] <= block_size[u]
    BY <1>0, <1>1, <1>8, <1>10
  <2> QED BY <1>1, <1>10, <2>1, <2>2 DEF HeldApart
<1>12. Counted(G2, B)
  <2>1. B[page].free_cnt = Cardinality(FreeIn(G2, B, page))
    <3>1. FreeIn(G2, B, page) = less
      BY <1>0, <1>1, <1>4, <1>8 DEF FreeIn
    <3> QED BY <1>5, <1>7, <1>8, <3>1
  <2>2. ASSUME NEW q \in DOMAIN A, q # page, A[q].unit # 0
        PROVE  B[q].free_cnt = Cardinality(FreeIn(G2, B, q))
    <3>1. A[q].unit \in Units /\ A[q].free_cnt = Cardinality(FreeIn(G, A, q)) /\ B[q] = A[q]
      BY <1>8, <2>2, FreeFinite
    <3>2. FreeIn(G2, B, q) = FreeIn(G, A, q)
      BY <1>0, <2>2, <3>1 DEF FreeIn
    <3> QED BY <3>1, <3>2
  <2> QED BY <1>8, <2>1, <2>2 DEF Counted
<1>13. InUse(B, -1)
  <2>1. B[page].free_cnt < blocks_per_arena(B[page].unit)
    <3>1. c < blocks_per_arena(u)
      BY <1>2, <1>3, <1>6, <1>7
    <3> QED BY <1>8, <3>1
  <2> QED BY <1>8, <2>1 DEF InUse
<1> QED BY <1>8, <1>9, <1>11, <1>12, <1>13 DEF Cut

\* A block x of this page and of this size, held.
HeldBlock(A, h, x, page, u) ==
  x \in DOMAIN h /\ page = block2arena(x) /\ u = A[page].unit /\ u # 0

(* A block goes back to its free list.                                     *)
LEMMA GiveBlock ==
  ASSUME NEW G, NEW A, NEW h, NEW D, Cut(G, A, h, D), NEW x, NEW page, NEW u,
         HeldBlock(A, h, x, page, u), InUse(A, -1),
         NEW G2, OneMore(G2, G, u, x),
         NEW c, c = A[page].free_cnt + 1, NEW B, B = SetCnt(A, page, c),
         NEW g, g = Without(h, x)
  PROVE  /\ Cut(G2, B, g, D) /\ InUse(B, page) /\ x \notin G[u] /\ u \in Units
         /\ page \in Nat /\ page \in DOMAIN A /\ x \in Blocks(page, u)
         /\ A[page].free_cnt + 1 # blocks_per_arena(u) => InUse(B, -1)
<1>0. \A w \in Units : G2[w] = IF w = u THEN G[u] \cup {x} ELSE G[w]
  BY DEF OneMore
<1>15. x \in DOMAIN h /\ page = block2arena(x) /\ u = A[page].unit /\ u # 0
  BY DEF HeldBlock
<1>1. page \in DOMAIN A /\ x \in Blocks(page, u) /\ x \notin G[u] /\ u \in Units
  <2>1. page \in DOMAIN A /\ x \in Blocks(page, u) /\ x \notin G[u]
    BY <1>15 DEF Cut, HeldApart
  <2> QED BY <1>15, <2>1, FreeFinite
<1>2. /\ IsFiniteSet(FreeIn(G, A, page)) /\ A[page].free_cnt = Cardinality(FreeIn(G, A, page))
  BY <1>15, <1>1, FreeFinite
<1>3. page \in Nat /\ A[page].free_cnt \in Nat /\ blocks_per_arena(u) \in Nat
  BY <1>15, <1>1, BlockFacts DEF Cut, Arenas
<1>4. PICK more : more = FreeIn(G, A, page) \cup {x}
  OBVIOUS
<1>5. Cardinality(more) = A[page].free_cnt + 1
  <2>1. x \notin FreeIn(G, A, page)
    BY <1>15, <1>1 DEF FreeIn
  <2>2. PICK free : free = FreeIn(G, A, page)
    OBVIOUS
  <2>3. Cardinality(free \cup {x}) = Cardinality(free) + 1
    BY <1>15, <1>2, <2>1, <2>2, FS_AddElement
  <2> QED BY <1>15, <1>2, <1>4, <2>2, <2>3
<1>6. c = A[page].free_cnt + 1
  OBVIOUS
<1>7. /\ DOMAIN B = DOMAIN A /\ B[page] = [unit |-> u, free_cnt |-> c]
      /\ \A q \in DOMAIN A : q # page => B[q] = A[q]
      /\ \A q \in DOMAIN A : B[q].unit = A[q].unit /\ Span(B, q) = Span(A, q)
      /\ Arenas(B, D)
  <2>1. c \in Nat /\ B = SetCnt(A, page, c) /\ A[page].unit # 0 /\ Arenas(A, D)
    BY <1>15, <1>3, <1>6 DEF Cut
  <2> QED BY <1>15, <1>1, <2>1, CntSet
<1>8. FreeListed(G2, B)
  <2>1. ASSUME NEW w \in Units, NEW y \in G2[w], y \in G[w]
        PROVE  /\ block2arena(y) \in DOMAIN B /\ B[block2arena(y)].unit = w
               /\ y \in Blocks(block2arena(y), w)
    BY <1>15, <1>7, <2>1 DEF Cut, FreeListed
  <2>2. \A w \in Units : \A y \in G2[w] : y \in G[w] \/ (w = u /\ y = x)
    BY <1>0
  <2>3. block2arena(x) \in DOMAIN B /\ B[block2arena(x)].unit = u /\ x \in Blocks(block2arena(x), u)
    BY <1>15, <1>1, <1>7
  <2> QED BY <2>1, <2>2, <2>3 DEF FreeListed
<1>9. DOMAIN g = DOMAIN h \ {x} /\ \A y \in DOMAIN g : g[y] = h[y]
  BY DEF Without, Restrict
<1>10. HeldApart(G2, B, g)
  <2>1. ASSUME NEW y \in DOMAIN g, NEW q, q = block2arena(y)
        PROVE  /\ q \in DOMAIN B /\ g[y] \in Nat
               /\ B[q].unit = 0 => y = q * PG_SIZE + ArenaSize /\ ArenaSize + g[y] <= B[q].free_cnt * PG_SIZE
               /\ B[q].unit # 0 => /\ y \in Blocks(q, B[q].unit) /\ y \notin G2[B[q].unit]
                                   /\ g[y] <= block_size[B[q].unit]
    <3>1. /\ q \in DOMAIN A /\ h[y] \in Nat
          /\ A[q].unit = 0 => y = q * PG_SIZE + ArenaSize /\ ArenaSize + h[y] <= A[q].free_cnt * PG_SIZE
          /\ A[q].unit # 0 => /\ y \in Blocks(q, A[q].unit) /\ y \notin G[A[q].unit]
                              /\ h[y] <= block_size[A[q].unit]
      BY <1>15, <1>9, <2>1 DEF Cut, HeldApart
    <3>2. A[q].unit # 0 => A[q].unit \in Units
      BY <3>1, FreeFinite
    <3>3. y # x
      BY <1>15, <1>9
    <3>4. A[q].unit # 0 => y \notin G2[A[q].unit]
      BY <1>0, <3>1, <3>2, <3>3
    <3>5. q \in DOMAIN B /\ B[q].unit = A[q].unit /\ g[y] = h[y]
      BY <1>15, <1>7, <1>9, <2>1, <3>1
    <3>6. A[q].unit = 0 => B[q].free_cnt = A[q].free_cnt
      BY <1>15, <1>1, <1>7, <3>1
    <3> QED BY <3>1, <3>4, <3>5, <3>6
  <2> QED BY <2>1 DEF HeldApart
<1>11. Counted(G2, B)
  <2>1. B[page].free_cnt = Cardinality(FreeIn(G2, B, page))
    <3>1. FreeIn(G2, B, page) = more
      BY <1>0, <1>15, <1>1, <1>4, <1>7 DEF FreeIn
    <3> QED BY <1>15, <1>5, <1>6, <1>7, <3>1
  <2>2. ASSUME NEW q \in DOMAIN A, q # page, A[q].unit # 0
        PROVE  B[q].free_cnt = Cardinality(FreeIn(G2, B, q))
    <3>1. A[q].unit \in Units /\ A[q].free_cnt = Cardinality(FreeIn(G, A, q)) /\ B[q] = A[q]
      BY <1>15, <1>7, <2>2, FreeFinite
    <3>2. FreeIn(G2, B, q) = FreeIn(G, A, q)
      BY <1>0, <1>15, <2>2, <3>1 DEF FreeIn
    <3> QED BY <3>1, <3>2
  <2> QED BY <1>15, <1>7, <2>1, <2>2 DEF Counted
<1>12. Cut(G2, B, g, D)
  BY <1>15, <1>7, <1>8, <1>10, <1>11 DEF Cut
<1>13. InUse(B, page)
  <2>1. \A q \in DOMAIN A : q # -1
    BY DEF Cut, Arenas
  <2> QED BY <1>15, <1>7, <2>1 DEF InUse
<1>14. ASSUME A[page].free_cnt + 1 # blocks_per_arena(u) PROVE InUse(B, -1)
  <2>1. B[page].free_cnt <= blocks_per_arena(B[page].unit)
    BY <1>15, <1>1, <1>7, <1>12, FreeFinite
  <2>2. c < blocks_per_arena(u)
    BY <1>15, <1>3, <1>6, <1>7, <1>14, <2>1
  <2> QED BY <1>15, <1>7, <1>13, <2>2 DEF InUse
<1> QED BY <1>15, <1>1, <1>3, <1>12, <1>13, <1>14

(* An arena in which nothing is held goes back.                            *)
LEMMA DropArena ==
  ASSUME NEW G, NEW A, NEW h, NEW D, Cut(G, A, h, D), NEW page \in DOMAIN A, InUse(A, page),
         NEW g, DOMAIN g \subseteq DOMAIN h,
         \A x \in DOMAIN g : g[x] = h[x] /\ block2arena(x) # page,
         NEW G2, \A w \in Units : G2[w] = {x \in G[w] : block2arena(x) # page},
         NEW B, B = Without(A, page)
  PROVE  Cut(G2, B, g, D \ Span(A, page)) /\ InUse(B, -1)
<1>1. DOMAIN B = DOMAIN A \ {page} /\ \A q \in DOMAIN B : B[q] = A[q]
  BY DEF Without, Restrict
<1>2. \A q \in DOMAIN B : Span(B, q) = Span(A, q)
  BY <1>1 DEF Span
<1>3. Arenas(B, D \ Span(A, page))
  <2>1. ASSUME NEW q \in DOMAIN B
        PROVE  /\ q \in Nat /\ B[q] = [unit |-> B[q].unit, free_cnt |-> B[q].free_cnt]
               /\ B[q].unit \in 0..UnitCnt /\ B[q].free_cnt \in Nat
               /\ B[q].unit = 0 => B[q].free_cnt # 0
               /\ Span(B, q) \subseteq D \ Span(A, page)
               /\ \A other \in DOMAIN B : q # other => Span(B, q) \cap Span(B, other) = {}
    <3>1. /\ q \in Nat /\ A[q] = [unit |-> A[q].unit, free_cnt |-> A[q].free_cnt]
          /\ A[q].unit \in 0..UnitCnt /\ A[q].free_cnt \in Nat
          /\ A[q].unit = 0 => A[q].free_cnt # 0
          /\ Span(A, q) \subseteq D
          /\ \A other \in DOMAIN A : q # other => Span(A, q) \cap Span(A, other) = {}
      BY <1>1 DEF Cut, Arenas
    <3>2. Span(B, q) \subseteq D \ Span(A, page)
      BY <1>1, <1>2, <3>1
    <3>3. \A other \in DOMAIN B : q # other => Span(B, q) \cap Span(B, other) = {}
      BY <1>1, <1>2, <3>1
    <3> QED BY <1>1, <3>1, <3>2, <3>3
  <2> QED BY <2>1 DEF Arenas
<1>4. FreeListed(G2, B)
  BY <1>1 DEF Cut, FreeListed
<1>5. HeldApart(G2, B, g)
  <2>1. ASSUME NEW y \in DOMAIN g, NEW q, q = block2arena(y)
        PROVE  /\ q \in DOMAIN B /\ g[y] \in Nat
               /\ B[q].unit = 0 => y = q * PG_SIZE + ArenaSize /\ ArenaSize + g[y] <= B[q].free_cnt * PG_SIZE
               /\ B[q].unit # 0 => /\ y \in Blocks(q, B[q].unit) /\ y \notin G2[B[q].unit]
                                   /\ g[y] <= block_size[B[q].unit]
    <3>1. y \in DOMAIN h /\ g[y] = h[y] /\ q # page
      BY <2>1
    <3>2. /\ q \in DOMAIN A /\ h[y] \in Nat
          /\ A[q].unit = 0 => y = q * PG_SIZE + ArenaSize /\ ArenaSize + h[y] <= A[q].free_cnt * PG_SIZE
          /\ A[q].unit # 0 => /\ y \in Blocks(q, A[q].unit) /\ y \notin G[A[q].unit]
                              /\ h[y] <= block_size[A[q].unit]
      BY <2>1, <3>1 DEF Cut, HeldApart
    <3>3. A[q].unit # 0 => A[q].unit \in Units
      BY <3>2, FreeFinite
    <3>4. A[q].unit # 0 => y \notin G2[A[q].unit]
      BY <3>2, <3>3
    <3> QED BY <1>1, <3>1, <3>2, <3>4
  <2> QED BY <2>1 DEF HeldApart
<1>6. Counted(G2, B)
  <2>1. ASSUME NEW q \in DOMAIN B, B[q].unit # 0
        PROVE  B[q].free_cnt = Cardinality(FreeIn(G2, B, q))
    <3>1. q \in DOMAIN A /\ q # page /\ B[q] = A[q] /\ A[q].unit # 0
      BY <1>1, <2>1
    <3>2. A[q].unit \in Units /\ A[q].free_cnt = Cardinality(FreeIn(G, A, q))
      BY <3>1, FreeFinite
    <3>3. FreeIn(G2, B, q) = FreeIn(G, A, q)
      BY <3>1, <3>2 DEF FreeIn
    <3> QED BY <3>1, <3>2, <3>3
  <2> QED BY <2>1 DEF Counted
<1>7. InUse(B, -1)
  BY <1>1 DEF InUse
<1> QED BY <1>3, <1>4, <1>5, <1>6, <1>7 DEF Cut

(* When all blocks of an arena are free no other pointer into it is held.  *)
LEMMA LastFree ==
  ASSUME NEW G, NEW A, NEW h, NEW D, Cut(G, A, h, D), NEW page \in DOMAIN A, A[page].unit # 0,
         A[page].free_cnt = blocks_per_arena(A[page].unit), NEW x \in DOMAIN h
  PROVE  block2arena(x) # page
<1>1. FreeIn(G, A, page) = Blocks(page, A[page].unit)
  BY FreeFinite
<1>2. ASSUME block2arena(x) = page PROVE FALSE
  <2>1. x \in Blocks(page, A[page].unit) /\ x \notin G[A[page].unit]
    BY <1>2 DEF Cut, HeldApart
  <2> QED BY <1>1, <2>1 DEF FreeIn
<1> QED BY <1>2

-----------------------------------------------------------------------------
(* Whole heaps: the record of an owner, its held pointers h, its pages D   *)

\* The free lists as sets.
FreeSets(F) == [u \in Units |-> Range(F[u])]

\* The free lists are well formed, arenas, blocks and pointers fit together,
\* and every arena but that of page has a block in use.
HeapBut(H, h, D, page) ==
  /\ H = [free |-> H.free, arena |-> H.arena] /\ H.free = [u \in Units |-> H.free[u]]
  /\ \A u \in Units : List(H.free[u])
  /\ Cut(FreeSets(H.free), H.arena, h, D) /\ InUse(H.arena, page)

HeapOK(H, h, D) == HeapBut(H, h, D, -1)

(* A sound heap is sound but for any one page.                             *)
LEMMA HeapExcept ==
  ASSUME NEW H, NEW h, NEW D, HeapOK(H, h, D), NEW page
  PROVE  HeapBut(H, h, D, page)
<1>1. \A q \in DOMAIN H.arena : q # -1
  BY DEF HeapOK, HeapBut, Cut, Arenas
<1>2. InUse(H.arena, page)
  BY <1>1 DEF HeapOK, HeapBut, InUse
<1> QED BY <1>2 DEF HeapOK, HeapBut

(* A heap of nothing.                                                      *)
LEMMA EmptyHeapOK ==
  ASSUME NEW D
  PROVE  HeapOK(EmptyHeap, <<>>, D)
<1>1. List(<<>>) /\ Range(<<>>) = {}
  BY DEF List, Range
<1>2. DOMAIN <<>> = {}
  OBVIOUS
<1>3. /\ EmptyHeap = [free |-> EmptyHeap.free, arena |-> EmptyHeap.arena]
      /\ EmptyHeap.arena = <<>> /\ EmptyHeap.free = [u \in Units |-> EmptyHeap.free[u]]
      /\ \A u \in Units : EmptyHeap.free[u] = <<>>
  BY DEF EmptyHeap
<1>4. PICK e : e = <<>>
  OBVIOUS
<1>5. PICK G : G = FreeSets(EmptyHeap.free)
  OBVIOUS
<1>8. \A u \in Units : G[u] = {}
  <2>1. \A u \in Units : G[u] = Range(EmptyHeap.free[u])
    BY <1>5 DEF FreeSets
  <2> QED BY <1>1, <1>3, <2>1
<1>6. Cut(G, e, e, D)
  BY <1>2, <1>4, <1>8 DEF Cut, Arenas, FreeListed, HeldApart, Counted
<1>7. InUse(e, -1)
  BY <1>2, <1>4 DEF InUse
<1> QED BY <1>1, <1>3, <1>4, <1>5, <1>6, <1>7 DEF HeapOK, HeapBut

(* In no pages there is only the heap of nothing.                          *)
LEMMA NoPages ==
  ASSUME NEW H, NEW h, HeapOK(H, h, {})
  PROVE  /\ DOMAIN H.arena = {} /\ DOMAIN h = {} /\ \A u \in Units : Range(H.free[u]) = {}
<1>1. Cut(FreeSets(H.free), H.arena, h, {})
  BY DEF HeapOK, HeapBut
<1>2. DOMAIN H.arena = {}
  BY <1>1, SpanStarts DEF Cut
<1>3. DOMAIN h = {}
  BY <1>1, <1>2 DEF Cut, HeldApart
<1>4. \A u \in Units : Range(H.free[u]) = {}
  BY <1>1, <1>2 DEF Cut, FreeListed, FreeSets
<1> QED BY <1>2, <1>3, <1>4

(* A heap stays sound when its owner gets more pages.                      *)
LEMMA HeapMorePages ==
  ASSUME NEW H, NEW h, NEW D, HeapOK(H, h, D), NEW E, D \subseteq E
  PROVE  HeapOK(H, h, E)
<1>1. Cut(FreeSets(H.free), H.arena, h, E)
  BY MorePages DEF HeapOK, HeapBut
<1> QED BY <1>1 DEF HeapOK, HeapBut

(* The size sys_malloc chooses.                                            *)
LEMMA UnitFits ==
  ASSUME NEW size \in Nat, size <= block_size[UnitCnt]
  PROVE  Unit(size) \in Units /\ size <= block_size[Unit(size)]
<1>1. PICK S : S = {u \in Units : size <= block_size[u]}
  OBVIOUS
<1>2. S \in SUBSET Nat /\ S # {}
  BY <1>1, BlockSizes DEF Units
<1> QED BY <1>1, <1>2, LowestFacts DEF Unit

(* A free list: sets of one element more, of one less, of other blocks.    *)
LEMMA FreeSetsSet ==
  ASSUME NEW F, F = [u \in Units |-> F[u]], NEW u \in Units, NEW s, NEW E, E = [F EXCEPT ![u] = s]
  PROVE  /\ E = [w \in Units |-> E[w]] /\ E[u] = s /\ \A w \in Units : w # u => E[w] = F[w]
         /\ \A w \in Units : FreeSets(E)[w] = IF w = u THEN Range(s) ELSE FreeSets(F)[w]
<1>1. \A w \in Units : E[w] = IF w = u THEN s ELSE F[w]
  OBVIOUS
<1>2. E = [w \in Units |-> E[w]]
  OBVIOUS
<1> QED BY <1>1, <1>2 DEF FreeSets

\* The heap with a new arena.
WithArena(H, u, page) ==
  [free  |-> [H.free EXCEPT ![u] = Arena(page, u)],
   arena |-> Extend(H.arena, page, [unit |-> u, free_cnt |-> blocks_per_arena(u)])]

UsedUp(H, u) == H.free[u] = <<>>

(* An arena is made of a new page.                                         *)
LEMMA HeapNewArena ==
  ASSUME NEW H, NEW h, NEW D, HeapOK(H, h, D), NEW u \in Units, UsedUp(H, u),
         NEW page \in Nat, page \notin D, NEW E, E = D \cup {page},
         NEW K, K = WithArena(H, u, page)
  PROVE  /\ HeapBut(K, h, E, page) /\ ~UsedUp(K, u)
         /\ block2arena(Head(K.free[u])) = page
<1>1. PICK F, A, s : F = H.free /\ A = H.arena /\ s = Arena(page, u)
  OBVIOUS
<1>2. PICK E1, B : E1 = [F EXCEPT ![u] = s]
                   /\ B = Extend(A, page, [unit |-> u, free_cnt |-> blocks_per_arena(u)])
  OBVIOUS
<1>3. K = [free |-> E1, arena |-> B] /\ K.free = E1 /\ K.arena = B
  BY <1>1, <1>2 DEF WithArena
<1>4. List(s) /\ Range(s) = Blocks(page, u) /\ s # <<>>
  BY <1>1, ArenaFacts
<1>5. /\ F = [w \in Units |-> F[w]] /\ \A w \in Units : List(F[w])
      /\ Cut(FreeSets(F), A, h, D) /\ InUse(A, page)
  BY <1>1, HeapExcept DEF HeapBut
<1>6. /\ E1 = [w \in Units |-> E1[w]] /\ E1[u] = s /\ \A w \in Units : w # u => E1[w] = F[w]
      /\ \A w \in Units : FreeSets(E1)[w] = IF w = u THEN Blocks(page, u) ELSE FreeSets(F)[w]
  BY <1>2, <1>4, <1>5, FreeSetsSet
<1>7. FreeSets(F)[u] = {}
  <2>1. F[u] = <<>> /\ Range(<<>>) = {}
    BY <1>1 DEF Range, UsedUp
  <2> QED BY <2>1 DEF FreeSets
<1>8. Cut(FreeSets(E1), B, h, E) /\ InUse(B, page)
  <2>1. PICK G, G2, E2 : G = FreeSets(F) /\ G2 = FreeSets(E1) /\ E2 = D \cup {page}
    OBVIOUS
  <2>2. /\ Cut(G, A, h, D) /\ InUse(A, page) /\ G[u] = {}
        /\ \A w \in Units : G2[w] = IF w = u THEN Blocks(page, u) ELSE G[w]
    BY <1>5, <1>6, <1>7, <2>1
  <2>3. B = Extend(A, page, [unit |-> u, free_cnt |-> blocks_per_arena(u)])
    BY <1>2
  <2>4. Cut(G2, B, h, E2) /\ InUse(B, page)
    BY ONLY page \in Nat, page \notin D, u \in Units, <2>1, <2>2, <2>3, NewArena
  <2> QED BY <2>1, <2>4
<1>9. \A w \in Units : List(E1[w])
  BY <1>4, <1>5, <1>6
<1>10. block2arena(Head(s)) = page
  BY <1>4, TailFacts, BlockFacts
<1> QED BY <1>3, <1>4, <1>6, <1>8, <1>9, <1>10 DEF HeapBut, UsedUp

(* The first block of a free list is handed out.                           *)
LEMMA HeapTake ==
  ASSUME NEW H, NEW h, NEW D, NEW u \in Units, H.free[u] # <<>>,
         NEW x, x = Head(H.free[u]), HeapBut(H, h, D, block2arena(x)),
         NEW size \in Nat, size <= block_size[u],
         NEW K, K = [H EXCEPT !.free[u] = Tail(@), !.arena[block2arena(x)].free_cnt = @ - 1]
  PROVE  HeapOK(K, Extend(h, x, size), D)
<1>1. PICK F, A, page, s : F = H.free /\ A = H.arena /\ page = block2arena(x) /\ s = H.free[u]
  OBVIOUS
<1>2. /\ H = [free |-> F, arena |-> A] /\ F = [w \in Units |-> F[w]] /\ \A w \in Units : List(F[w])
      /\ Cut(FreeSets(F), A, h, D) /\ InUse(A, page)
  BY <1>1 DEF HeapBut
<1>3. PICK E, B : E = [F EXCEPT ![u] = Tail(s)] /\ B = SetCnt(A, page, A[page].free_cnt - 1)
  OBVIOUS
<1>4. x \in Range(s) /\ List(Tail(s)) /\ Range(Tail(s)) = Range(s) \ {x}
  BY <1>1, <1>2, TailFacts
<1>5. x \in FreeSets(F)[u] /\ FreeSets(F)[u] = Range(s)
  BY <1>1, <1>4 DEF FreeSets
<1>6. page \in DOMAIN A /\ A[page] = [unit |-> A[page].unit, free_cnt |-> A[page].free_cnt]
  <2>1. page \in DOMAIN A
    BY <1>1, <1>2, <1>5 DEF Cut, FreeListed
  <2> QED BY <1>2, <2>1 DEF Cut, Arenas
<1>7. K = [free |-> E, arena |-> B] /\ K.free = E /\ K.arena = B
  <2>1. K = [H EXCEPT !.free = [F EXCEPT ![u] = Tail(s)],
                      !.arena = SetCnt(A, page, A[page].free_cnt - 1)]
    BY <1>1, <1>2, <1>6 DEF SetCnt
  <2> QED BY <1>2, <1>3, <2>1
<1>8. /\ E = [w \in Units |-> E[w]] /\ E[u] = Tail(s) /\ \A w \in Units : w # u => E[w] = F[w]
      /\ \A w \in Units : FreeSets(E)[w] = IF w = u THEN FreeSets(F)[u] \ {x} ELSE FreeSets(F)[w]
  <2>1. PICK t : t = Tail(s)
    OBVIOUS
  <2>2. /\ E = [w \in Units |-> E[w]] /\ E[u] = t /\ \A w \in Units : w # u => E[w] = F[w]
        /\ \A w \in Units : FreeSets(E)[w] = IF w = u THEN Range(t) ELSE FreeSets(F)[w]
    <3>1. F = [w \in Units |-> F[w]] /\ E = [F EXCEPT ![u] = t]
      BY <1>2, <1>3, <2>1
    <3> QED BY ONLY u \in Units, <3>1, FreeSetsSet
  <2> QED BY <1>4, <1>5, <2>1, <2>2
<1>9. Cut(FreeSets(E), B, Extend(h, x, size), D) /\ InUse(B, -1)
  <2>1. PICK G, G2, g : G = FreeSets(F) /\ G2 = FreeSets(E) /\ g = Extend(h, x, size)
    OBVIOUS
  <2>2. /\ Cut(G, A, h, D) /\ InUse(A, page) /\ x \in G[u] /\ page = block2arena(x)
        /\ OneLess(G2, G, u, x)
    BY <1>1, <1>2, <1>5, <1>8, <2>1 DEF OneLess
  <2>3. PICK c : c = A[page].free_cnt - 1 /\ B = SetCnt(A, page, c)
    BY <1>3
  <2>4. Cut(G2, B, g, D) /\ InUse(B, -1)
    <3>1. g = Extend(h, x, size)
      BY <2>1
    <3> QED BY ONLY u \in Units, size \in Nat, size <= block_size[u], <2>2, <2>3, <3>1, TakeBlock
  <2> QED BY <2>1, <2>4
<1> QED BY <1>2, <1>4, <1>7, <1>8, <1>9 DEF HeapOK, HeapBut

(* An allocation of whole pages.                                           *)
LEMMA HeapNewLarge ==
  ASSUME NEW H, NEW h, NEW D, HeapOK(H, h, D), NEW page \in Nat, NEW cnt \in Nat \ {0},
         page..page + cnt - 1 \cap D = {}, NEW size \in Nat, ArenaSize + size <= cnt * PG_SIZE,
         NEW K, K = [H EXCEPT !.arena = Extend(@, page, [unit |-> 0, free_cnt |-> cnt])]
  PROVE  HeapOK(K, Extend(h, page * PG_SIZE + ArenaSize, size), D \cup page..page + cnt - 1)
<1>1. PICK F, A : F = H.free /\ A = H.arena
  OBVIOUS
<1>2. /\ H = [free |-> F, arena |-> A] /\ F = [w \in Units |-> F[w]] /\ \A w \in Units : List(F[w])
      /\ Cut(FreeSets(F), A, h, D) /\ InUse(A, page) /\ InUse(A, -1)
  BY <1>1, HeapExcept DEF HeapOK, HeapBut
<1>3. PICK B : B = Extend(A, page, [unit |-> 0, free_cnt |-> cnt])
  OBVIOUS
<1>4. K = [free |-> F, arena |-> B] /\ K.free = F /\ K.arena = B
  BY <1>1, <1>2, <1>3
<1>5. PICK G, g, E : /\ G = FreeSets(F) /\ g = Extend(h, page * PG_SIZE + ArenaSize, size)
                     /\ E = D \cup page..page + cnt - 1
  OBVIOUS
<1>6. Cut(G, B, g, E) /\ InUse(B, page)
  BY <1>2, <1>3, <1>5, NewLarge
<1>7. InUse(B, -1)
  <2>1. B[page].unit = 0
    <3>1. PICK y : y = [unit |-> 0, free_cnt |-> cnt]
      OBVIOUS
    <3>2. B[page] = y
      BY <1>3, <3>1 DEF Extend
    <3> QED BY <3>1, <3>2
  <2> QED BY <1>6, <2>1 DEF InUse
<1> QED BY <1>2, <1>4, <1>5, <1>6, <1>7 DEF HeapOK, HeapBut

Given(H, u, s, page) == [H EXCEPT !.free[u] = s, !.arena[page].free_cnt = @ + 1]

\* A block x of this page, held, and the free list s that it goes to.
GivesBack(H, h, D, x, page, u, s) ==
  /\ HeapOK(H, h, D) /\ x \in DOMAIN h /\ page = block2arena(x)
  /\ u = H.arena[page].unit /\ u # 0 /\ s = Append(H.free[u], x)

(* sys_free of a block, up to the test whether it was the last one in use. *)
LEMMA HeapGive ==
  ASSUME NEW H, NEW h, NEW D, NEW x, NEW page, NEW u, NEW s, GivesBack(H, h, D, x, page, u, s),
         NEW K, K = Given(H, u, s, page)
  PROVE  /\ HeapBut(K, Without(h, x), D, page)
         /\ H.arena[page].free_cnt + 1 # blocks_per_arena(u) => HeapOK(K, Without(h, x), D)
         /\ u \in Units /\ page \in DOMAIN H.arena /\ List(s) /\ K.free[u] = s
         /\ \A w \in Units : w # u => K.free[w] = H.free[w]
         /\ K.arena = SetCnt(H.arena, page, H.arena[page].free_cnt + 1)
         /\ K.arena[page] = [unit |-> u, free_cnt |-> H.arena[page].free_cnt + 1]
<1>0. /\ HeapOK(H, h, D) /\ x \in DOMAIN h /\ page = block2arena(x)
      /\ u = H.arena[page].unit /\ u # 0 /\ s = Append(H.free[u], x)
  BY DEF GivesBack
<1>1. PICK F, A : F = H.free /\ A = H.arena
  OBVIOUS
<1>2. /\ H = [free |-> F, arena |-> A] /\ F = [w \in Units |-> F[w]] /\ \A w \in Units : List(F[w])
      /\ Cut(FreeSets(F), A, h, D) /\ InUse(A, -1)
  BY <1>0, <1>1 DEF HeapOK, HeapBut
<1>3. PICK E : E = [F EXCEPT ![u] = s]
  OBVIOUS
<1>4. PICK c : c = A[page].free_cnt + 1
  OBVIOUS
<1>5. PICK B : B = SetCnt(A, page, c)
  OBVIOUS
<1>6. PICK G, g : G = FreeSets(F) /\ g = Without(h, x)
  OBVIOUS
<1>7. PICK G2 : G2 = [w \in Units |-> IF w = u THEN G[u] \cup {x} ELSE G[w]]
  OBVIOUS
<1>8. OneMore(G2, G, u, x)
  BY <1>7 DEF OneMore
<1>9. /\ Cut(G2, B, g, D) /\ InUse(B, page) /\ x \notin G[u] /\ u \in Units
      /\ page \in Nat /\ page \in DOMAIN A /\ x \in Blocks(page, u)
      /\ A[page].free_cnt + 1 # blocks_per_arena(u) => InUse(B, -1)
  <2>1. Cut(G, A, h, D)
    BY <1>2, <1>6
  <2>2. InUse(A, -1)
    BY <1>2
  <2>3. u = A[page].unit
    BY <1>0, <1>1
  <2>4. g = Without(h, x)
    BY <1>6
  <2>5. HeldBlock(A, h, x, page, u)
    BY <1>0, <2>3 DEF HeldBlock
  <2> QED BY ONLY <1>4, <1>5, <1>8, <2>1, <2>2, <2>4, <2>5, GiveBlock
<1>10. x \in Nat /\ x \notin Range(F[u]) /\ G[u] = Range(F[u])
  BY <1>6, <1>9, BlockFacts DEF FreeSets
<1>11. List(s) /\ Range(s) = Range(F[u]) \cup {x}
  <2>1. PICK t : t = F[u]
    OBVIOUS
  <2>2. List(t) /\ s = Append(t, x)
    BY <1>0, <1>1, <1>2, <1>9, <2>1
  <2> QED BY <1>10, <2>1, <2>2, AppendFacts
<1>12. /\ E = [w \in Units |-> E[w]] /\ E[u] = s /\ \A w \in Units : w # u => E[w] = F[w]
       /\ \A w \in Units : FreeSets(E)[w] = IF w = u THEN Range(s) ELSE FreeSets(F)[w]
  <2>1. F = [w \in Units |-> F[w]] /\ u \in Units
    BY <1>2, <1>9
  <2> QED BY ONLY <1>3, <2>1, FreeSetsSet
<1>13. FreeSets(E) = G2
  <2>1. FreeSets(E) = [w \in Units |-> FreeSets(E)[w]]
    BY DEF FreeSets
  <2>2. \A w \in Units : FreeSets(E)[w] = G2[w]
    BY <1>6, <1>7, <1>10, <1>11, <1>12
  <2> QED BY <1>7, <2>1, <2>2
<1>14. K = [free |-> E, arena |-> B] /\ K.free = E /\ K.arena = B
  <2>1. K = [H EXCEPT !.free = [F EXCEPT ![u] = s], !.arena = [A EXCEPT ![page].free_cnt = c]]
    <3>1. A[page] = [unit |-> A[page].unit, free_cnt |-> A[page].free_cnt]
      BY <1>2, <1>9 DEF Cut, Arenas
    <3> QED BY <1>0, <1>1, <1>2, <1>4, <1>9, <3>1 DEF Given
  <2> QED BY <1>2, <1>3, <1>5, <2>1 DEF SetCnt
<1>15. \A w \in Units : List(E[w])
  BY <1>2, <1>11, <1>12
<1>16. HeapBut(K, g, D, page) /\ (InUse(B, -1) => HeapOK(K, g, D))
  BY <1>9, <1>12, <1>13, <1>14, <1>15 DEF HeapOK, HeapBut
<1>17. B[page] = [unit |-> u, free_cnt |-> c]
  <2>1. Arenas(A, D) /\ A[page].unit # 0 /\ A[page].unit = u
    BY <1>0, <1>1, <1>2 DEF Cut
  <2>2. c \in Nat
    BY <1>2, <1>4, <1>9 DEF Cut, Arenas
  <2> QED BY <1>5, <1>9, <2>1, <2>2, CntSet
<1> QED BY <1>1, <1>4, <1>5, <1>6, <1>9, <1>11, <1>12, <1>14, <1>16, <1>17

(* An arena goes back with the page and the pointers of it.                *)
LEMMA HeapDrop ==
  ASSUME NEW H, NEW h, NEW D, NEW page \in DOMAIN H.arena, HeapBut(H, h, D, page),
         NEW g, DOMAIN g \subseteq DOMAIN h,
         \A x \in DOMAIN g : g[x] = h[x] /\ block2arena(x) # page,
         NEW K, K = [free |-> K.free, arena |-> Without(H.arena, page)],
         K.free = [w \in Units |-> K.free[w]],
         \A w \in Units : /\ List(K.free[w])
                          /\ Range(K.free[w]) = {x \in Range(H.free[w]) : block2arena(x) # page}
  PROVE  HeapOK(K, g, D \ Span(H.arena, page))
<1>1. PICK G, A, B : G = FreeSets(H.free) /\ A = H.arena /\ B = Without(A, page)
  OBVIOUS
<1>2. PICK G2 : G2 = FreeSets(K.free)
  OBVIOUS
<1>3. \A w \in Units : G2[w] = {x \in G[w] : block2arena(x) # page}
  BY <1>1, <1>2 DEF FreeSets
<1>4. Cut(G, A, h, D) /\ InUse(A, page)
  BY <1>1 DEF HeapBut
<1>5. Cut(G2, B, g, D \ Span(A, page)) /\ InUse(B, -1)
  BY <1>1, <1>3, <1>4, DropArena
<1>6. K.arena = B
  BY <1>1
<1> QED BY <1>1, <1>2, <1>5, <1>6 DEF HeapOK, HeapBut

\* The heap without the arena of the last block in use.
GivenLast(H, u, s, page) ==
  [H EXCEPT !.free[u] = Elsewhere(s, page), !.arena = Without(@, page)]

(* The last block of an arena goes back: so does the arena.                *)
LEMMA HeapGiveLast ==
  ASSUME NEW H, NEW h, NEW D, NEW x, NEW page, NEW u, NEW s, GivesBack(H, h, D, x, page, u, s),
         H.arena[page].free_cnt + 1 = blocks_per_arena(u),
         NEW K, K = GivenLast(H, u, s, page)
  PROVE  /\ HeapOK(K, Without(h, x), D \ {page}) /\ page \in DOMAIN H.arena
         /\ page \in D /\ page \in Nat
<1>0. /\ HeapOK(H, h, D) /\ x \in DOMAIN h /\ page = block2arena(x)
      /\ u = H.arena[page].unit /\ u # 0 /\ s = Append(H.free[u], x)
      /\ K = [H EXCEPT !.free[u] = Elsewhere(s, page), !.arena = Without(@, page)]
  BY DEF GivesBack, GivenLast
<1>1. PICK J, g : J = Given(H, u, s, page) /\ g = Without(h, x)
  OBVIOUS
<1>2. /\ HeapBut(J, g, D, page) /\ u \in Units /\ page \in DOMAIN H.arena /\ List(s)
      /\ J.free[u] = s /\ \A w \in Units : w # u => J.free[w] = H.free[w]
      /\ J.arena = SetCnt(H.arena, page, H.arena[page].free_cnt + 1)
      /\ J.arena[page] = [unit |-> u, free_cnt |-> H.arena[page].free_cnt + 1]
  <2>1. J = Given(H, u, s, page)
    BY <1>1
  <2>2. g = Without(h, x)
    BY <1>1
  <2>3. GivesBack(H, h, D, x, page, u, s)
    OBVIOUS
  <2>4. /\ HeapBut(J, Without(h, x), D, page)
        /\ H.arena[page].free_cnt + 1 # blocks_per_arena(u) => HeapOK(J, Without(h, x), D)
        /\ u \in Units /\ page \in DOMAIN H.arena /\ List(s) /\ J.free[u] = s
        /\ \A w \in Units : w # u => J.free[w] = H.free[w]
        /\ J.arena = SetCnt(H.arena, page, H.arena[page].free_cnt + 1)
        /\ J.arena[page] = [unit |-> u, free_cnt |-> H.arena[page].free_cnt + 1]
    BY ONLY <2>1, <2>3, HeapGive
  <2> QED BY <2>2, <2>4
<1>3. PICK A : A = J.arena
  OBVIOUS
<1>4. PICK e : e = Elsewhere(s, page)
  OBVIOUS
<1>5. List(e) /\ Range(e) = {y \in Range(s) : block2arena(y) # page}
  <2>1. List(s)
    BY <1>2
  <2> QED BY ONLY <1>4, <2>1, ElsewhereFacts
<1>6. /\ page \in DOMAIN A /\ A[page].unit = u /\ A[page].free_cnt = blocks_per_arena(u)
      /\ Cut(FreeSets(J.free), A, g, D)
  BY <1>2, <1>3 DEF SetCnt, HeapBut
<1>7. \A y \in DOMAIN g : block2arena(y) # page
  <2>1. A[page].unit # 0
    BY <1>0, <1>6
  <2> QED BY <1>6, <2>1, LastFree
<1>8. /\ H = [free |-> H.free, arena |-> H.arena] /\ H.free = [w \in Units |-> H.free[w]]
      /\ \A w \in Units : List(H.free[w])
  BY <1>0 DEF HeapOK, HeapBut
<1>9. PICK E : E = [H.free EXCEPT ![u] = e] /\ K = [free |-> E, arena |-> Without(H.arena, page)]
  BY <1>0, <1>4, <1>8
<1>15. E[u] = e /\ (\A w \in Units : w # u => E[w] = H.free[w]) /\ E = [w \in Units |-> E[w]]
  <2>1. H.free = [w \in Units |-> H.free[w]] /\ E = [H.free EXCEPT ![u] = e] /\ u \in Units
    BY <1>2, <1>8, <1>9
  <2> QED BY ONLY <2>1, FreeSetsSet
<1>10. Without(H.arena, page) = Without(A, page)
  BY <1>2, <1>3 DEF Without, Restrict, SetCnt
<1>11. ASSUME NEW w \in Units
       PROVE  /\ List(K.free[w])
              /\ Range(K.free[w]) = {y \in Range(J.free[w]) : block2arena(y) # page}
  <2>1. CASE w = u
    <3>1. K.free[w] = e /\ J.free[w] = s
      <4>1. J.free[w] = s
        BY <1>2, <2>1
      <4>2. K.free = E
        BY ONLY <1>9
      <4>3. K.free[w] = e
        BY <1>15, <2>1, <4>2
      <4> QED BY <4>1, <4>3
    <3> QED BY <1>5, <3>1
  <2>2. CASE w # u
    <3>1. K.free[w] = H.free[w] /\ J.free[w] = H.free[w]
      BY <1>2, <1>9, <1>15, <2>2
    <3>2. \A y \in Range(H.free[w]) : block2arena(y) # page
      <4>1. ASSUME NEW y \in Range(H.free[w]) PROVE block2arena(y) # page
        <5>1. y \in FreeSets(J.free)[w]
          BY <3>1, <4>1 DEF FreeSets
        <5>2. A[block2arena(y)].unit = w
          BY <1>6, <5>1 DEF Cut, FreeListed
        <5> QED BY <1>6, <2>2, <5>2
      <4> QED BY <4>1
    <3>3. Range(H.free[w]) = {y \in Range(H.free[w]) : block2arena(y) # page}
      BY <3>2
    <3> QED BY <1>8, <3>1, <3>3
  <2> QED BY <2>1, <2>2
<1>12. K = [free |-> K.free, arena |-> Without(A, page)] /\ K.free = [w \in Units |-> K.free[w]]
  BY <1>9, <1>10, <1>15
<1>13. HeapOK(K, g, D \ Span(A, page))
  BY <1>2, <1>3, <1>6, <1>7, <1>11, <1>12, HeapDrop
<1>14. page \in D /\ page \in Nat /\ Span(A, page) = {page}
  <2>1. page \in D /\ page \in Nat
    BY <1>6, SpanStarts DEF Cut
  <2>2. Span(A, page) = page..page + 1 - 1
    BY <1>0, <1>6 DEF Span
  <2>3. page..page + 1 - 1 = {page}
    BY <2>1
  <2> QED BY <2>1, <2>2, <2>3
<1> QED BY <1>1, <1>2, <1>13, <1>14

WithoutArena(H, page) == [H EXCEPT !.arena = Without(@, page)]

(* sys_free of whole pages.                                                *)
LEMMA HeapDropLarge ==
  ASSUME NEW H, NEW h, NEW D, HeapOK(H, h, D), NEW x \in DOMAIN h,
         NEW page, page = block2arena(x), H.arena[page].unit = 0,
         NEW K, K = WithoutArena(H, page)
  PROVE  /\ HeapOK(K, Without(h, x), D \ Span(H.arena, page)) /\ page \in DOMAIN H.arena
         /\ Span(H.arena, page) \subseteq D /\ page \in Nat /\ H.arena[page].free_cnt \in Nat \ {0}
         /\ Span(H.arena, page) = page..page + H.arena[page].free_cnt - 1
<1>1. PICK A, g : A = H.arena /\ g = Without(h, x)
  OBVIOUS
<1>2. /\ HeapBut(H, h, D, page) /\ Cut(FreeSets(H.free), A, h, D)
      /\ H = [free |-> H.free, arena |-> H.arena] /\ H.free = [w \in Units |-> H.free[w]]
      /\ \A w \in Units : List(H.free[w])
  BY <1>1, HeapExcept DEF HeapBut
<1>3. page \in DOMAIN A
  BY <1>2 DEF Cut, HeldApart
<1>4. /\ page \in Nat /\ A[page].free_cnt \in Nat \ {0} /\ Span(A, page) \subseteq D
      /\ Span(A, page) = page..page + A[page].free_cnt - 1
  BY <1>1, <1>2, <1>3 DEF Cut, Arenas, Span
<1>5. DOMAIN g \subseteq DOMAIN h /\ \A y \in DOMAIN g : g[y] = h[y] /\ y # x
  BY <1>1 DEF Without, Restrict
<1>6. ASSUME NEW y \in DOMAIN g PROVE block2arena(y) # page
  <2>1. ASSUME block2arena(y) = page PROVE FALSE
    <3>1. y \in DOMAIN h
      BY <1>5
    <3>2. y = page * PG_SIZE + ArenaSize
      BY <1>1, <1>2, <2>1, <3>1 DEF Cut, HeldApart
    <3>3. x = page * PG_SIZE + ArenaSize
      BY <1>1, <1>2 DEF Cut, HeldApart
    <3> QED BY <1>5, <3>2, <3>3
  <2> QED BY <2>1
<1>7. K = [free |-> H.free, arena |-> Without(A, page)] /\ K.free = H.free
  BY <1>1, <1>2 DEF WithoutArena
<1>8. ASSUME NEW w \in Units, NEW y \in Range(H.free[w]) PROVE block2arena(y) # page
  <2>1. y \in FreeSets(H.free)[w]
    BY DEF FreeSets
  <2>2. A[block2arena(y)].unit = w /\ w # 0
    BY <1>2, <2>1, BlockSizes DEF Cut, FreeListed, Units
  <2> QED BY <1>1, <2>2
<1>9. \A w \in Units : Range(K.free[w]) = {y \in Range(H.free[w]) : block2arena(y) # page}
  BY <1>7, <1>8
<1>10. HeapOK(K, g, D \ Span(A, page))
  BY <1>1, <1>2, <1>3, <1>5, <1>6, <1>7, <1>9, HeapDrop
<1> QED BY <1>1, <1>3, <1>4, <1>10

-----------------------------------------------------------------------------
(* The inductive invariant                                                 *)

\* The kernel pages of a process (TaskPages), from its record.
PagesOf(r) ==
  CASE r.state = "live" -> {r.tcb, r.pgdir} \cup r.bitmap..r.bitmap + bitmap_pg_cnt - 1
    [] r.state = "zombie" -> {r.tcb, r.pgdir}
    [] OTHER -> {}

Whole(r) ==
  /\ r = [state |-> r.state, tcb |-> r.tcb, pgdir |-> r.pgdir, bitmap |-> r.bitmap]
  /\ r.state \in {"none", "live", "zombie"}
  /\ r.state # "none" => r.tcb \in Nat /\ r.pgdir \in Nat /\ r.tcb # r.pgdir
  /\ r.state = "live" =>
       /\ r.bitmap \in Nat
       /\ {r.tcb, r.pgdir} \cap r.bitmap..r.bitmap + bitmap_pg_cnt - 1 = {}

Tasks(t, D) ==
  /\ t = [p \in Procs |-> t[p]]
  /\ \A p \in Procs : Whole(t[p]) /\ PagesOf(t[p]) \subseteq D
  /\ \A p, q \in Procs : p # q => PagesOf(t[p]) \cap PagesOf(t[q]) = {}

TaskSpan(t) == UNION {PagesOf(t[p]) : p \in Procs}

\* Where a heap may be: not in the pages of the processes, not in the stack.
Room(m, t, o) == IF o = KERNEL THEN Dom(m, KERNEL) \ TaskSpan(t) ELSE Dom(m, o) \ {UVPages - 1}

Heaps(H, h, m, t) ==
  /\ H = [o \in Owners |-> H[o]] /\ h = [o \in Owners |-> h[o]]
  /\ \A o \in Owners : HeapOK(H[o], h[o], Room(m, t, o))

\* A virtual page has its bit if it is mapped; a live process has its stack,
\* another one has no pages.
Bits(m, t) ==
  /\ m.space[KERNEL].bits \ {KPages} = Dom(m, KERNEL) \ {KPages}
  /\ \A p \in Procs : /\ m.space[p].bits = Dom(m, p)
                      /\ t[p].state = "live" => UVPages - 1 \in Dom(m, p)
                      /\ t[p].state # "live" => Dom(m, p) = {}

Sound(m, t, H, h) ==
  Agree(m) /\ Bits(m, t) /\ Tasks(t, Dom(m, KERNEL)) /\ Heaps(H, h, m, t)

IInv == mem.panic \in {"none", "full"} /\ Sound(mem, task, heap, held)

\* An owner that runs: the kernel or a live process.
Runs1(t, o) == o = KERNEL \/ (o \in Procs /\ t[o].state = "live")

(* A panic changes nothing else.                                           *)
LEMMA StoppedSound ==
  ASSUME IInv, NEW n, Stops(n), mem' = [mem EXCEPT !.panic = n.panic],
         UNCHANGED <<task, heap, held>>
  PROVE  IInv'
<1>1. Shape(mem) /\ n.panic = "full"
  BY DEF IInv, Sound, Agree, Stops
<1>2. Shape(mem') /\ mem'.panic = "full" /\ mem'.taken = mem.taken /\ mem'.space = mem.space
  <2>1. mem' = [taken |-> mem.taken, space |-> mem.space, panic |-> "full"]
    BY <1>1 DEF Shape
  <2> QED BY <1>1, <2>1 DEF Shape
<1>3. \A o \in Owners : Dom(mem', o) = Dom(mem, o)
  BY <1>2 DEF Dom
<1>4. KERNEL \in Owners /\ Procs \subseteq Owners
  BY Numbers
<1>5. Agree(mem')
  BY <1>2, <1>3, <1>4 DEF IInv, Sound, Agree, InPools, UsedOnce, AllUsed, BitsCover
<1>6. Bits(mem', task) /\ Dom(mem', KERNEL) = Dom(mem, KERNEL)
  BY <1>2, <1>3, <1>4 DEF IInv, Sound, Bits
<1>7. \A o \in Owners : Room(mem', task, o) = Room(mem, task, o)
  BY <1>3, <1>4 DEF Room
<1>8. Heaps(heap, held, mem', task)
  BY <1>7 DEF IInv, Sound, Heaps
<1>9. Sound(mem', task, heap, held)
  BY <1>5, <1>6, <1>8 DEF IInv, Sound
<1> QED BY <1>2, <1>9 DEF IInv

(* Pages somebody who runs has been given.                                 *)
LEMMA AllocSound ==
  ASSUME NEW m, NEW t, NEW H, NEW h, Sound(m, t, H, h), NEW o \in Owners, Runs1(t, o),
         NEW n, NEW S, Allocated(m, n, o, S), S \cap m.space[o].bits = {}
  PROVE  /\ Agree(n) /\ n.panic = "none" /\ Bits(n, t) /\ Tasks(t, Dom(n, KERNEL))
         /\ Room(n, t, o) = Room(m, t, o) \cup S /\ S \cap Room(m, t, o) = {}
         /\ \A q \in Owners : q # o => Room(n, t, q) = Room(m, t, q)
<1>1. KERNEL \in Owners /\ Procs \subseteq Owners /\ KERNEL \notin Procs
  BY Numbers
<1>2. \A q \in Owners : IF q = o THEN /\ n.space[q].bits = m.space[q].bits \cup S
                                      /\ Dom(n, q) = Dom(m, q) \cup S
                                 ELSE /\ n.space[q].bits = m.space[q].bits
                                      /\ Dom(n, q) = Dom(m, q)
  BY DEF Allocated
<1>3. Agree(n) /\ n.panic = "none"
  BY DEF Allocated, Works
<1>4. Bits(n, t)
  <2>1. n.space[KERNEL].bits \ {KPages} = Dom(n, KERNEL) \ {KPages}
    BY <1>1, <1>2 DEF Sound, Bits
  <2>2. ASSUME NEW p \in Procs
        PROVE  /\ n.space[p].bits = Dom(n, p)
               /\ t[p].state = "live" => UVPages - 1 \in Dom(n, p)
               /\ t[p].state # "live" => Dom(n, p) = {}
    <3>1. /\ m.space[p].bits = Dom(m, p)
          /\ t[p].state = "live" => UVPages - 1 \in Dom(m, p)
          /\ t[p].state # "live" => Dom(m, p) = {}
      BY DEF Sound, Bits
    <3>2. p = o => t[p].state = "live"
      BY <1>1 DEF Runs1
    <3> QED BY <1>1, <1>2, <3>1, <3>2
  <2> QED BY <2>1, <2>2 DEF Bits
<1>5. Dom(m, KERNEL) \subseteq Dom(n, KERNEL) /\ Dom(m, o) \subseteq m.space[o].bits
  BY <1>1, <1>2 DEF Sound, Agree, BitsCover
<1>6. Tasks(t, Dom(n, KERNEL))
  BY <1>5 DEF Sound, Tasks
<1>7. \A q \in Owners : q # o => Room(n, t, q) = Room(m, t, q)
  BY <1>1, <1>2 DEF Room
<1>8. Room(n, t, o) = Room(m, t, o) \cup S
  <2>1. CASE o = KERNEL
    <3>1. TaskSpan(t) \subseteq Dom(m, KERNEL)
      BY DEF Sound, Tasks, TaskSpan
    <3>2. TaskSpan(t) \cap S = {}
      BY <1>5, <2>1, <3>1
    <3> QED BY <1>2, <2>1, <3>2 DEF Room
  <2>2. CASE o # KERNEL
    <3>1. UVPages - 1 \in m.space[o].bits
      BY <1>5, <2>2 DEF Sound, Bits, Runs1
    <3>2. UVPages - 1 \notin S
      BY <3>1
    <3> QED BY <1>2, <2>2, <3>2 DEF Room
  <2> QED BY <2>1, <2>2
<1>9. S \cap Room(m, t, o) = {}
  BY <1>5 DEF Room
<1> QED BY <1>3, <1>4, <1>6, <1>7, <1>8, <1>9

(* Pages of a heap that have been freed.                                   *)
LEMMA FreeSound ==
  ASSUME NEW m, NEW t, NEW H, NEW h, Sound(m, t, H, h), NEW o \in Owners, Runs1(t, o),
         NEW n, NEW S, Freed(m, n, o, S), S \subseteq Room(m, t, o)
  PROVE  /\ Agree(n) /\ n.panic = "none" /\ Bits(n, t) /\ Tasks(t, Dom(n, KERNEL))
         /\ Room(n, t, o) = Room(m, t, o) \ S
         /\ \A q \in Owners : q # o => Room(n, t, q) = Room(m, t, q)
<1>1. KERNEL \in Owners /\ Procs \subseteq Owners /\ KERNEL \notin Procs
  BY Numbers
<1>2. \A q \in Owners : IF q = o THEN /\ n.space[q].bits = m.space[q].bits \ S
                                      /\ Dom(n, q) = Dom(m, q) \ S
                                 ELSE /\ n.space[q].bits = m.space[q].bits
                                      /\ Dom(n, q) = Dom(m, q)
  BY DEF Freed
<1>3. Agree(n) /\ n.panic = "none"
  BY DEF Freed, Works
<1>4. Bits(n, t)
  <2>1. n.space[KERNEL].bits \ {KPages} = Dom(n, KERNEL) \ {KPages}
    BY <1>1, <1>2 DEF Sound, Bits
  <2>2. ASSUME NEW p \in Procs
        PROVE  /\ n.space[p].bits = Dom(n, p)
               /\ t[p].state = "live" => UVPages - 1 \in Dom(n, p)
               /\ t[p].state # "live" => Dom(n, p) = {}
    <3>1. /\ m.space[p].bits = Dom(m, p)
          /\ t[p].state = "live" => UVPages - 1 \in Dom(m, p)
          /\ t[p].state # "live" => Dom(m, p) = {}
      BY DEF Sound, Bits
    <3>2. p = o => UVPages - 1 \notin S
      BY <1>1 DEF Room
    <3> QED BY <1>1, <1>2, <3>1, <3>2
  <2> QED BY <2>1, <2>2 DEF Bits
<1>5. Tasks(t, Dom(n, KERNEL))
  <2>1. \A p \in Procs : PagesOf(t[p]) \subseteq TaskSpan(t)
    BY DEF TaskSpan
  <2>2. ASSUME NEW p \in Procs PROVE PagesOf(t[p]) \subseteq Dom(n, KERNEL)
    <3>1. PagesOf(t[p]) \subseteq Dom(m, KERNEL)
      BY DEF Sound, Tasks
    <3>2. o = KERNEL => PagesOf(t[p]) \cap S = {}
      BY <2>1 DEF Room
    <3> QED BY <1>1, <1>2, <3>1, <3>2
  <2> QED BY <2>2 DEF Sound, Tasks
<1>6. \A q \in Owners : q # o => Room(n, t, q) = Room(m, t, q)
  BY <1>1, <1>2 DEF Room
<1>7. Room(n, t, o) = Room(m, t, o) \ S
  BY <1>1, <1>2 DEF Room
<1> QED BY <1>3, <1>4, <1>5, <1>6, <1>7

(* One heap changes.                                                       *)
LEMMA HeapSet ==
  ASSUME NEW m, NEW t, NEW H, NEW h, Heaps(H, h, m, t), NEW o \in Owners,
         NEW n, NEW K, NEW g, HeapOK(K, g, Room(n, t, o)),
         \A q \in Owners : q # o => Room(n, t, q) = Room(m, t, q)
  PROVE  Heaps([H EXCEPT ![o] = K], [h EXCEPT ![o] = g], n, t)
<1>1. PICK J, j : J = [H EXCEPT ![o] = K] /\ j = [h EXCEPT ![o] = g]
  OBVIOUS
<1>2. H = [q \in Owners |-> H[q]] /\ h = [q \in Owners |-> h[q]]
  BY DEF Heaps
<1>3. /\ J = [q \in Owners |-> J[q]] /\ j = [q \in Owners |-> j[q]]
      /\ \A q \in Owners : J[q] = (IF q = o THEN K ELSE H[q]) /\ j[q] = IF q = o THEN g ELSE h[q]
  BY <1>1, <1>2
<1>4. \A q \in Owners : HeapOK(J[q], j[q], Room(n, t, q))
  BY <1>3 DEF Heaps
<1> QED BY <1>1, <1>3, <1>4 DEF Heaps

-----------------------------------------------------------------------------
(* The steps                                                               *)

(* What a call that runs finds.                                            *)
LEMMA CallStarts ==
  ASSUME IInv, NEW o, Running(o)
  PROVE  /\ o \in Owners /\ Runs1(task, o) /\ Works(mem) /\ StackKept(mem, o)
         /\ Sound(mem, task, heap, held)
         /\ HeapOK(heap[o], held[o], Room(mem, task, o))
<1>1. mem.panic = "none" /\ (o = KERNEL \/ (o \in Procs /\ task[o].state = "live"))
  BY DEF Running, Live
<1>2. o \in Owners /\ KERNEL \notin Procs
  BY <1>1, Numbers
<1>3. Runs1(task, o)
  BY <1>1 DEF Runs1
<1>4. Sound(mem, task, heap, held)
  BY DEF IInv
<1>5. Works(mem)
  BY <1>1, <1>4 DEF Sound, Works
<1>6. StackKept(mem, o)
  BY <1>1, <1>4 DEF Sound, Bits, StackKept
<1>7. HeapOK(heap[o], held[o], Room(mem, task, o))
  BY <1>2, <1>4 DEF Sound, Heaps
<1> QED BY <1>2, <1>3, <1>4, <1>5, <1>6, <1>7

(* A call of sys_malloc or sys_free ends with its owner's heap replaced.   *)
LEMMA HeapStep ==
  ASSUME IInv, NEW o \in Owners, NEW n, n.panic = "none", Agree(n), Bits(n, task),
         Tasks(task, Dom(n, KERNEL)),
         \A q \in Owners : q # o => Room(n, task, q) = Room(mem, task, q),
         NEW K, NEW g, HeapOK(K, g, Room(n, task, o)),
         mem' = n, heap' = [heap EXCEPT ![o] = K], held' = [held EXCEPT ![o] = g], task' = task
  PROVE  IInv'
<1>1. Heaps(heap, held, mem, task)
  BY DEF IInv, Sound
<1>2. Heaps([heap EXCEPT ![o] = K], [held EXCEPT ![o] = g], n, task)
  BY <1>1, HeapSet
<1>3. Sound(mem', task', heap', held')
  BY <1>2 DEF Sound
<1> QED BY <1>3 DEF IInv

(* sys_malloc of a block keeps the invariant.                              *)
LEMMA MallocSmallSound ==
  ASSUME IInv, NEW o, NEW size \in Nat, MallocSmall(o, size)
  PROVE  IInv'
<1>1. Running(o) /\ size <= block_size[UnitCnt]
  BY DEF MallocSmall
<1>2. /\ o \in Owners /\ Runs1(task, o) /\ Works(mem) /\ StackKept(mem, o)
      /\ Sound(mem, task, heap, held)
      /\ HeapOK(heap[o], held[o], Room(mem, task, o))
  BY <1>1, CallStarts
<1>3. PICK u : u = Unit(size)
  OBVIOUS
<1>4. u \in Units /\ size <= block_size[u]
  BY <1>1, <1>3, UnitFits
<1>5. CASE heap[o].free[u] # <<>>
  <2>1. PICK x : x = Head(heap[o].free[u])
    OBVIOUS
  <2>2. PICK K : K = [heap[o] EXCEPT !.free[u] = Tail(@), !.arena[block2arena(x)].free_cnt = @ - 1]
    OBVIOUS
  <2>3. mem.panic = "none"
    BY <1>2 DEF Works
  <2>4. /\ heap' = [heap EXCEPT ![o] = K] /\ held' = [held EXCEPT ![o] = Extend(@, x, size)]
        /\ mem' = mem /\ task' = task
    BY <1>3, <1>5, <2>1, <2>2, <2>3 DEF MallocSmall, Finish
  <2>5. HeapBut(heap[o], held[o], Room(mem, task, o), block2arena(x))
    BY <1>2, HeapExcept
  <2>6. HeapOK(K, Extend(held[o], x, size), Room(mem, task, o))
    BY <1>4, <1>5, <2>1, <2>2, <2>5, HeapTake
  <2>7. held' = [held EXCEPT ![o] = Extend(held[o], x, size)]
    BY <2>4
  <2>8. Agree(mem) /\ Bits(mem, task) /\ Tasks(task, Dom(mem, KERNEL))
    BY <1>2 DEF Sound
  <2> QED BY <1>2, <2>3, <2>4, <2>6, <2>7, <2>8, HeapStep
<1>6. CASE heap[o].free[u] = <<>>
  <2>1. PICK r : r = malloc_page(mem, o, 1)
    OBVIOUS
  <2>2. PICK K : K = [free  |-> [heap[o].free EXCEPT ![u] = Arena(r.vaddr, u)],
                      arena |-> Extend(heap[o].arena, r.vaddr,
                                  [unit |-> u, free_cnt |-> blocks_per_arena(u)])]
    OBVIOUS
  <2>3. PICK x : x = Head(K.free[u])
    OBVIOUS
  <2>4. PICK L : L = [K EXCEPT !.free[u] = Tail(@), !.arena[block2arena(x)].free_cnt = @ - 1]
    OBVIOUS
  <2>5. Finish(r.mem, /\ heap' = [heap EXCEPT ![o] = L]
                      /\ held' = [held EXCEPT ![o] = Extend(@, x, size)]
                      /\ UNCHANGED task)
    BY <1>3, <1>6, <2>1, <2>2, <2>3, <2>4 DEF MallocSmall
  <2>6. \/ Stops(r.mem)
        \/ /\ r.vaddr \in FreeRuns(mem, o, 1) /\ Allocated(mem, r.mem, o, r.vaddr..r.vaddr + 1 - 1)
    <3>1. 1 \in Nat \ {0}
      OBVIOUS
    <3> QED BY <1>2, <2>1, <3>1, MallocPage
  <2>7. CASE Stops(r.mem)
    <3>1. mem' = [mem EXCEPT !.panic = r.mem.panic] /\ UNCHANGED <<task, heap, held>>
      BY <2>5, <2>7 DEF Finish, Stops
    <3> QED BY <2>7, <3>1, StoppedSound
  <2>8. CASE r.vaddr \in FreeRuns(mem, o, 1) /\ Allocated(mem, r.mem, o, r.vaddr..r.vaddr + 1 - 1)
    <3>1. r.vaddr \in Nat /\ r.vaddr..r.vaddr + 1 - 1 \cap mem.space[o].bits = {}
      <4>1. 1 \in Nat \ {0}
        OBVIOUS
      <4> QED BY <1>2, <2>8, <4>1, RunFacts
    <3>2. r.vaddr..r.vaddr + 1 - 1 = {r.vaddr}
      BY <3>1
    <3>3. PICK n, S : n = r.mem /\ S = r.vaddr..r.vaddr + 1 - 1
      OBVIOUS
    <3>4. /\ Agree(n) /\ n.panic = "none" /\ Bits(n, task) /\ Tasks(task, Dom(n, KERNEL))
          /\ Room(n, task, o) = Room(mem, task, o) \cup S /\ S \cap Room(mem, task, o) = {}
          /\ \A q \in Owners : q # o => Room(n, task, q) = Room(mem, task, q)
      BY <1>2, <2>8, <3>1, <3>3, AllocSound
    <3>5. PICK page \in Nat : page = r.vaddr
      BY <3>1
    <3>6. page \notin Room(mem, task, o) /\ Room(n, task, o) = Room(mem, task, o) \cup {page}
      BY <3>2, <3>3, <3>4, <3>5
    <3>7. /\ HeapBut(K, held[o], Room(mem, task, o) \cup {page}, page) /\ K.free[u] # <<>>
          /\ block2arena(x) = page
      <4>1. PICK H, h, D, E : H = heap[o] /\ h = held[o] /\ D = Room(mem, task, o) /\ E = D \cup {page}
        OBVIOUS
      <4>2. HeapOK(H, h, D) /\ UsedUp(H, u) /\ page \notin D
        BY <1>2, <1>6, <3>6, <4>1 DEF UsedUp
      <4>3. K = WithArena(H, u, page)
        BY <2>2, <3>5, <4>1 DEF WithArena
      <4>4. /\ HeapBut(K, h, E, page) /\ ~UsedUp(K, u)
            /\ block2arena(Head(K.free[u])) = page
        BY <1>4, <3>5, <4>1, <4>2, <4>3, HeapNewArena
      <4> QED BY <2>3, <4>1, <4>4 DEF UsedUp
    <3>8. HeapOK(L, Extend(held[o], x, size), Room(n, task, o))
      BY <1>4, <2>3, <2>4, <3>6, <3>7, HeapTake
    <3>9. /\ mem' = n /\ heap' = [heap EXCEPT ![o] = L] /\ task' = task
          /\ held' = [held EXCEPT ![o] = Extend(held[o], x, size)]
      BY <2>5, <3>3, <3>4 DEF Finish
    <3> QED BY <1>2, <3>4, <3>8, <3>9, HeapStep
  <2> QED BY <2>6, <2>7, <2>8
<1> QED BY <1>5, <1>6

(* Division with ceiling.                                                  *)
LEMMA Ceiling ==
  ASSUME NEW a \in Nat \ {0}, NEW b \in Nat \ {0}, NEW q, q = DIV_CEILING(a, b)
  PROVE  q \in Nat \ {0} /\ a <= q * b
<1>1. PICK c \in Nat : c = a + b - 1
  OBVIOUS
<1>2. q = c \div b
  BY <1>1 DEF DIV_CEILING
<1>3. q \in Nat /\ c < q * b + b
  BY <1>2, Quotient
<1>4. q # 0
  <2>1. q = 0 => q * b = 0
    OBVIOUS
  <2> QED BY <1>1, <1>3, <2>1
<1>5. PICK d \in Nat : d = q * b
  <2>1. q * b \in Nat
    BY <1>3
  <2> QED BY <2>1
<1>6. a <= d
  BY <1>1, <1>3, <1>5
<1> QED BY <1>3, <1>4, <1>5, <1>6

\* The heap with whole pages in use.
WithLarge(H, page, cnt) == [H EXCEPT !.arena = Extend(@, page, [unit |-> 0, free_cnt |-> cnt])]

(* sys_malloc of whole pages keeps the invariant.                          *)
LEMMA MallocLargeSound ==
  ASSUME IInv, NEW o, NEW size \in Nat, MallocLarge(o, size)
  PROVE  IInv'
<1>1. Running(o) /\ size > 0
  <2>1. Running(o) /\ size > block_size[UnitCnt]
    BY DEF MallocLarge
  <2>2. block_size[UnitCnt] \in Nat
    BY BlockSizes
  <2> QED BY <2>1, <2>2
<1>2. /\ o \in Owners /\ Runs1(task, o) /\ Works(mem) /\ StackKept(mem, o)
      /\ Sound(mem, task, heap, held)
      /\ HeapOK(heap[o], held[o], Room(mem, task, o))
  BY <1>1, CallStarts
<1>3. PICK cnt : cnt = DIV_CEILING(size + ArenaSize, PG_SIZE)
  OBVIOUS
<1>4. cnt \in Nat \ {0} /\ ArenaSize + size <= cnt * PG_SIZE
  <2>1. PG_SIZE \in Nat \ {0} /\ ArenaSize \in Nat
    BY BlockSizes
  <2>2. PICK a \in Nat \ {0} : a = size + ArenaSize
    BY <1>1, <2>1
  <2>3. cnt \in Nat \ {0} /\ a <= cnt * PG_SIZE
    BY <1>3, <2>1, <2>2, Ceiling
  <2> QED BY <2>1, <2>2, <2>3
<1>5. PICK r : r = malloc_page(mem, o, cnt)
  OBVIOUS
<1>6. PICK K : K = WithLarge(heap[o], r.vaddr, cnt)
  OBVIOUS
<1>7. PICK g : g = Extend(held[o], r.vaddr * PG_SIZE + ArenaSize, size)
  OBVIOUS
<1>8. Finish(r.mem, /\ IF r.vaddr = -1 THEN UNCHANGED <<heap, held>>
                       ELSE /\ heap' = [heap EXCEPT ![o].arena =
                                 Extend(@, r.vaddr, [unit |-> 0, free_cnt |-> cnt])]
                            /\ held' = [held EXCEPT ![o] =
                                 Extend(@, r.vaddr * PG_SIZE + ArenaSize, size)]
                    /\ UNCHANGED task)
  BY <1>3, <1>5 DEF MallocLarge
<1>9. \/ Stops(r.mem)
      \/ r.vaddr = -1 /\ r.mem = mem
      \/ r.vaddr \in FreeRuns(mem, o, cnt) /\ Allocated(mem, r.mem, o, r.vaddr..r.vaddr + cnt - 1)
  BY <1>2, <1>4, <1>5, MallocPage
<1>10. CASE Stops(r.mem)
  <2>1. mem' = [mem EXCEPT !.panic = r.mem.panic] /\ UNCHANGED <<task, heap, held>>
    BY <1>8, <1>10 DEF Finish, Stops
  <2> QED BY <1>10, <2>1, StoppedSound
<1>11. CASE r.vaddr = -1 /\ r.mem = mem
  <2>1. mem.panic = "none"
    BY <1>2 DEF Works
  <2>2. mem' = mem /\ task' = task /\ heap' = heap /\ held' = held
    BY <1>8, <1>11, <2>1 DEF Finish
  <2> QED BY <2>2 DEF IInv
<1>12. CASE r.vaddr \in FreeRuns(mem, o, cnt) /\ Allocated(mem, r.mem, o, r.vaddr..r.vaddr + cnt - 1)
  <2>1. PICK n, S, page : n = r.mem /\ S = r.vaddr..r.vaddr + cnt - 1 /\ page = r.vaddr
    OBVIOUS
  <2>2. page \in Nat /\ S \cap mem.space[o].bits = {}
    BY <1>2, <1>4, <1>12, <2>1, RunFacts
  <2>3. /\ Agree(n) /\ n.panic = "none" /\ Bits(n, task) /\ Tasks(task, Dom(n, KERNEL))
        /\ Room(n, task, o) = Room(mem, task, o) \cup S /\ S \cap Room(mem, task, o) = {}
        /\ \A q \in Owners : q # o => Room(n, task, q) = Room(mem, task, q)
    <3>1. Allocated(mem, n, o, S)
      BY <1>12, <2>1
    <3> QED BY <1>2, <2>2, <3>1, AllocSound
  <2>4. HeapOK(K, g, Room(n, task, o))
    <3>1. PICK H, h, D : H = heap[o] /\ h = held[o] /\ D = Room(mem, task, o)
      OBVIOUS
    <3>2. HeapOK(H, h, D) /\ page..page + cnt - 1 \cap D = {}
      BY <1>2, <2>1, <2>3, <3>1
    <3>3. K = [H EXCEPT !.arena = Extend(@, page, [unit |-> 0, free_cnt |-> cnt])]
      BY <1>6, <2>1, <3>1 DEF WithLarge
    <3>4. HeapOK(K, Extend(h, page * PG_SIZE + ArenaSize, size), D \cup page..page + cnt - 1)
      BY <1>4, <2>2, <3>2, <3>3, HeapNewLarge
    <3> QED BY <1>7, <2>1, <2>3, <3>1, <3>4
  <2>5. page # -1
    BY <2>2
  <2>6. mem' = n /\ task' = task
    BY <1>8, <2>1, <2>3 DEF Finish
  <2>7. heap' = [heap EXCEPT ![o] = K]
    BY <1>6, <1>8, <2>1, <2>3, <2>5 DEF Finish, WithLarge
  <2>8. held' = [held EXCEPT ![o] = g]
    BY <1>7, <1>8, <2>1, <2>3, <2>5 DEF Finish
  <2> QED BY <1>2, <2>3, <2>4, <2>6, <2>7, <2>8, HeapStep
<1> QED BY <1>9, <1>10, <1>11, <1>12

(* What sys_free of a block or of whole pages leaves when it has given     *)
(* their pages back.                                                       *)
LEMMA FreeStep ==
  ASSUME IInv, NEW o, Running(o), NEW page \in Nat, NEW cnt \in Nat \ {0},
         NEW S, S = page..page + cnt - 1, S \subseteq Room(mem, task, o),
         NEW n, n = mfree_page(mem, o, page, cnt),
         NEW K, NEW g, HeapOK(K, g, Room(mem, task, o) \ S),
         Finish(n, /\ heap' = [heap EXCEPT ![o] = K] /\ held' = [held EXCEPT ![o] = g]
                   /\ UNCHANGED task)
  PROVE  IInv'
<1>1. /\ o \in Owners /\ Runs1(task, o) /\ Works(mem) /\ Sound(mem, task, heap, held)
  BY CallStarts
<1>2. S \subseteq Dom(mem, o)
  BY DEF Room
<1>3. Freed(mem, n, o, S)
  BY <1>1, <1>2, MfreePage
<1>4. /\ Agree(n) /\ n.panic = "none" /\ Bits(n, task) /\ Tasks(task, Dom(n, KERNEL))
      /\ Room(n, task, o) = Room(mem, task, o) \ S
      /\ \A q \in Owners : q # o => Room(n, task, q) = Room(mem, task, q)
  BY <1>1, <1>3, FreeSound
<1>5. HeapOK(K, g, Room(n, task, o))
  BY <1>4
<1>6. /\ mem' = n /\ task' = task
      /\ heap' = [heap EXCEPT ![o] = K] /\ held' = [held EXCEPT ![o] = g]
  BY <1>4 DEF Finish
<1> QED BY <1>1, <1>4, <1>5, <1>6, HeapStep

(* sys_free of a block keeps the invariant.                                *)
LEMMA FreeSmallSound ==
  ASSUME IInv, NEW o, NEW x, FreeSmall(o, x)
  PROVE  IInv'
<1>1. Running(o) /\ x \in DOMAIN held[o]
  BY DEF FreeSmall
<1>2. /\ o \in Owners /\ Runs1(task, o) /\ Works(mem) /\ Sound(mem, task, heap, held)
      /\ HeapOK(heap[o], held[o], Room(mem, task, o))
  BY <1>1, CallStarts
<1>3. PICK H, h, D : H = heap[o] /\ h = held[o] /\ D = Room(mem, task, o)
  OBVIOUS
<1>4. PICK page : page = block2arena(x)
  OBVIOUS
<1>5. PICK u : u = H.arena[page].unit
  OBVIOUS
<1>6. PICK s : s = Append(H.free[u], x)
  OBVIOUS
<1>7. u # 0
  BY <1>3, <1>4, <1>5 DEF FreeSmall
<1>8. o \in DOMAIN heap
  <2>1. heap = [q \in Owners |-> heap[q]]
    BY <1>2 DEF Sound, Heaps
  <2> QED BY <1>2, <2>1
<1>9. HeapOK(H, h, D) /\ x \in DOMAIN h
  BY <1>1, <1>2, <1>3
<1>10. CASE H.arena[page].free_cnt + 1 # blocks_per_arena(u)
  <2>1. PICK K : K = Given(H, u, s, page)
    OBVIOUS
  <2>2. GivesBack(H, h, D, x, page, u, s)
    BY <1>4, <1>5, <1>6, <1>7, <1>9 DEF GivesBack
  <2>3. HeapOK(K, Without(h, x), D)
    BY <1>10, <2>1, <2>2, HeapGive
  <2>4. mem.panic = "none"
    BY <1>2 DEF Works
  <2>5. /\ mem' = mem /\ task' = task /\ held' = [held EXCEPT ![o] = Without(@, x)]
        /\ heap' = [heap EXCEPT ![o].free[u] = s, ![o].arena[page].free_cnt = @ + 1]
    BY <1>3, <1>4, <1>5, <1>6, <1>10, <2>4 DEF FreeSmall, Finish
  <2>6. heap' = [heap EXCEPT ![o] = K]
    BY <1>3, <1>8, <2>1, <2>5 DEF Given
  <2>7. held' = [held EXCEPT ![o] = Without(h, x)]
    BY <1>3, <2>5
  <2>8. Agree(mem) /\ Bits(mem, task) /\ Tasks(task, Dom(mem, KERNEL))
    BY <1>2 DEF Sound
  <2>9. PICK g : g = Without(h, x)
    OBVIOUS
  <2>10. HeapOK(K, g, Room(mem, task, o)) /\ held' = [held EXCEPT ![o] = g]
    BY <1>3, <2>3, <2>7, <2>9
  <2> QED BY <1>2, <2>4, <2>5, <2>6, <2>8, <2>10, HeapStep
<1>11. CASE H.arena[page].free_cnt + 1 = blocks_per_arena(u)
  <2>1. PICK K : K = GivenLast(H, u, s, page)
    OBVIOUS
  <2>2. HeapOK(K, Without(h, x), D \ {page}) /\ page \in D /\ page \in Nat
    <3>1. GivesBack(H, h, D, x, page, u, s)
      BY <1>4, <1>5, <1>6, <1>7, <1>9 DEF GivesBack
    <3>2. HeapOK(K, Without(h, x), D \ {page}) /\ page \in DOMAIN H.arena
          /\ page \in D /\ page \in Nat
      BY ONLY <1>11, <2>1, <3>1, HeapGiveLast
    <3> QED BY <3>2
  <2>3. PICK n, S : n = mfree_page(mem, o, page, 1) /\ S = page..page + 1 - 1
    OBVIOUS
  <2>4. S = {page}
    BY <2>2, <2>3
  <2>5. Finish(n, /\ heap' = [heap EXCEPT ![o].free[u] = Elsewhere(s, page),
                                          ![o].arena = Without(@, page)]
                  /\ held' = [held EXCEPT ![o] = Without(@, x)]
                  /\ UNCHANGED task)
    BY <1>3, <1>4, <1>5, <1>6, <1>11, <2>3 DEF FreeSmall
  <2>6. [heap EXCEPT ![o].free[u] = Elsewhere(s, page), ![o].arena = Without(@, page)]
          = [heap EXCEPT ![o] = K]
    BY <1>3, <1>8, <2>1 DEF GivenLast
  <2>7. Finish(n, /\ heap' = [heap EXCEPT ![o] = K] /\ held' = [held EXCEPT ![o] = Without(h, x)]
                  /\ UNCHANGED task)
    BY <1>3, <2>5, <2>6 DEF Finish
  <2>8. HeapOK(K, Without(h, x), Room(mem, task, o) \ S) /\ S \subseteq Room(mem, task, o)
    BY <1>3, <2>2, <2>4
  <2>9. 1 \in Nat \ {0}
    OBVIOUS
  <2> QED BY <1>1, <2>2, <2>3, <2>7, <2>8, <2>9, FreeStep
<1> QED BY <1>10, <1>11

(* sys_free of whole pages keeps the invariant.                            *)
LEMMA FreeLargeSound ==
  ASSUME IInv, NEW o, NEW x, FreeLarge(o, x)
  PROVE  IInv'
<1>1. Running(o) /\ x \in DOMAIN held[o]
  BY DEF FreeLarge
<1>2. HeapOK(heap[o], held[o], Room(mem, task, o))
  BY <1>1, CallStarts
<1>3. PICK H, h, D : H = heap[o] /\ h = held[o] /\ D = Room(mem, task, o)
  OBVIOUS
<1>4. PICK page : page = block2arena(x)
  OBVIOUS
<1>5. PICK cnt : cnt = H.arena[page].free_cnt
  OBVIOUS
<1>6. H.arena[page].unit = 0
  BY <1>3, <1>4 DEF FreeLarge
<1>7. o \in DOMAIN heap
  <2>1. heap = [q \in Owners |-> heap[q]] /\ o \in Owners
    BY <1>1, CallStarts DEF Sound, Heaps
  <2> QED BY <2>1
<1>8. PICK K : K = WithoutArena(H, page)
  OBVIOUS
<1>9. /\ HeapOK(K, Without(h, x), D \ Span(H.arena, page))
      /\ Span(H.arena, page) \subseteq D /\ page \in Nat /\ cnt \in Nat \ {0}
      /\ Span(H.arena, page) = page..page + cnt - 1
  <2>1. HeapOK(H, h, D) /\ x \in DOMAIN h
    BY <1>1, <1>2, <1>3
  <2>2. /\ HeapOK(K, Without(h, x), D \ Span(H.arena, page)) /\ page \in DOMAIN H.arena
        /\ Span(H.arena, page) \subseteq D /\ page \in Nat /\ H.arena[page].free_cnt \in Nat \ {0}
        /\ Span(H.arena, page) = page..page + H.arena[page].free_cnt - 1
    BY ONLY <1>4, <1>6, <1>8, <2>1, HeapDropLarge
  <2> QED BY <1>5, <2>2
<1>10. PICK n, S : n = mfree_page(mem, o, page, cnt) /\ S = page..page + cnt - 1
  OBVIOUS
<1>11. Finish(n, /\ heap' = [heap EXCEPT ![o].arena = Without(@, page)]
                 /\ held' = [held EXCEPT ![o] = Without(@, x)]
                 /\ UNCHANGED task)
  BY <1>3, <1>4, <1>5, <1>10 DEF FreeLarge
<1>12. [heap EXCEPT ![o].arena = Without(@, page)] = [heap EXCEPT ![o] = K]
  BY <1>3, <1>7, <1>8 DEF WithoutArena
<1>13. Finish(n, /\ heap' = [heap EXCEPT ![o] = K] /\ held' = [held EXCEPT ![o] = Without(h, x)]
                 /\ UNCHANGED task)
  BY <1>3, <1>11, <1>12 DEF Finish
<1>14. HeapOK(K, Without(h, x), Room(mem, task, o) \ S) /\ S \subseteq Room(mem, task, o)
  BY <1>3, <1>9, <1>10
<1> QED BY <1>1, <1>9, <1>10, <1>13, <1>14, FreeStep

(* Heaps stay sound while their owners lose no pages.                      *)
LEMMA HeapsKept ==
  ASSUME NEW H, NEW h, NEW m, NEW t, Heaps(H, h, m, t), NEW n, NEW t2,
         \A o \in Owners : Room(m, t, o) \subseteq Room(n, t2, o)
  PROVE  Heaps(H, h, n, t2)
<1>1. ASSUME NEW o \in Owners PROVE HeapOK(H[o], h[o], Room(n, t2, o))
  BY HeapMorePages DEF Heaps
<1> QED BY <1>1 DEF Heaps

(* execv keeps the invariant.                                              *)
LEMMA SegmentLoadSound ==
  ASSUME IInv, NEW p \in Procs, NEW v \in ImagePages, segment_load(p, v)
  PROVE  IInv'
<1>1. Running(p) /\ v \notin Dom(mem, p)
  BY DEF segment_load, Dom
<1>2. p \in Owners /\ Runs1(task, p) /\ Works(mem) /\ Sound(mem, task, heap, held)
  BY <1>1, CallStarts
<1>3. v \in 1..BitmapLen(p)
  <2>1. v \in 1..UVPages - 2 /\ UVPages \in Nat /\ BitmapLen(p) = UVPages
    BY MemoryAssumption, Numbers
  <2> QED BY <2>1
<1>4. PICK n : n = get_a_page(mem, p, v)
  OBVIOUS
<1>5. Finish(n, UNCHANGED <<task, heap, held>>)
  BY <1>4 DEF segment_load
<1>6. Stops(n) \/ Allocated(mem, n, p, {v})
  BY <1>1, <1>2, <1>3, <1>4, GetAPage
<1>7. CASE Stops(n)
  <2>1. mem' = [mem EXCEPT !.panic = n.panic] /\ UNCHANGED <<task, heap, held>>
    BY <1>5, <1>7 DEF Finish, Stops
  <2> QED BY <1>7, <2>1, StoppedSound
<1>8. CASE Allocated(mem, n, p, {v})
  <2>1. PICK S : S = {v}
    OBVIOUS
  <2>2. S \cap mem.space[p].bits = {}
    BY <1>1, <1>2, <2>1 DEF Sound, Bits
  <2>3. /\ Agree(n) /\ n.panic = "none" /\ Bits(n, task) /\ Tasks(task, Dom(n, KERNEL))
        /\ Room(n, task, p) = Room(mem, task, p) \cup S
        /\ \A q \in Owners : q # p => Room(n, task, q) = Room(mem, task, q)
    BY <1>2, <1>8, <2>1, <2>2, AllocSound
  <2>4. Heaps(heap, held, mem, task) /\ \A q \in Owners : Room(mem, task, q) \subseteq Room(n, task, q)
    BY <1>2, <2>3 DEF Sound
  <2>5. Heaps(heap, held, n, task)
    BY <2>4, HeapsKept
  <2>6. mem' = n /\ task' = task /\ heap' = heap /\ held' = held
    BY <1>5, <2>3 DEF Finish
  <2> QED BY <2>3, <2>5, <2>6 DEF IInv, Sound
<1> QED BY <1>6, <1>7, <1>8

(* A bitmap of virtual pages has pages, and as many whole ones or less.    *)
LEMMA BitmapSizes ==
  /\ bitmap_pg_cnt \in Nat \ {0} /\ btmp_byte_len \div PG_SIZE \in Nat \ {0}
  /\ btmp_byte_len \div PG_SIZE <= bitmap_pg_cnt /\ UVPages - 1 > 0
<1>1. PG_SIZE \in Nat \ {0} /\ UVPages \in Nat
  BY BlockSizes, Numbers
<1>2. PICK l, k, c : l = btmp_byte_len /\ k = l \div PG_SIZE /\ c = DIV_CEILING(l, PG_SIZE)
  OBVIOUS
<1>3. l \in Nat /\ 8 * l <= UVPages /\ l >= PG_SIZE
  <2>1. UVPages \div 8 \in Nat /\ (UVPages \div 8) * 8 <= UVPages
    BY <1>1, Quotient
  <2> QED BY <1>2, <2>1, PageSizeAssumption DEF btmp_byte_len
<1>4. c \in Nat \ {0} /\ l <= c * PG_SIZE
  <2>1. l \in Nat \ {0}
    BY <1>1, <1>3
  <2> QED BY <1>1, <1>2, <2>1, Ceiling
<1>5. k \in Nat /\ k * PG_SIZE <= l /\ l < k * PG_SIZE + PG_SIZE
  BY <1>1, <1>2, <1>3, Quotient
<1>6. k # 0
  <2>1. k = 0 => k * PG_SIZE = 0
    BY <1>1
  <2> QED BY <1>1, <1>3, <1>5, <2>1
<1>7. k <= c
  <2>1. ASSUME c < k PROVE FALSE
    <3>1. c * PG_SIZE + PG_SIZE <= k * PG_SIZE /\ c * PG_SIZE \in Nat /\ k * PG_SIZE \in Nat
      BY <1>1, <1>4, <1>5, <2>1, Times
    <3> QED BY <1>1, <1>3, <1>4, <1>5, <3>1
  <2> QED BY <1>4, <1>5, <2>1
<1>8. UVPages - 1 > 0
  BY <1>1, <1>3
<1> QED BY <1>2, <1>4, <1>5, <1>6, <1>7, <1>8 DEF bitmap_pg_cnt

\* r gives the kernel a run of cnt pages.
Got(m, r, cnt) ==
  /\ r.vaddr \in Nat
  /\ Allocated(m, r.mem, KERNEL, r.vaddr..r.vaddr + cnt - 1)
  /\ r.vaddr..r.vaddr + cnt - 1 \cap m.space[KERNEL].bits = {}

(* get_kernel_pages gives a run, or NULL, or panics.                       *)
LEMMA KernelRun ==
  ASSUME NEW m, NEW cnt \in Nat \ {0}, NEW r, r = get_kernel_pages(m, cnt)
  PROVE  /\ Stops(m) => Stops(r.mem)
         /\ Works(m) => \/ Stops(r.mem)
                        \/ r.vaddr = -1 /\ r.mem = m /\ cnt # 1
                        \/ Got(m, r, cnt)
<1>1. KERNEL \in Owners /\ StackKept(m, KERNEL) /\ r = malloc_page(m, KERNEL, cnt)
  BY Numbers DEF StackKept, get_kernel_pages
<1>2. Stops(m) => Stops(r.mem)
  BY <1>1, MallocPage
<1>3. ASSUME Works(m)
      PROVE  Stops(r.mem) \/ (r.vaddr = -1 /\ r.mem = m /\ cnt # 1) \/ Got(m, r, cnt)
  <2>1. \/ Stops(r.mem)
        \/ r.vaddr = -1 /\ r.mem = m /\ cnt # 1
        \/ /\ r.vaddr \in FreeRuns(m, KERNEL, cnt)
           /\ Allocated(m, r.mem, KERNEL, r.vaddr..r.vaddr + cnt - 1)
    BY <1>1, <1>3, MallocPage
  <2>2. ASSUME r.vaddr \in FreeRuns(m, KERNEL, cnt)
        PROVE  r.vaddr \in Nat /\ r.vaddr..r.vaddr + cnt - 1 \cap m.space[KERNEL].bits = {}
    BY <1>1, <2>2, RunFacts
  <2> QED BY <2>1, <2>2 DEF Got
<1> QED BY <1>2, <1>3

\* n is m with the kernel pages S, which were free.
Grown(m, n, S) ==
  /\ S \cap m.space[KERNEL].bits = {}
  /\ n.space[KERNEL].bits = m.space[KERNEL].bits \cup S
  /\ Dom(n, KERNEL) = Dom(m, KERNEL) \cup S
  /\ \A p \in Procs : n.space[p].bits = m.space[p].bits /\ Dom(n, p) = Dom(m, p)

(* The kernel's bitmap after a run has been given.                         *)
LEMMA GotBits ==
  ASSUME NEW m, NEW r, NEW cnt \in Nat \ {0}, Got(m, r, cnt), NEW n, n = r.mem
  PROVE  /\ r.vaddr \in Nat /\ Works(n) /\ Grown(m, n, r.vaddr..r.vaddr + cnt - 1)
         /\ cnt = 1 => Grown(m, n, {r.vaddr})
<1>1. KERNEL \in Owners /\ Procs \subseteq Owners /\ KERNEL \notin Procs
  BY Numbers
<1>2. PICK S : S = r.vaddr..r.vaddr + cnt - 1
  OBVIOUS
<1>3. Allocated(m, n, KERNEL, S) /\ r.vaddr \in Nat /\ S \cap m.space[KERNEL].bits = {}
  BY <1>2 DEF Got
<1>4. cnt = 1 => S = {r.vaddr}
  BY <1>2, <1>3
<1>5. Works(n) /\ Grown(m, n, S)
  BY <1>1, <1>3 DEF Allocated, Grown
<1>6. cnt = 1 => Grown(m, n, {r.vaddr})
  BY <1>4, <1>5
<1> QED BY <1>2, <1>3, <1>5, <1>6

(* The pages of fork: the child's task_struct and a page to copy through,  *)
(* its bitmap unless there is no run for it.                               *)
LEMMA ForkPages ==
  ASSUME NEW m, Works(m),
         NEW tcb, tcb = get_kernel_pages(m, 1),
         NEW buf, buf = get_kernel_pages(tcb.mem, 1),
         NEW bitmap, bitmap = get_kernel_pages(buf.mem, bitmap_pg_cnt)
  PROVE  \/ Stops(bitmap.mem)
         \/ /\ Got(m, tcb, 1) /\ Got(tcb.mem, buf, 1)
            /\ \/ bitmap.vaddr = -1 /\ bitmap.mem = buf.mem
               \/ Got(buf.mem, bitmap, bitmap_pg_cnt)
<1>1. 1 \in Nat \ {0} /\ bitmap_pg_cnt \in Nat \ {0}
  BY BitmapSizes
<1>2. Stops(tcb.mem) \/ Got(m, tcb, 1)
  BY <1>1, KernelRun
<1>3. Stops(tcb.mem) => Stops(buf.mem)
  BY <1>1, KernelRun
<1>4. Got(m, tcb, 1) => Stops(buf.mem) \/ Got(tcb.mem, buf, 1)
  <2>1. Got(m, tcb, 1) => Works(tcb.mem)
    BY <1>1, GotBits
  <2> QED BY <1>1, <2>1, KernelRun
<1>5. Stops(buf.mem) => Stops(bitmap.mem)
  BY <1>1, KernelRun
<1>6. Got(tcb.mem, buf, 1) => \/ Stops(bitmap.mem)
                              \/ bitmap.vaddr = -1 /\ bitmap.mem = buf.mem
                              \/ Got(buf.mem, bitmap, bitmap_pg_cnt)
  <2>1. Got(tcb.mem, buf, 1) => Works(buf.mem)
    BY <1>1, GotBits
  <2> QED BY <1>1, <2>1, KernelRun
<1> QED BY <1>2, <1>3, <1>4, <1>5, <1>6

(* The child of fork: p has pages, c has none.                             *)
Forks(m, p, c) ==
  /\ p \in Procs /\ c \in Procs /\ p # c
  /\ m.space[p].bits # {} /\ m.space[p].bits \subseteq 0..UVPages
  /\ m.space[c].bits = {} /\ Dom(m, c) = {}

\* The bitmap of the child becomes one of the parent's pages too.
ForChild(m, p, c) == WithBits(m, c, m.space[c].bits \cup m.space[p].bits)

\* n is m with a kernel page v, and c with pages like those of p.
ForkCopied(m, n, p, c, v) ==
  /\ Works(n) /\ v \in Nat /\ v \notin m.space[KERNEL].bits
  /\ n.space[KERNEL].bits = m.space[KERNEL].bits \cup {v}
  /\ Dom(n, KERNEL) = Dom(m, KERNEL) \cup {v}
  /\ n.space[c].bits = m.space[p].bits /\ Dom(n, c) = m.space[p].bits
  /\ \A q \in Procs : q # c => n.space[q].bits = m.space[q].bits /\ Dom(n, q) = Dom(m, q)

(* Its page directory, and a copy of every page of p.                      *)
LEMMA ForkCopy ==
  ASSUME NEW m, Works(m), NEW p, NEW c, Forks(m, p, c),
         NEW x, x = ForChild(m, p, c),
         NEW pgdir, pgdir = get_kernel_pages(x, 1), NEW d, d = pgdir.mem,
         NEW n, n = copy_body_stack3(d, p, c)
  PROVE  Stops(n) \/ ForkCopied(m, n, p, c, pgdir.vaddr)
<1>1. KERNEL \in Owners /\ Procs \subseteq Owners /\ KERNEL \notin Procs
  BY Numbers
<1>2. PICK e : e = m.space[c].bits \cup m.space[p].bits
  OBVIOUS
<1>3. /\ p \in Procs /\ c \in Procs /\ p # c /\ e = m.space[p].bits /\ e # {} /\ e \subseteq 0..UVPages
      /\ x = WithBits(m, c, e)
  BY <1>2 DEF Forks, ForChild
<1>4. /\ Works(x)
      /\ \A q \in Owners : /\ x.space[q].bits = IF q = c THEN e ELSE m.space[q].bits
                           /\ Dom(x, q) = Dom(m, q)
  <2>1. Covering(m, c, e)
    BY <1>3, Numbers DEF Covering, Forks
  <2>2. Agree(m) /\ m.panic = "none" /\ c \in Owners
    BY <1>1, <1>3 DEF Works
  <2>3. /\ Agree(x) /\ x.panic = m.panic
        /\ \A q \in Owners : /\ x.space[q].bits = IF q = c THEN e ELSE m.space[q].bits
                             /\ Dom(x, q) = Dom(m, q)
    BY ONLY <1>3, <2>1, <2>2, BitsSet
  <2> QED BY <2>2, <2>3 DEF Works
<1>5. 1 \in Nat \ {0}
  OBVIOUS
<1>7. Stops(d) \/ Got(x, pgdir, 1)
  BY <1>4, <1>5, KernelRun
<1>8. d.space[p].bits = e
  <2>1. Shape(x) /\ pgdir = malloc_page(x, KERNEL, 1) /\ p \in Owners /\ p # KERNEL
    BY <1>1, <1>3, <1>4 DEF Works, Agree, get_kernel_pages
  <2>2. pgdir.mem.space[p].bits = x.space[p].bits
    BY <1>1, <1>5, <2>1, MallocBits
  <2> QED BY <1>1, <1>3, <1>4, <2>2
<1>9. /\ Stops(d) => Stops(n)
      /\ Works(d) /\ d.space[p].bits \subseteq d.space[c].bits /\ Dom(d, c) = {} =>
           Stops(n) \/ Mapped(d, n, c, e)
  <2>1. n = copy_body_stack3(d, p, c) /\ d.space[p].bits # {} /\ d.space[p].bits \subseteq 0..UVPages
    BY <1>3, <1>8
  <2>2. /\ Stops(d) => Stops(n)
        /\ Works(d) /\ d.space[p].bits \subseteq d.space[c].bits /\ Dom(d, c) = {} =>
             Stops(n) \/ Mapped(d, n, c, d.space[p].bits)
    BY ONLY <1>3, <2>1, CopyBody
  <2> QED BY <1>8, <2>2
<1>10. CASE Got(x, pgdir, 1)
  <2>1. /\ pgdir.vaddr \in Nat /\ Works(d)
        /\ {pgdir.vaddr} \cap x.space[KERNEL].bits = {}
        /\ d.space[KERNEL].bits = x.space[KERNEL].bits \cup {pgdir.vaddr}
        /\ Dom(d, KERNEL) = Dom(x, KERNEL) \cup {pgdir.vaddr}
        /\ \A q \in Procs : d.space[q].bits = x.space[q].bits /\ Dom(d, q) = Dom(x, q)
    <3>1. pgdir.vaddr \in Nat /\ Works(d) /\ Grown(x, d, {pgdir.vaddr})
      BY <1>5, <1>10, GotBits
    <3> QED BY <3>1 DEF Grown
  <2>2. x.space[KERNEL].bits = m.space[KERNEL].bits /\ Dom(x, KERNEL) = Dom(m, KERNEL)
    BY <1>1, <1>3, <1>4
  <2>3. \A q \in Procs : /\ d.space[q].bits = (IF q = c THEN e ELSE m.space[q].bits)
                         /\ Dom(d, q) = Dom(m, q)
    BY <1>1, <1>4, <2>1
  <2>4. Dom(m, c) = {}
    BY DEF Forks
  <2>5. Stops(n) \/ Mapped(d, n, c, e)
    BY <1>3, <1>8, <1>9, <2>1, <2>3, <2>4
  <2>6. ASSUME Mapped(d, n, c, e)
        PROVE  /\ Works(n)
               /\ n.space[KERNEL].bits = m.space[KERNEL].bits \cup {pgdir.vaddr}
               /\ Dom(n, KERNEL) = Dom(m, KERNEL) \cup {pgdir.vaddr}
               /\ n.space[c].bits = m.space[p].bits /\ Dom(n, c) = m.space[p].bits
               /\ \A q \in Procs : q # c => /\ n.space[q].bits = m.space[q].bits
                                            /\ Dom(n, q) = Dom(m, q)
    <3>1. /\ Works(n)
          /\ \A q \in Owners : /\ n.space[q].bits = d.space[q].bits
                               /\ Dom(n, q) = IF q = c THEN Dom(d, c) \cup e ELSE Dom(d, q)
      BY <2>6 DEF Mapped
    <3>2. n.space[KERNEL].bits = d.space[KERNEL].bits /\ Dom(n, KERNEL) = Dom(d, KERNEL)
      BY <1>1, <1>3, <3>1
    <3>3. n.space[c].bits = e /\ Dom(n, c) = e
      BY <1>1, <1>3, <2>3, <2>4, <3>1
    <3>4. \A q \in Procs : q # c => n.space[q].bits = m.space[q].bits /\ Dom(n, q) = Dom(m, q)
      BY <1>1, <2>3, <3>1
    <3> QED BY <1>3, <2>1, <2>2, <3>1, <3>2, <3>3, <3>4
  <2> QED BY <2>1, <2>2, <2>5, <2>6 DEF ForkCopied
<1> QED BY <1>7, <1>9, <1>10

(* A run given to the kernel keeps the invariant.                          *)
LEMMA GotSound ==
  ASSUME NEW m, NEW t, NEW H, NEW h, Sound(m, t, H, h),
         NEW r, NEW cnt \in Nat \ {0}, Got(m, r, cnt)
  PROVE  Sound(r.mem, t, H, h)
<1>1. KERNEL \in Owners /\ Runs1(t, KERNEL)
  BY Numbers DEF Runs1
<1>2. PICK n, S : n = r.mem /\ S = r.vaddr..r.vaddr + cnt - 1
  OBVIOUS
<1>3. Allocated(m, n, KERNEL, S) /\ S \cap m.space[KERNEL].bits = {}
  BY <1>2 DEF Got
<1>4. /\ Agree(n) /\ n.panic = "none" /\ Bits(n, t) /\ Tasks(t, Dom(n, KERNEL))
      /\ Room(n, t, KERNEL) = Room(m, t, KERNEL) \cup S
      /\ \A q \in Owners : q # KERNEL => Room(n, t, q) = Room(m, t, q)
  BY <1>1, <1>3, AllocSound
<1>5. Heaps(H, h, m, t) /\ \A q \in Owners : Room(m, t, q) \subseteq Room(n, t, q)
  BY <1>4 DEF Sound
<1>6. Heaps(H, h, n, t)
  BY <1>5, HeapsKept
<1> QED BY <1>2, <1>4, <1>6 DEF Sound

\* n is m with the process c: its record r, its pages N, p's pages copied.
Forked(m, n, p, c, r, N) ==
  /\ Works(n) /\ Whole(r) /\ r.state = "live" /\ PagesOf(r) = N /\ N \cap Dom(m, KERNEL) = {}
  /\ n.space[KERNEL].bits = m.space[KERNEL].bits \cup N
  /\ Dom(n, KERNEL) = Dom(m, KERNEL) \cup N
  /\ n.space[c].bits = m.space[p].bits /\ Dom(n, c) = m.space[p].bits
  /\ \A q \in Procs : q # c => n.space[q].bits = m.space[q].bits /\ Dom(n, q) = Dom(m, q)

(* A new process keeps the invariant.                                      *)
LEMMA ForkedSound ==
  ASSUME NEW m, NEW t, NEW H, NEW h, Sound(m, t, H, h),
         NEW p \in Procs, t[p].state = "live", NEW c \in Procs, t[c].state = "none",
         NEW n, NEW r, NEW N, Forked(m, n, p, c, r, N), NEW t2, t2 = [t EXCEPT ![c] = r]
  PROVE  Sound(n, t2, H, h)
<1>1. KERNEL \in Owners /\ Procs \subseteq Owners /\ KERNEL \notin Procs
  BY Numbers
<1>2. /\ t = [q \in Procs |-> t[q]]
      /\ \A q \in Procs : Whole(t[q]) /\ PagesOf(t[q]) \subseteq Dom(m, KERNEL)
      /\ \A q, w \in Procs : q # w => PagesOf(t[q]) \cap PagesOf(t[w]) = {}
  BY DEF Sound, Tasks
<1>3. /\ t2 = [q \in Procs |-> t2[q]] /\ t2[c] = r
      /\ \A q \in Procs : q # c => t2[q] = t[q]
  BY <1>2
<1>4. PagesOf(t[c]) = {} /\ PagesOf(t2[c]) = N
  BY <1>3 DEF PagesOf, Forked
<1>5. Tasks(t2, Dom(n, KERNEL))
  <2>1. ASSUME NEW q \in Procs PROVE Whole(t2[q]) /\ PagesOf(t2[q]) \subseteq Dom(n, KERNEL)
    <3>1. CASE q = c
      BY <1>3, <1>4, <3>1 DEF Forked
    <3>2. CASE q # c
      BY <1>2, <1>3, <3>2 DEF Forked
    <3> QED BY <3>1, <3>2
  <2>2. ASSUME NEW q \in Procs, NEW w \in Procs, q # w
        PROVE  PagesOf(t2[q]) \cap PagesOf(t2[w]) = {}
    <3>1. N \cap Dom(m, KERNEL) = {}
      BY DEF Forked
    <3>2. CASE q = c
      BY <1>2, <1>3, <1>4, <2>2, <3>1, <3>2
    <3>3. CASE w = c
      BY <1>2, <1>3, <1>4, <2>2, <3>1, <3>3
    <3>4. CASE q # c /\ w # c
      BY <1>2, <1>3, <2>2, <3>4
    <3> QED BY <3>2, <3>3, <3>4
  <2> QED BY <1>3, <2>1, <2>2 DEF Tasks
<1>6. Bits(n, t2)
  <2>1. n.space[KERNEL].bits \ {KPages} = Dom(n, KERNEL) \ {KPages}
    BY DEF Sound, Bits, Forked
  <2>2. ASSUME NEW q \in Procs
        PROVE  /\ n.space[q].bits = Dom(n, q)
               /\ t2[q].state = "live" => UVPages - 1 \in Dom(n, q)
               /\ t2[q].state # "live" => Dom(n, q) = {}
    <3>1. CASE q = c
      <4>1. t2[q].state = "live"
        BY <1>3, <3>1 DEF Forked
      <4>2. m.space[p].bits = Dom(m, p) /\ UVPages - 1 \in Dom(m, p)
        BY DEF Sound, Bits
      <4> QED BY <3>1, <4>1, <4>2 DEF Forked
    <3>2. CASE q # c
      BY <1>3, <3>2 DEF Sound, Bits, Forked
    <3> QED BY <3>1, <3>2
  <2> QED BY <2>1, <2>2 DEF Bits
<1>7. ASSUME NEW q \in Owners PROVE Room(m, t, q) \subseteq Room(n, t2, q)
  <2>1. CASE q = KERNEL
    <3>1. ASSUME NEW x \in TaskSpan(t2) PROVE x \in TaskSpan(t) \/ x \in N
      <4>1. PICK w \in Procs : x \in PagesOf(t2[w])
        BY <3>1 DEF TaskSpan
      <4> QED BY <1>3, <1>4, <4>1 DEF TaskSpan
    <3>2. Dom(m, KERNEL) \subseteq Dom(n, KERNEL) /\ N \cap Dom(m, KERNEL) = {}
      BY DEF Forked
    <3> QED BY <2>1, <3>1, <3>2 DEF Room
  <2>2. CASE q = c
    <3>1. Dom(m, c) = {}
      BY DEF Sound, Bits
    <3> QED BY <1>1, <2>2, <3>1 DEF Room
  <2>3. CASE q # KERNEL /\ q # c
    <3>1. q \in Procs
      BY <2>3 DEF Owners
    <3>2. Dom(n, q) = Dom(m, q)
      BY <2>3, <3>1 DEF Forked
    <3> QED BY <2>3, <3>2 DEF Room
  <2> QED BY <2>1, <2>2, <2>3
<1>8. Heaps(H, h, n, t2)
  <2>1. Heaps(H, h, m, t)
    BY DEF Sound
  <2> QED BY <1>7, <2>1, HeapsKept
<1>9. Agree(n)
  BY DEF Forked, Works
<1> QED BY <1>5, <1>6, <1>8, <1>9 DEF Sound

(* fork keeps the invariant, whichever way it ends.                        *)
LEMMA ForkSound ==
  ASSUME IInv, NEW p \in Procs, NEW c \in Procs, sys_fork(p, c)
  PROVE  IInv'
<1>1. Running(p) /\ p # c /\ task[c].state = "none"
  BY DEF sys_fork
<1>2. Works(mem) /\ Sound(mem, task, heap, held)
  BY <1>1, CallStarts
<1>3. KERNEL \in Owners /\ Procs \subseteq Owners /\ KERNEL \notin Procs
  BY Numbers
<1>4. task[p].state = "live"
  BY <1>1, <1>3 DEF Running, Live
<1>5. PICK tcb : tcb = get_kernel_pages(mem, 1)
  OBVIOUS
<1>6. PICK buf : buf = get_kernel_pages(tcb.mem, 1)
  OBVIOUS
<1>7. PICK bitmap : bitmap = get_kernel_pages(buf.mem, bitmap_pg_cnt)
  OBVIOUS
<1>8. PICK m : m = bitmap.mem
  OBVIOUS
<1>9. PICK pgdir : pgdir = get_kernel_pages([m EXCEPT !.space[c].bits = @ \cup mem.space[p].bits], 1)
  OBVIOUS
<1>10. PICK copied : copied = copy_body_stack3(pgdir.mem, p, c)
  OBVIOUS
<1>11. PICK r : r = [state |-> "live", tcb |-> tcb.vaddr, pgdir |-> pgdir.vaddr,
                     bitmap |-> bitmap.vaddr]
  OBVIOUS
<1>12. \/ /\ m.panic # "none" \/ bitmap.vaddr = -1
          /\ Finish(m, UNCHANGED <<task, heap, held>>)
       \/ /\ m.panic = "none" /\ bitmap.vaddr # -1 /\ copied.panic # "none"
          /\ Finish(copied, TRUE)
       \/ /\ m.panic = "none" /\ bitmap.vaddr # -1 /\ copied.panic = "none"
          /\ Finish(mfree_page(copied, KERNEL, buf.vaddr, 1),
                    task' = [task EXCEPT ![c] = r] /\ UNCHANGED <<heap, held>>)
  BY <1>5, <1>6, <1>7, <1>8, <1>9, <1>10, <1>11 DEF sys_fork
<1>13. \/ Stops(m)
       \/ /\ Got(mem, tcb, 1) /\ Got(tcb.mem, buf, 1)
          /\ (bitmap.vaddr = -1 /\ m = buf.mem) \/ Got(buf.mem, bitmap, bitmap_pg_cnt)
  BY <1>2, <1>5, <1>6, <1>7, <1>8, ForkPages
<1>14. 1 \in Nat \ {0} /\ bitmap_pg_cnt \in Nat \ {0}
  BY BitmapSizes
<1>15. CASE Stops(m)
  <2>1. mem' = [mem EXCEPT !.panic = m.panic] /\ UNCHANGED <<task, heap, held>>
    BY <1>12, <1>15 DEF Finish, Stops
  <2> QED BY <1>15, <2>1, StoppedSound
<1>16. ASSUME Got(mem, tcb, 1), Got(tcb.mem, buf, 1)
       PROVE  Sound(buf.mem, task, heap, held) /\ Works(buf.mem)
  <2>1. Sound(tcb.mem, task, heap, held)
    BY <1>2, <1>14, <1>16, GotSound
  <2> QED BY <1>14, <1>16, <2>1, GotSound, GotBits
<1>17. CASE Got(mem, tcb, 1) /\ Got(tcb.mem, buf, 1) /\ bitmap.vaddr = -1 /\ m = buf.mem
  <2>1. Sound(m, task, heap, held) /\ m.panic = "none"
    BY <1>16, <1>17 DEF Works
  <2>2. mem' = m /\ task' = task /\ heap' = heap /\ held' = held
    BY <1>12, <1>17, <2>1 DEF Finish
  <2> QED BY <2>1, <2>2 DEF IInv
<1>18. CASE Got(mem, tcb, 1) /\ Got(tcb.mem, buf, 1) /\ Got(buf.mem, bitmap, bitmap_pg_cnt)
  <2>1. Sound(m, task, heap, held) /\ Works(m) /\ m.panic = "none" /\ bitmap.vaddr \in Nat
    BY <1>8, <1>14, <1>16, <1>18, GotSound, GotBits DEF Works
  <2>2. PICK T : T = {tcb.vaddr}
    OBVIOUS
  <2>3. PICK B : B = {buf.vaddr}
    OBVIOUS
  <2>4. PICK V : V = bitmap.vaddr..bitmap.vaddr + bitmap_pg_cnt - 1
    OBVIOUS
  <2>5. tcb.vaddr \in Nat /\ Grown(mem, tcb.mem, T)
    BY <1>14, <1>18, <2>2, GotBits
  <2>6. buf.vaddr \in Nat /\ Grown(tcb.mem, buf.mem, B)
    BY <1>14, <1>18, <2>3, GotBits
  <2>7. Grown(buf.mem, m, V)
    BY <1>8, <1>14, <1>18, <2>4, GotBits
  <2>8. \A q \in Procs : m.space[q].bits = mem.space[q].bits /\ Dom(m, q) = Dom(mem, q)
    BY <2>5, <2>6, <2>7 DEF Grown
  <2>9. Forks(m, p, c)
    <3>1. /\ mem.space[p].bits = Dom(mem, p) /\ UVPages - 1 \in Dom(mem, p)
          /\ mem.space[c].bits = {} /\ Dom(mem, c) = {}
      BY <1>1, <1>4 DEF IInv, Sound, Bits
    <3>2. mem.space[p].bits \subseteq 0..UVPages
      BY <1>2, <1>3, Numbers DEF Works, Agree, BitsCover
    <3> QED BY <1>1, <2>8, <3>1, <3>2 DEF Forks
  <2>10. Stops(copied) \/ ForkCopied(m, copied, p, c, pgdir.vaddr)
    <3>1. PICK x, d : x = ForChild(m, p, c) /\ d = pgdir.mem
      OBVIOUS
    <3>2. pgdir = get_kernel_pages(x, 1)
      BY <1>9, <2>8, <3>1 DEF WithBits, ForChild
    <3>3. copied = copy_body_stack3(d, p, c)
      BY <1>10, <3>1
    <3> QED BY <2>1, <2>9, <3>1, <3>2, <3>3, ForkCopy
  <2>11. CASE Stops(copied)
    <3>1. mem' = [mem EXCEPT !.panic = copied.panic] /\ UNCHANGED <<task, heap, held>>
      BY <1>12, <2>1, <2>11 DEF Finish, Stops
    <3> QED BY <2>11, <3>1, StoppedSound
  <2>12. CASE ForkCopied(m, copied, p, c, pgdir.vaddr)
    <3>1. PICK n : n = mfree_page(copied, KERNEL, buf.vaddr, 1)
      OBVIOUS
    <3>2. PICK P : P = {pgdir.vaddr}
      OBVIOUS
    <3>3. Freed(copied, n, KERNEL, B)
      <4>1. PICK S : S = buf.vaddr..buf.vaddr + 1 - 1
        OBVIOUS
      <4>2. S = B
        BY <2>3, <2>6, <4>1
      <4>3. S \subseteq Dom(copied, KERNEL) /\ Works(copied)
        BY <2>6, <2>7, <2>12, <4>2 DEF Grown, ForkCopied
      <4>4. Freed(copied, n, KERNEL, S)
        BY <1>3, <1>14, <2>6, <3>1, <4>1, <4>3, MfreePage
      <4> QED BY <4>2, <4>4
    <3>4. /\ Works(n)
          /\ n.space[KERNEL].bits = copied.space[KERNEL].bits \ B
          /\ Dom(n, KERNEL) = Dom(copied, KERNEL) \ B
          /\ \A q \in Procs : n.space[q].bits = copied.space[q].bits /\ Dom(n, q) = Dom(copied, q)
      BY <1>3, <3>3 DEF Freed
    <3>5. PICK N : N = T \cup V \cup P
      OBVIOUS
    <3>6. Dom(mem, KERNEL) \subseteq mem.space[KERNEL].bits
      BY <1>2, <1>3 DEF Works, Agree, BitsCover
    <3>7. P \cap m.space[KERNEL].bits = {}
      BY <2>12, <3>2 DEF ForkCopied
    <3>8. /\ n.space[KERNEL].bits = mem.space[KERNEL].bits \cup N
          /\ Dom(n, KERNEL) = Dom(mem, KERNEL) \cup N
          /\ N \cap Dom(mem, KERNEL) = {}
      <4>1. /\ n.space[KERNEL].bits = (m.space[KERNEL].bits \cup P) \ B
            /\ Dom(n, KERNEL) = (Dom(m, KERNEL) \cup P) \ B
        BY <2>12, <3>2, <3>4 DEF ForkCopied
      <4>2. B \cap (mem.space[KERNEL].bits \cup N) = {}
        BY <2>5, <2>6, <2>7, <3>5, <3>7 DEF Grown
      <4>3. n.space[KERNEL].bits = mem.space[KERNEL].bits \cup N
        BY <2>5, <2>6, <2>7, <3>5, <4>1, <4>2 DEF Grown
      <4>4. Dom(n, KERNEL) = Dom(mem, KERNEL) \cup N
        BY <2>5, <2>6, <2>7, <3>5, <3>6, <4>1, <4>2 DEF Grown
      <4>5. N \cap mem.space[KERNEL].bits = {}
        BY <2>5, <2>6, <2>7, <3>5, <3>7 DEF Grown
      <4> QED BY <3>6, <4>3, <4>4, <4>5
    <3>9. Whole(r) /\ r.state = "live" /\ PagesOf(r) = N
      <4>1. /\ r.state = "live" /\ r.tcb = tcb.vaddr /\ r.pgdir = pgdir.vaddr
            /\ r.bitmap = bitmap.vaddr
            /\ r = [state |-> r.state, tcb |-> r.tcb, pgdir |-> r.pgdir, bitmap |-> r.bitmap]
        BY <1>11
      <4>2. T \cap P = {} /\ T \cap V = {} /\ P \cap V = {}
        BY <2>5, <2>6, <2>7, <3>7 DEF Grown
      <4>3. tcb.vaddr # pgdir.vaddr /\ {tcb.vaddr, pgdir.vaddr} \cap V = {}
        BY <2>2, <3>2, <4>2
      <4>4. Whole(r)
        BY <2>1, <2>4, <2>5, <2>12, <4>1, <4>3 DEF Whole, ForkCopied
      <4>5. PagesOf(r) = N
        BY <2>2, <2>4, <3>2, <3>5, <4>1 DEF PagesOf
      <4> QED BY <4>1, <4>4, <4>5
    <3>10. Forked(mem, n, p, c, r, N)
      BY <2>8, <2>12, <3>4, <3>8, <3>9 DEF Forked, ForkCopied
    <3>11. PICK t2 : t2 = [task EXCEPT ![c] = r]
      OBVIOUS
    <3>12. Sound(n, t2, heap, held)
      BY <1>1, <1>2, <1>4, <3>10, <3>11, ForkedSound
    <3>13. mem' = n /\ task' = t2 /\ heap' = heap /\ held' = held /\ n.panic = "none"
      BY <1>12, <2>1, <2>12, <3>1, <3>4, <3>11 DEF Finish, Works, ForkCopied
    <3> QED BY <3>12, <3>13 DEF IInv
  <2> QED BY <2>10, <2>11, <2>12
<1> QED BY <1>13, <1>15, <1>17, <1>18

\* n is m without the pages of process p, and without its kernel pages S.
Ended(m, n, t, p, r, S) ==
  /\ Works(n) /\ Whole(r) /\ r.state # "live"
  /\ S \subseteq PagesOf(t[p]) /\ PagesOf(r) \subseteq PagesOf(t[p]) \ S
  /\ n.space[KERNEL].bits = m.space[KERNEL].bits \ S /\ Dom(n, KERNEL) = Dom(m, KERNEL) \ S
  /\ n.space[p].bits = {} /\ Dom(n, p) = {}
  /\ \A q \in Procs : q # p => n.space[q].bits = m.space[q].bits /\ Dom(n, q) = Dom(m, q)

\* The heaps, p's one empty.
HeapGone(H2, h2, H, h, p) ==
  /\ H2 = [q \in Owners |-> H2[q]] /\ h2 = [q \in Owners |-> h2[q]]
  /\ HeapOK(H2[p], h2[p], {})
  /\ \A q \in Owners : q # p => H2[q] = H[q] /\ h2[q] = h[q]

(* What is left of a process keeps the invariant.                          *)
LEMMA EndedSound ==
  ASSUME NEW m, NEW t, NEW H, NEW h, Sound(m, t, H, h), NEW p \in Procs,
         NEW n, NEW r, NEW S, Ended(m, n, t, p, r, S), NEW t2, t2 = [t EXCEPT ![p] = r],
         NEW H2, NEW h2, HeapGone(H2, h2, H, h, p)
  PROVE  Sound(n, t2, H2, h2)
<1>1. KERNEL \in Owners /\ Procs \subseteq Owners /\ KERNEL \notin Procs
  BY Numbers
<1>2. /\ t = [q \in Procs |-> t[q]]
      /\ \A q \in Procs : Whole(t[q]) /\ PagesOf(t[q]) \subseteq Dom(m, KERNEL)
      /\ \A q, w \in Procs : q # w => PagesOf(t[q]) \cap PagesOf(t[w]) = {}
  BY DEF Sound, Tasks
<1>3. /\ t2 = [q \in Procs |-> t2[q]] /\ t2[p] = r
      /\ \A q \in Procs : q # p => t2[q] = t[q]
  BY <1>2
<1>4. \A q \in Procs : PagesOf(t2[q]) \subseteq PagesOf(t[q]) \ S
  <2>1. ASSUME NEW q \in Procs PROVE PagesOf(t2[q]) \subseteq PagesOf(t[q]) \ S
    <3>1. CASE q = p
      BY <1>3, <3>1 DEF Ended
    <3>2. CASE q # p
      <4>1. PagesOf(t[q]) \cap PagesOf(t[p]) = {} /\ S \subseteq PagesOf(t[p])
        BY <1>2, <3>2 DEF Ended
      <4> QED BY <1>3, <3>2, <4>1
    <3> QED BY <3>1, <3>2
  <2> QED BY <2>1
<1>5. Tasks(t2, Dom(n, KERNEL))
  <2>1. \A q \in Procs : PagesOf(t2[q]) \subseteq Dom(n, KERNEL)
    BY <1>2, <1>4 DEF Ended
  <2>2. \A q \in Procs : Whole(t2[q])
    BY <1>2, <1>3 DEF Ended
  <2>3. \A q, w \in Procs : q # w => PagesOf(t2[q]) \cap PagesOf(t2[w]) = {}
    BY <1>2, <1>4
  <2> QED BY <1>3, <2>1, <2>2, <2>3 DEF Tasks
<1>6. Bits(n, t2)
  <2>1. n.space[KERNEL].bits \ {KPages} = Dom(n, KERNEL) \ {KPages}
    BY DEF Sound, Bits, Ended
  <2>2. ASSUME NEW q \in Procs
        PROVE  /\ n.space[q].bits = Dom(n, q)
               /\ t2[q].state = "live" => UVPages - 1 \in Dom(n, q)
               /\ t2[q].state # "live" => Dom(n, q) = {}
    <3>1. CASE q = p
      BY <1>3, <3>1 DEF Ended
    <3>2. CASE q # p
      BY <1>3, <3>2 DEF Sound, Bits, Ended
    <3> QED BY <3>1, <3>2
  <2> QED BY <2>1, <2>2 DEF Bits
<1>7. ASSUME NEW q \in Owners, q # p PROVE Room(m, t, q) \subseteq Room(n, t2, q)
  <2>1. CASE q = KERNEL
    <3>1. TaskSpan(t2) \subseteq TaskSpan(t) /\ S \subseteq TaskSpan(t)
      BY <1>4 DEF TaskSpan, Ended
    <3>2. Dom(n, KERNEL) = Dom(m, KERNEL) \ S
      BY DEF Ended
    <3> QED BY <2>1, <3>1, <3>2 DEF Room
  <2>2. CASE q # KERNEL
    <3>1. q \in Procs
      BY <2>2 DEF Owners
    <3> QED BY <1>7, <2>2, <3>1 DEF Room, Ended
  <2> QED BY <2>1, <2>2
<1>8. Heaps(H2, h2, n, t2)
  <2>1. ASSUME NEW q \in Owners PROVE HeapOK(H2[q], h2[q], Room(n, t2, q))
    <3>1. CASE q = p
      <4>1. {} \subseteq Room(n, t2, q)
        OBVIOUS
      <4> QED BY <3>1, <4>1, HeapMorePages DEF HeapGone
    <3>2. CASE q # p
      <4>1. HeapOK(H[q], h[q], Room(m, t, q))
        BY DEF Sound, Heaps
      <4>2. HeapOK(H[q], h[q], Room(n, t2, q))
        BY <1>7, <3>2, <4>1, HeapMorePages
      <4> QED BY <3>2, <4>2 DEF HeapGone
    <3> QED BY <3>1, <3>2
  <2> QED BY <2>1 DEF Heaps, HeapGone
<1>9. Agree(n)
  BY DEF Ended, Works
<1> QED BY <1>5, <1>6, <1>8, <1>9 DEF Sound

\* The pages of a process, and its page tables.
Physical(m, p) == Range(m.space[p].map) \cup Range(m.space[p].tables)

\* The memory without them.
Cleared(m, p) ==
  [m EXCEPT !.taken = @ \ Physical(m, p),
            !.space[p] = [bits |-> {}, map |-> <<>>, tables |-> <<>>]]

(* All pages of a process are given back.                                  *)
LEMMA ClearedFacts ==
  ASSUME NEW m, Works(m), NEW p \in Procs, NEW n, n = Cleared(m, p)
  PROVE  /\ Works(n) /\ n.space[p].bits = {} /\ Dom(n, p) = {}
         /\ \A q \in Owners : q # p => n.space[q].bits = m.space[q].bits /\ Dom(n, q) = Dom(m, q)
<1>1. KERNEL \in Owners /\ Procs \subseteq Owners /\ KERNEL \notin Procs
  BY Numbers
<1>2. PICK r : r = [bits |-> {}, map |-> <<>>, tables |-> <<>>]
  OBVIOUS
<1>3. /\ r.bits = {} /\ DOMAIN r.map = {} /\ DOMAIN r.tables = {}
      /\ r = [bits |-> r.bits, map |-> r.map, tables |-> r.tables]
  BY <1>2
<1>4. PICK k : k = [taken |-> m.taken \ Physical(m, p), space |-> m.space, panic |-> m.panic]
  OBVIOUS
<1>5. /\ Shape(k) /\ k.panic = "none" /\ k.space = m.space /\ k.taken = m.taken \ Physical(m, p)
      /\ m = [taken |-> m.taken, space |-> m.space, panic |-> m.panic]
  BY <1>4 DEF Works, Agree, Shape
<1>6. n = WithSpace(k, p, r)
  BY <1>2, <1>4, <1>5 DEF Cleared, WithSpace
<1>7. /\ Shape(n) /\ n.taken = k.taken /\ n.panic = k.panic
      /\ \A q \in Owners : n.space[q] = IF q = p THEN r ELSE k.space[q]
  BY <1>1, <1>3, <1>5, <1>6, SpaceSet
<1>8. n.space[p] = r /\ \A q \in Owners : q # p => n.space[q] = m.space[q]
  BY <1>1, <1>5, <1>7
<1>9. n.space[p].bits = {} /\ Dom(n, p) = {}
  BY <1>3, <1>8 DEF Dom
<1>10. \A q \in Owners : q # p => n.space[q].bits = m.space[q].bits /\ Dom(n, q) = Dom(m, q)
  BY <1>8 DEF Dom
<1>11. PICK gone : gone = Physical(m, p)
  OBVIOUS
<1>12. UsedOnce(m) /\ BitsCover(m) /\ Agree(m)
  BY DEF Works, Agree
<1>13. \A v \in Dom(m, p) : m.space[p].map[v] \in gone
  BY <1>11 DEF Physical, Range, Dom
<1>14. \A t \in DOMAIN m.space[p].tables : m.space[p].tables[t] \in gone
  BY <1>11 DEF Physical, Range
<1>15. \A x \in gone : \/ \E v \in Dom(m, p) : x = m.space[p].map[v]
                       \/ \E t \in DOMAIN m.space[p].tables : x = m.space[p].tables[t]
  BY <1>11 DEF Physical, Range, Dom
<1>16. ASSUME NEW q \in Owners, q # p
       PROVE  /\ \A v \in Dom(m, q) : m.space[q].map[v] \notin gone
              /\ \A t \in DOMAIN m.space[q].tables : m.space[q].tables[t] \notin gone
  BY <1>1, <1>12, <1>15, <1>16 DEF UsedOnce
<1>17. Less(m, n, gone)
  <2>1. n.taken = m.taken \ gone
    BY <1>5, <1>7, <1>11
  <2>2. ASSUME NEW q \in Owners
        PROVE  /\ Dom(n, q) \subseteq Dom(m, q) /\ Dom(n, q) \subseteq n.space[q].bits
               /\ n.space[q].bits \subseteq m.space[q].bits
               /\ \A v \in Dom(n, q) : n.space[q].map[v] = m.space[q].map[v]
               /\ \A v \in Dom(m, q) : v \in Dom(n, q) <=> m.space[q].map[v] \notin gone
               /\ DOMAIN n.space[q].tables \subseteq DOMAIN m.space[q].tables
               /\ \A t \in DOMAIN n.space[q].tables : n.space[q].tables[t] = m.space[q].tables[t]
               /\ \A t \in DOMAIN m.space[q].tables :
                    t \in DOMAIN n.space[q].tables <=> m.space[q].tables[t] \notin gone
    <3>1. CASE q = p
      BY <1>3, <1>8, <1>9, <1>13, <1>14, <3>1
    <3>2. CASE q # p
      BY <1>8, <1>10, <1>12, <1>16, <3>2 DEF BitsCover
    <3> QED BY <3>1, <3>2
  <2> QED BY <2>1, <2>2 DEF Less
<1>18. Agree(n)
  BY <1>7, <1>12, <1>17, PagesFreed
<1>19. n.panic = "none"
  BY <1>5, <1>7
<1> QED BY <1>9, <1>10, <1>18, <1>19 DEF Works

(* exit keeps the invariant.                                               *)
LEMMA ExitSound ==
  ASSUME IInv, NEW p \in Procs, sys_exit(p)
  PROVE  IInv'
<1>1. Running(p)
  BY DEF sys_exit
<1>2. Works(mem) /\ Sound(mem, task, heap, held)
  BY <1>1, CallStarts
<1>3. KERNEL \in Owners /\ Procs \subseteq Owners /\ KERNEL \notin Procs
  BY Numbers
<1>4. task[p].state = "live"
  BY <1>1, <1>3 DEF Running, Live
<1>5. PICK k, b : k = btmp_byte_len \div PG_SIZE /\ b = task[p].bitmap
  OBVIOUS
<1>6. k \in Nat \ {0} /\ k <= bitmap_pg_cnt /\ bitmap_pg_cnt \in Nat
  BY <1>5, BitmapSizes
<1>7. PICK m : m = Cleared(mem, p)
  OBVIOUS
<1>8. PICK n : n = mfree_page(m, KERNEL, b, k)
  OBVIOUS
<1>9. n = release_prog_resource(mem, p)
  BY <1>5, <1>7, <1>8 DEF release_prog_resource, Cleared, Physical
<1>10. PICK S : S = b..b + k - 1
  OBVIOUS
<1>11. /\ task = [q \in Procs |-> task[q]] /\ heap = [q \in Owners |-> heap[q]]
       /\ held = [q \in Owners |-> held[q]]
       /\ Whole(task[p]) /\ PagesOf(task[p]) \subseteq Dom(mem, KERNEL)
  BY <1>2 DEF Sound, Tasks, Heaps
<1>12. PICK tcb, pgdir : tcb = task[p].tcb /\ pgdir = task[p].pgdir
  OBVIOUS
<1>13. /\ task[p] = [state |-> "live", tcb |-> tcb, pgdir |-> pgdir, bitmap |-> b]
       /\ tcb \in Nat /\ pgdir \in Nat /\ tcb # pgdir /\ b \in Nat
       /\ {tcb, pgdir} \cap b..b + bitmap_pg_cnt - 1 = {}
       /\ PagesOf(task[p]) = {tcb, pgdir} \cup b..b + bitmap_pg_cnt - 1
  BY <1>4, <1>5, <1>11, <1>12 DEF Whole, PagesOf
<1>14. S \subseteq b..b + bitmap_pg_cnt - 1
  BY <1>6, <1>10, <1>13
<1>15. /\ Works(m) /\ m.space[p].bits = {} /\ Dom(m, p) = {}
       /\ \A q \in Owners : q # p => m.space[q].bits = mem.space[q].bits /\ Dom(m, q) = Dom(mem, q)
  BY <1>2, <1>7, ClearedFacts
<1>16. Freed(m, n, KERNEL, S)
  <2>1. S \subseteq Dom(m, KERNEL)
    BY <1>3, <1>11, <1>13, <1>14, <1>15
  <2> QED BY <1>3, <1>6, <1>8, <1>10, <1>13, <1>15, <2>1, MfreePage
<1>17. PICK r : r = [state |-> "zombie", tcb |-> tcb, pgdir |-> pgdir, bitmap |-> -1]
  OBVIOUS
<1>18. Whole(r) /\ r.state # "live" /\ PagesOf(r) = {tcb, pgdir}
  BY <1>13, <1>17 DEF Whole, PagesOf
<1>19. Ended(mem, n, task, p, r, S)
  <2>1. /\ Works(n) /\ n.space[KERNEL].bits = m.space[KERNEL].bits \ S
        /\ Dom(n, KERNEL) = Dom(m, KERNEL) \ S
        /\ \A q \in Procs : n.space[q].bits = m.space[q].bits /\ Dom(n, q) = Dom(m, q)
    BY <1>3, <1>16 DEF Freed
  <2>2. S \subseteq PagesOf(task[p]) /\ PagesOf(r) \subseteq PagesOf(task[p]) \ S
    BY <1>13, <1>14, <1>18
  <2> QED BY <1>3, <1>15, <1>18, <2>1, <2>2 DEF Ended
<1>20. PICK t2, H2, h2 : /\ t2 = [task EXCEPT ![p] = r]
                         /\ H2 = [heap EXCEPT ![p] = EmptyHeap] /\ h2 = [held EXCEPT ![p] = <<>>]
  OBVIOUS
<1>21. /\ H2 = [q \in Owners |-> H2[q]] /\ h2 = [q \in Owners |-> h2[q]]
       /\ H2[p] = EmptyHeap /\ h2[p] = <<>>
       /\ \A q \in Owners : q # p => H2[q] = heap[q] /\ h2[q] = held[q]
  BY <1>3, <1>11, <1>20
<1>22. HeapOK(H2[p], h2[p], {})
  BY <1>21, EmptyHeapOK
<1>23. Sound(n, t2, H2, h2)
  <2>1. HeapGone(H2, h2, heap, held, p)
    BY <1>21, <1>22 DEF HeapGone
  <2> QED BY <1>2, <1>19, <1>20, <2>1, EndedSound
<1>24. n.panic = "none"
  BY <1>19 DEF Ended, Works
<1>25. mem' = n /\ heap' = H2 /\ held' = h2 /\ task' = [task EXCEPT ![p].state = "zombie", ![p].bitmap = -1]
  BY <1>9, <1>20, <1>24 DEF sys_exit, Finish
<1>26. task' = t2
  <2>1. PICK a : a = [task[p] EXCEPT !.state = "zombie"]
    OBVIOUS
  <2>2. PICK x : x = [task EXCEPT ![p] = a]
    OBVIOUS
  <2>3. x[p] = a /\ task' = [x EXCEPT ![p] = [a EXCEPT !.bitmap = -1]]
    BY <1>11, <1>25, <2>1, <2>2
  <2>4. [a EXCEPT !.bitmap = -1] = r
    <3>1. task[p] = [state |-> "live", tcb |-> tcb, pgdir |-> pgdir, bitmap |-> b]
      BY <1>13
    <3>2. a = [state |-> "zombie", tcb |-> tcb, pgdir |-> pgdir, bitmap |-> b]
      BY ONLY <2>1, <3>1
    <3> QED BY ONLY <1>17, <3>2
  <2> QED BY <1>11, <1>20, <2>2, <2>3, <2>4
<1> QED BY <1>23, <1>24, <1>25, <1>26 DEF IInv

(* The end of a process whose status has been taken keeps the invariant.   *)
LEMMA ThreadExitSound ==
  ASSUME IInv, NEW p \in Procs, thread_exit(p)
  PROVE  IInv'
<1>1. mem.panic = "none" /\ task[p].state = "zombie"
  BY DEF thread_exit
<1>2. Works(mem) /\ Sound(mem, task, heap, held)
  BY <1>1 DEF IInv, Sound, Works
<1>3. KERNEL \in Owners /\ Procs \subseteq Owners /\ KERNEL \notin Procs
  BY Numbers
<1>4. PICK tcb, pgdir : tcb = task[p].tcb /\ pgdir = task[p].pgdir
  OBVIOUS
<1>5. /\ heap = [q \in Owners |-> heap[q]] /\ held = [q \in Owners |-> held[q]]
      /\ Whole(task[p]) /\ PagesOf(task[p]) \subseteq Dom(mem, KERNEL)
  BY <1>2 DEF Sound, Tasks, Heaps
<1>6. tcb \in Nat /\ pgdir \in Nat /\ tcb # pgdir /\ PagesOf(task[p]) = {tcb, pgdir}
  BY <1>1, <1>4, <1>5 DEF Whole, PagesOf
<1>7. PICK m : m = mfree_page(mem, KERNEL, pgdir, 1)
  OBVIOUS
<1>8. PICK n : n = mfree_page(m, KERNEL, tcb, 1)
  OBVIOUS
<1>9. 1 \in Nat \ {0}
  OBVIOUS
<1>10. Freed(mem, m, KERNEL, {pgdir})
  <2>1. pgdir..pgdir + 1 - 1 = {pgdir}
    BY <1>6
  <2>2. pgdir..pgdir + 1 - 1 \subseteq Dom(mem, KERNEL)
    BY <1>5, <1>6, <2>1
  <2>3. Freed(mem, m, KERNEL, pgdir..pgdir + 1 - 1)
    BY <1>2, <1>3, <1>6, <1>7, <1>9, <2>2, MfreePage
  <2> QED BY <2>1, <2>3
<1>11. Freed(m, n, KERNEL, {tcb})
  <2>1. tcb..tcb + 1 - 1 = {tcb}
    BY <1>6
  <2>2. Works(m) /\ tcb..tcb + 1 - 1 \subseteq Dom(m, KERNEL)
    BY <1>3, <1>5, <1>6, <1>10, <2>1 DEF Freed
  <2>3. Freed(m, n, KERNEL, tcb..tcb + 1 - 1)
    BY <1>3, <1>6, <1>8, <1>9, <2>2, MfreePage
  <2> QED BY <2>1, <2>3
<1>12. PICK S : S = {tcb, pgdir}
  OBVIOUS
<1>13. Whole(NoTask) /\ NoTask.state = "none" /\ PagesOf(NoTask) = {}
  BY DEF NoTask, Whole, PagesOf
<1>14. Ended(mem, n, task, p, NoTask, S)
  <2>1. /\ Works(n)
        /\ n.space[KERNEL].bits = (mem.space[KERNEL].bits \ {pgdir}) \ {tcb}
        /\ Dom(n, KERNEL) = (Dom(mem, KERNEL) \ {pgdir}) \ {tcb}
        /\ \A q \in Procs : n.space[q].bits = mem.space[q].bits /\ Dom(n, q) = Dom(mem, q)
    BY <1>3, <1>10, <1>11 DEF Freed
  <2>2. mem.space[p].bits = {} /\ Dom(mem, p) = {}
    BY <1>1, <1>2 DEF Sound, Bits
  <2>3. n.space[KERNEL].bits = mem.space[KERNEL].bits \ S /\ Dom(n, KERNEL) = Dom(mem, KERNEL) \ S
    BY <1>12, <2>1
  <2> QED BY <1>6, <1>12, <1>13, <2>1, <2>2, <2>3 DEF Ended
<1>15. HeapOK(heap[p], held[p], {})
  <2>1. Dom(mem, p) = {} /\ p # KERNEL /\ p \in Owners
    BY <1>1, <1>2, <1>3 DEF Sound, Bits
  <2>2. Room(mem, task, p) = {}
    BY <2>1 DEF Room
  <2> QED BY <1>2, <2>1, <2>2 DEF Sound, Heaps
<1>16. PICK t2 : t2 = [task EXCEPT ![p] = NoTask]
  OBVIOUS
<1>17. Sound(n, t2, heap, held)
  <2>1. HeapGone(heap, held, heap, held, p)
    BY <1>5, <1>15 DEF HeapGone
  <2> QED BY <1>2, <1>14, <1>16, <2>1, EndedSound
<1>18. n.panic = "none"
  BY <1>14 DEF Ended, Works
<1>19. mem' = n /\ task' = t2 /\ heap' = heap /\ held' = held
  BY <1>4, <1>7, <1>8, <1>16, <1>18 DEF thread_exit, Finish
<1> QED BY <1>17, <1>18, <1>19 DEF IInv

(* An empty memory.                                                        *)
LEMMA NoMemoryBooted ==
  ASSUME NEW behind \in {{}, {KPages}},
         NEW m, m = [NoMemory EXCEPT !.space[KERNEL].bits = behind]
  PROVE  Booted(m, 0)
<1>1. /\ KERNEL \in Owners /\ Procs \subseteq Owners /\ KERNEL \notin Procs
      /\ KPages \in Nat /\ BitmapLen(KERNEL) = KPages
  BY Numbers
<1>2. /\ Shape(NoMemory) /\ NoMemory.panic = "none" /\ NoMemory.taken = {}
      /\ \A o \in Owners : /\ NoMemory.space[o].bits = {} /\ Dom(NoMemory, o) = {}
                           /\ DOMAIN NoMemory.space[o].tables = {}
  BY DEF NoMemory, Shape, Dom
<1>3. Agree(NoMemory)
  BY <1>1, <1>2 DEF Agree, InPools, UsedOnce, AllUsed, BitsCover
<1>4. Covering(NoMemory, KERNEL, behind)
  BY <1>1, <1>2 DEF Covering
<1>5. m = WithBits(NoMemory, KERNEL, behind)
  BY DEF WithBits
<1>6. /\ Agree(m) /\ m.panic = NoMemory.panic
      /\ \A q \in Owners : /\ m.space[q].bits = IF q = KERNEL THEN behind ELSE NoMemory.space[q].bits
                           /\ Dom(m, q) = Dom(NoMemory, q)
  <2>1. PICK x : x = NoMemory
    OBVIOUS
  <2>2. Agree(x) /\ Covering(x, KERNEL, behind) /\ KERNEL \in Owners
    BY <1>1, <1>3, <1>4, <2>1
  <2>3. m = WithBits(x, KERNEL, behind)
    BY <1>5, <2>1
  <2>4. /\ Agree(m) /\ m.panic = x.panic
        /\ \A q \in Owners : /\ m.space[q].bits = IF q = KERNEL THEN behind ELSE x.space[q].bits
                             /\ Dom(m, q) = Dom(x, q)
    BY ONLY <2>2, <2>3, BitsSet
  <2> QED BY <2>1, <2>4
<1>7. m.taken = {}
  BY <1>1, <1>2, <1>5, FieldsSet
<1>8. 0..0 - 1 = {}
  OBVIOUS
<1> QED BY <1>1, <1>2, <1>6, <1>7, <1>8 DEF Booted, Works

(* The first process has its pages when the system starts.                 *)
LEMMA InitSound == Init => IInv
<1> SUFFICES ASSUME Init PROVE IInv
  OBVIOUS
<1>1. /\ KERNEL \in Owners /\ Procs \subseteq Owners /\ KERNEL \notin Procs
      /\ KPages \in Nat /\ UVPages \in Nat /\ BitmapLen(init) = UVPages /\ init \in Procs
  BY Numbers, MemoryAssumption
<1>2. PICK cnt : cnt = bitmap_pg_cnt
  OBVIOUS
<1>3. cnt \in Nat \ {0} /\ UVPages - 1 > 0 /\ KPages >= cnt + 3 /\ 1 \in Nat \ {0}
  BY <1>2, BitmapSizes, PageSizeAssumption
<1>4. PICK behind \in {{}, {KPages}} :
        LET tcb == get_kernel_pages([NoMemory EXCEPT !.space[KERNEL].bits = behind], 1)
            bitmap == get_kernel_pages(tcb.mem, bitmap_pg_cnt)
            pgdir == get_kernel_pages(bitmap.mem, 1)
        IN  /\ mem = get_a_page(pgdir.mem, init, UVPages - 1)
            /\ task = [p \in Procs |->
                         IF p = init THEN [state |-> "live", tcb |-> tcb.vaddr,
                                           pgdir |-> pgdir.vaddr, bitmap |-> bitmap.vaddr]
                         ELSE NoTask]
            /\ heap = [o \in Owners |-> EmptyHeap]
            /\ held = [o \in Owners |-> <<>>]
  BY DEF Init
<1>5. PICK m : m = [NoMemory EXCEPT !.space[KERNEL].bits = behind]
  OBVIOUS
<1>6. PICK tcb : tcb = get_kernel_pages(m, 1)
  OBVIOUS
<1>7. PICK bitmap : bitmap = get_kernel_pages(tcb.mem, cnt)
  OBVIOUS
<1>8. PICK pgdir : pgdir = get_kernel_pages(bitmap.mem, 1)
  OBVIOUS
<1>9. PICK r : r = [state |-> "live", tcb |-> tcb.vaddr, pgdir |-> pgdir.vaddr,
                    bitmap |-> bitmap.vaddr]
  OBVIOUS
<1>10. /\ mem = get_a_page(pgdir.mem, init, UVPages - 1)
       /\ task = [p \in Procs |-> IF p = init THEN r ELSE NoTask]
       /\ heap = [o \in Owners |-> EmptyHeap] /\ held = [o \in Owners |-> <<>>]
  BY <1>2, <1>4, <1>5, <1>6, <1>7, <1>8, <1>9
<1>11. Booted(m, 0)
  BY <1>5, NoMemoryBooted
<1>12. tcb.vaddr = 0 /\ Booted(tcb.mem, 1)
  <2>1. 0 + 1 <= KPages /\ 0 \in Nat /\ 0 + 1 = 1
    BY <1>1, <1>3
  <2>2. tcb.vaddr = 0 /\ Booted(tcb.mem, 0 + 1)
    BY <1>3, <1>6, <1>11, <2>1, BootPages
  <2> QED BY <2>1, <2>2
<1>13. bitmap.vaddr = 1 /\ Booted(bitmap.mem, 1 + cnt)
  <2>1. 1 + cnt <= KPages /\ 1 \in Nat
    BY <1>1, <1>3
  <2> QED BY <1>3, <1>7, <1>12, <2>1, BootPages
<1>14. PICK k \in Nat : k = 1 + cnt
  BY <1>3
<1>15. PICK j \in Nat : j = k + 1
  OBVIOUS
<1>16. pgdir.vaddr = k /\ Booted(pgdir.mem, j)
  <2>1. k + 1 <= KPages
    BY <1>1, <1>3, <1>14
  <2>2. pgdir.vaddr = k /\ Booted(pgdir.mem, k + 1)
    BY <1>3, <1>8, <1>13, <1>14, <2>1, BootPages
  <2> QED BY <1>15, <2>2
<1>17. PICK x : x = pgdir.mem
  OBVIOUS
<1>18. /\ Works(x) /\ x.taken = 0..j - 1 /\ Dom(x, KERNEL) = 0..j - 1
       /\ x.space[KERNEL].bits \ {KPages} = 0..j - 1 /\ \A p \in Procs : x.space[p].bits = {}
  BY <1>16, <1>17 DEF Booted
<1>19. \A p \in Procs : Dom(x, p) = {}
  BY <1>1, <1>18 DEF Works, Agree, BitsCover
<1>20. PICK v : v = UVPages - 1
  OBVIOUS
<1>21. v \in 1..UVPages /\ v \in 1..BitmapLen(init) /\ v \notin Dom(x, init) /\ j < KPages
  BY <1>1, <1>3, <1>14, <1>15, <1>19, <1>20
<1>22. mem = get_a_page(x, init, v)
  BY <1>10, <1>17, <1>20
<1>23. ~Stops(mem)
  BY <1>1, <1>18, <1>21, <1>22, FirstPage
<1>24. Allocated(x, mem, init, {v})
  <2>1. Stops(mem) \/ Allocated(x, mem, init, {v})
    BY <1>1, <1>18, <1>21, <1>22, GetAPage
  <2> QED BY <1>23, <2>1
<1>25. /\ Works(mem) /\ Dom(mem, KERNEL) = 0..j - 1
       /\ mem.space[KERNEL].bits \ {KPages} = 0..j - 1
       /\ mem.space[init].bits = {v} /\ Dom(mem, init) = {v}
       /\ \A p \in Procs : p # init => mem.space[p].bits = {} /\ Dom(mem, p) = {}
  <2>1. /\ Works(mem)
        /\ \A q \in Owners : IF q = init THEN /\ mem.space[q].bits = x.space[q].bits \cup {v}
                                              /\ Dom(mem, q) = Dom(x, q) \cup {v}
                                         ELSE /\ mem.space[q].bits = x.space[q].bits
                                              /\ Dom(mem, q) = Dom(x, q)
    BY <1>24 DEF Allocated
  <2>2. mem.space[KERNEL].bits = x.space[KERNEL].bits /\ Dom(mem, KERNEL) = Dom(x, KERNEL)
    BY <1>1, <2>1
  <2>3. mem.space[init].bits = {v} /\ Dom(mem, init) = {v}
    BY <1>1, <1>18, <1>19, <2>1
  <2>4. \A p \in Procs : p # init => mem.space[p].bits = {} /\ Dom(mem, p) = {}
    BY <1>1, <1>18, <1>19, <2>1
  <2> QED BY <1>18, <2>1, <2>2, <2>3, <2>4
<1>26. /\ task = [p \in Procs |-> task[p]] /\ task[init] = r
       /\ \A p \in Procs : p # init => task[p] = NoTask
  BY <1>1, <1>10
<1>27. Whole(NoTask) /\ NoTask.state = "none" /\ PagesOf(NoTask) = {}
  BY DEF NoTask, Whole, PagesOf
<1>28. Whole(r) /\ r.state = "live" /\ PagesOf(r) \subseteq 0..j - 1
  <2>1. r = [state |-> "live", tcb |-> 0, pgdir |-> k, bitmap |-> 1]
    BY <1>9, <1>12, <1>13, <1>16
  <2>2. 1 + cnt - 1 = cnt /\ 0 # k /\ {0, k} \cap 1..cnt = {} /\ {0, k} \cup 1..cnt \subseteq 0..j - 1
    BY <1>3, <1>14, <1>15
  <2>3. {0, k} \cap 1..1 + bitmap_pg_cnt - 1 = {} /\ {0, k} \cup 1..1 + bitmap_pg_cnt - 1 \subseteq 0..j - 1
    BY <1>2, <2>2
  <2>4. Whole(r)
    BY <2>1, <2>2, <2>3 DEF Whole
  <2> QED BY <2>1, <2>3, <2>4 DEF PagesOf
<1>29. Tasks(task, Dom(mem, KERNEL))
  <2>1. \A p \in Procs : Whole(task[p]) /\ PagesOf(task[p]) \subseteq Dom(mem, KERNEL)
    BY <1>25, <1>26, <1>27, <1>28
  <2>2. \A p, q \in Procs : p # q => PagesOf(task[p]) \cap PagesOf(task[q]) = {}
    BY <1>26, <1>27
  <2> QED BY <1>26, <2>1, <2>2 DEF Tasks
<1>30. Bits(mem, task)
  <2>1. mem.space[KERNEL].bits \ {KPages} = Dom(mem, KERNEL) \ {KPages}
    BY <1>1, <1>21, <1>25
  <2>2. ASSUME NEW p \in Procs
        PROVE  /\ mem.space[p].bits = Dom(mem, p)
               /\ task[p].state = "live" => UVPages - 1 \in Dom(mem, p)
               /\ task[p].state # "live" => Dom(mem, p) = {}
    <3>1. CASE p = init
      BY <1>20, <1>25, <1>26, <1>28, <3>1
    <3>2. CASE p # init
      BY <1>25, <1>26, <1>27, <3>2
    <3> QED BY <3>1, <3>2
  <2> QED BY <2>1, <2>2 DEF Bits
<1>31. Heaps(heap, held, mem, task)
  <2>1. \A o \in Owners : HeapOK(EmptyHeap, <<>>, Room(mem, task, o))
    BY EmptyHeapOK
  <2>2. \A o \in Owners : heap[o] = EmptyHeap /\ held[o] = <<>>
    BY <1>10
  <2>3. heap = [o \in Owners |-> heap[o]] /\ held = [o \in Owners |-> held[o]]
    BY <1>10
  <2> QED BY <2>1, <2>2, <2>3 DEF Heaps
<1> QED BY <1>25, <1>29, <1>30, <1>31 DEF IInv, Sound, Works

(* Every step keeps the invariant.                                         *)
LEMMA NextSound == IInv /\ [Next]_vars => IInv'
<1> SUFFICES ASSUME IInv, [Next]_vars PROVE IInv'
  OBVIOUS
<1>1. ASSUME NEW o \in Owners, NEW size \in Sizes[o], sys_malloc(o, size) PROVE IInv'
  <2>1. size \in Nat
    BY MemoryAssumption
  <2>2. MallocSmall(o, size) \/ MallocLarge(o, size)
    BY <1>1 DEF sys_malloc
  <2> QED BY <2>1, <2>2, MallocSmallSound, MallocLargeSound
<1>2. ASSUME NEW o \in Owners, NEW ptr \in DOMAIN held[o], sys_free(o, ptr) PROVE IInv'
  <2>1. FreeSmall(o, ptr) \/ FreeLarge(o, ptr)
    BY <1>2 DEF sys_free
  <2> QED BY <2>1, FreeSmallSound, FreeLargeSound
<1>3. ASSUME NEW p \in Procs, NEW c \in Procs, sys_fork(p, c) PROVE IInv'
  BY <1>3, ForkSound
<1>4. ASSUME NEW p \in Procs, NEW v \in ImagePages, segment_load(p, v) PROVE IInv'
  BY <1>4, SegmentLoadSound
<1>5. ASSUME NEW p \in Procs, sys_exit(p) PROVE IInv'
  BY <1>5, ExitSound
<1>6. ASSUME NEW p \in Procs, thread_exit(p) PROVE IInv'
  BY <1>6, ThreadExitSound
<1>7. CASE panic_spin \/ UNCHANGED vars
  BY <1>7 DEF panic_spin, vars, IInv
<1> QED BY <1>1, <1>2, <1>3, <1>4, <1>5, <1>6, <1>7 DEF Next

(* The inductive invariant holds in every state.                           *)
THEOREM Invariant == Spec => []IInv
<1> QED BY InitSound, NextSound, PTL DEF Spec

-----------------------------------------------------------------------------
(* What the invariant gives                                                *)

(* Every part of the state has its type (mem, task, heap).                 *)
THEOREM MemoryTypeCorrect == Spec => []TypeOK
<1>1. IInv => TypeOK
  <2> SUFFICES ASSUME IInv PROVE TypeOK
    OBVIOUS
  <2>1. Agree(mem) /\ Tasks(task, Dom(mem, KERNEL)) /\ Heaps(heap, held, mem, task)
    BY DEF IInv, Sound
  <2>2. mem.taken \subseteq 0..KPages + UPages - 1 /\ mem.panic \in {"none", "full", "assert"}
    BY <2>1 DEF Agree, InPools, IInv
  <2>3. ASSUME NEW o \in Owners
        PROVE  /\ mem.space[o].bits \subseteq 0..BitmapLen(o)
               /\ DOMAIN mem.space[o].map \subseteq 0..BitmapLen(o)
               /\ Range(mem.space[o].map) \subseteq PoolOf(o)
    <3>1. mem.space[o].bits \subseteq 0..BitmapLen(o) /\ Dom(mem, o) \subseteq mem.space[o].bits
      BY <2>1 DEF Agree, BitsCover
    <3>2. \A v \in Dom(mem, o) : mem.space[o].map[v] \in PoolOf(o)
      BY <2>1 DEF Agree, InPools
    <3> QED BY <3>1, <3>2 DEF Dom, Range
  <2>4. \A p \in Procs : task[p].state \in {"none", "live", "zombie"}
    BY <2>1 DEF Tasks, Whole
  <2>5. \A o \in Owners, u \in Units : heap[o].free[u] \in Seq(Nat)
    BY <2>1 DEF Heaps, HeapOK, HeapBut, List
  <2> QED BY <2>2, <2>3, <2>4, <2>5 DEF TypeOK
<1> QED BY <1>1, Invariant, PTL

(* The kernel panics for want of a page and never because an ASSERT of the *)
(* page allocator fails (memory.c, bitmap.c).                              *)
THEOREM OnlyFullPoolsHolds == Spec => []OnlyFullPools
<1>1. IInv => OnlyFullPools
  BY DEF IInv, OnlyFullPools
<1> QED BY <1>1, Invariant, PTL

(* The bitmaps of the pools and of the address spaces agree with the page  *)
(* tables: no physical page is lost, none is used twice.                   *)
THEOREM PoolsAgreeHolds == Spec => []PoolsAgree
<1>1. IInv => PoolsAgree
  <2> SUFFICES ASSUME IInv PROVE PoolsAgree
    OBVIOUS
  <2>1. Agree(mem) /\ Bits(mem, task)
    BY DEF IInv, Sound
  <2>2. KERNEL \in Owners /\ Procs \subseteq Owners /\ KPages \in Nat /\ UPages \in Nat
    BY Numbers
  <2>3. \A x \in Uses : \/ \E o \in Owners : \E v \in Dom(mem, o) : x = <<o, "map", v>>
                        \/ \E p \in Procs : \E t \in DOMAIN mem.space[p].tables : x = <<p, "table", t>>
    BY DEF Uses, Dom
  <2>4. /\ \A o \in Owners : \A v \in Dom(mem, o) : <<o, "map", v>> \in Uses
        /\ \A p \in Procs : \A t \in DOMAIN mem.space[p].tables : <<p, "table", t>> \in Uses
    BY DEF Uses, Dom
  <2>5. /\ \A o, v : PageOf(<<o, "map", v>>) = mem.space[o].map[v]
        /\ \A o, v : PageOf(<<o, "table", v>>) = mem.space[o].tables[v]
    BY DEF PageOf
  <2>6. \A x \in Uses : PageOf(x) \in mem.taken
    BY <2>1, <2>2, <2>3, <2>5 DEF Agree, InPools
  <2>7. ASSUME NEW y \in mem.taken PROVE \E x \in Uses : PageOf(x) = y
    <3>1. PICK o \in Owners : \/ \E v \in Dom(mem, o) : mem.space[o].map[v] = y
                              \/ \E t \in DOMAIN mem.space[o].tables : mem.space[o].tables[t] = y
      BY <2>1 DEF Agree, AllUsed
    <3>2. CASE \E v \in Dom(mem, o) : mem.space[o].map[v] = y
      BY <2>4, <2>5, <3>2
    <3>3. CASE \E t \in DOMAIN mem.space[o].tables : mem.space[o].tables[t] = y
      <4>1. o # KERNEL
        BY <2>1, <3>3 DEF Agree, InPools
      <4>2. o \in Procs
        BY <4>1 DEF Owners
      <4> QED BY <2>4, <2>5, <3>3, <4>2
    <3> QED BY <3>1, <3>2, <3>3
  <2>8. ASSUME NEW x \in Uses, NEW y \in Uses, PageOf(x) = PageOf(y) PROVE x = y
    <3>1. UsedOnce(mem)
      BY <2>1 DEF Agree
    <3> QED BY <2>2, <2>3, <2>5, <2>8, <3>1 DEF UsedOnce
  <2>9. mem.taken = {PageOf(x) : x \in Uses}
    BY <2>6, <2>7
  <2>10. Cardinality(mem.taken) = Cardinality(Uses)
    <3>1. IsFiniteSet(mem.taken)
      <4>1. mem.taken \in SUBSET (0..KPages + UPages - 1)
        BY <2>1 DEF Agree, InPools
      <4>2. IsFiniteSet(0..KPages + UPages - 1)
        BY <2>2, FS_Interval
      <4> QED BY <4>1, <4>2, FS_Subset
    <3>2. PICK f : f = [x \in Uses |-> PageOf(x)]
      OBVIOUS
    <3>3. f \in Injection(Uses, mem.taken)
      BY <2>6, <2>8, <3>2 DEF Injection, IsInjective
    <3>4. f \in Surjection(Uses, mem.taken)
      BY <2>6, <2>7, <3>2 DEF Surjection
    <3> QED BY <3>1, <3>3, <3>4, FS_Injection
  <2>11. ASSUME NEW o \in Owners
         PROVE  mem.space[o].bits \ {KPages} = DOMAIN mem.space[o].map \ {KPages}
    BY <2>1 DEF Bits, Owners, Dom
  <2> QED BY <2>9, <2>10, <2>11 DEF PoolsAgree
<1> QED BY <1>1, Invariant, PTL

(* The kernel pages of a process are mapped, and neither another process   *)
(* nor the kernel's heap has them (release_prog_resource, thread_exit).    *)
THEOREM TasksOwnPagesHolds == Spec => []TasksOwnPages
<1>1. IInv => TasksOwnPages
  <2> SUFFICES ASSUME IInv PROVE TasksOwnPages
    OBVIOUS
  <2>1. Tasks(task, Dom(mem, KERNEL)) /\ Heaps(heap, held, mem, task) /\ KERNEL \in Owners
    BY Numbers DEF IInv, Sound
  <2>2. \A p \in Procs : TaskPages(p) = PagesOf(task[p])
    BY DEF TaskPages, PagesOf
  <2>3. Arenas(heap[KERNEL].arena, Room(mem, task, KERNEL))
    BY <2>1 DEF Heaps, HeapOK, HeapBut, Cut
  <2>4. ASSUME NEW x \in ArenaPages(KERNEL) PROVE x \in Room(mem, task, KERNEL)
    <3>1. PICK page \in DOMAIN heap[KERNEL].arena : x \in Span(heap[KERNEL].arena, page)
      BY DEF ArenaPages, Span
    <3> QED BY <2>3, <3>1 DEF Arenas
  <2>5. ASSUME NEW p \in Procs PROVE PagesOf(task[p]) \cap ArenaPages(KERNEL) = {}
    <3>1. PagesOf(task[p]) \subseteq TaskSpan(task)
      BY DEF TaskSpan
    <3> QED BY <2>4, <3>1 DEF Room
  <2> QED BY <2>1, <2>2, <2>5 DEF TasksOwnPages, Tasks, Dom
<1> QED BY <1>1, Invariant, PTL

(* bitmap_scan finds the first run of free pages in the kernel's bitmap,   *)
(* if there is one.                                                        *)
THEOREM ScanExactHolds == Spec => []ScanExact
<1>1. ScanExact
  <2> SUFFICES ASSUME NEW cnt \in 1..MaxRun, NEW bits, bits = mem.space[KERNEL].bits,
                      NEW R, R = {i \in 0..KPages - 1 : /\ i + cnt - 1 <= KPages
                                                        /\ i..i + cnt - 1 \cap bits = {}},
                      ~IsFull(bits, KPages)
               PROVE  bitmap_scan(bits, KPages, cnt) = IF R = {} THEN -1 ELSE Lowest(R)
    BY DEF ScanExact
  <2>1. cnt \in Nat /\ cnt # 0 /\ KPages \in Nat
    BY MemoryAssumption, Numbers
  <2>2. bitmap_scan(bits, KPages, cnt) = Result(Runs(bits, KPages, cnt))
    BY <2>1, ScanFinds
  <2>3. R = Runs(bits, KPages, cnt)
    BY DEF Runs
  <2> QED BY <2>2, <2>3 DEF Result
<1> QED BY <1>1, PTL

-----------------------------------------------------------------------------
(* The bytes of a heap                                                     *)

\* From b to before e: the bytes of an arena_t, of a pointer held, or of a
\* free block (Extents).
Extent(G, A, h, b, e) ==
  \/ \E page \in DOMAIN A : b = page * PG_SIZE /\ e = page * PG_SIZE + ArenaSize
  \/ \E p \in DOMAIN h : b = p /\ e = p + h[p]
  \/ \E u \in Units : \E p \in G[u] : b = p /\ e = p + block_size[u]

\* How many pages an arena has.
Pages1(A, page) == IF A[page].unit = 0 THEN A[page].free_cnt ELSE 1

\* The bytes from b to e are in the arena of this page.
Within(A, page, b, e) ==
  /\ page \in DOMAIN A /\ page \in Nat /\ b \in Nat /\ e \in Nat /\ e > 0
  /\ page = block2arena(b) /\ page * PG_SIZE <= b
  /\ Pages1(A, page) \in Nat \ {0}
  /\ e <= page * PG_SIZE + Pages1(A, page) * PG_SIZE

(* A byte range starts at the arena_t of its arena, or behind it: the one  *)
(* pointer to whole pages, or a block.                                     *)
Kind(G, A, h, page, b, e) ==
  \/ b = page * PG_SIZE /\ e = page * PG_SIZE + ArenaSize
  \/ /\ b >= page * PG_SIZE + ArenaSize
     /\ \/ /\ A[page].unit = 0 /\ b = page * PG_SIZE + ArenaSize
           /\ b \in DOMAIN h /\ e = b + h[b]
        \/ /\ A[page].unit \in Units /\ b \in Blocks(page, A[page].unit)
           /\ e <= b + block_size[A[page].unit]
           /\ \/ b \in DOMAIN h /\ e = b + h[b] /\ b \notin G[A[page].unit]
              \/ b \in G[A[page].unit] /\ e = b + block_size[A[page].unit]

(* An arena_t lies at the start of the first page of its arena.            *)
LEMMA HeadPlaced ==
  ASSUME NEW G, NEW A, NEW h, NEW D, Cut(G, A, h, D), NEW page \in DOMAIN A,
         NEW b, b = page * PG_SIZE, NEW e, e = page * PG_SIZE + ArenaSize
  PROVE  Within(A, page, b, e) /\ Kind(G, A, h, page, b, e)
<1>1. /\ page \in Nat /\ A[page].free_cnt \in Nat /\ (A[page].unit = 0 => A[page].free_cnt # 0)
  BY DEF Cut, Arenas
<1>2. PG_SIZE \in Nat \ {0} /\ ArenaSize \in Nat \ {0} /\ ArenaSize <= PG_SIZE
  <2>1. UnitCnt \in Units
    BY BlockSizes
  <2>2. block_size[UnitCnt] \in Nat /\ ArenaSize + block_size[UnitCnt] <= PG_SIZE
    BY <2>1, BlockSizes
  <2> QED BY <2>2, MemoryAssumption
<1>3. PICK n \in Nat : n = Pages1(A, page)
  BY <1>1 DEF Pages1
<1>4. n # 0
  BY <1>1, <1>3 DEF Pages1
<1>5. page * PG_SIZE \in Nat /\ n * PG_SIZE \in Nat /\ PG_SIZE <= n * PG_SIZE
  <2>1. 0 * PG_SIZE + PG_SIZE <= n * PG_SIZE /\ 0 * PG_SIZE = 0 /\ n * PG_SIZE \in Nat
    BY <1>2, <1>3, <1>4, Times
  <2>2. page * PG_SIZE \in Nat
    BY <1>1, <1>2
  <2> QED BY <1>2, <2>1, <2>2
<1>6. b \div PG_SIZE = page
  <2>1. b \in Nat /\ page * PG_SIZE <= b /\ b < page * PG_SIZE + PG_SIZE
    BY <1>2, <1>5
  <2> QED BY <1>1, <1>2, <2>1, Quotient
<1>7. Within(A, page, b, e)
  <2>1. b \in Nat /\ e \in Nat /\ e > 0 /\ page * PG_SIZE <= b
        /\ e <= page * PG_SIZE + n * PG_SIZE
    BY <1>2, <1>5
  <2> QED BY <1>1, <1>3, <1>4, <1>6, <2>1 DEF Within, block2arena
<1> QED BY <1>7 DEF Kind

(* A pointer held is one to whole pages or a block in use.                 *)
LEMMA HeldPlaced ==
  ASSUME NEW G, NEW A, NEW h, NEW D, Cut(G, A, h, D), NEW b \in DOMAIN h,
         NEW e, e = b + h[b], NEW page, page = block2arena(b)
  PROVE  Within(A, page, b, e) /\ Kind(G, A, h, page, b, e)
<1>1. /\ page \in DOMAIN A /\ h[b] \in Nat
      /\ A[page].unit = 0 => /\ b = page * PG_SIZE + ArenaSize
                             /\ ArenaSize + h[b] <= A[page].free_cnt * PG_SIZE
      /\ A[page].unit # 0 => /\ b \in Blocks(page, A[page].unit) /\ b \notin G[A[page].unit]
                             /\ h[b] <= block_size[A[page].unit]
  BY DEF Cut, HeldApart
<1>2. /\ page \in Nat /\ A[page].free_cnt \in Nat /\ (A[page].unit = 0 => A[page].free_cnt # 0)
      /\ A[page].unit \in 0..UnitCnt /\ UnitCnt \in Nat
  BY <1>1, MemoryAssumption DEF Cut, Arenas
<1>3. PG_SIZE \in Nat \ {0} /\ ArenaSize \in Nat \ {0}
  BY BlockSizes, MemoryAssumption
<1>4. PICK q \in Nat : q = page * PG_SIZE
  <2>1. page * PG_SIZE \in Nat
    BY <1>2, <1>3
  <2> QED BY <2>1
<1>5. CASE A[page].unit = 0
  <2>1. PICK n \in Nat \ {0} : n = A[page].free_cnt
    BY <1>2, <1>5
  <2>2. PICK l \in Nat : l = n * PG_SIZE
    <3>1. n * PG_SIZE \in Nat
      BY <1>3, <2>1
    <3> QED BY <3>1
  <2>3. b = q + ArenaSize /\ ArenaSize + h[b] <= l
    BY <1>1, <1>4, <1>5, <2>1, <2>2
  <2>4. b \in Nat /\ e \in Nat /\ e > 0 /\ q <= b /\ e <= q + l
    BY <1>1, <1>3, <2>3
  <2>5. Pages1(A, page) = n
    BY <1>5, <2>1 DEF Pages1
  <2>6. Within(A, page, b, e)
    BY <1>1, <1>2, <1>4, <2>1, <2>2, <2>4, <2>5 DEF Within
  <2> QED BY <1>1, <1>3, <1>4, <1>5, <2>3, <2>6 DEF Kind
<1>6. CASE A[page].unit # 0
  <2>1. PICK u \in Units : u = A[page].unit
    BY <1>2, <1>6 DEF Units
  <2>2. block_size[u] \in Nat
    BY BlockSizes
  <2>3. /\ b \in Blocks(page, u) /\ b \notin G[u] /\ h[b] <= block_size[u]
    BY <1>1, <1>6, <2>1
  <2>4. b \in Nat /\ q + ArenaSize <= b /\ b + block_size[u] <= q + PG_SIZE
    BY <1>2, <1>4, <2>3, BlockFacts
  <2>5. Pages1(A, page) = 1 /\ 1 * PG_SIZE = PG_SIZE
    BY <1>3, <1>6 DEF Pages1
  <2>6. e \in Nat /\ e > 0 /\ q <= b /\ e <= q + 1 * PG_SIZE /\ e <= b + block_size[u]
    BY <1>1, <1>3, <2>2, <2>3, <2>4, <2>5
  <2>7. Within(A, page, b, e)
    BY <1>1, <1>2, <1>4, <2>4, <2>5, <2>6 DEF Within
  <2>8. Kind(G, A, h, page, b, e)
    BY <1>4, <2>1, <2>3, <2>4, <2>6 DEF Kind
  <2> QED BY <2>7, <2>8
<1> QED BY <1>5, <1>6

(* A free block is a block of its arena.                                   *)
LEMMA FreePlaced ==
  ASSUME NEW G, NEW A, NEW h, NEW D, Cut(G, A, h, D), NEW u \in Units, NEW b \in G[u],
         NEW e, e = b + block_size[u], NEW page, page = block2arena(b)
  PROVE  Within(A, page, b, e) /\ Kind(G, A, h, page, b, e)
<1>1. page \in DOMAIN A /\ A[page].unit = u /\ b \in Blocks(page, u)
  BY DEF Cut, FreeListed
<1>2. page \in Nat /\ u # 0
  BY <1>1, BlockSizes DEF Cut, Arenas, Units
<1>3. PG_SIZE \in Nat \ {0} /\ ArenaSize \in Nat \ {0} /\ block_size[u] \in Nat
  BY BlockSizes, MemoryAssumption
<1>4. PICK q \in Nat : q = page * PG_SIZE
  <2>1. page * PG_SIZE \in Nat
    BY <1>2, <1>3
  <2> QED BY <2>1
<1>5. b \in Nat /\ q + ArenaSize <= b /\ b + block_size[u] <= q + PG_SIZE
  BY <1>1, <1>2, <1>4, BlockFacts
<1>6. Pages1(A, page) = 1 /\ 1 * PG_SIZE = PG_SIZE
  BY <1>1, <1>2, <1>3 DEF Pages1
<1>7. e \in Nat /\ e > 0 /\ q <= b /\ e <= q + 1 * PG_SIZE /\ e <= b + block_size[u]
  BY <1>3, <1>5, <1>6
<1>8. Within(A, page, b, e)
  BY <1>1, <1>2, <1>4, <1>5, <1>6, <1>7 DEF Within
<1>9. Kind(G, A, h, page, b, e)
  BY <1>1, <1>4, <1>5, <1>7 DEF Kind
<1> QED BY <1>8, <1>9

(* Every byte range of a heap has a place in an arena.                     *)
LEMMA ExtentPlaced ==
  ASSUME NEW G, NEW A, NEW h, NEW D, Cut(G, A, h, D), NEW b, NEW e, Extent(G, A, h, b, e)
  PROVE  \E page : Within(A, page, b, e) /\ Kind(G, A, h, page, b, e)
<1>1. CASE \E page \in DOMAIN A : b = page * PG_SIZE /\ e = page * PG_SIZE + ArenaSize
  BY <1>1, HeadPlaced
<1>2. CASE \E p \in DOMAIN h : b = p /\ e = p + h[p]
  BY <1>2, HeldPlaced
<1>3. CASE \E u \in Units : \E p \in G[u] : b = p /\ e = p + block_size[u]
  BY <1>3, FreePlaced
<1> QED BY <1>1, <1>2, <1>3 DEF Extent

(* The arenas of two pages do not touch.                                   *)
LEMMA ArenasApart ==
  ASSUME NEW A, NEW D, Arenas(A, D), NEW p, NEW q, p < q,
         NEW b, NEW e, Within(A, p, b, e), NEW c, NEW f, Within(A, q, c, f)
  PROVE  e <= c
<1>1. PICK n \in Nat \ {0} : n = Pages1(A, p)
  BY DEF Within
<1>2. /\ p \in DOMAIN A /\ q \in DOMAIN A /\ p \in Nat /\ q \in Nat /\ e \in Nat /\ c \in Nat
      /\ e <= p * PG_SIZE + n * PG_SIZE /\ q * PG_SIZE <= c
  BY <1>1 DEF Within
<1>3. q \in Span(A, q)
  BY <1>2, SpanStarts
<1>4. Span(A, p) = p..p + n - 1
  BY <1>1 DEF Span, Pages1
<1>5. q \notin Span(A, p)
  BY <1>2, <1>3 DEF Arenas
<1>6. p + n <= q
  BY <1>1, <1>2, <1>4, <1>5
<1>7. PG_SIZE \in Nat
  BY BlockSizes
<1>8. p * PG_SIZE + n * PG_SIZE = (p + n) * PG_SIZE
  BY <1>1, <1>2, <1>7
<1>9. (p + n) * PG_SIZE <= q * PG_SIZE
  <2>1. CASE p + n = q
    BY <1>2, <1>7, <2>1
  <2>2. CASE p + n # q
    <3>1. PICK k \in Nat : k = p + n
      BY <1>1, <1>2
    <3>2. k < q
      BY <1>2, <1>6, <2>2, <3>1
    <3>3. k * PG_SIZE + PG_SIZE <= q * PG_SIZE /\ k * PG_SIZE \in Nat /\ q * PG_SIZE \in Nat
      BY <1>2, <1>7, <3>1, <3>2, Times
    <3> QED BY <1>7, <3>1, <3>3
  <2> QED BY <2>1, <2>2
<1>10. PICK x \in Nat, y \in Nat : x = (p + n) * PG_SIZE /\ y = q * PG_SIZE
  <2>1. (p + n) * PG_SIZE \in Nat /\ q * PG_SIZE \in Nat
    BY <1>1, <1>2, <1>7
  <2> QED BY <2>1
<1>11. e <= x /\ x <= y /\ y <= c
  BY <1>2, <1>8, <1>9, <1>10
<1> QED BY <1>2, <1>11

(* Two byte ranges of a heap are the same or do not overlap.               *)
LEMMA ExtentsApart ==
  ASSUME NEW G, NEW A, NEW h, NEW D, Cut(G, A, h, D),
         NEW b, NEW e, Extent(G, A, h, b, e), NEW c, NEW f, Extent(G, A, h, c, f)
  PROVE  (b = c /\ e = f) \/ e <= c \/ f <= b
<1>1. PICK p : Within(A, p, b, e) /\ Kind(G, A, h, p, b, e)
  BY ExtentPlaced
<1>2. PICK q : Within(A, q, c, f) /\ Kind(G, A, h, q, c, f)
  BY ExtentPlaced
<1>3. Arenas(A, D) /\ p \in Nat /\ q \in Nat
  BY <1>1, <1>2 DEF Cut, Within
<1>4. CASE p < q
  BY <1>1, <1>2, <1>3, <1>4, ArenasApart
<1>5. CASE q < p
  BY <1>1, <1>2, <1>3, <1>5, ArenasApart
<1>6. CASE p = q
  <2>1. PICK s, u : s \in Nat /\ s = p * PG_SIZE /\ u = A[p].unit
    <3>1. p * PG_SIZE \in Nat
      BY <1>3, BlockSizes
    <3> QED BY <3>1
  <2>2. b \in Nat /\ e \in Nat /\ c \in Nat /\ f \in Nat /\ ArenaSize \in Nat
    BY <1>1, <1>2, BlockSizes DEF Within
  <2>3. \/ b = s /\ e = s + ArenaSize
        \/ /\ b >= s + ArenaSize
           /\ \/ u = 0 /\ b = s + ArenaSize /\ e = b + h[b]
              \/ /\ u \in Units /\ b \in Blocks(p, u) /\ e <= b + block_size[u]
                 /\ \/ e = b + h[b] /\ b \notin G[u]
                    \/ b \in G[u] /\ e = b + block_size[u]
    BY <1>1, <2>1 DEF Kind
  <2>4. \/ c = s /\ f = s + ArenaSize
        \/ /\ c >= s + ArenaSize
           /\ \/ u = 0 /\ c = s + ArenaSize /\ f = c + h[c]
              \/ /\ u \in Units /\ c \in Blocks(p, u) /\ f <= c + block_size[u]
                 /\ \/ f = c + h[c] /\ c \notin G[u]
                    \/ c \in G[u] /\ f = c + block_size[u]
    BY <1>2, <1>6, <2>1 DEF Kind
  <2>5. CASE b = c
    <3>1. u \in Units => u # 0
      BY DEF Units
    <3> QED BY <2>2, <2>3, <2>4, <2>5, <3>1
  <2>6. CASE b # c /\ u \in Units /\ b \in Blocks(p, u) /\ c \in Blocks(p, u)
             /\ e <= b + block_size[u] /\ f <= c + block_size[u]
    <3>1. PICK j \in 0..blocks_per_arena(u) - 1 : b = arena2block(p, u, j)
      BY <2>6 DEF Blocks
    <3>2. PICK k \in 0..blocks_per_arena(u) - 1 : c = arena2block(p, u, k)
      BY <2>6 DEF Blocks
    <3>3. block_size[u] \in Nat /\ blocks_per_arena(u) \in Nat
      BY <1>3, <2>6, BlockSizes, BlockFacts
    <3>4. j < k \/ k < j
      BY <2>6, <3>1, <3>2, <3>3
    <3>5. j < k => b + block_size[u] <= c
      BY <1>3, <2>6, <3>1, <3>2, BlockFacts
    <3>6. k < j => c + block_size[u] <= b
      BY <1>3, <2>6, <3>1, <3>2, BlockFacts
    <3> QED BY <2>2, <2>6, <3>3, <3>4, <3>5, <3>6
  <2>7. u = 0 => u \notin Units
    BY DEF Units
  <2> QED BY <2>2, <2>3, <2>4, <2>5, <2>6, <2>7
<1> QED BY <1>3, <1>4, <1>5, <1>6

(* The pages of such bytes are pages of its arena, which are mapped.       *)
LEMMA ExtentMapped ==
  ASSUME NEW G, NEW A, NEW h, NEW D, Cut(G, A, h, D), NEW b, NEW e, Extent(G, A, h, b, e)
  PROVE  block2arena(b)..block2arena(e - 1) \subseteq D
<1>1. PICK page : Within(A, page, b, e)
  BY ExtentPlaced
<1>2. PICK n \in Nat \ {0} : n = Pages1(A, page)
  BY <1>1 DEF Within
<1>3. PICK size \in Nat \ {0} : size = PG_SIZE
  BY BlockSizes, MemoryAssumption
<1>4. /\ page \in DOMAIN A /\ page \in Nat /\ e \in Nat /\ e > 0 /\ page = block2arena(b)
      /\ e <= page * size + n * size
  BY <1>1, <1>2, <1>3 DEF Within
<1>5. PICK d \in Nat : d = block2arena(e - 1) /\ d * size <= e - 1
  <2>1. PICK a \in Nat : a = e - 1
    BY <1>4
  <2>2. a \div size \in Nat /\ (a \div size) * size <= a
    BY <1>3, <2>1, Quotient
  <2> QED BY <1>3, <2>1, <2>2 DEF block2arena
<1>6. d <= page + n - 1
  <2>1. PICK k \in Nat : k = page + n
    BY <1>4
  <2>2. page * size + n * size = k * size
    BY <1>4, <2>1
  <2>3. CASE k < d
    <3>1. k * size + size <= d * size /\ k * size \in Nat /\ d * size \in Nat
      BY <2>3, Times
    <3> QED BY <1>4, <1>5, <2>2, <3>1
  <2>4. CASE k = d
    <3>1. PICK l \in Nat : l = d * size
      <4>1. d * size \in Nat
        OBVIOUS
      <4> QED BY <4>1
    <3> QED BY <1>4, <1>5, <2>2, <2>4, <3>1
  <2> QED BY <2>1, <2>3, <2>4, <1>4
<1>7. Span(A, page) = page..page + n - 1 /\ Span(A, page) \subseteq D
  BY <1>2, <1>4 DEF Span, Pages1, Cut, Arenas
<1> QED BY <1>4, <1>5, <1>6, <1>7

(* What sys_malloc returned overlaps no other allocation, no free block    *)
(* and no arena_t, and lies in pages that are mapped; free_cnt counts the  *)
(* free blocks of its arena, and an arena in use has a block in use.       *)
THEOREM HeapSoundHolds == Spec => []HeapSound
<1>1. IInv => HeapSound
  <2> SUFFICES ASSUME IInv, NEW o \in Owners
               PROVE  /\ \A x, y \in Extents(o) : x = y \/ x[2] <= y[1] \/ y[2] <= x[1]
                      /\ \A x \in Extents(o) :
                           block2arena(x[1])..block2arena(x[2] - 1) \subseteq DOMAIN mem.space[o].map
                      /\ \A page \in DOMAIN heap[o].arena :
                           LET a == heap[o].arena[page]
                           IN  a.unit # 0 =>
                                 /\ a.free_cnt = Cardinality({ptr \in FreeBlocks(o, a.unit) :
                                                                block2arena(ptr) = page})
                                 /\ a.free_cnt < blocks_per_arena(a.unit)
    BY DEF HeapSound
  <2>1. PICK G, A, h, D : /\ G = FreeSets(heap[o].free) /\ A = heap[o].arena
                          /\ h = held[o] /\ D = Room(mem, task, o)
    OBVIOUS
  <2>2. Cut(G, A, h, D) /\ InUse(A, -1)
    <3>1. HeapOK(heap[o], held[o], Room(mem, task, o))
      BY DEF IInv, Sound, Heaps
    <3> QED BY <2>1, <3>1 DEF HeapOK, HeapBut
  <2>3. \A u \in Units : FreeBlocks(o, u) = G[u]
    BY <2>1 DEF FreeBlocks, FreeSets
  <2>4. D \subseteq DOMAIN mem.space[o].map
    BY <2>1 DEF Room, Dom
  <2>5. ASSUME NEW x \in Extents(o)
        PROVE  x = <<x[1], x[2]>> /\ Extent(G, A, h, x[1], x[2])
    <3>1. CASE \E ptr \in DOMAIN held[o] : x = <<ptr, ptr + held[o][ptr]>>
      BY <2>1, <3>1 DEF Extent
    <3>2. CASE \E u \in Units : \E ptr \in FreeBlocks(o, u) : x = <<ptr, ptr + block_size[u]>>
      BY <2>3, <3>2 DEF Extent
    <3>3. CASE \E page \in DOMAIN heap[o].arena : x = <<page * PG_SIZE, page * PG_SIZE + ArenaSize>>
      BY <2>1, <3>3 DEF Extent
    <3> QED BY <3>1, <3>2, <3>3 DEF Extents
  <2>6. ASSUME NEW x \in Extents(o), NEW y \in Extents(o)
        PROVE  x = y \/ x[2] <= y[1] \/ y[2] <= x[1]
    <3>1. (x[1] = y[1] /\ x[2] = y[2]) \/ x[2] <= y[1] \/ y[2] <= x[1]
      BY <2>2, <2>5, ExtentsApart
    <3> QED BY <2>5, <3>1
  <2>7. ASSUME NEW x \in Extents(o)
        PROVE  block2arena(x[1])..block2arena(x[2] - 1) \subseteq DOMAIN mem.space[o].map
    <3>1. block2arena(x[1])..block2arena(x[2] - 1) \subseteq D
      BY <2>2, <2>5, ExtentMapped
    <3> QED BY <2>4, <3>1
  <2>8. ASSUME NEW page \in DOMAIN A, A[page].unit # 0
        PROVE  /\ A[page].free_cnt = Cardinality({ptr \in FreeBlocks(o, A[page].unit) :
                                                    block2arena(ptr) = page})
               /\ A[page].free_cnt < blocks_per_arena(A[page].unit)
    <3>1. A[page].unit \in Units /\ A[page].free_cnt = Cardinality(FreeIn(G, A, page))
      BY <2>2, <2>8, FreeFinite
    <3>2. FreeIn(G, A, page) = {ptr \in FreeBlocks(o, A[page].unit) : block2arena(ptr) = page}
      BY <2>3, <3>1 DEF FreeIn
    <3>3. page # -1
      BY <2>2 DEF Cut, Arenas
    <3>4. A[page].free_cnt < blocks_per_arena(A[page].unit)
      BY <2>2, <2>8, <3>3 DEF InUse
    <3> QED BY <3>1, <3>2, <3>4
  <2> QED BY <2>1, <2>6, <2>7, <2>8
<1> QED BY <1>1, Invariant, PTL
=============================================================================
