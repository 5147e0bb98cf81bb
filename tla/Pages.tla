------------------------------- MODULE Pages --------------------------------
(***************************************************************************)
(* The page allocator of kernel/memory.c on the bitmaps of                 *)
(* lib/kernel/bitmap.c: operators from one state of the memory to the      *)
(* next.  Pages are numbered from 0: physical pages with the kernel's pool *)
(* first, virtual pages from the start of their address space.  A bitmap   *)
(* is the set of its bits that are 1.                                      *)
(*                                                                         *)
(* The memory m is a record: taken, the physical pages whose bit is 1;     *)
(* space, for the kernel and for every process the bitmap of its virtual   *)
(* pages (bits), the mapping of its page tables (map) and the physical     *)
(* pages of these tables (tables); and panic, why the kernel stopped.      *)
(***************************************************************************)
EXTENDS Integers, Functions

CONSTANTS
  KERNEL,     \* the kernel's address space
  Procs,      \* the processes' address spaces
  KPages,     \* physical pages of the kernel's pool
  UPages,     \* physical pages of the user pool
  UVPages,    \* virtual pages of a process
  TableSpan   \* entries of a page table: 1024

ASSUME PagesAssumption ==
  /\ KERNEL \notin Procs
  /\ KPages \in Nat \ {0} /\ UPages \in Nat \ {0} /\ UVPages \in Nat \ {0}
  /\ TableSpan \in Nat \ {0}

Owners == Procs \cup {KERNEL}

\* The physical pages of the pool that serves an address space.
PoolOf(o) == IF o = KERNEL THEN 0..KPages - 1 ELSE KPages..KPages + UPages - 1

\* The bits of its virtual bitmap: the kernel's is as long as its pool.
BitmapLen(o) == IF o = KERNEL THEN KPages ELSE UVPages

NoMemory == [taken |-> {},
             space |-> [o \in Owners |-> [bits |-> {}, map |-> <<>>, tables |-> <<>>]],
             panic |-> "none"]

Lowest(S) == CHOOSE i \in S : \A j \in S : i <= j

Extend(f, x, y) == [z \in DOMAIN f \cup {x} |-> IF z = x THEN y ELSE f[z]]

Panic(m, why) == IF m.panic = "none" THEN [m EXCEPT !.panic = why] ELSE m

ASSERT(m, holds) == IF holds THEN m ELSE Panic(m, "assert")

-----------------------------------------------------------------------------
(* bitmap.c *)

(* The ASSERT of bitmap_scan fails. *)
IsFull(bits, len) == 0..len - 1 \subseteq bits

(* Fault: a bit that is 1 does not end a run. *)
bitmap_scan_KeepCount(bits, len, cnt) ==
  LET scan[next_bit \in 0..len + 1] == [count \in 0..cnt |->
        IF count = cnt THEN next_bit - cnt
        ELSE IF next_bit > len THEN -1
        ELSE scan[next_bit + 1][IF next_bit \in bits THEN count ELSE count + 1]]
  IN  scan[Lowest(0..len - 1 \ bits) + 1][1]

(* Fault: the loop goes on one bit further. *)
bitmap_scan_Far(bits, len, cnt) ==
  LET scan[next_bit \in 0..len + 2] == [count \in 0..cnt |->
        IF count = cnt THEN next_bit - cnt
        ELSE IF next_bit > len + 1 THEN -1
        ELSE scan[next_bit + 1][IF next_bit \in bits THEN 0 ELSE count + 1]]
  IN  scan[Lowest(0..len - 1 \ bits) + 1][1]

(* The first of cnt bits that are 0, or -1: from the lowest 0 on, count is *)
(* the length of the run before next_bit.  The loop also looks at bit len, *)
(* behind the bitmap.                                                      *)
bitmap_scan(bits, len, cnt) ==
  LET scan[next_bit \in 0..len + 1] == [count \in 0..cnt |->
        IF count = cnt THEN next_bit - cnt
        ELSE IF next_bit > len THEN -1
        ELSE scan[next_bit + 1][IF next_bit \in bits THEN 0 ELSE count + 1]]
  IN  scan[Lowest(0..len - 1 \ bits) + 1][1]

-----------------------------------------------------------------------------
(* Physical pages and page tables *)

(* The page that palloc returns; a full pool fails an ASSERT first. *)
NextPage(m, pool) == IF pool \subseteq m.taken THEN -1 ELSE Lowest(pool \ m.taken)

palloc(m, pool) ==
  IF pool \subseteq m.taken THEN Panic(m, "full")
  ELSE [m EXCEPT !.taken = @ \cup {NextPage(m, pool)}]

pfree(m, page) == [m EXCEPT !.taken = @ \ {page}]

(* A missing page table is taken from the kernel's pool; the kernel's own  *)
(* tables are all there from the start.                                    *)
page_table_add(m, o, vaddr, page) ==
  LET table == vaddr \div TableSpan
      kernel_pool == PoolOf(KERNEL)
      m1 == IF o = KERNEL \/ table \in DOMAIN m.space[o].tables THEN m
            ELSE [palloc(m, kernel_pool) EXCEPT !.space[o].tables =
                    Extend(@, table, NextPage(m, kernel_pool))]
  IN  [ASSERT(m1, vaddr \notin DOMAIN m1.space[o].map)
         EXCEPT !.space[o].map = Extend(@, vaddr, page)]

(* get_a_page_without_opvaddrbitmap, and the body of malloc_page's loop. *)
get_a_page_without_opvaddrbitmap(m, o, vaddr) ==
  page_table_add(palloc(m, PoolOf(o)), o, vaddr, NextPage(m, PoolOf(o)))

get_a_page(m, o, vaddr) ==
  get_a_page_without_opvaddrbitmap(
    ASSERT([m EXCEPT !.space[o].bits = @ \cup {vaddr}], vaddr > 0), o, vaddr)

addr_v2p(m, o, vaddr) == m.space[o].map[vaddr]

-----------------------------------------------------------------------------
(* Runs of virtual pages *)

vaddr_get(m, o, start, cnt) ==
  ASSERT([m EXCEPT !.space[o].bits = @ \cup start..start + cnt - 1],
         o = KERNEL \/ start < UVPages - 1)

(* The memory after malloc_page, and the first page or -1 for NULL. *)
malloc_page(m, o, cnt) ==
  LET bits == m.space[o].bits
      len == BitmapLen(o)
      start == bitmap_scan(bits, len, cnt)
      mapped[i \in 0..cnt] ==
        IF i = 0 THEN vaddr_get(m, o, start, cnt)
        ELSE get_a_page_without_opvaddrbitmap(mapped[i - 1], o, start + i - 1)
  IN  IF IsFull(bits, len) THEN [mem |-> Panic(m, "full"), vaddr |-> -1]
      ELSE IF start = -1 THEN [mem |-> m, vaddr |-> -1]
      ELSE [mem |-> mapped[cnt], vaddr |-> start]

get_kernel_pages(m, cnt) == malloc_page(m, KERNEL, cnt)

(* Page by page the physical page and the mapping, then the virtual run. *)
mfree_page(m, o, vaddr, cnt) ==
  LET run == vaddr..vaddr + cnt - 1
      freed[i \in 0..cnt] ==
        IF i = 0 THEN ASSERT(m, cnt >= 1)
        ELSE LET page == addr_v2p(m, o, vaddr + i - 1)
             IN  ASSERT(pfree(freed[i - 1], page),
                        page \in PoolOf(o))
  IN  [freed[cnt] EXCEPT !.space[o].map = Restrict(@, DOMAIN @ \ run),
                         !.space[o].bits = @ \ run]
=============================================================================
