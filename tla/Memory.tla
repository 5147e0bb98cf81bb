------------------------------- MODULE Memory -------------------------------
(***************************************************************************)
(* Who uses the pages of module Pages: processes (fork, program loading,   *)
(* exit, wait) and the heaps of sys_malloc and sys_free, the kernel's and  *)
(* every process's.  All of them run in system calls, with interrupts off  *)
(* and without sleeping, so a call is one step.                            *)
(***************************************************************************)
EXTENDS Pages, Sequences, FiniteSets

CONSTANTS
  init,        \* the first process
  PG_SIZE,     \* bytes of a page: 4096
  ArenaSize,   \* sizeof(arena_t): 12
  MinBlock,    \* the smallest block: 16
  UnitCnt,     \* block sizes: MEM_UNIT_CNT, 7
  Sizes,       \* what the kernel and programs ask sys_malloc for
  MaxHeld,     \* bound: how many allocations of an owner are in use
  ImagePages,  \* the virtual pages of program images
  MaxRun       \* bound: the longest run ScanExact asks for

ASSUME MemoryAssumption ==
  /\ init \in Procs
  /\ ArenaSize \in Nat \ {0} /\ MinBlock \in Nat \ {0} /\ UnitCnt \in Nat \ {0}
  /\ PG_SIZE \in Nat \ {0}
  /\ \A o \in Owners : Sizes[o] \subseteq Nat /\ MaxHeld[o] \in Nat
  /\ ImagePages \subseteq 1..UVPages - 2
  /\ UVPages % 8 = 0 /\ MaxRun \in Nat

VARIABLES
  mem,    \* the pages (module Pages)
  task,   \* per process: state, and the kernel pages of its task_struct, of
          \* its page directory and of its bitmap of virtual pages
  heap,   \* per owner: free lists by block size, and the arenas by page
  held    \* the pointers sys_malloc has returned, with the size asked for

vars == <<mem, task, heap, held>>

DIV_CEILING(a, b) == (a + b - 1) \div b

Live == {p \in Procs : task[p].state = "live"}

\* The pages of a bitmap of virtual pages, and its length in bytes.
btmp_byte_len == UVPages \div 8
bitmap_pg_cnt == DIV_CEILING(btmp_byte_len, PG_SIZE)

-----------------------------------------------------------------------------
(* block_desc_init, arena2block, block2arena *)
Units == 1..UnitCnt

block_size[u \in Units] == IF u = 1 THEN MinBlock ELSE 2 * block_size[u - 1]

blocks_per_arena(u) == (PG_SIZE - ArenaSize) \div block_size[u]

arena2block(page, u, idx) == page * PG_SIZE + ArenaSize + idx * block_size[u]

block2arena(ptr) == ptr \div PG_SIZE

(* The largest block fits into a page, a bitmap fills at least one page,   *)
(* and the kernel's pool holds more than the first process.                *)
ASSUME PageSizeAssumption ==
  /\ PG_SIZE >= ArenaSize + block_size[UnitCnt]
  /\ btmp_byte_len >= PG_SIZE
  /\ KPages >= bitmap_pg_cnt + 3

EmptyHeap == [free |-> [u \in Units |-> <<>>], arena |-> <<>>]

-----------------------------------------------------------------------------
(* process_execute: the pages of the first process; start_process: its stack *)
NoTask == [state |-> "none", tcb |-> -1, pgdir |-> -1, bitmap |-> -1]

Init ==
  \E behind \in {{}, {KPages}} :  \* the bit behind the kernel's bitmap
    LET tcb == get_kernel_pages([NoMemory EXCEPT !.space[KERNEL].bits = behind], 1)
        bitmap == get_kernel_pages(tcb.mem, bitmap_pg_cnt)
        pgdir == get_kernel_pages(bitmap.mem, 1)
    IN  /\ mem = get_a_page(pgdir.mem, init, UVPages - 1)
        /\ task = [p \in Procs |->
                     IF p = init THEN [state |-> "live", tcb |-> tcb.vaddr,
                                       pgdir |-> pgdir.vaddr, bitmap |-> bitmap.vaddr]
                     ELSE NoTask]
        /\ heap = [o \in Owners |-> EmptyHeap]
        /\ held = [o \in Owners |-> <<>>]

(* The end of a call: a panic stops the machine in the middle of it. *)
Finish(m, rest) ==
  IF m.panic # "none"
  THEN mem' = [mem EXCEPT !.panic = m.panic] /\ UNCHANGED <<task, heap, held>>
  ELSE mem' = m /\ rest

Running(o) == mem.panic = "none" /\ o \in Live \cup {KERNEL}

-----------------------------------------------------------------------------
(* The heap *)

Unit(size) == Lowest({u \in Units : size <= block_size[u]})

(* An arena is cut into blocks when the free list is empty. *)
Arena(page, u) == [k \in 1..blocks_per_arena(u) |-> arena2block(page, u, k - 1)]

(* sys_malloc up to block_size[UnitCnt]: the first block of the free list. *)
MallocSmall(o, size) ==
  LET u == Unit(size)
      empty == heap[o].free[u] = <<>>
      r == IF empty THEN malloc_page(mem, o, 1) ELSE [mem |-> mem, vaddr |-> 0]
      h == IF empty
           THEN [free  |-> [heap[o].free EXCEPT ![u] = Arena(r.vaddr, u)],
                 arena |-> Extend(heap[o].arena, r.vaddr,
                                  [unit |-> u, free_cnt |-> blocks_per_arena(u)])]
           ELSE heap[o]
      ptr == Head(h.free[u])
  IN  /\ Running(o) /\ size > 0 /\ size <= block_size[UnitCnt]
      /\ Finish(r.mem,
           /\ heap' = [heap EXCEPT ![o] = [h EXCEPT !.free[u] = Tail(@),
                                      !.arena[block2arena(ptr)].free_cnt = @ - 1]]
           /\ held' = [held EXCEPT ![o] = Extend(@, ptr, size)]
           /\ UNCHANGED task)

(* sys_malloc of more: whole pages, with an arena_t (unit 0: desc is NULL) *)
(* in front; NULL if there is no run of pages.                             *)
MallocLarge(o, size) ==
  LET cnt == DIV_CEILING(size + ArenaSize, PG_SIZE)
      r == malloc_page(mem, o, cnt)
      ptr == r.vaddr * PG_SIZE + ArenaSize
  IN  /\ Running(o) /\ size > block_size[UnitCnt]
      /\ size < PG_SIZE * (IF o = KERNEL THEN KPages ELSE UPages)
      /\ Finish(r.mem,
           /\ IF r.vaddr = -1 THEN UNCHANGED <<heap, held>>
              ELSE /\ heap' = [heap EXCEPT ![o].arena =
                        Extend(@, r.vaddr, [unit |-> 0, free_cnt |-> cnt])]
                   /\ held' = [held EXCEPT ![o] = Extend(@, ptr, size)]
           /\ UNCHANGED task)

sys_malloc(o, size) ==
  /\ Cardinality(DOMAIN held[o]) < MaxHeld[o]
  /\ MallocSmall(o, size) \/ MallocLarge(o, size)

Without(f, x) == Restrict(f, DOMAIN f \ {x})

(* The blocks of a free list that are not in this page. *)
Elsewhere(list, page) ==
  LET kept[n \in 0..Len(list)] ==
        IF n = 0 THEN <<>>
        ELSE IF block2arena(list[n]) = page THEN kept[n - 1]
        ELSE Append(kept[n - 1], list[n])
  IN  kept[Len(list)]

(* Fault: the blocks of an arena that is given back stay in the free list. *)
FreeSmall_KeepBlocks(o, ptr) ==
  LET page == block2arena(ptr)
      a == heap[o].arena[page]
      last == a.free_cnt + 1 = blocks_per_arena(a.unit)
      freed == Append(heap[o].free[a.unit], ptr)
      m == IF last THEN mfree_page(mem, o, page, 1) ELSE mem
  IN  /\ Running(o) /\ ptr \in DOMAIN held[o] /\ a.unit # 0
      /\ Finish(m,
           /\ heap' = IF last
                      THEN [heap EXCEPT ![o].free[a.unit] = freed,
                                        ![o].arena = Without(@, page)]
                      ELSE [heap EXCEPT ![o].free[a.unit] = freed,
                                        ![o].arena[page].free_cnt = @ + 1]
           /\ held' = [held EXCEPT ![o] = Without(@, ptr)]
           /\ UNCHANGED task)

(* sys_free of a block: an arena with nothing but free blocks goes back. *)
FreeSmall(o, ptr) ==
  LET page == block2arena(ptr)
      a == heap[o].arena[page]
      last == a.free_cnt + 1 = blocks_per_arena(a.unit)
      freed == Append(heap[o].free[a.unit], ptr)
      m == IF last THEN mfree_page(mem, o, page, 1) ELSE mem
  IN  /\ Running(o) /\ ptr \in DOMAIN held[o] /\ a.unit # 0
      /\ Finish(m,
           /\ heap' = IF last
                      THEN [heap EXCEPT ![o].free[a.unit] = Elsewhere(freed, page),
                                        ![o].arena = Without(@, page)]
                      ELSE [heap EXCEPT ![o].free[a.unit] = freed,
                                        ![o].arena[page].free_cnt = @ + 1]
           /\ held' = [held EXCEPT ![o] = Without(@, ptr)]
           /\ UNCHANGED task)

(* sys_free of whole pages. *)
FreeLarge(o, ptr) ==
  LET page == block2arena(ptr)
      a == heap[o].arena[page]
  IN  /\ Running(o) /\ ptr \in DOMAIN held[o] /\ a.unit = 0
      /\ Finish(mfree_page(mem, o, page, a.free_cnt),
           /\ heap' = [heap EXCEPT ![o].arena = Without(@, page)]
           /\ held' = [held EXCEPT ![o] = Without(@, ptr)]
           /\ UNCHANGED task)

sys_free(o, ptr) == FreeSmall(o, ptr) \/ FreeLarge(o, ptr)

-----------------------------------------------------------------------------
(* Processes *)

(* copy_body_stack3: a page of its own for every virtual page of p. *)
copy_body_stack3(m, p, c) ==
  LET pages == m.space[p].bits
      low(v) == {w \in pages : w < v}
      copied[v \in pages] ==
        get_a_page_without_opvaddrbitmap(
          IF low(v) = {} THEN m
          ELSE copied[CHOOSE w \in low(v) : \A x \in low(v) : x <= w], c, v)
  IN  copied[CHOOSE v \in pages : \A w \in pages : w <= v]

(* The child's task_struct, a page to copy through, the child's bitmap and *)
(* page directory, its pages.  Without a run of pages for the bitmap fork  *)
(* fails and keeps what it has.  The child starts with an empty heap: it   *)
(* is not to free what its parent had allocated.                           *)
sys_fork(p, c) ==
  LET tcb == get_kernel_pages(mem, 1)
      buf == get_kernel_pages(tcb.mem, 1)
      bitmap == get_kernel_pages(buf.mem, bitmap_pg_cnt)
      pgdir == get_kernel_pages([bitmap.mem EXCEPT !.space[c].bits = @ \cup mem.space[p].bits], 1)
      copied == copy_body_stack3(pgdir.mem, p, c)
  IN  /\ Running(p) /\ p # c /\ task[c].state = "none"
      /\ \/ /\ bitmap.mem.panic # "none" \/ bitmap.vaddr = -1
            /\ Finish(bitmap.mem, UNCHANGED <<task, heap, held>>)
         \/ /\ bitmap.mem.panic = "none" /\ bitmap.vaddr # -1
            /\ copied.panic # "none"
            /\ Finish(copied, TRUE)
         \/ /\ bitmap.mem.panic = "none" /\ bitmap.vaddr # -1
            /\ copied.panic = "none"
            /\ Finish(mfree_page(copied, KERNEL, buf.vaddr, 1),
                 /\ task' = [task EXCEPT ![c] = [state |-> "live", tcb |-> tcb.vaddr,
                                pgdir |-> pgdir.vaddr, bitmap |-> bitmap.vaddr]]
                 /\ UNCHANGED <<heap, held>>)

(* execv loads a page of the image: into the page that is there, if any. *)
segment_load(p, v) ==
  /\ Running(p) /\ p # KERNEL /\ v \notin DOMAIN mem.space[p].map
  /\ Finish(get_a_page(mem, p, v), UNCHANGED <<task, heap, held>>)

(* Fault: the page tables are not given back. *)
release_prog_resource_Tables(m, p) ==
  mfree_page([m EXCEPT !.taken = @ \ Range(m.space[p].map),
                       !.space[p] = [bits |-> {}, map |-> <<>>, tables |-> <<>>]],
             KERNEL, task[p].bitmap, btmp_byte_len \div PG_SIZE)

(* Fault: the page directory is given back too, and again in thread_exit. *)
release_prog_resource_Pgdir(m, p) ==
  mfree_page(
    mfree_page([m EXCEPT !.taken = @ \ (Range(m.space[p].map) \cup Range(m.space[p].tables)),
                         !.space[p] = [bits |-> {}, map |-> <<>>, tables |-> <<>>]],
               KERNEL, task[p].bitmap, btmp_byte_len \div PG_SIZE),
    KERNEL, task[p].pgdir, 1)

(* All mapped pages and page tables, and the bitmap, whose pages are       *)
(* counted rounded down.                                                   *)
release_prog_resource(m, p) ==
  mfree_page([m EXCEPT !.taken = @ \ (Range(m.space[p].map) \cup Range(m.space[p].tables)),
                       !.space[p] = [bits |-> {}, map |-> <<>>, tables |-> <<>>]],
             KERNEL, task[p].bitmap, btmp_byte_len \div PG_SIZE)

(* The process hangs until its parent takes its status. *)
sys_exit(p) ==
  /\ Running(p) /\ p \notin {KERNEL, init}
  /\ Finish(release_prog_resource(mem, p),
       /\ task' = [task EXCEPT ![p].state = "zombie", ![p].bitmap = -1]
       /\ heap' = [heap EXCEPT ![p] = EmptyHeap]
       /\ held' = [held EXCEPT ![p] = <<>>])

(* Its parent's sys_wait: the page directory and the task_struct. *)
thread_exit(p) ==
  /\ mem.panic = "none" /\ task[p].state = "zombie"
  /\ Finish(mfree_page(mfree_page(mem, KERNEL, task[p].pgdir, 1), KERNEL, task[p].tcb, 1),
       task' = [task EXCEPT ![p] = NoTask] /\ UNCHANGED <<heap, held>>)

(* A failed ASSERT ends here. *)
panic_spin == mem.panic # "none" /\ UNCHANGED vars

Next ==
  \/ \E o \in Owners :
       \/ \E size \in Sizes[o] : sys_malloc(o, size)
       \/ \E ptr \in DOMAIN held[o] : sys_free(o, ptr)
  \/ \E p \in Procs :
       \/ \E c \in Procs : sys_fork(p, c)
       \/ \E v \in ImagePages : segment_load(p, v)
       \/ sys_exit(p)
       \/ thread_exit(p)
  \/ panic_spin

Spec == Init /\ [][Next]_vars

-----------------------------------------------------------------------------
TypeOK ==
  /\ mem.taken \subseteq 0..KPages + UPages - 1
  /\ mem.panic \in {"none", "full", "assert"}
  /\ \A o \in Owners : /\ mem.space[o].bits \subseteq 0..BitmapLen(o)
                       /\ DOMAIN mem.space[o].map \subseteq 0..BitmapLen(o)
                       /\ Range(mem.space[o].map) \subseteq PoolOf(o)
  /\ \A p \in Procs : task[p].state \in {"none", "live", "zombie"}
  /\ \A o \in Owners, u \in Units : heap[o].free[u] \in Seq(Nat)

(* The only way to panic is to run out of pages. *)
OnlyFullPools == mem.panic # "assert"

\* The ways a physical page is used: an address space maps it, or a process
\* has it as a page table.
Uses ==
  (UNION {{<<o, "map", v>> : v \in DOMAIN mem.space[o].map} : o \in Owners})
    \cup (UNION {{<<p, "table", t>> : t \in DOMAIN mem.space[p].tables} : p \in Procs})

PageOf(u) == IF u[2] = "map" THEN mem.space[u[1]].map[u[3]]
                             ELSE mem.space[u[1]].tables[u[3]]

(* The bitmaps agree with the page tables: every physical page whose bit   *)
(* is 1 is used once, as a page of one address space or as a page table,   *)
(* and no other is used; a virtual page has its bit if it is mapped.       *)
PoolsAgree ==
  /\ mem.taken = {PageOf(u) : u \in Uses}
  /\ Cardinality(mem.taken) = Cardinality(Uses)
  /\ \A o \in Owners :
       mem.space[o].bits \ {KPages} = DOMAIN mem.space[o].map \ {KPages}

\* The kernel pages of a process, and those of a heap.
TaskPages(p) ==
  CASE task[p].state = "live" -> {task[p].tcb, task[p].pgdir}
                                   \cup task[p].bitmap..task[p].bitmap + bitmap_pg_cnt - 1
    [] task[p].state = "zombie" -> {task[p].tcb, task[p].pgdir}
    [] OTHER -> {}

ArenaPages(o) ==
  UNION {LET a == heap[o].arena[page]
         IN  page..page + (IF a.unit = 0 THEN a.free_cnt ELSE 1) - 1 :
           page \in DOMAIN heap[o].arena}

(* Nobody frees or reuses a page of a process that still needs it: its     *)
(* task_struct, page directory and bitmap are mapped, and no other process *)
(* and no heap block has them.                                             *)
TasksOwnPages ==
  \A p \in Procs :
    /\ TaskPages(p) \subseteq DOMAIN mem.space[KERNEL].map
    /\ TaskPages(p) \cap ArenaPages(KERNEL) = {}
    /\ \A q \in Procs \ {p} : TaskPages(p) \cap TaskPages(q) = {}

FreeBlocks(o, u) == Range(heap[o].free[u])

\* The bytes somebody may write: of a pointer held, of a block's free_elem.
Extents(o) ==
  {<<ptr, ptr + held[o][ptr]>> : ptr \in DOMAIN held[o]}
    \cup (UNION {{<<ptr, ptr + block_size[u]>> : ptr \in FreeBlocks(o, u)} : u \in Units})
    \cup {<<page * PG_SIZE, page * PG_SIZE + ArenaSize>> : page \in DOMAIN heap[o].arena}

(* What sys_malloc returned overlaps no other allocation, no free block    *)
(* and no arena_t, and lies in pages that are mapped; free_cnt counts the  *)
(* free blocks of its arena, and an arena in use has a block in use.       *)
HeapSound ==
  \A o \in Owners :
    /\ \A x, y \in Extents(o) : x = y \/ x[2] <= y[1] \/ y[2] <= x[1]
    /\ \A x \in Extents(o) :
         block2arena(x[1])..block2arena(x[2] - 1) \subseteq DOMAIN mem.space[o].map
    /\ \A page \in DOMAIN heap[o].arena :
         LET a == heap[o].arena[page]
         IN  a.unit # 0 =>
               /\ a.free_cnt = Cardinality({ptr \in FreeBlocks(o, a.unit) :
                                              block2arena(ptr) = page})
               /\ a.free_cnt < blocks_per_arena(a.unit)

(* bitmap_scan finds the first run, if there is one, in every bitmap of    *)
(* virtual pages the kernel gets to; the bit behind the bitmap counts as   *)
(* one of its bits.                                                        *)
ScanExact ==
  \A cnt \in 1..MaxRun :
    LET bits == mem.space[KERNEL].bits
        runs == {i \in 0..KPages - 1 : /\ i + cnt - 1 <= KPages
                                       /\ i..i + cnt - 1 \cap bits = {}}
    IN  ~IsFull(bits, KPages) =>
          bitmap_scan(bits, KPages, cnt) = IF runs = {} THEN -1 ELSE Lowest(runs)

(* When a process has exited, its special resources have been given back   *)
(* (release_prog_resource): every page of the kernel belongs to a process  *)
(* or to the kernel's heap.                                                *)
PagesReturned ==
  DOMAIN mem.space[KERNEL].map \subseteq
    ArenaPages(KERNEL) \cup UNION {TaskPages(p) : p \in Procs}
=============================================================================
