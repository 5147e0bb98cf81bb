# A TLA+ model of JackOS

JackOS is a small 32-bit x86 kernel for one CPU: threads and a round-robin
scheduler, semaphores and mutexes, ring buffers for the keyboard and for
pipes, an IDE disk driver, a page allocator and a kernel heap, processes with
fork, exec, exit and wait, a small file system and a shell. This directory
holds TLA+ modules that model its core, TLC configurations that check them on
small instances, and TLAPS proofs of the theorems that hold for every instance.

`PROJECT.json` lists components, runs, the lines every definition stands for,
the faults each property is shown to detect, the hazards and the theorems.

## 1. Inventory

### What runs when

Every IDT gate is an interrupt gate, so system calls (`kernel/kernel.S`,
`syscall_handler`) and interrupt handlers run with interrupts off. On one CPU
that makes them atomic *until they block* (`thread_block`) or yield. Three
kinds of code can be preempted by the clock between any two statements: user
programs, kernel threads, and the boot thread after `intr_enable` in
`kernel/init.c:25` (it initialises the disk and the file system with
interrupts on, while init is already in the run queue). A woken thread is
switched in inside `thread_block`, with interrupts still off.

| Component | State | Operations | Interacts with |
|---|---|---|---|
| threads, scheduler (`thread/thread.c`, `device/timer.c`) | `task_struct.status`, `this_tick`, `thread_ready_list`, `thread_all_list`, pid bitmap | `schedule`, `thread_block`, `thread_unblock`, `thread_yield`, `thread_start`, `thread_exit`, `idle`, clock interrupt | everybody who sleeps |
| semaphores, mutexes (`thread/sync.c`) | `value`, `waiters`; `holder`, `holder_repeat_nr` | `sema_down/up`, `mutex_acquire/release` | scheduler; console, ring buffers, disk channel, memory pools |
| ring buffers (`device/ioqueue.c`) | `buf`, `head`, `tail`, `producer`, `consumer`, mutex | `ioq_getchar`, `ioq_putchar` | keyboard interrupt, `sys_read`, pipes |
| keyboard (`device/keyboard.c`) | shift, ctrl, caps and prefix flags | the interrupt | ring buffer |
| pipes (`shell/pipe.c`) | a ring in a kernel page, a count in the file table | `sys_pipe`, `pipe_read`, `pipe_write`, redirection | ring buffers, file table |
| processes (`userprog/fork.c`, `wait_exit.c`, `exec.c`) | `pid`, `parent_pid`, `exit_status`, address space | `fork`, `exit`, `wait`, `execv`; init's loop | scheduler, memory, file table |
| disk driver (`device/ide.c`) | `expecting_intr`, `disk_done`, mutex of a channel | `ide_read`, `ide_write`, `busy_wait`, the interrupt | semaphores, clock, the disk |
| page allocator (`kernel/memory.c`) | physical pools, virtual bitmaps, page tables, two mutexes | `malloc_page`, `mfree_page`, `get_a_page`, ... | processes, heap |
| kernel heap (`kernel/memory.c`) | arenas, free lists per block size | `sys_malloc`, `sys_free` | page allocator |
| open files (`fs/file.c`, `fs/inode.c`) | `file_table`, `fd_table`, `open_inodes`, `i_open_cnts`, `write_deny` | `sys_open`, `sys_close`, `sys_read`, `sys_write`, `sys_lseek` | disk driver, pipes, fork, exit |
| on-disk file system (`fs/*.c`) | super block, two bitmaps (in memory and on the disk), inode table, directories, `cwd_inode_no` | format, mount, create, `sys_unlink`, `sys_mkdir`, `sys_rmdir`, `sys_chdir`, `sys_getcwd`, directory streams | disk driver, open files |
| lists, bitmaps (`lib/kernel`) | links, bits | push, append, pop, remove, scan | everybody |
| shell, commands, libraries, boot | sequential code | | system calls |

### What is hard, and what correct means

* *Scheduler*: a thread is linked through one tag (`general_tag`) into the run
  queue *or* one waiters list; statuses and lists must agree across every
  preemption, or the assertions of `thread_unblock` and `schedule` stop the
  machine. No ready thread starves although woken threads jump the queue.
* *Mutex*: `mutex_acquire` and `mutex_release` read and write `holder` and
  `holder_repeat_nr` with interrupts on. Exclusion, re-entrance, no lost wakeup.
* *Ring buffers*: a test made before a sleep is stale after it. Bytes come out
  in order, exactly once; nobody sleeps beside a byte that would wake him.
* *Processes*: parents are named by pid, and pids are used again. A status must
  reach the real parent exactly once; orphans go to init.
* *Disk*: flag, command, interrupt and semaphore in the right order; requests
  of more than 256 sectors are several commands. Requests are atomic.
* *Memory*: pools and page tables must agree, half-done allocations must be
  undone. *Files*: a descriptor leads through `fd_table`, `file_table` and
  `open_inodes` to the inode table, with a count or a flag at every level that
  close, fork and exit must keep; calls wait for the disk between a lookup and
  the insertion it justifies.
* *On disk*: every operation writes several sectors and there is no journal. The
  tree must change in one order (the entry, `i_size` of its directory, the inode), so
  that a stop in between leaves no more than one name without its object, and the
  copies in memory must agree with the disk when the call returns.

The full list, each at its line, is under "hazards" in `PROJECT.json`.

## 2. Modules

| Module | Models | State and actions |
|---|---|---|
| `Thread` | scheduler | operators from one scheduler record `[cur, status, ready, this_tick, panic]` to the next, one per kernel function; a failed `ASSERT` sets `panic` |
| `Sema` | semaphores | adds `sema`: `value` and `waiters` |
| `KMutex` | mutexes as system calls use them (interrupts off: one step) | adds `mutex`: `holder`, `repeat` |
| `Mutex` | **abstract**: a re-entrant lock | `owner`, `depth` |
| `Sync` | kernel threads on one mutex, preempted at every statement; thread creation and exit, block/unblock, idle, clock | one action per statement of `mutex_acquire/release`, one per kernel call |
| `Fifo` | **abstract**: a bounded first-in first-out queue | `items`, `byte` |
| `IoQueue` | ring buffers with keyboard interrupt, stdin readers, pipe readers and writers | one action per stretch between two sleeps |
| `Family` | **abstract**: a process tree with statuses handed to the real parent | `parent`, `zombies` |
| `WaitExit` | pids, task list, fork, exit, wait, adoption, init's loop | one action per system call; `sys_wait` is resumed when switched in |
| `Disk` | **abstract**: requests on sectors take effect at one instant | `disk`, `result` |
| `Ide` | `ide_read`, `ide_write`, interrupt, `busy_wait`, `mtime_sleep`; the disk is external | one action per access to shared state |
| `Inode` | partition, bitmaps, inode table, `open_inodes` (`fs/inode.c`, the bitmaps of `fs/file.c`, format and mount of `fs/fs.c`) | operators from one file system record `[disk, log, bbits, ibits, open, panic]` to the next, one per function |
| `Dir` | directories (`fs/dir.c`) and paths (`search_file`, `sys_getcwd`) | the same: `search_dir_entry`, `sync_dir_entry`, `delete_dir_entry`, `dir_read`, `dir_remove`, ... |
| `File` | `file_write`, `file_read`, `sys_lseek` | the same |
| `FileSystem` | **abstract**: a tree that one call changes at a time, in the order names, count of the directory, object; a power failure leaves it as far as it has come, at worst with one hollow object and one wrong count | `tree`, `goal` |
| `Fs` | the calls of `fs/fs.c`, pipes in the file table, descriptors through fork and exit; the disk stores one sector at a time; restart | `fs`, `disk`, `file_table`, `task`; one action per call, `WriteSector`, `Crash` |
| `Pages` | page allocator and bitmaps | operators from one memory record `[taken, space, panic]` to the next: `bitmap_scan`, `palloc`, `page_table_add`, `malloc_page`, `mfree_page`, ... |
| `Memory` | who uses pages: `fork`, `segment_load`, `exit`, `wait`, and `sys_malloc`/`sys_free` of the kernel and of processes | `mem`, `task`, `heap`, `held`; one action per call |
| `MC*` | values of the constants for TLC | |
| `ThreadProofs` | lemmas: what the operators of `Thread`, `Sema` and `KMutex` do to a sound kernel state | |
| `FsTreeProofs` | lemmas: what the operators of `Inode`, `Dir` and `File` do to a sound partition | |
| `SyncProofs`, `IoQueueProofs`, `WaitExitProofs`, `IdeProofs`, `MemoryProofs`, `FsProofs` | theorems about `Sync`, `IoQueue`, `WaitExit`, `Ide`, `Memory` and `Fs` | |

Operators whose name ends in a fault (`AcquireDown_If`, `Take_NoWakeup`, ...)
are plausible bugs: TLC is shown to find the property violated when the fault
replaces the real definition. No specification uses them.

Data is abstracted where nothing depends on it: bytes, sectors and pages are
model values (in `Fs` a byte is the number of its file and position, a sector the
bits, words, addresses, entries or bytes that the code puts there); what a system call does with user memory is left out. Lists are
sequences. `panic_spin` stops everything: all actions are guarded by `~panic`.

## 3. Runs

| Run | Instance | Shows |
|---|---|---|
| `sync` | boot thread, init, a thread created later, idle; slices of 0 and 1 tick | types, no failed assertion, lists agree with statuses, exclusion, no lost wakeup, refinement of `Mutex`; every ready thread runs, every waiter is woken |
| `ioqueue` | keyboard, two processes, idle; rings of 3 slots; calls of up to 2 bytes | refinement of `Fifo` by both rings, no assertion, no forgotten sleeper |
| `pipe_writers` | two writers and a reader of one pipe | order and waiter slots when a writer sleeps on the mutex |
| `ioqueue_two_readers` | two readers of the keyboard | **violation**, see findings |
| `wait_exit` | init, boot thread, idle, pages for 3 processes, 6 pids, 1 half-failed fork, statuses -1 and 200 | task list, pids and statuses agree, wakeups kept, refinement of `Family` |
| `wait_exit_orphans` | the same without failures | **violation**, see findings |
| `ide` | boot thread (interrupts on), a process (off), idle; 3 sectors; commands of up to 2 sectors; requests of 1 and of 3 | commands in turn, no lost or unexpected interrupt, the only panic is the time-out, refinement of `Disk` |
| `ide_busy_wait` | one sector | **violation**, see findings |
| `memory` | init and a child; 11 kernel and 4 user pages of 8 bytes, all of which get used up; blocks of 2 and 4 bytes and allocations of 2 pages | the only panic is a full pool; pools and page tables agree; tasks keep their pages; allocations do not overlap; the scan for a run is exact |
| `memory_exit` | the same | **violation**, see findings |
| `fs` | two processes, one that names paths; paths `a`, `b`, `b/a`; 4 inodes, 12 sectors, blocks of 2 bytes, 2 direct blocks and an indirect one of 3 addresses; 3 calls besides writes, closes and removals; off and on again between any two sectors | descriptors, counts, `open_inodes`, inode table and bitmaps agree; what is written is read; paths, `dir_read` and `sys_getcwd` see one tree; refinement of `FileSystem`, sector by sector and over every power failure; after a restart no data block is free |
| `fs_remount` | the same with 2 calls | **violation**, see findings |

*Bounds.* Three threads and idle are what a mutex needs for holder, woken
waiter and a thread that overtakes it. A ring of 3 slots holds 2 bytes: full,
empty, one byte and wrap-around are all reached. Three process pages give a
grandchild that outlives its parent, and 6 pids beside the three of the boot
make pids come back. Requests of 3 sectors with commands of 2 make a request of
two commands, the second shorter, and a command whose count register holds 0
(2 modulo 2, as 256 modulo 256 in the code). `MaxRepeat`, `MaxCount`,
`MaxLost`, `MaxSleep`, `TimeLimit`, `Ranges` are the named bounds. A virtual bitmap of 12 bytes
takes 2 pages of 8 bytes rounded up and 1 rounded down, as the real one of 94199
bytes takes 23 and 22; the kernel's pool of 11 pages is used up by two processes
and a few arenas; `UVPages` with `TableSpan` give an image and a stack that share a
page table and a heap that needs another. `bitmap_scan` reads one bit behind its
bitmap: both values of it are initial states. `MaxHeld` and `MaxRun` bound the
pointers in use and the runs asked for. `TimeLimit`
stands for 29999, the polls that the expression `time_limit -= 10 > 0` really
allows; `MaxSleep` for the ticks since boot that `mtime_sleep` sleeps.

*Fairness.* `sync` assumes strong fairness of every thread's own steps
(it makes its next step if it has the CPU again and again), of the clock
(the interrupt controller keeps the request while interrupts are off, so it is
delivered when they are on again and again), and of leaving the critical section
(`Leave`: the sections that the mutexes protect, as in `device/console.c:40`, are
a few calls long, so whoever is inside releases in the end). In `WaitExit` programs may spin for
ever; only calls in progress, init's loop and the clock are fair. In `Ide` the
disk answers every command (weak fairness); callers need not call.

*Symmetry.* Bytes, sectors and process pages are never compared, only copied;
the runs with liveness properties use no symmetry.

*The file system's instance.* The geometry makes every bound of the code small and
different: the block bitmap has two sectors of 4 bits, so a bit and the block
behind it are synced apart; two direct blocks and blocks of 2 bytes make a file of
6 bytes need the indirect block; `Writes` of 1 and 2 bytes end within a block, at its
end and behind it (`Reads`, `Seeks`, `Users`, `Paths`, `FilePaths`, `DirPaths`,
`OpenPaths`, `MaxSize`, `MaxCalls` and `ShareFiles` are the other bounds). Two processes and `MaxCalls` = 3 give open, pipe, fork, redirect
and chdir in every order; closes, writes, unlinks and rmdirs are not counted, so
every such state is also left again.

## 4. Proofs

Every safety property and refinement that the passing runs check of `Sync`, `IoQueue`,
`WaitExit`, `Ide` and `Memory` is a theorem for any sets of threads, slices, ring sizes,
requests, orders of boot, pool sizes, page sizes and block sizes, from the named
assumptions of the modules (`PROJECT.json` lists the theorems); of `Fs` only `PipesAlive`
is, beside four results with conditions that the running system does not meet for long
(below). Those about threads rest on `ThreadProofs`, which says what each scheduler
operator does to a consistent state (`Switched`, `Suspends`, ...), then the same of
`sema_down` and `sema_up`, and of a mutex taken and released in one step. The modules
above it have one lemma per action and never look inside the scheduler.

None of the invariants is inductive. Each proof module begins with its `IInv`:

**`SyncProofs`** (`TypeCorrect`, `PanicFree`, `QueuesAgree`, `Exclusion`,
`WakeupsKept`, `Refinement`). Beside the properties themselves:

* `Control`: what a control point says of its thread's status;
* `Ownership`: the semaphore is 0 exactly while one thread is between the return
  of `sema_down` and the end of `sema_up`; `holder` names a thread exactly at the
  control points between its two writes. Exclusion follows from it, and the
  comparison `holder != running_thread()` with interrupts on is harmless because
  of it: only the thread itself can make the two equal;
* `Counting`: `holder_repeat_nr` is 0 when a new holder looks at it, and equals
  the caller's own count of acquires inside: what the assertions rely on.

`Refinement` maps `owner` to the thread whose `holder_repeat_nr` is set.

**`IoQueueProofs`** (`IoQueueTypeCorrect`, `IoQueuePanicFree`, `SleepersWoken`,
`FifoRefinement`). A system call that copies bytes does many things in one step, so
the invariant is stated of a kernel state, control points, calls and rings
(`Kernel`) and every part of a step (a byte moved, a slot set, the mutex taken, a
sleeper woken, a switch) has a lemma from one `Kernel` to the next. `Locks` says that
the mutex of a ring is held exactly by the thread inside `ioq_wait`, with the rest in
its waiters; `Slots` that `producer` and `consumer` hold exactly the threads
suspended there; `Calls` that a reader of a pipe never asks for more than there is,
which is `pipe_read`'s own minimum. Types and freedom from panics need nothing more,
so they hold with any number of readers and writers. `FifoRefinement` needs
`OneReader` (of the keyboard, the shell's use: with two it is false, see findings);
`SleepersWoken` needs `OneWriter` as well, since a second writer goes on to sleep
without a new test (`ioqueue.c:123`). `ReadersWoken` and `WritersWoken`, each
an invariant of its own beside `IInv`, say what the one reader or writer may count on.

**`WaitExitProofs`** (`WaitExitTypeCorrect`, `OnlyPidsRunOut`, `WaitExitPanicFree`,
`TablesAgree`, `WaitersWoken`, `FamilyRefinement`). `Parentage` says that the parent of
every process but the first three is a task that is there and has not exited: the
wake-up in `sys_exit` looks it up and dereferences it. It is kept because `sys_exit`
gives the children to init before it dies, and needs that no pid is used by two tasks
at once. The one assertion that can fail is `bitmap_scan`'s on a full pid bitmap
(`OnlyPidsRunOut`); `WaitExitPanicFree` excludes it under `PidsSuffice`: no more
task_structs than `MaxPid`. `Counting` (no more pids are marked than tasks hold one)
carries that argument. With 32 MB of memory, which the comment in `bochsrc.source`
names, the code justifies the assumption: a process takes at least 25 kernel pages
(`task_struct`, page directory, a bitmap of 23) out of a pool of 3840, against 1024
pids. With more (the same file sets 4 GB, and a pool may have up to 32767 pages) pids
may run out before pages do, and only `OnlyPidsRunOut` remains. `FamilyRefinement` also assumes that "none", the value of
`parent` for tasks without one, is not a thread.

**`IdeProofs`** (`IdeTypeCorrect`, `OnlyTimeouts`, `CommandsTakeTurns`,
`InterruptsKept`, `InterruptsAwaited`, `DiskRefinement`). `Kernel` says that the
channel's mutex is held exactly by the thread inside the driver; `Stages` lists for
each of its points which combinations of disk phase, pending interrupt,
`expecting_intr` and value of `disk_done` are possible (`Answering`: the disk works, has
asked, or has been heard); `Requests` relates what is done of a request to buffer and
disk; `Registers` says what the registers and the disk's own buffer hold. The count
register holds the length modulo 256 and `Registers` needs that it still means what
was asked for: `n % MaxSectors` with `n` in `1..MaxSectors`. The time-out's panic
changes none of this, so `IInv` says only of the other states that the scheduler is
sound. In `DiskRefinement` a write takes effect when its first sectors are stored
(`Begun` holds at most the thread inside the driver; `Visible` shows the whole
request from there on), a read when it returns.

**`MemoryProofs`** (`Invariant`, `MemoryTypeCorrect`, `OnlyFullPoolsHolds`,
`PoolsAgreeHolds`, `TasksOwnPagesHolds`, `HeapSoundHolds`, `ScanExactHolds`).
`HeapSound` says that allocations, free blocks and `arena_t`s do not overlap, which a
step keeps only if much more is true. `IInv` adds:

* `Agree`, of a memory alone: every physical page in use belongs to one mapping or
  page table, of the right pool, and to no other; nothing is marked that nobody uses.
  Every operator of `Pages` leads from such a memory to another, or panics for want
  of a page, so no `ASSERT` on the way can fail (`OnlyFullPools`);
* `Bits`: outside a call a virtual page has its bit exactly if it is mapped. The bit
  behind the kernel's bitmap (`bitmap.c:68`, see hazards) is left out;
* `Tasks`: the kernel pages of a process are mapped, and no other process has them;
* `Heaps`: per owner, the pages of different arenas are disjoint, mapped, and none of
  a process's kernel pages or its stack page (`Room`); a free block has the size of
  its arena and is on one list once; a pointer given out is to whole pages or to a
  block that is not free; `free_cnt` counts the free blocks of its arena. That
  `sys_free` gives a page back only when all of its blocks are free follows from the
  count: as many free blocks as the arena has are all of them (`FreeFinite`).

The loops of the code (`bitmap_scan`'s two, those of `malloc_page`, `mfree_page`,
`copy_body_stack3` and `sys_free`, the sizes of `block_desc_init`) are recursive
functions in the model. A proof by induction over their length is written as
a least counterexample, from the well-foundedness of `<` on `Nat`: first that a
function with the defining equation exists (`ScanExists`, `MapsExist`, `KeepsExist`,
...), then what it returns (`ScanFinds`: the first run of free bits, or -1).

`MemoryAssumption` gives the constants their types. `PageSizeAssumption` is what the
code's numbers satisfy: the largest block and an `arena_t` fit into a page (1024 + 12
of 4096 bytes), the bitmap of a process fills at least one page (94199 bytes, 23
pages), and the kernel's pool holds what the first process takes (26 pages of 3840
with 32 MB of memory). Without the last the system panics before there is a state
to speak of.

**`FsProofs`, the tables** (`PipesStayAlive`). `Tables`, of `file_table` and `fd_table`,
is inductive: no descriptor refers to a free slot, the count of a pipe is at least the
number of its users, a regular file has at most one. It holds over every call, a panic
and a restart, whatever the disk holds and for any numbers of slots, descriptors,
processes and inodes, and `PipesAlive` is a part of it. The one hypothesis is
`~ShareFiles`: no process forks while it has a regular file open. With such a fork it is
false, since `file_close` (`file.c:305`) empties the slot that the other process still
uses, and a pipe may take it. The programs in `src` that fork (`main.c:41`,
`shell.c:171`, `prog_with_arg.c:11`, `prog_pipe.c:9`) have no regular file open then.

**`FsTreeProofs`, `FsProofs`, the partition** (`FsIsSound`, `PanicsAreKnown`,
`CacheIsCoherent`, `CountsAreExact`, `ReadsBack`). These five are conditional, and are
not results about the system as it runs. They hold of the behaviours in which

* every inode in use lies in the first sector of the inode table (`FewInodes`): in the
  real geometry six inodes of 76 bytes. The first boot of `main.c` makes eight, and the
  seventh crosses a sector and loses words (`inode.c:41`);
* `WithinBounds`: nobody forks with a regular file open (`file.c:305`), paths have no
  dots, `sys_open` of an existing file is of one in the root (`fs.c:564`), a directory has
  one block (`dir.c:158`), one `sys_write` is of at most a block (`file.c:451`; in the
  kernel's 512 bytes, the size of the pieces in which `main.c` copies the programs), and
  files stay smaller than the blocks that can be read (`file.c:587`).

The lines are those where the code breaks one of the five outside of the condition; that
paths have no dots only spares the proof the walk back up the tree. The instance of `fs`
satisfies the conditions (`FewInodes` because it has 4 inodes), so the five say what the
run says, for any numbers of sectors, slots, descriptors, processes, blocks, direct
blocks and bytes per block.

A call of the file system reads the disk through
`open_inodes`, so no property of the files or of the disk can be kept alone. `FsInv`
has, beside `Tables`, two parts:

* `Logged`: what memory takes the disk to be is the platter and the writes under way;
* `Sound`, while nothing has panicked: `DiskShape`, that every sector has the kind of
  content its place asks for; `Good`, that the inodes in use fit together (`IsTree`: a
  directory has its two dots and one sector of entries, every entry is for an inode in
  use, no inode has two and no name comes twice in a directory, a regular file has exactly
  the blocks its size asks for, none of them twice (`Distinct`), and each of its bytes in
  the block for its position (`Holds`), no block is in two inodes and each has its bit) and that
  `open_inodes` agrees with the inode table; and that slots and counts agree. Each is
  needed by a step of another: that `inode_release` takes no block away from a second
  inode needs that blocks are disjoint; that it leaves no open inode behind needs the
  counts; that `sys_rmdir` removes no entry's inode needs that `i_size` counts the entries;
  that a write leaves the bytes before it as they are needs that no block comes twice.

`FsTreeProofs` shows that the operators of `Inode`, `Dir` and `File` lead from a `Good`
partition to another (`Made`, `Removed`, `ObjectGone`, ... say to which), `FsProofs` does the same
of `file_write` and of the tables, and has one lemma per call. A file grows in three
situations (`GrowDirect`, `GrowFirst`, `GrowMore`), each of which `KeepsBytes`; then the
loop over its blocks has put every byte up to the block it is at (`BlockWritten`), the
first block with what was read of it before. From `Sound` follows that every `ASSERT`
but the known ones holds, and that the addresses `file_read` collects are those of the
file (`ReadAddress`), which with `Holds` is `ReadBack`.

What is only model-checked, and why:

* liveness, as the prover has no fairness;
* of `Fs`, everything but `PipesAlive` outside the conditions above. Within them
  `BitmapsSound`, `ViewsAgree` and `ImplementsFileSystem`, which compare the
  partition with paths. `IsTree` is the part of them that
  the calls rely on; what `At` finds along a path is an induction over the
  path for each of two disks, and has not been carried out, nor what the disk is after each
  single sector of a call (`MountedBlocks`, `ImplementsFileSystem`). `TypeOK` is checked on
  instances only since a "full" panic leaves the number behind the bitmap in memory. The
  rest (`OnlyKnownPanics`, `CacheCoherent`, `CountsExact`, `ReadBack`) is proved within.

`KMutex` takes a mutex in one step; that this is what `sync.c` does when interrupts
are off is the case of `Sync` without preemption.

## 5. Findings

* `ioqueue_two_readers`: `ioq_getchar` tests for an empty ring with `if`. A reader
  that slept and was overtaken takes a byte out of an empty ring, which then
  looks full. With one reader per ring (the shell's use) `ImplementsFifo` holds.
* `wait_exit_orphans`: a zombie adopted by init while init sleeps in `wait` is not
  announced to init and stays until some other child of init exits.
* `ide_busy_wait`: `busy_wait` in a system call cannot see time pass if no other
  thread runs with interrupts on; `mtime_sleep` moreover waits for as many ticks
  as the machine has been up.
* `memory_exit`: `release_prog_resource` rounds the pages of the bitmap down where
  `fork` rounded them up, so every exit leaves one kernel page taken for ever.

* `fs_remount`: `sys_mkdir` does not write the bit of the inode it takes. A directory
  that is whole on the disk is free in the bitmap after the next start.

Also met, and listed as hazards: a pipe writer that slept on the ring's mutex goes
on to `ioq_wait` without a new test (`ioqueue.c:123`), so with two writers it may
sleep beside an empty ring: `NoLostWakeup` is therefore stated of one writer and
one reader; `thread_exit` reads `tcb->pid` after it freed the page of `tcb`;
`page_table_pte_remove` invalidates the wrong address, which is why that works.

In the file system the definitions keep the following as it is in the code. Most of
it stays outside the instance of `fs` (see limits) because a property would fail:

* `inode_locate` sets `multi_sec` the wrong way round (`inode.c:41`): inodes 6, 13, 20, ...
  lose their last words; `inode_sync` keeps the number in 8 bits (`inode.c:59`).
* `sys_open` of an existing file never closes the parent directory (`fs.c:564`).
* `file_open` of a file that is taken keeps slot and count (`file.c:291`), `file_create`
  does not set `write_deny` (`file.c:187`), `file_close` clears it for readers too, and
  closes a slot that a forked process still has (`file.c:305`).
* `delete_dir_entry` counts entries only up to the one it deletes (`dir.c:158`), clears a
  bit counted from `block_bitmap_lba` (`dir.c:160`) and loops for ever in the indirect
  block (`dir.c:172`).
* `file_write` across the last direct block loses new direct blocks (`file.c:451`) and
  does not sync the indirect block's bit; `fd_pos` starts at `i_size - 1`. `file_read`
  panics behind block 138 (`file.c:587`) and has no case for reads across the border
  that end at block 12 (`file.c:608`).
* `partition_format` leaves the bit behind the last block free (`fs.c:144`): the panic
  "outside" of the model, a write to the sector behind the partition in the code.
* A power failure between the write of an entry (`file.c:194`, `fs.c:903`) and
  `inode_sync` of the inode it names (`file.c:207`, `fs.c:914`) leaves a name on an inode
  that was never written: a file whose inode says number 0, or a directory without a
  block and without `.` and `..`; before `inode_sync` of the parent (`file.c:203`,
  `fs.c:910`, and after a removal `dir.c:201`) its `i_size` is wrong as well. The run `fs`
  reaches these states; `FileSystem` allows them (`Hollow`, `Counted`) and no others.
* `sys_pipe` does not look at `-1` (`pipe.c:45`); `sys_unlink("/a/b")` with a regular
  file `a` removes `/a` (`fs.c:751`); `sys_rmdir` leaves the working directory of a
  process that is in it (`fs.c:1013`).

## 6. Limits

* `WaitExit` treats `fork` and `exit` as one step. They are in system calls;
  while the boot thread holds a memory mutex they could sleep inside.
  `sys_exit` of a process without parent is a failed assertion in the model (the
  code dereferences NULL).
* `Ide`: one channel, one disk, one interrupt per command, the sectors of a
  command moved at once: what the driver assumes of the disk.
  `identify_disk` and `partition_scan` are left out.
* `Memory` takes a call as one step, as it is in system calls; the boot thread,
  which allocates with interrupts on, is not in it, so the mutexes of the pools are
  not either. A child does not free blocks it inherited (its arenas still point to
  its parent's descriptors, see hazards). When a pool is full the assertion in
  `bitmap_scan` stops the machine before any function can return NULL, which is why
  the half-way returns of `malloc_page` never happen in this build. The sizes of the
  pools are constants; `mem_pool_init` keeps the number of pages in 16 bits
  (`memory.c:111`), so above 258 MB it wraps and the pools are smaller than the memory.
* `Fs` takes a call's work in memory as one step and lets no call begin before the
  last one's sectors are written. In the kernel calls overlap while one waits for the
  disk; then two opens can load one inode twice, take one slot, or create one name
  twice (`inode.c:100`, `file.c:268`, `fs.c:515`, under hazards). What `fs` shows, it
  shows of calls one after the other, and of a power failure between any two sectors.
* Bounds of `fs` that keep the defects above outside: no inode crosses a sector
  (`SectorWords`), directories fit their first block (`EntriesPerSec`), existing files
  are opened in the root only (`OpenPaths`), no process forks with a regular file open
  (`ShareFiles`), writes add one block at a time and files stay below the sizes that
  the assertions forbid (`Writes`, `MaxSize`), only descriptor 0 is redirected, a
  process passes descriptors it has, and reads have at least one byte. After a restart
  no more calls are made: `MountedBitmap` says why.
* The kernel stops with "full", "slot" and "outside" in `fs`; these are the outcomes
  `OnlyKnownPanics` names. Allocation of memory inside the calls does not fail.
* Not modelled: `sys_opendir`, `sys_readdir` and `sys_rewinddir` as open objects (the
  entries they return are `dir_read`), `sys_stat`, registers, stacks, the TLB, segment
  set-up, boot code, text output, string functions, the shell and its commands: they
  are sequential, share no state, or are formatting.

## 7. Plan

1. (done) scheduler, semaphores, mutex, with proofs; ring buffers; processes; disk;
   `Pages` and `Memory`; the file system with pipes and descriptors.
2. (done) theorems: safety and refinement of `Sync`, `IoQueue`, `WaitExit` and `Ide`,
   safety of `Memory`, the pipes of `Fs`; with conditions the assertions, the counts, the
   cache and the bytes that are read. Left: the same without `FewInodes`, once
   `inode_locate` is right, and the refinement of `FileSystem`, from the tree that `FsInv`
   has.
3. Left of the model: calls of the file system that overlap at their waits for the
   disk; the boot thread as a preemptible caller of the page allocator; directory
   streams.
