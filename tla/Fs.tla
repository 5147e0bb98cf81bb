--------------------------------- MODULE Fs ---------------------------------
(***************************************************************************)
(* The file system calls of fs/fs.c on the tables of open files, with the  *)
(* descriptors that pipes, fork and exit use.  A call works on memory and  *)
(* on the disk; what it writes goes to the platter one sector at a time,   *)
(* and the machine may be switched off between two of them.  Calls do not  *)
(* overlap: the next one begins when all writes of the last one are done.  *)
(***************************************************************************)
EXTENDS File

CONSTANTS
  Procs,       \* the processes
  init,        \* the first one, which does not exit
  Users,       \* bound: the processes that name paths
  MaxFd,       \* MAX_FILE_OPEN_PER_PROC: 8
  MaxSlot,     \* MAX_FILE_OPEN: 32
  Paths,       \* the paths that calls name
  FilePaths,   \* bound: the paths files are created with
  DirPaths,    \* bound: the paths directories are made with
  OpenPaths,   \* bound: the paths opened without O_CREAT
  OpenFlags,   \* the flags sys_open is called with
  Writes,      \* how many bytes sys_write is called with
  Reads,       \* how many bytes sys_read is called with
  Seeks,       \* the pairs of offset and whence sys_lseek is called with
  MaxSize,     \* bound: the size of files
  MaxCalls,    \* bound: how many calls there are that neither write a file
               \* nor close or remove something
  ShareFiles   \* bound: may a process fork while it has a file open

ASSUME FsAssumption ==
  /\ init \in Procs /\ Users \subseteq Procs
  /\ MaxFd \in Nat /\ MaxFd > 3 /\ MaxSlot \in Nat /\ MaxSlot > 3
  /\ FilePaths \cup DirPaths \cup OpenPaths \subseteq Paths
  /\ \A path \in Paths : path # <<>> /\ path \in Seq(Range(path))
  /\ Writes \cup Reads \subseteq Nat \ {0} /\ MaxSize \in Nat /\ MaxCalls \in Nat
  /\ OpenFlags \subseteq SUBSET {"wronly", "rdwd", "creat"}
  /\ Seeks \subseteq Int \X {"set", "cur", "end"}
  /\ ShareFiles \in BOOLEAN

VARIABLES
  fs,          \* the file system in memory and the writes under way (Inode)
  disk,        \* the platter
  file_table,  \* the open files of the system
  task,        \* per process: live, fd_table and cwd_inode_no
  phase,       \* "run"; "mounted": started again after a clean stop; "torn":
               \* started again after a stop in the middle of a call
  calls,       \* how many of the calls that MaxCalls bounds there were
  tree,        \* history: what a reader of the platter finds
  goal         \* history: what it finds when all writes are done

vars == <<fs, disk, file_table, task, phase, calls, tree, goal>>

(* What a reader of a disk finds, whatever memory holds *)
Address(d, inode, k) ==
  IF k <= Direct THEN inode.sec[k]
  ELSE IF inode.sec[Direct + 1] = 0 THEN 0 ELSE d[inode.sec[Direct + 1]][k - Direct]

BlocksIn(d, inode) == {Address(d, inode, k) : k \in 1..MaxBlocks} \ {0}

\* With the indirect block.
AllBlocks(d, inode) == BlocksIn(d, inode) \cup ({inode.sec[Direct + 1]} \ {0})

Entries(d, no) == UNION {Range(d[lba]) : lba \in BlocksIn(d, LoadInode(d, no))}

\* The entries that the path leads to: one or none.
At(d, path) ==
  LET at[k \in 0..Len(path)] ==
        IF k = 0 THEN {Entry("/", 0, "directory")}
        ELSE LET above == {e.no : e \in {x \in at[k - 1] : x.type = "directory"}}
             IN  {e \in UNION {Entries(d, no) : no \in above} : e.name = path[k]}
  IN  at[Len(path)]

Found(d) == {path \in Paths : At(d, path) # {}}

EntryOf(d, path) == CHOOSE e \in At(d, path) : TRUE

\* The bytes of a file: those of a block that is missing are Junk.
ByteAt(d, lba, k) == IF lba = 0 THEN Junk ELSE d[lba][(k % BlockSize) + 1]
Content(d, inode) ==
  [k \in 1..inode.size |-> ByteAt(d, Address(d, inode, (k - 1) \div BlockSize + 1), k - 1)]

\* A directory begins with its own number and that of the directory above it.
HasDots(d, inode, no, above) ==
  /\ inode.sec[1] # 0
  /\ SubSeq(d[inode.sec[1]], 1, 2)
       = <<Entry(".", no, "directory"), Entry("..", above, "directory")>>

\* What the path leads to: its type, whether its inode is the one of that number
\* with what belongs to it, and the bytes of a file or i_size of a directory.
Object(d, path) ==
  LET e == EntryOf(d, path)
      inode == LoadInode(d, e.no)
      above == IF path = <<>> THEN 0 ELSE EntryOf(d, Front(path)).no
  IN  [type |-> e.type,
       whole |-> inode.no = e.no /\ (e.type = "directory" => HasDots(d, inode, e.no, above)),
       data |-> IF e.type = "regular" THEN Content(d, inode) ELSE inode.size]

Tree(d) == [path \in Found(d) \cup {<<>>} |-> Object(d, path)]

-----------------------------------------------------------------------------
NULL == -1
PAGE == -2  \* fd_inode of a pipe: the kernel page of its ring buffer

PIPE_FLAG == {"pipe"}
Writable(flag) == flag \cap {"wronly", "rdwd"} # {}

Fds == 3..MaxFd - 1
Slots == 3..MaxSlot - 1

NoFile == [inode |-> NULL, pos |-> 0, flag |-> {}]

NewTask == [live |-> FALSE, cwd |-> 0,
            fd_table |-> [fd \in 0..MaxFd - 1 |-> IF fd < 3 THEN fd ELSE -1]]

NoFiles == [slot \in 0..MaxSlot - 1 |-> NoFile]

FirstTask == [p \in Procs |-> [NewTask EXCEPT !.live = p = init]]

\* The end of filesys_init, with a disk that has a file system.
Started(d) == open_root_dir(mount_partition(d))

Init ==
  /\ disk = FormattedDisk
  /\ fs = Started(disk)
  /\ file_table = NoFiles
  /\ task = FirstTask
  /\ phase = "run"
  /\ calls = 0
  /\ tree = Tree(disk) /\ goal = Tree(disk)

-----------------------------------------------------------------------------
Idle == phase = "run" /\ fs.log = <<>> /\ fs.panic = "none"

Ready(p) == Idle /\ task[p].live

\* The end of a call's work in memory.
Return(f, files, tasks) ==
  /\ fs' = f
  /\ file_table' = files
  /\ task' = tasks
  /\ goal' = Tree(f.disk)
  /\ UNCHANGED <<disk, phase, tree>>

Done(f, files, tasks) == Return(f, files, tasks) /\ UNCHANGED calls

\* The same for a call that MaxCalls bounds.
Count(f, files, tasks) ==
  /\ calls < MaxCalls /\ calls' = calls + 1
  /\ Return(f, files, tasks)

\* Fault: the slots of the standard files are used.
get_free_slot_in_global_All ==
  Lowest({slot \in 0..MaxSlot - 1 : file_table[slot].inode = NULL})

get_free_slot_in_global ==
  LET LowestOrNone(slots) == IF slots = {} THEN -1 ELSE Lowest(slots)
  IN  LowestOrNone({slot \in Slots : file_table[slot].inode = NULL})

\* fd_table with the slot entered; it stays as it is when it is full.
pcb_fd_install(fd_table, slot) ==
  LET free == {fd \in Fds : fd_table[fd] = -1}
  IN  IF free = {} THEN fd_table ELSE [fd_table EXCEPT ![Lowest(free)] = slot]

IsPipe(p, fd) == file_table[task[p].fd_table[fd]].flag = PIPE_FLAG

-----------------------------------------------------------------------------
(* sys_open *)

\* The slot of a call that takes one, and the new slot's descriptor.
Install(p, slot, file, f) ==
  Count(f, [file_table EXCEPT ![slot] = file],
        [task EXCEPT ![p].fd_table = pcb_fd_install(@, slot)])

File(no, flag) == [inode |-> no, pos |-> 0, flag |-> flag]

\* The new inode a.no under a name in the directory rec.parent.
Created(a, rec, name) ==
  LET new == inode_init(a.no)
      f1 == SyncOpen(sync_dir_entry(a.fs, rec.parent, Entry(name, a.no, "regular")), rec.parent)
      f2 == SyncInodeBit(inode_sync(f1, new), a.no)
  IN  CloseParent([f2 EXCEPT !.open = Link(@, a.no, [new EXCEPT !.cnt = 1])], rec)

\* Without a free slot the inode's bit is given back and nothing has changed,
\* unless the search for that bit has stopped the kernel.
NoSlot(f) == IF f.panic = "none" THEN UNCHANGED vars ELSE Count(f, file_table, task)

\* Without a free descriptor the slot stays taken.
file_create(p, rec, name, slot, flag) ==
  \E a \in {inode_bitmap_alloc(OpenParent(fs, rec))} :
    \/ slot = -1 /\ NoSlot(a.fs)
    \/ slot # -1 /\ Install(p, slot, File(a.no, flag), Created(a, rec, name))

\* A file that is taken keeps the slot and the count.
OpenFile(p, f, no, slot, flag) ==
  IF Writable(flag) /\ f.open[no].deny
  THEN Count(f, [file_table EXCEPT ![slot] = File(no, flag)], task)
  ELSE Install(p, slot, File(no, flag), [f EXCEPT !.open[no].deny = @ \/ Writable(flag)])

\* parent_dir is not closed.
file_open(p, rec, slot, flag) ==
  \/ slot = -1 /\ Count(OpenParent(fs, rec), file_table, task)
  \/ slot # -1 /\ OpenFile(p, inode_open(OpenParent(fs, rec), rec.no), rec.no, slot, flag)

OpenAt(p, rec, path, flags) ==
  LET creat == "creat" \in flags
      refused == \/ rec.type = "directory"
                 \/ rec.depth # Len(path)
                 \/ (rec.no = -1) # creat
  IN  \/ refused /\ UNCHANGED vars
      \/ ~refused /\ creat /\ file_create(p, rec, Last(path), get_free_slot_in_global, flags)
      \/ ~refused /\ ~creat /\ file_open(p, rec, get_free_slot_in_global, flags)

sys_open(p, path, flags) ==
  /\ Ready(p)
  /\ path \in IF "creat" \in flags THEN FilePaths ELSE OpenPaths
  /\ \E rec \in {search_file(fs, path)} : OpenAt(p, rec, path, flags)

-----------------------------------------------------------------------------
(* sys_close *)

\* t is the pair of fs and file_table.
ClosePipe(t, slot) ==
  [t EXCEPT !.files[slot].pos = @ - 1,
            !.files[slot].inode = IF t.files[slot].pos = 1 THEN NULL ELSE @]

\* A slot that another process has closed has lost its inode.
file_close(t, slot) ==
  LET no == t.files[slot].inode
  IN  IF no \notin DOMAIN t.fs.open THEN [t EXCEPT !.fs = Panic(@, "null")]
      ELSE [fs |-> inode_close([t.fs EXCEPT !.open[no].deny = FALSE], no),
            files |-> [t.files EXCEPT ![slot].inode = NULL]]

CloseSlot(t, slot) ==
  IF t.files[slot].flag = PIPE_FLAG THEN ClosePipe(t, slot) ELSE file_close(t, slot)

sys_close(p, fd) ==
  LET t == CloseSlot([fs |-> fs, files |-> file_table], task[p].fd_table[fd])
  IN  /\ Ready(p)
      /\ task[p].fd_table[fd] # -1
      /\ Done(t.fs, t.files, [task EXCEPT ![p].fd_table[fd] = -1])

-----------------------------------------------------------------------------
(* sys_write, sys_read and sys_lseek of a regular file *)
HasFile(p, fd) == task[p].fd_table[fd] # -1 /\ ~IsPipe(p, fd)

sys_write(p, fd, count) ==
  LET slot == task[p].fd_table[fd]
      no == file_table[slot].inode
  IN  /\ Ready(p) /\ HasFile(p, fd)
      /\ Writable(file_table[slot].flag)
      /\ IF no \notin DOMAIN fs.open THEN Done(Panic(fs, "null"), file_table, task)
         ELSE /\ fs.open[no].size + count <= MaxSize
              /\ \E w \in {file_write(fs, no, count)} :
                   Done(w.fs, [file_table EXCEPT ![slot].pos = IF w.pos = -1 THEN @ ELSE w.pos],
                        task)

sys_read(p, fd, count) ==
  LET slot == task[p].fd_table[fd]
      file == file_table[slot]
      r == file_read(fs, fs.open[file.inode], file.pos, count)
  IN  /\ Ready(p) /\ HasFile(p, fd)
      /\ IF file.inode \notin DOMAIN fs.open THEN Done(Panic(fs, "null"), file_table, task)
         ELSE Count(ASSERT(fs, r.end # "assert"),
                   [file_table EXCEPT ![slot].pos = @ + Len(r.bytes)], task)

Seek(p, fd, offset, whence) ==
  LET slot == task[p].fd_table[fd]
      file == file_table[slot]
      pos == sys_lseek(fs.open[file.inode], file.pos, offset, whence)
  IN  /\ Ready(p) /\ HasFile(p, fd)
      /\ IF file.inode \notin DOMAIN fs.open THEN Done(Panic(fs, "null"), file_table, task)
         ELSE Count(fs, [file_table EXCEPT ![slot].pos = IF pos = -1 THEN @ ELSE pos], task)

-----------------------------------------------------------------------------
(* sys_unlink, sys_mkdir, sys_rmdir, sys_chdir *)

\* Fault: the inode goes before the name.
Unlink_InodeFirst(rec) ==
  LET in_use == \E slot \in Slots : file_table[slot].inode = rec.no
      f == delete_dir_entry(inode_release(OpenParent(fs, rec), rec.no), rec.parent, rec.no)
  IN  \/ (rec.type # "regular" \/ in_use) /\ UNCHANGED vars
      \/ /\ rec.type = "regular" /\ ~in_use
         /\ Done(CloseParent(f, rec), file_table, task)

\* A name below a regular file finds the file itself.
Unlink(rec) ==
  LET in_use == \E slot \in Slots : file_table[slot].inode = rec.no
      f == delete_dir_entry(OpenParent(fs, rec), rec.parent, rec.no)
  IN  \/ (rec.type # "regular" \/ in_use) /\ UNCHANGED vars
      \/ /\ rec.type = "regular" /\ ~in_use
         /\ Done(CloseParent(inode_release(f, rec.no), rec), file_table, task)

sys_unlink(p, path) ==
  Ready(p) /\ \E rec \in {search_file(fs, path)} : Unlink(rec)

\* The first block b of the new directory no in the directory parent.
FirstEntries(b, no, parent) ==
  ide_write(ASSERT(b.fs, b.lba # data_start_lba), b.lba,
            EntrySector(<<Entry(".", no, "directory"), Entry("..", parent, "directory")>>))

NewDirectory(no, lba) == [inode_init(no) EXCEPT !.size = 2, !.sec[1] = lba]

\* Fault: the inode of the parent is not written.
EnterDirectory_NoSync(b, no, parent, name) ==
  inode_sync(sync_dir_entry(FirstEntries(b, no, parent), parent, Entry(name, no, "directory")),
             NewDirectory(no, b.lba))

\* The directory gets its block, its name in the parent and its inode.
EnterDirectory(b, no, parent, name) ==
  LET f == sync_dir_entry(FirstEntries(b, no, parent), parent, Entry(name, no, "directory"))
  IN  inode_sync(SyncOpen(f, parent), NewDirectory(no, b.lba))

\* The bit of the new inode a.no is set in memory only.
MakeDirectory(a, rec, name) ==
  CloseParent(EnterDirectory(AllocSynced(a.fs), a.no, rec.parent, name), rec)

Mkdir(rec, path) ==
  LET refused == rec.no # -1 \/ rec.depth # Len(path)
      f == MakeDirectory(inode_bitmap_alloc(OpenParent(fs, rec)), rec, Last(path))
  IN  \/ refused /\ UNCHANGED vars
      \/ ~refused /\ Count(f, file_table, task)

sys_mkdir(p, path) ==
  Ready(p) /\ \E rec \in {search_file(fs, path)} : Mkdir(rec, path)

Rmdir(rec) ==
  LET refused == rec.type = "directory" => ~dir_is_empty(InodeAt(fs, rec.no))
      f == dir_remove(inode_open(OpenParent(fs, rec), rec.no), rec.parent, rec.no)
  IN  \/ refused /\ UNCHANGED vars
      \/ ~refused /\ Done(CloseParent(inode_close(f, rec.no), rec), file_table, task)

sys_rmdir(p, path) ==
  Ready(p) /\ \E rec \in {search_file(fs, path)} : Rmdir(rec)

sys_chdir(p, path) ==
  Ready(p) /\ \E rec \in {search_file(fs, path)} :
    /\ rec.no # -1 /\ rec.type = "directory"
    /\ Count(fs, file_table, [task EXCEPT ![p].cwd = rec.no])

-----------------------------------------------------------------------------
(* sys_pipe and sys_fd_redirect of shell/pipe.c *)

\* Neither a full file_table nor a full fd_table is noticed.
PipeAt(p, slot) ==
  IF slot = -1 THEN Count(Panic(fs, "slot"), file_table, task)
  ELSE Count(fs, [file_table EXCEPT ![slot] = [inode |-> PAGE, pos |-> 2, flag |-> PIPE_FLAG]],
             [task EXCEPT ![p].fd_table = pcb_fd_install(pcb_fd_install(@, slot), slot)])

sys_pipe(p) == Ready(p) /\ PipeAt(p, get_free_slot_in_global)

\* Standard input or output takes the place of another descriptor.
sys_fd_redirect(p, old_fd, new_fd) ==
  /\ Ready(p)
  /\ task[p].fd_table[new_fd] # -1
  /\ Count(fs, file_table,
          [task EXCEPT ![p].fd_table[old_fd] = IF new_fd < 3 THEN new_fd ELSE task[p].fd_table[new_fd]])

-----------------------------------------------------------------------------
(* fork: copy_process and update_inode_open_cnts *)

\* Fault: a pipe does not get one user more.
Share_NotPipes(t, slot) ==
  IF t.files[slot].inode \in DOMAIN t.fs.open
  THEN [t EXCEPT !.fs.open[t.files[slot].inode].cnt = @ + 1] ELSE t

\* One more user of every descriptor's slot.
Share(t, slot) ==
  IF t.files[slot].flag = PIPE_FLAG THEN [t EXCEPT !.files[slot].pos = @ + 1]
  ELSE IF t.files[slot].inode \in DOMAIN t.fs.open
  THEN [t EXCEPT !.fs.open[t.files[slot].inode].cnt = @ + 1]
  ELSE [t EXCEPT !.fs = Panic(@, "null")]

\* The slots of a process's descriptors, in order.
ShareAll(t, fd_table) ==
  LET shared[fd \in 2..MaxFd - 1] ==
        IF fd = 2 THEN t
        ELSE IF fd_table[fd] = -1 THEN shared[fd - 1] ELSE Share(shared[fd - 1], fd_table[fd])
  IN  shared[MaxFd - 1]

sys_fork(p, child) ==
  LET t == ShareAll([fs |-> fs, files |-> file_table], task[p].fd_table)
  IN  /\ Ready(p) /\ ~task[child].live
      /\ ShareFiles \/ \A fd \in Fds : task[p].fd_table[fd] # -1 => IsPipe(p, fd)
      /\ Count(t.fs, t.files, [task EXCEPT ![child] = task[p]])

(* exit: release_prog_resource closes what is open *)
CloseAll(t, fd_table) ==
  LET closed[fd \in 2..MaxFd - 1] ==
        IF fd = 2 THEN t
        ELSE IF fd_table[fd] = -1 THEN closed[fd - 1]
        ELSE CloseSlot(closed[fd - 1], fd_table[fd])
  IN  closed[MaxFd - 1]

sys_exit(p) ==
  LET t == CloseAll([fs |-> fs, files |-> file_table], task[p].fd_table)
  IN  /\ Ready(p) /\ p # init
      /\ Done(t.fs, t.files, [task EXCEPT ![p] = NewTask])

-----------------------------------------------------------------------------
(* The next sector reaches the platter. *)
WriteSector ==
  /\ phase = "run" /\ fs.log # <<>>
  /\ disk' = [disk EXCEPT ![Head(fs.log)[1]] = Head(fs.log)[2]]
  /\ tree' = Tree(disk')
  /\ fs' = [fs EXCEPT !.log = Tail(@)]
  /\ UNCHANGED <<file_table, task, phase, calls, goal>>

(* The machine is switched off and on again. *)
Crash ==
  /\ phase = "run"
  /\ UNCHANGED <<disk, tree>> /\ goal' = tree
  /\ fs' = Started(disk)
  /\ file_table' = NoFiles
  /\ task' = FirstTask
  /\ phase' = IF fs.log = <<>> THEN "mounted" ELSE "torn"
  /\ UNCHANGED calls

Next ==
  \/ \E p \in Users, path \in Paths :
       \/ \E flags \in OpenFlags : sys_open(p, path, flags)
       \/ sys_unlink(p, path)
       \/ path \in DirPaths /\ sys_mkdir(p, path)
       \/ sys_rmdir(p, path)
       \/ sys_chdir(p, path)
  \/ \E p \in Procs, fd \in Fds :
       \/ sys_close(p, fd)
       \/ \E count \in Writes : sys_write(p, fd, count)
       \/ \E count \in Reads : sys_read(p, fd, count)
       \/ \E seek \in Seeks : Seek(p, fd, seek[1], seek[2])
       \/ sys_fd_redirect(p, 0, fd)
  \/ \E p \in Procs :
       \/ sys_pipe(p)
       \/ sys_fd_redirect(p, 0, 0)
       \/ \E child \in Procs : sys_fork(p, child)
       \/ sys_exit(p)
  \/ WriteSector
  \/ Crash

Spec == Init /\ [][Next]_vars

-----------------------------------------------------------------------------
\* The names in a directory.
Children(path) == {Last(x) : x \in {y \in Found(disk) : Front(y) = path}}

SlotsOf(no) == {slot \in Slots : file_table[slot].inode = no}

-----------------------------------------------------------------------------
(* Bounds within which the calls keep the file system sound *)

\* The inodes that lie in the first sector of the inode table: the next one
\* crosses into the second, and inode_locate (inode.c:41) does not see it.
Few == {no \in 0..SectorWords : (no + 1) * InodeWords <= SectorWords}
FewInodes == fs.ibits \subseteq Few

\* There is a block for data; numbers are not cut by inode_sync; a process that
\* forks has no file open; paths are clean and files are opened in the root; the
\* names fit in one block of a directory; one sys_write needs one new block at
\* most and reads end before the last block.
EntryNames == {Last(path) : path \in FilePaths \cup DirPaths}

WithinBounds ==
  /\ block_bitmap_bit_len >= 1 /\ data_start_lba < SecCnt
  /\ \A no \in Few : no < 256
  /\ ~ShareFiles
  /\ \A path \in Paths : Range(path) \cap {"", ".", ".."} = {}
  /\ \A path \in OpenPaths : Len(path) = 1
  /\ IsFiniteSet(EntryNames) /\ Cardinality(EntryNames) + 2 <= EntriesPerSec
  /\ \A count \in Writes : count <= BlockSize
  /\ MaxSize < (MaxBlocks - 1) * BlockSize

-----------------------------------------------------------------------------
TypeOK ==
  /\ fs.bbits \subseteq 0..block_bitmap_len - 1 /\ fs.ibits \subseteq 0..inode_bitmap_len - 1
  /\ DOMAIN fs.open \subseteq 0..InodeCnt - 1
  /\ DOMAIN fs.disk = 0..SecCnt - 1 /\ DOMAIN disk = 0..SecCnt - 1
  /\ \A slot \in Slots : file_table[slot].inode \in {NULL, PAGE} \cup 0..InodeCnt - 1
  /\ \A p \in Procs : /\ task[p].live \in BOOLEAN
                      /\ task[p].cwd \in 0..InodeCnt - 1
                      /\ \A fd \in Fds : task[p].fd_table[fd] \in Slots \cup {-1}
  /\ phase \in {"run", "mounted", "torn"}

(* The ASSERTs of the file system calls hold: the kernel stops only when a *)
(* bitmap is full (bitmap_scan, bitmap.c:46), when sys_pipe finds no slot  *)
(* (pipe.c:45), and when the block behind the partition, which             *)
(* partition_format leaves free (fs.c:144), is used.                       *)
OnlyKnownPanics == fs.panic \in {"none", "full", "slot", "outside"}

(* Between calls every inode in open_inodes is what the inode table holds: *)
(* the calls that change an inode write it back (inode_sync, inode.c:58),  *)
(* and inode_open (inode.c:100) may take a loaded inode for the table's.   *)
CacheCoherent ==
  Idle => \A no \in DOMAIN fs.open :
            LET inode == LoadInode(disk, no)
            IN  <<fs.open[no].no, fs.open[no].size, fs.open[no].sec>>
                  = <<no, inode.size, inode.sec>>

(* Between calls an inode is loaded exactly while a slot of file_table has *)
(* it open, and i_open_cnt is the number of these slots: inode_close       *)
(* (inode.c:157) frees no inode in use and forgets none.  The root has one *)
(* more (open_root_dir).                                                   *)
CountsExact ==
  Idle => \A no \in 0..InodeCnt - 1 :
            LET users == Cardinality(SlotsOf(no)) + IF no = 0 THEN 1 ELSE 0
            IN  /\ no \in DOMAIN fs.open <=> users > 0
                /\ no \in DOMAIN fs.open => fs.open[no].cnt = users

\* Between calls the bitmaps in memory are those of the tree.
BitmapsExact ==
  LET objects == Found(disk) \cup {<<>>}
      numbers == [x \in objects |-> EntryOf(disk, x).no]
      blocks == [x \in objects |-> AllBlocks(disk, LoadInode(disk, EntryOf(disk, x).no))]
  IN  Idle => /\ fs.ibits = Range(numbers)
              /\ fs.bbits = FormatBits \cup {lba - data_start_lba : lba \in UNION Range(blocks)}
              /\ \A x, y \in objects :
                   x # y => numbers[x] # numbers[y] /\ blocks[x] \cap blocks[y] = {}

\* The data blocks of the tree have their bits in the bitmap that is mounted.
MountedBlocks ==
  phase # "run" =>
    \A x \in Found(disk) : \A lba \in BlocksIn(disk, LoadInode(disk, EntryOf(disk, x).no)) :
      lba - data_start_lba \in fs.bbits

(* Between calls no two objects have a block or an inode in common, none   *)
(* has one that is free, and none is lost (block_bitmap_alloc file.c:84,   *)
(* inode_release inode.c:217, file_write file.c:323, sys_mkdir fs.c:815).  *)
(* After a restart no data block of the tree is free, wherever a call was  *)
(* stopped: the bit of a block is synced before the block is in the tree,  *)
(* and cleared after it is out of it.  (The bit of an indirect block is on *)
(* the disk only once one in the same sector of the bitmap is synced.)     *)
BitmapsSound == BitmapsExact /\ MountedBlocks

(* A descriptor of a pipe refers to a slot that has its page, and to no    *)
(* other pipe's: the count in fd_pos is at least the number of descriptors *)
(* from 3 on, through sys_pipe, fork (fork.c:135), sys_close (fs.c:592)    *)
(* and exit (wait_exit.c:66).                                              *)
PipesAlive ==
  \A slot \in Slots :
    LET users == {u \in Procs \X Fds : task[u[1]].fd_table[u[2]] = slot}
    IN  Idle /\ file_table[slot].flag = PIPE_FLAG /\ users # {} =>
          /\ file_table[slot].inode = PAGE
          /\ file_table[slot].pos >= Cardinality(users)

(* file_read (file.c:558) returns the bytes file_write has put at these    *)
(* positions, for every open file, from every position sys_lseek can set,  *)
(* when the read ends within the direct blocks or within one block of the  *)
(* indirect ones.                                                          *)
ReadBack ==
  Idle => \A no \in DOMAIN fs.open \ {0} :
    LET inode == fs.open[no]
    IN  \A pos \in 0..inode.size - 1 : \A count \in 1..inode.size - pos :
          LET end == pos + count
              r == file_read(fs, inode, pos, count)
          IN  /\ end \div BlockSize < MaxBlocks - 1
              /\ end <= Direct * BlockSize \/ pos \div BlockSize = end \div BlockSize
              => r = [end |-> "read", bytes |-> SubSeq(Bytes(no, inode.size), pos + 1, end)]

(* Between calls the other ways to look at the tree agree with the lookup  *)
(* of paths: dir_read (dir.c:448) lists every entry of a directory once    *)
(* and stops, and sys_getcwd (fs.c:1135) returns the path of a directory.  *)
ViewsAgree ==
  Idle => \A path \in Found(disk) \cup {<<>>} : \A e \in At(disk, path) :
    e.type = "directory" =>
      LET inode == InodeAt(fs, e.no)
          listed == [pos \in 0..inode.size |-> dir_read(fs, inode, pos)]
      IN  /\ listed[inode.size].end = "null"
          /\ \A pos \in 0..inode.size - 1 : listed[pos].end = "entry"
          /\ inode.size = Cardinality(Children(path)) + 2
          /\ {listed[pos].entry.name : pos \in 0..inode.size - 1}
               = Children(path) \cup {".", ".."}
          /\ sys_getcwd(fs, e.no) = path

(* The sectors of a call reach the tree in this order: the entry, i_size   *)
(* of its directory, the inode; for bytes that are written only the inode  *)
(* counts.  Nothing else of the tree changes on the way, and the call has  *)
(* changed it on the disk when it returns (the order of the writes of      *)
(* file_create file.c:146, file_write file.c:323, sys_unlink fs.c:745,     *)
(* sys_mkdir fs.c:815 and sys_rmdir fs.c:1013).  There is no journal: a    *)
(* stop may leave an entry whose inode is not written and a directory      *)
(* whose i_size does not count it, and nothing worse.                      *)
Promise == INSTANCE FileSystem
ImplementsFileSystem == Promise!Spec

(* The inode bitmap that mount_partition reads has the bit of every inode  *)
(* in the tree (fs.c:194), when no call was under way as the machine       *)
(* stopped.                                                                *)
MountedBitmap ==
  phase = "mounted" => \A x \in Found(disk) : EntryOf(disk, x).no \in fs.ibits
=============================================================================
