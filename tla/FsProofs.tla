------------------------------ MODULE FsProofs ------------------------------
(***************************************************************************)
(* Theorems about Fs: which assertions can fail, that the inodes in memory *)
(* are those on the disk, that their counts are those of the open files,   *)
(* that a file is read as it was written, and that descriptors of pipes    *)
(* have their pipe.  First the tables of descriptors and open files, then  *)
(* file_write, then one lemma per call, then the invariant.                *)
(***************************************************************************)
EXTENDS FsTreeProofs

-----------------------------------------------------------------------------
(* Tables of descriptors and of open files *)

\* The descriptors from 3 on that refer to a slot.
UsersOf(tasks, slot) ==
  {u \in Procs \X Fds : tasks[u[1]].fd_table[u[2]] = slot}

\* What a slot says of those that refer to it: no process shares a file.
SlotOK(file, users) ==
  /\ IsFiniteSet(users)
  /\ file.inode = NULL => users = {}
  /\ file.flag = PIPE_FLAG /\ file.inode # NULL =>
       /\ file.inode = PAGE
       /\ file.pos \in Int /\ file.pos >= 1
       /\ file.pos >= Cardinality(users)
  /\ file.flag # PIPE_FLAG => \A u, v \in users : u = v

IsFile(file) == file = [inode |-> file.inode, pos |-> file.pos, flag |-> file.flag]

FilesType(files) ==
  /\ files = [slot \in 0..MaxSlot - 1 |-> files[slot]]
  /\ \A slot \in 0..MaxSlot - 1 : IsFile(files[slot])

IsTask(t) ==
  /\ t = [live |-> t.live, cwd |-> t.cwd, fd_table |-> t.fd_table]
  /\ t.fd_table = [fd \in 0..MaxFd - 1 |-> t.fd_table[fd]]
  /\ \A fd \in Fds : t.fd_table[fd] \in Slots \cup {-1}
  /\ ~t.live => \A fd \in Fds : t.fd_table[fd] = -1

TasksType(tasks) ==
  /\ tasks = [p \in Procs |-> tasks[p]]
  /\ \A p \in Procs : IsTask(tasks[p])

\* The tables agree.
Tables(files, tasks) ==
  /\ FilesType(files)
  /\ TasksType(tasks)
  /\ \A slot \in Slots : SlotOK(files[slot], UsersOf(tasks, slot))

\* The second table is the first with another slot at one descriptor.
OnlyFd(tasks, tasks2, p, fd, v) ==
  \A q \in Procs, k \in Fds :
    tasks2[q].fd_table[k] = IF q = p /\ k = fd THEN v ELSE tasks[q].fd_table[k]

(* Who refers to a slot after one descriptor has changed.                  *)
LEMMA UsersMove ==
  ASSUME NEW tasks, NEW tasks2, NEW p \in Procs, NEW fd \in Fds, NEW v,
         OnlyFd(tasks, tasks2, p, fd, v), NEW s
  PROVE  UsersOf(tasks2, s)
           = (UsersOf(tasks, s) \ {<<p, fd>>}) \cup (IF v = s THEN {<<p, fd>>} ELSE {})
<1>1. ASSUME NEW u \in Procs \X Fds
      PROVE  tasks2[u[1]].fd_table[u[2]]
               = IF u = <<p, fd>> THEN v ELSE tasks[u[1]].fd_table[u[2]]
  BY DEF OnlyFd
<1>2. <<p, fd>> \in Procs \X Fds
  OBVIOUS
<1> QED BY <1>1, <1>2 DEF UsersOf

(* The tables agree after a descriptor has changed from or to a slot, when *)
(* that slot agrees with its users.                                        *)
LEMMA TablesMove ==
  ASSUME NEW files, NEW tasks, Tables(files, tasks), NEW files2, NEW tasks2,
         NEW p \in Procs, NEW fd \in Fds, NEW v, OnlyFd(tasks, tasks2, p, fd, v),
         TasksType(tasks2), FilesType(files2), NEW slot \in Slots,
         tasks[p].fd_table[fd] \in {-1, slot}, v \in {-1, slot},
         \A s \in Slots \ {slot} : files2[s] = files[s],
         SlotOK(files2[slot], UsersOf(tasks2, slot))
  PROVE  Tables(files2, tasks2)
<1>1. ASSUME NEW s \in Slots \ {slot} PROVE SlotOK(files2[s], UsersOf(tasks2, s))
  <2>1. UsersOf(tasks2, s) = (UsersOf(tasks, s) \ {<<p, fd>>}) \cup (IF v = s THEN {<<p, fd>>} ELSE {})
    BY UsersMove
  <2>2. -1 \notin Slots
    BY DEF Slots
  <2>3. v # s /\ <<p, fd>> \notin UsersOf(tasks, s)
    BY <2>2 DEF UsersOf
  <2>4. UsersOf(tasks2, s) = UsersOf(tasks, s)
    BY <2>1, <2>3
  <2> QED BY <2>4 DEF Tables
<1> QED BY <1>1 DEF Tables

(* A process that closes its last descriptor of a pipe frees the slot.     *)
LEMMA PipeLeft ==
  ASSUME NEW file, NEW users, SlotOK(file, users), IsFile(file), NEW u \in users,
         file.flag = PIPE_FLAG, NEW file2,
         file2 = [inode |-> IF file.pos = 1 THEN NULL ELSE file.inode,
                  pos |-> file.pos - 1, flag |-> file.flag]
  PROVE  SlotOK(file2, users \ {u})
<1>1. IsFiniteSet(users) /\ users # {} /\ file.inode = PAGE /\ file.pos \in Int
      /\ file.pos >= 1 /\ file.pos >= Cardinality(users)
  BY DEF SlotOK, NULL
<1>2. /\ IsFiniteSet(users \ {u}) /\ Cardinality(users \ {u}) = Cardinality(users) - 1
      /\ Cardinality(users \ {u}) \in Nat /\ Cardinality(users) \in Nat
  BY <1>1, FS_RemoveElement, FS_CardinalityType
<1>3. file2.flag = PIPE_FLAG /\ file2.pos = file.pos - 1
      /\ file2.inode = IF file.pos = 1 THEN NULL ELSE file.inode
  OBVIOUS
<1>4. CASE file.pos = 1
  <2>1. Cardinality(users \ {u}) = 0
    BY <1>1, <1>2, <1>4
  <2>2. users \ {u} = {}
    BY <1>2, <2>1, FS_EmptySet
  <2> QED BY <1>2, <1>3, <1>4, <2>2 DEF SlotOK
<1>5. CASE file.pos # 1
  <2>1. file2.inode = PAGE /\ PAGE # NULL
    BY <1>1, <1>3, <1>5 DEF PAGE, NULL
  <2> QED BY <1>1, <1>2, <1>3, <1>5, <2>1 DEF SlotOK
<1> QED BY <1>4, <1>5

(* One that gets a descriptor of a pipe is counted.                        *)
LEMMA PipeJoined ==
  ASSUME NEW file, NEW users, SlotOK(file, users), IsFile(file), NEW u,
         file.flag = PIPE_FLAG, file.inode # NULL, NEW file2,
         file2 = [inode |-> file.inode, pos |-> file.pos + 1, flag |-> file.flag]
  PROVE  SlotOK(file2, users \cup {u})
<1>1. IsFiniteSet(users) /\ file.inode = PAGE /\ file.pos \in Int
      /\ file.pos >= 1 /\ file.pos >= Cardinality(users)
  BY DEF SlotOK
<1>2. /\ IsFiniteSet(users \cup {u}) /\ Cardinality(users) \in Nat
      /\ Cardinality(users \cup {u}) = Cardinality(users) \/ Cardinality(users \cup {u}) = Cardinality(users) + 1
  BY <1>1, FS_AddElement, FS_CardinalityType
<1>3. file2.flag = PIPE_FLAG /\ file2.pos = file.pos + 1 /\ file2.inode = PAGE
  BY <1>1
<1>4. PAGE # NULL
  BY DEF PAGE, NULL
<1> QED BY <1>1, <1>2, <1>3, <1>4 DEF SlotOK

\* The table with another slot at one descriptor.
FdSet(tasks, p, fd, v) == [tasks EXCEPT ![p].fd_table[fd] = v]

(* Assigning a descriptor of a live process keeps the types, and changes   *)
(* that descriptor only.                                                   *)
LEMMA Assigned ==
  ASSUME NEW tasks, TasksType(tasks), NEW p \in Procs, NEW fd \in 0..MaxFd - 1, NEW v,
         fd \in Fds => v \in Slots \cup {-1}, tasks[p].live \/ v = -1 \/ fd \notin Fds,
         NEW tasks2, tasks2 = FdSet(tasks, p, fd, v)
  PROVE  /\ TasksType(tasks2)
         /\ tasks2[p].live = tasks[p].live /\ tasks2[p].cwd = tasks[p].cwd
         /\ \A q \in Procs \ {p} : tasks2[q] = tasks[q]
         /\ \A k \in Fds : tasks2[p].fd_table[k] = IF k = fd THEN v ELSE tasks[p].fd_table[k]
         /\ OnlyFd(tasks, tasks2, p, fd, v)
<1>1. IsTask(tasks[p]) /\ p \in DOMAIN tasks /\ DOMAIN tasks = Procs
  BY DEF TasksType
<1>2. PICK t : t = tasks[p]
  OBVIOUS
<1>3. PICK t2 : t2 = [t EXCEPT !.fd_table[fd] = v]
  OBVIOUS
<1>4. tasks2 = [tasks EXCEPT ![p] = t2]
  BY <1>2, <1>3 DEF FdSet
<1>5. tasks2[p] = t2 /\ \A q \in Procs \ {p} : tasks2[q] = tasks[q]
  BY <1>1, <1>4
<1>6. tasks2 = [q \in Procs |-> tasks2[q]]
  BY <1>1, <1>4
<1>7. PICK g : g = t.fd_table
  OBVIOUS
<1>8. PICK g2 : g2 = [g EXCEPT ![fd] = v]
  OBVIOUS
<1>9. t2 = [live |-> t.live, cwd |-> t.cwd, fd_table |-> g2]
  <2>1. t = [live |-> t.live, cwd |-> t.cwd, fd_table |-> g]
    BY <1>1, <1>2, <1>7 DEF IsTask
  <2>2. t2 = [t EXCEPT !.fd_table = g2]
    BY <1>3, <1>7, <1>8
  <2> QED BY <2>1, <2>2
<1>10. g = [k \in 0..MaxFd - 1 |-> g[k]]
  BY <1>1, <1>2, <1>7 DEF IsTask
<1>11. g2 = [k \in 0..MaxFd - 1 |-> g2[k]] /\ g2[fd] = v
       /\ \A k \in (0..MaxFd - 1) \ {fd} : g2[k] = g[k]
  BY <1>8, <1>10
<1>12. \A k \in Fds : k \in 0..MaxFd - 1
  BY DEF Fds
<1>13. IsTask(t2)
  <2>1. \A k \in Fds : g2[k] \in Slots \cup {-1}
    BY <1>1, <1>2, <1>7, <1>11, <1>12 DEF IsTask
  <2>2. ~t.live => \A k \in Fds : g2[k] = -1
    BY <1>1, <1>2, <1>7, <1>11, <1>12 DEF IsTask
  <2> QED BY <1>9, <1>11, <2>1, <2>2 DEF IsTask
<1>14. \A k \in Fds : tasks2[p].fd_table[k] = IF k = fd THEN v ELSE tasks[p].fd_table[k]
  <2>1. tasks2[p].fd_table = g2 /\ tasks[p].fd_table = g
    BY ONLY <1>2, <1>5, <1>7, <1>9
  <2> QED BY ONLY <1>11, <1>12, <2>1
<1>15. TasksType(tasks2)
  BY <1>1, <1>5, <1>6, <1>13 DEF TasksType
<1>16. OnlyFd(tasks, tasks2, p, fd, v)
  BY <1>5, <1>14 DEF OnlyFd
<1>17. tasks2[p].live = tasks[p].live /\ tasks2[p].cwd = tasks[p].cwd
  BY ONLY <1>2, <1>5, <1>9
<1> QED BY ONLY <1>5, <1>14, <1>15, <1>16, <1>17

(* A slot with another record keeps the types.                             *)
LEMMA FileSet ==
  ASSUME NEW files, FilesType(files), NEW slot \in Slots, NEW file, IsFile(file),
         NEW files2, files2 = [files EXCEPT ![slot] = file]
  PROVE  FilesType(files2) /\ files2[slot] = file /\ \A s \in Slots \ {slot} : files2[s] = files[s]
<1>1. slot \in 0..MaxSlot - 1 /\ Slots \subseteq 0..MaxSlot - 1
  BY DEF Slots
<1> QED BY <1>1 DEF FilesType

(* sys_close of a pipe: one user less, and with the last the page is       *)
(* given back (pipe.c:26).                                                 *)
LEMMA PipeClosed ==
  ASSUME NEW t, t = [fs |-> t.fs, files |-> t.files], NEW files, files = t.files, FilesType(files),
         NEW slot \in Slots, NEW file, file = files[slot],
         NEW file2, file2 = [inode |-> IF file.pos = 1 THEN NULL ELSE file.inode,
                             pos |-> file.pos - 1, flag |-> file.flag],
         NEW t2, t2 = ClosePipe(t, slot)
  PROVE  t2 = [fs |-> t.fs, files |-> [files EXCEPT ![slot] = file2]]
<1>1. slot \in DOMAIN files /\ IsFile(file)
  <2>1. slot \in 0..MaxSlot - 1
    BY DEF Slots
  <2> QED BY <2>1 DEF FilesType
<1>2. PICK f1 : f1 = [files EXCEPT ![slot].pos = @ - 1]
  OBVIOUS
<1>3. [f1 EXCEPT ![slot].inode = IF file.pos = 1 THEN NULL ELSE file.inode]
        = [files EXCEPT ![slot] = file2]
  <2>1. file = [inode |-> file.inode, pos |-> file.pos, flag |-> file.flag]
    BY <1>1 DEF IsFile
  <2>2. PICK fa : fa = [inode |-> file.inode, pos |-> file.pos - 1, flag |-> file.flag]
    OBVIOUS
  <2>3. fa = [file EXCEPT !.pos = @ - 1]
    BY ONLY <2>1, <2>2
  <2>4. f1 = [files EXCEPT ![slot] = fa]
    BY ONLY <1>2, <2>3, file = files[slot]
  <2>5. f1[slot] = fa
    BY ONLY <1>1, <2>4
  <2>6. file2 = [fa EXCEPT !.inode = IF file.pos = 1 THEN NULL ELSE file.inode]
    BY ONLY <2>2, file2 = [inode |-> IF file.pos = 1 THEN NULL ELSE file.inode,
                           pos |-> file.pos - 1, flag |-> file.flag]
  <2> QED BY ONLY <1>1, <2>4, <2>5, <2>6
<1> QED BY <1>2, <1>3 DEF ClosePipe

(* What sys_close does to the tables: they agree (fs.c:592, file.c:305).   *)
LEMMA CloseSlotTables ==
  ASSUME NEW t, t = [fs |-> t.fs, files |-> t.files], NEW tasks, Tables(t.files, tasks),
         NEW p \in Procs, NEW fd \in Fds, tasks[p].fd_table[fd] # -1,
         NEW t2, t2 = CloseSlot(t, tasks[p].fd_table[fd]),
         NEW tasks2, TasksType(tasks2), OnlyFd(tasks, tasks2, p, fd, -1)
  PROVE  /\ t2 = [fs |-> t2.fs, files |-> t2.files]
         /\ Tables(t2.files, tasks2)
<1>1. PICK slot : slot = tasks[p].fd_table[fd]
  OBVIOUS
<1>2. slot \in Slots
  BY <1>1 DEF Tables, TasksType, IsTask
<1>3. PICK u : u = <<p, fd>>
  OBVIOUS
<1>4. u \in UsersOf(tasks, slot)
  BY <1>1, <1>3 DEF UsersOf
<1>5. UsersOf(tasks2, slot) = UsersOf(tasks, slot) \ {u}
  <2>1. slot # -1
    BY <1>1
  <2> QED BY <1>3, <2>1, UsersMove
<1>6. PICK files : files = t.files
  OBVIOUS
<1>7. FilesType(files) /\ SlotOK(files[slot], UsersOf(tasks, slot)) /\ IsFile(files[slot])
  <2>1. slot \in 0..MaxSlot - 1
    BY <1>2 DEF Slots
  <2> QED BY <1>2, <1>6, <2>1 DEF Tables, FilesType
<1>8. PICK file : file = files[slot]
  OBVIOUS
<1>9. ASSUME NEW file2, IsFile(file2), SlotOK(file2, UsersOf(tasks2, slot)),
             t2.files = [files EXCEPT ![slot] = file2]
      PROVE  Tables(t2.files, tasks2)
  <2>1. /\ FilesType(t2.files) /\ t2.files[slot] = file2
        /\ \A s \in Slots \ {slot} : t2.files[s] = files[s]
    BY <1>2, <1>7, <1>9, FileSet
  <2>2. SlotOK(t2.files[slot], UsersOf(tasks2, slot))
    BY <1>9, <2>1
  <2>3. tasks[p].fd_table[fd] \in {-1, slot} /\ -1 \in {-1, slot}
    BY <1>1
  <2>4. \A s \in Slots \ {slot} : t2.files[s] = t.files[s]
    BY <1>6, <2>1
  <2>5. Tables(t.files, tasks) /\ OnlyFd(tasks, tasks2, p, fd, -1) /\ TasksType(tasks2)
        /\ FilesType(t2.files)
    BY <2>1
  <2> QED BY ONLY <1>2, <2>2, <2>3, <2>4, <2>5, TablesMove, p \in Procs, fd \in Fds
<1>10. CASE file.flag = PIPE_FLAG
  <2>1. PICK file2 : file2 = [inode |-> IF file.pos = 1 THEN NULL ELSE file.inode,
                              pos |-> file.pos - 1, flag |-> file.flag]
    OBVIOUS
  <2>2. t2 = ClosePipe(t, slot)
    BY <1>1, <1>6, <1>8, <1>10 DEF CloseSlot
  <2>6. t2 = [fs |-> t.fs, files |-> [files EXCEPT ![slot] = file2]]
    BY <1>2, <1>6, <1>7, <1>8, <2>1, <2>2, PipeClosed
  <2>7. IsFile(file2)
    BY <2>1 DEF IsFile
  <2>8. SlotOK(file2, UsersOf(tasks2, slot))
    BY <1>4, <1>5, <1>7, <1>8, <1>10, <2>1, PipeLeft
  <2>9. t2.files = [files EXCEPT ![slot] = file2] /\ t2 = [fs |-> t2.fs, files |-> t2.files]
    BY ONLY <2>6
  <2> QED BY <1>9, <2>7, <2>8, <2>9
<1>11. CASE file.flag # PIPE_FLAG
  <2>1. t2 = file_close(t, slot)
    BY <1>1, <1>6, <1>8, <1>11 DEF CloseSlot
  <2>2. CASE file.inode \notin DOMAIN t.fs.open
    <3>1. t2 = [t EXCEPT !.fs = Panic(@, "null")]
      BY <1>6, <1>8, <2>1, <2>2 DEF file_close
    <3>2. t2 = [fs |-> Panic(t.fs, "null"), files |-> files]
      BY ONLY <1>6, <3>1, t = [fs |-> t.fs, files |-> t.files]
    <3>3. t2.files = [files EXCEPT ![slot] = file] /\ t2 = [fs |-> t2.fs, files |-> t2.files]
      BY ONLY <1>2, <1>7, <1>8, <3>2 DEF FilesType
    <3>4. SlotOK(file, UsersOf(tasks2, slot))
      <4>1. SlotOK(file, UsersOf(tasks, slot))
        BY <1>7, <1>8
      <4>2. IsFiniteSet(UsersOf(tasks, slot) \ {u})
        BY <4>1, FS_RemoveElement DEF SlotOK
      <4> QED BY <1>5, <1>11, <4>1, <4>2 DEF SlotOK
    <3> QED BY <1>7, <1>8, <1>9, <3>3, <3>4
  <2>3. CASE file.inode \in DOMAIN t.fs.open
    <3>1. PICK f : f = inode_close([t.fs EXCEPT !.open[file.inode].deny = FALSE], file.inode)
      OBVIOUS
    <3>2. t2 = [fs |-> f, files |-> [files EXCEPT ![slot].inode = NULL]]
      BY <1>6, <1>8, <2>1, <2>3, <3>1 DEF file_close
    <3>3. PICK file2 : file2 = [inode |-> NULL, pos |-> file.pos, flag |-> file.flag]
      OBVIOUS
    <3>4. file2 = [file EXCEPT !.inode = NULL]
      BY <1>7, <1>8, <3>3 DEF IsFile
    <3>5. t2.files = [files EXCEPT ![slot] = file2] /\ t2 = [fs |-> t2.fs, files |-> t2.files]
      BY ONLY <1>8, <3>2, <3>4
    <3>6. SlotOK(file2, UsersOf(tasks2, slot))
      <4>1. UsersOf(tasks2, slot) = {}
        BY <1>4, <1>5, <1>7, <1>8, <1>11 DEF SlotOK
      <4> QED BY <3>3, <4>1, <1>11, FS_EmptySet DEF SlotOK
    <3>7. IsFile(file2)
      BY <3>3 DEF IsFile
    <3> QED BY <1>9, <3>5, <3>6, <3>7
  <2> QED BY <2>2, <2>3
<1> QED BY <1>10, <1>11

-----------------------------------------------------------------------------
(* The descriptors of a process that forks or exits *)

\* The loop of release_prog_resource over the descriptors up to n.
Closed(h, t, fd_table, n) ==
  h = [fd \in 2..n |->
        IF fd = 2 THEN t
        ELSE IF fd_table[fd] = -1 THEN h[fd - 1] ELSE CloseSlot(h[fd - 1], fd_table[fd])]

(* It has a result.                                                        *)
LEMMA ClosedExist ==
  ASSUME NEW t, NEW fd_table
  PROVE  \E h : Closed(h, t, fd_table, MaxFd - 1)
<1> DEFINE T == {n \in 2..MaxFd - 1 : \E h : Closed(h, t, fd_table, n)}
<1>1. 2 \in T /\ MaxFd - 1 \in Int /\ 2 <= MaxFd - 1
  <2>1. PICK h : h = [fd \in 2..2 |-> t]
    OBVIOUS
  <2>2. Closed(h, t, fd_table, 2)
    BY <2>1 DEF Closed
  <2>3. MaxFd \in Nat /\ MaxFd > 3
    BY FsAssumption
  <2> QED BY <2>2, <2>3
<1>2. ASSUME NEW n \in 2..(MaxFd - 1) - 1, n \in T PROVE n + 1 \in T
  <2>1. PICK h : Closed(h, t, fd_table, n)
    BY <1>2
  <2>2. PICK x : x = IF fd_table[n + 1] = -1 THEN h[n] ELSE CloseSlot(h[n], fd_table[n + 1])
    OBVIOUS
  <2>3. PICK g : g = [fd \in 2..n + 1 |-> IF fd = n + 1 THEN x ELSE h[fd]]
    OBVIOUS
  <2>4. \A fd \in 2..n : g[fd] = h[fd]
    BY <2>3
  <2>5. ASSUME NEW fd \in 2..n + 1
        PROVE  g[fd] = IF fd = 2 THEN t
                       ELSE IF fd_table[fd] = -1 THEN g[fd - 1] ELSE CloseSlot(g[fd - 1], fd_table[fd])
    <3>1. CASE fd = n + 1
      <4>1. fd - 1 = n /\ fd # 2 /\ n \in 2..n
        BY <3>1
      <4> QED BY <2>2, <2>3, <2>4, <3>1, <4>1
    <3>2. CASE fd # n + 1
      <4>1. fd \in 2..n /\ (fd # 2 => fd - 1 \in 2..n)
        BY <3>2
      <4> QED BY <2>1, <2>4, <4>1 DEF Closed
    <3> QED BY <3>1, <3>2
  <2>6. g = [fd \in 2..n + 1 |-> g[fd]]
    BY <2>3
  <2>7. Closed(g, t, fd_table, n + 1)
    BY <2>5, <2>6 DEF Closed
  <2> QED BY <1>1, <2>7
<1>3. MaxFd - 1 \in T
  <2> HIDE DEF T
  <2> QED BY <1>1, <1>2, Upto
<1> QED BY <1>3

\* The loop of update_inode_open_cnts over the descriptors up to n.
Shared(h, t, fd_table, n) ==
  h = [fd \in 2..n |->
        IF fd = 2 THEN t
        ELSE IF fd_table[fd] = -1 THEN h[fd - 1] ELSE Share(h[fd - 1], fd_table[fd])]

(* It has a result.                                                        *)
LEMMA SharedExist ==
  ASSUME NEW t, NEW fd_table
  PROVE  \E h : Shared(h, t, fd_table, MaxFd - 1)
<1> DEFINE T == {n \in 2..MaxFd - 1 : \E h : Shared(h, t, fd_table, n)}
<1>1. 2 \in T /\ MaxFd - 1 \in Int /\ 2 <= MaxFd - 1
  <2>1. PICK h : h = [fd \in 2..2 |-> t]
    OBVIOUS
  <2>2. Shared(h, t, fd_table, 2)
    BY <2>1 DEF Shared
  <2>3. MaxFd \in Nat /\ MaxFd > 3
    BY FsAssumption
  <2> QED BY <2>2, <2>3
<1>2. ASSUME NEW n \in 2..(MaxFd - 1) - 1, n \in T PROVE n + 1 \in T
  <2>1. PICK h : Shared(h, t, fd_table, n)
    BY <1>2
  <2>2. PICK x : x = IF fd_table[n + 1] = -1 THEN h[n] ELSE Share(h[n], fd_table[n + 1])
    OBVIOUS
  <2>3. PICK g : g = [fd \in 2..n + 1 |-> IF fd = n + 1 THEN x ELSE h[fd]]
    OBVIOUS
  <2>4. \A fd \in 2..n : g[fd] = h[fd]
    BY <2>3
  <2>5. ASSUME NEW fd \in 2..n + 1
        PROVE  g[fd] = IF fd = 2 THEN t
                       ELSE IF fd_table[fd] = -1 THEN g[fd - 1] ELSE Share(g[fd - 1], fd_table[fd])
    <3>1. CASE fd = n + 1
      <4>1. fd - 1 = n /\ fd # 2 /\ n \in 2..n
        BY <3>1
      <4> QED BY <2>2, <2>3, <2>4, <3>1, <4>1
    <3>2. CASE fd # n + 1
      <4>1. fd \in 2..n /\ (fd # 2 => fd - 1 \in 2..n)
        BY <3>2
      <4> QED BY <2>1, <2>4, <4>1 DEF Shared
    <3> QED BY <3>1, <3>2
  <2>6. g = [fd \in 2..n + 1 |-> g[fd]]
    BY <2>3
  <2>7. Shared(g, t, fd_table, n + 1)
    BY <2>5, <2>6 DEF Shared
  <2> QED BY <1>1, <2>7
<1>3. MaxFd - 1 \in T
  <2> HIDE DEF T
  <2> QED BY <1>1, <1>2, Upto
<1> QED BY <1>3

\* Every slot that is closed has its inode.
InTurn(h, t, fd_table) ==
  /\ Closed(h, t, fd_table, MaxFd - 1)
  /\ \A n \in 2..MaxFd - 1 : h[n] = [fs |-> h[n].fs, files |-> h[n].files] /\ FilesType(h[n].files)
  /\ \A n \in 3..MaxFd - 1 : fd_table[n] # -1 =>
       fd_table[n] \in Slots /\ h[n - 1].files[fd_table[n]].inode # NULL

ClosedTo(t0, fd_table, t) == \E h : InTurn(h, t0, fd_table) /\ t = h[MaxFd - 1]

(* A process that exits leaves its descriptors (wait_exit.c:66).           *)
LEMMA CloseAllTables ==
  ASSUME NEW f, NEW files, NEW tasks, Tables(files, tasks), NEW p \in Procs,
         NEW t, t = CloseAll([fs |-> f, files |-> files], tasks[p].fd_table)
  PROVE  /\ Tables(t.files, [tasks EXCEPT ![p] = NewTask])
         /\ ClosedTo([fs |-> f, files |-> files], tasks[p].fd_table, t)
<1>1. PICK t0 : t0 = [fs |-> f, files |-> files]
  OBVIOUS
<1>2. PICK g : g = tasks[p].fd_table
  OBVIOUS
<1>3. PICK h : Closed(h, t0, g, MaxFd - 1) /\ t = h[MaxFd - 1]
  <2>1. PICK h : h = CHOOSE x : Closed(x, t0, g, MaxFd - 1)
    OBVIOUS
  <2>2. Closed(h, t0, g, MaxFd - 1)
    BY <2>1, ClosedExist
  <2>3. t = (CHOOSE x : Closed(x, t0, g, MaxFd - 1))[MaxFd - 1]
    BY <1>1, <1>2 DEF CloseAll, Closed
  <2> QED BY <2>1, <2>2, <2>3
<1> DEFINE After(n) == [tasks EXCEPT ![p] = [live |-> tasks[p].live, cwd |-> tasks[p].cwd,
                         fd_table |-> [fd \in 0..MaxFd - 1 |-> IF fd \in 3..n THEN -1 ELSE g[fd]]]]
           T == {n \in 2..MaxFd - 1 :
                   h[n] = [fs |-> h[n].fs, files |-> h[n].files] /\ Tables(h[n].files, After(n))}
<1>4. MaxFd \in Nat /\ MaxFd > 3
  BY FsAssumption
<1>5. TasksType(tasks) /\ IsTask(tasks[p]) /\ p \in DOMAIN tasks
  BY DEF Tables, TasksType
<1>6. ASSUME NEW n \in 2..MaxFd - 1
      PROVE  /\ TasksType(After(n))
             /\ \A q \in Procs \ {p} : After(n)[q] = tasks[q]
             /\ \A fd \in Fds : After(n)[p].fd_table[fd] = IF fd <= n THEN -1 ELSE g[fd]
  <2>1. PICK g2 : g2 = [fd \in 0..MaxFd - 1 |-> IF fd \in 3..n THEN -1 ELSE g[fd]]
    OBVIOUS
  <2>2. PICK x : x = [live |-> tasks[p].live, cwd |-> tasks[p].cwd, fd_table |-> g2]
    OBVIOUS
  <2>3. After(n) = [tasks EXCEPT ![p] = x]
    BY <2>1, <2>2
  <2>4. \A fd \in Fds : fd \in 0..MaxFd - 1 /\ g2[fd] = IF fd <= n THEN -1 ELSE g[fd]
    BY <1>4, <2>1 DEF Fds
  <2>5. IsTask(x)
    <3>1. g2 = [fd \in 0..MaxFd - 1 |-> g2[fd]]
      BY <2>1
    <3>2. \A fd \in Fds : g[fd] \in Slots \cup {-1} /\ (~tasks[p].live => g[fd] = -1)
      BY <1>2, <1>5 DEF IsTask
    <3> QED BY <2>2, <2>4, <3>1, <3>2 DEF IsTask
  <2>6. After(n)[p] = x /\ \A q \in Procs \ {p} : After(n)[q] = tasks[q]
    BY <1>5, <2>3 DEF TasksType
  <2>7. After(n) = [q \in Procs |-> After(n)[q]]
    BY <1>5, <2>3 DEF TasksType
  <2>8. TasksType(After(n))
    <3> HIDE DEF After
    <3> QED BY <1>5, <2>5, <2>6, <2>7 DEF TasksType
  <2>9. \A fd \in Fds : After(n)[p].fd_table[fd] = IF fd <= n THEN -1 ELSE g[fd]
    <3> HIDE DEF After
    <3> QED BY <2>2, <2>4, <2>6
  <2> HIDE DEF After
  <2> QED BY <2>6, <2>8, <2>9
<1>7. \A n \in 2..MaxFd - 1 :
        h[n] = IF n = 2 THEN t0
               ELSE IF g[n] = -1 THEN h[n - 1] ELSE CloseSlot(h[n - 1], g[n])
  BY <1>3 DEF Closed
<1>8. ASSUME NEW n \in 2..MaxFd - 1, NEW fls, NEW ts, Tables(fls, ts),
             \A q \in Procs, fd \in Fds : ts[q].fd_table[fd] = After(n)[q].fd_table[fd]
      PROVE  Tables(fls, After(n))
  <2> HIDE DEF After
  <2>1. \A s \in Slots : UsersOf(After(n), s) = UsersOf(ts, s)
    BY <1>8 DEF UsersOf
  <2> QED BY <1>6, <1>8, <2>1 DEF Tables
<1>9. 2 \in T
  <2>1. 2 \in 2..MaxFd - 1 /\ h[2] = t0
    BY <1>4, <1>7
  <2>2. \A q \in Procs, fd \in Fds : tasks[q].fd_table[fd] = After(2)[q].fd_table[fd]
    <3> HIDE DEF After
    <3>1. \A fd \in Fds : ~(fd <= 2)
      BY DEF Fds
    <3> QED BY <1>2, <1>6, <2>1, <3>1
  <2>3. Tables(files, After(2))
    <3> HIDE DEF After
    <3> QED BY <1>8, <2>1, <2>2
  <2> HIDE DEF After
  <2> QED BY <1>1, <2>1, <2>3
<1>10. ASSUME NEW n \in 2..(MaxFd - 1) - 1, n \in T PROVE n + 1 \in T
  <2>1. n \in 2..MaxFd - 1 /\ n + 1 \in 2..MaxFd - 1 /\ n + 1 # 2 /\ (n + 1) - 1 = n /\ n + 1 \in Fds
    BY <1>4 DEF Fds
  <2>2. h[n + 1] = IF g[n + 1] = -1 THEN h[n] ELSE CloseSlot(h[n], g[n + 1])
    BY <1>7, <2>1
  <2>3. h[n] = [fs |-> h[n].fs, files |-> h[n].files] /\ Tables(h[n].files, After(n))
    BY <1>10
  <2> HIDE DEF After
  <2>4. After(n)[p].fd_table[n + 1] = g[n + 1] /\ After(n + 1)[p].fd_table[n + 1] = -1
    BY <1>6, <2>1
  <2>5. ASSUME NEW q \in Procs, NEW fd \in Fds
        PROVE  After(n + 1)[q].fd_table[fd] = IF q = p /\ fd = n + 1 THEN -1 ELSE After(n)[q].fd_table[fd]
    <3>1. fd <= n + 1 <=> fd <= n \/ fd = n + 1
      BY DEF Fds
    <3> QED BY <1>6, <2>1, <3>1
  <2>6. CASE g[n + 1] = -1
    <3>1. \A q \in Procs, fd \in Fds : After(n)[q].fd_table[fd] = After(n + 1)[q].fd_table[fd]
      BY <2>4, <2>5, <2>6
    <3>2. Tables(h[n].files, After(n + 1))
      BY <1>8, <2>1, <2>3, <3>1
    <3> QED BY <2>1, <2>2, <2>3, <2>6, <3>2
  <2>7. CASE g[n + 1] # -1
    <3>1. OnlyFd(After(n), After(n + 1), p, n + 1, -1)
      BY <2>5 DEF OnlyFd
    <3>2. TasksType(After(n + 1))
      BY <1>6, <2>1
    <3>3. PICK k : k = n + 1
      OBVIOUS
    <3>4. PICK a : a = After(n)
      OBVIOUS
    <3>5. PICK b : b = After(n + 1)
      OBVIOUS
    <3>6. h[k] = CloseSlot(h[n], a[p].fd_table[k]) /\ a[p].fd_table[k] # -1
      BY <2>2, <2>4, <2>7, <3>3, <3>4
    <3>7. h[k] = [fs |-> h[k].fs, files |-> h[k].files] /\ Tables(h[k].files, b)
      <4>1. k \in Fds /\ OnlyFd(a, b, p, k, -1) /\ TasksType(b) /\ Tables(h[n].files, a)
        BY <2>1, <2>3, <3>1, <3>2, <3>3, <3>4, <3>5
      <4> QED BY ONLY <2>3, <3>6, <4>1, p \in Procs, CloseSlotTables
    <3> QED BY <2>1, <3>3, <3>5, <3>7
  <2> QED BY <2>6, <2>7
<1>11. MaxFd - 1 \in T /\ \A n \in 2..MaxFd - 1 : n \in T
  <2> HIDE DEF T
  <2> QED BY <1>4, <1>9, <1>10, Upto
<1>12. TasksType([tasks EXCEPT ![p] = NewTask])
       /\ \A q \in Procs, fd \in Fds :
            [tasks EXCEPT ![p] = NewTask][q].fd_table[fd] = After(MaxFd - 1)[q].fd_table[fd]
  <2> HIDE DEF After
  <2>1. PICK b : b = [tasks EXCEPT ![p] = NewTask]
    OBVIOUS
  <2>2. b[p] = NewTask /\ \A q \in Procs \ {p} : b[q] = tasks[q]
    BY <1>5, <2>1 DEF TasksType
  <2>3. \A fd \in Fds : NewTask.fd_table[fd] = -1 /\ fd <= MaxFd - 1
    BY DEF NewTask, Fds
  <2>4. IsTask(NewTask)
    BY <2>3 DEF IsTask, NewTask
  <2>5. b = [q \in Procs |-> b[q]]
    BY <1>5, <2>1 DEF TasksType
  <2>6. TasksType(b)
    BY <1>5, <2>2, <2>4, <2>5 DEF TasksType
  <2>7. ASSUME NEW q \in Procs, NEW fd \in Fds PROVE b[q].fd_table[fd] = After(MaxFd - 1)[q].fd_table[fd]
    <3>1. MaxFd - 1 \in 2..MaxFd - 1
      BY <1>4
    <3>2. CASE q = p
      BY <1>6, <2>2, <2>3, <3>1, <3>2
    <3>3. CASE q # p
      BY <1>6, <2>2, <3>1, <3>3
    <3> QED BY <3>2, <3>3
  <2> QED BY <2>1, <2>6, <2>7
<1>13. Tables(t.files, After(MaxFd - 1))
  BY <1>3, <1>11
<1>14. \A n \in 2..MaxFd - 1 :
         h[n] = [fs |-> h[n].fs, files |-> h[n].files] /\ Tables(h[n].files, After(n))
  BY <1>11
<1> HIDE DEF After, T
<1>15. ASSUME NEW n \in 3..MaxFd - 1, g[n] # -1
       PROVE  g[n] \in Slots /\ h[n - 1].files[g[n]].inode # NULL
  <2>1. n \in Fds /\ n - 1 \in 2..MaxFd - 1 /\ ~(n <= n - 1)
    BY <1>4 DEF Fds
  <2>2. g[n] \in Slots
    BY <1>2, <1>5, <1>15, <2>1 DEF IsTask
  <2>3. After(n - 1)[p].fd_table[n] = g[n]
    BY <1>6, <2>1
  <2>4. <<p, n>> \in UsersOf(After(n - 1), g[n])
    BY <2>1, <2>3 DEF UsersOf
  <2>5. SlotOK(h[n - 1].files[g[n]], UsersOf(After(n - 1), g[n]))
    BY <1>14, <2>1, <2>2 DEF Tables
  <2> QED BY <2>2, <2>4, <2>5 DEF SlotOK
<1>16. InTurn(h, t0, g)
  BY <1>3, <1>14, <1>15 DEF InTurn, Tables
<1>17. PICK b : b = [tasks EXCEPT ![p] = NewTask]
  OBVIOUS
<1>18. \A s \in Slots : UsersOf(b, s) = UsersOf(After(MaxFd - 1), s)
  BY <1>12, <1>17 DEF UsersOf
<1>19. Tables(t.files, b)
  BY <1>12, <1>13, <1>17, <1>18 DEF Tables
<1> QED BY <1>1, <1>2, <1>3, <1>17, <1>16, <1>19 DEF ClosedTo

(* A descriptor more of a pipe is counted (fork.c:135).                    *)
LEMMA ShareSlotTables ==
  ASSUME NEW t, t = [fs |-> t.fs, files |-> t.files], NEW tasks, Tables(t.files, tasks),
         NEW p \in Procs, NEW fd \in Fds, tasks[p].fd_table[fd] = -1, NEW slot \in Slots,
         t.files[slot].flag = PIPE_FLAG, UsersOf(tasks, slot) # {},
         NEW t2, t2 = Share(t, slot),
         NEW tasks2, TasksType(tasks2), OnlyFd(tasks, tasks2, p, fd, slot)
  PROVE  /\ t2 = [fs |-> t2.fs, files |-> t2.files]
         /\ Tables(t2.files, tasks2)
         /\ \A s \in Slots : t2.files[s].flag = t.files[s].flag
<1>1. PICK files : files = t.files
  OBVIOUS
<1>2. /\ FilesType(files) /\ SlotOK(files[slot], UsersOf(tasks, slot)) /\ IsFile(files[slot])
      /\ slot \in DOMAIN files
  <2>1. slot \in 0..MaxSlot - 1
    BY DEF Slots
  <2> QED BY <1>1, <2>1 DEF Tables, FilesType
<1>3. PICK file : file = files[slot]
  OBVIOUS
<1>4. PICK file2 : file2 = [inode |-> file.inode, pos |-> file.pos + 1, flag |-> file.flag]
  OBVIOUS
<1>5. file2 = [file EXCEPT !.pos = @ + 1]
  BY <1>2, <1>3, <1>4 DEF IsFile
<1>6. t2 = [fs |-> t.fs, files |-> [files EXCEPT ![slot] = file2]]
  <2>1. t2 = [t EXCEPT !.files[slot].pos = @ + 1]
    BY DEF Share
  <2>2. [files EXCEPT ![slot].pos = @ + 1] = [files EXCEPT ![slot] = file2]
    BY ONLY <1>3, <1>5
  <2>3. PICK x : x = [files EXCEPT ![slot].pos = @ + 1]
    OBVIOUS
  <2>4. t2 = [fs |-> t.fs, files |-> x]
    BY ONLY <1>1, <2>1, <2>3, t = [fs |-> t.fs, files |-> t.files]
  <2> QED BY ONLY <2>2, <2>3, <2>4
<1>7. t2.files = [files EXCEPT ![slot] = file2] /\ t2 = [fs |-> t2.fs, files |-> t2.files]
  BY ONLY <1>6
<1>8. IsFile(file2)
  BY <1>4 DEF IsFile
<1>9. /\ FilesType(t2.files) /\ t2.files[slot] = file2
      /\ \A s \in Slots \ {slot} : t2.files[s] = files[s]
  <2>1. PICK all : all = t2.files
    OBVIOUS
  <2>2. all = [files EXCEPT ![slot] = file2] /\ FilesType(files) /\ IsFile(file2)
    BY <1>2, <1>7, <1>8, <2>1
  <2>3. FilesType(all) /\ all[slot] = file2 /\ \A s \in Slots \ {slot} : all[s] = files[s]
    <3>1. slot \in 0..MaxSlot - 1 /\ Slots \subseteq 0..MaxSlot - 1
      BY DEF Slots
    <3> QED BY <2>2, <3>1 DEF FilesType
  <2> QED BY <2>1, <2>3
<1>10. PICK u : u = <<p, fd>>
  OBVIOUS
<1>11. UsersOf(tasks2, slot) = UsersOf(tasks, slot) \cup {u}
  <2>1. u \notin UsersOf(tasks, slot)
    BY <1>10 DEF UsersOf, Slots
  <2>2. UsersOf(tasks2, slot) = (UsersOf(tasks, slot) \ {u}) \cup {u}
    BY <1>10, UsersMove
  <2> QED BY <2>1, <2>2
<1>12. SlotOK(t2.files[slot], UsersOf(tasks2, slot))
  <2>1. file.flag = PIPE_FLAG /\ file.inode # NULL
    BY <1>1, <1>2, <1>3 DEF SlotOK
  <2>2. SlotOK(file, UsersOf(tasks, slot)) /\ IsFile(file)
    BY <1>2, <1>3
  <2>3. SlotOK(file2, UsersOf(tasks, slot) \cup {u})
    BY <1>4, <2>1, <2>2, PipeJoined
  <2> QED BY <1>9, <1>11, <2>3
<1>13. tasks[p].fd_table[fd] \in {-1, slot} /\ slot \in {-1, slot}
  OBVIOUS
<1>14. Tables(t.files, tasks) /\ OnlyFd(tasks, tasks2, p, fd, slot) /\ TasksType(tasks2)
       /\ FilesType(t2.files) /\ \A s \in Slots \ {slot} : t2.files[s] = t.files[s]
  BY <1>1, <1>9
<1>15. Tables(t2.files, tasks2)
  BY ONLY <1>12, <1>13, <1>14, TablesMove, p \in Procs, fd \in Fds, slot \in Slots
<1>16. \A s \in Slots : t2.files[s].flag = t.files[s].flag
  BY <1>1, <1>3, <1>4, <1>9
<1> QED BY <1>7, <1>15, <1>16

(* A child has the descriptors of its parent (fork.c:135).                 *)
LEMMA ShareAllTables ==
  ASSUME NEW f, NEW files, NEW tasks, Tables(files, tasks), NEW p \in Procs, NEW child \in Procs,
         tasks[p].live, ~tasks[child].live,
         \A fd \in Fds : tasks[p].fd_table[fd] # -1 => files[tasks[p].fd_table[fd]].flag = PIPE_FLAG,
         NEW t, t = ShareAll([fs |-> f, files |-> files], tasks[p].fd_table)
  PROVE  Tables(t.files, [tasks EXCEPT ![child] = tasks[p]])
<1>1. PICK t0 : t0 = [fs |-> f, files |-> files]
  OBVIOUS
<1>2. PICK g : g = tasks[p].fd_table
  OBVIOUS
<1>3. PICK h : Shared(h, t0, g, MaxFd - 1) /\ t = h[MaxFd - 1]
  <2>1. PICK h : h = CHOOSE x : Shared(x, t0, g, MaxFd - 1)
    OBVIOUS
  <2>2. Shared(h, t0, g, MaxFd - 1)
    BY <2>1, SharedExist
  <2>3. t = (CHOOSE x : Shared(x, t0, g, MaxFd - 1))[MaxFd - 1]
    BY <1>1, <1>2 DEF ShareAll, Shared
  <2> QED BY <2>1, <2>2, <2>3
<1> DEFINE After(n) == [tasks EXCEPT ![child] = [live |-> tasks[p].live, cwd |-> tasks[p].cwd,
                         fd_table |-> [fd \in 0..MaxFd - 1 |-> IF fd \in 3..n THEN g[fd] ELSE -1]]]
           T == {n \in 2..MaxFd - 1 :
                   /\ h[n] = [fs |-> h[n].fs, files |-> h[n].files] /\ Tables(h[n].files, After(n))
                   /\ \A s \in Slots : h[n].files[s].flag = files[s].flag}
<1>4. MaxFd \in Nat /\ MaxFd > 3
  BY FsAssumption
<1>5. TasksType(tasks) /\ IsTask(tasks[p]) /\ IsTask(tasks[child]) /\ child \in DOMAIN tasks /\ p # child
      /\ \A fd \in Fds : tasks[child].fd_table[fd] = -1
  BY DEF Tables, TasksType, IsTask
<1>6. ASSUME NEW n \in 2..MaxFd - 1
      PROVE  /\ TasksType(After(n))
             /\ \A q \in Procs \ {child} : After(n)[q] = tasks[q]
             /\ \A fd \in Fds : After(n)[child].fd_table[fd] = IF fd <= n THEN g[fd] ELSE -1
  <2>1. PICK g2 : g2 = [fd \in 0..MaxFd - 1 |-> IF fd \in 3..n THEN g[fd] ELSE -1]
    OBVIOUS
  <2>2. PICK x : x = [live |-> tasks[p].live, cwd |-> tasks[p].cwd, fd_table |-> g2]
    OBVIOUS
  <2>3. After(n) = [tasks EXCEPT ![child] = x]
    BY <2>1, <2>2
  <2>4. \A fd \in Fds : fd \in 0..MaxFd - 1 /\ g2[fd] = IF fd <= n THEN g[fd] ELSE -1
    BY <1>4, <2>1 DEF Fds
  <2>5. IsTask(x)
    <3>1. g2 = [fd \in 0..MaxFd - 1 |-> g2[fd]]
      BY <2>1
    <3>2. \A fd \in Fds : g[fd] \in Slots \cup {-1}
      BY <1>2, <1>5 DEF IsTask
    <3> QED BY <2>2, <2>4, <3>1, <3>2 DEF IsTask
  <2>6. After(n)[child] = x /\ \A q \in Procs \ {child} : After(n)[q] = tasks[q]
    BY <1>5, <2>3 DEF TasksType
  <2>7. After(n) = [q \in Procs |-> After(n)[q]]
    BY <1>5, <2>3 DEF TasksType
  <2>8. TasksType(After(n))
    <3> HIDE DEF After
    <3> QED BY <1>5, <2>5, <2>6, <2>7 DEF TasksType
  <2>9. \A fd \in Fds : After(n)[child].fd_table[fd] = IF fd <= n THEN g[fd] ELSE -1
    <3> HIDE DEF After
    <3> QED BY <2>2, <2>4, <2>6
  <2> HIDE DEF After
  <2> QED BY <2>6, <2>8, <2>9
<1>7. \A n \in 2..MaxFd - 1 :
        h[n] = IF n = 2 THEN t0
               ELSE IF g[n] = -1 THEN h[n - 1] ELSE Share(h[n - 1], g[n])
  BY <1>3 DEF Shared
<1>8. ASSUME NEW n \in 2..MaxFd - 1, NEW fls, NEW ts, Tables(fls, ts),
             \A q \in Procs, fd \in Fds : ts[q].fd_table[fd] = After(n)[q].fd_table[fd]
      PROVE  Tables(fls, After(n))
  <2> HIDE DEF After
  <2>1. \A s \in Slots : UsersOf(After(n), s) = UsersOf(ts, s)
    BY <1>8 DEF UsersOf
  <2> QED BY <1>6, <1>8, <2>1 DEF Tables
<1>9. 2 \in T
  <2>1. 2 \in 2..MaxFd - 1 /\ h[2] = t0
    BY <1>4, <1>7
  <2>2. \A q \in Procs, fd \in Fds : tasks[q].fd_table[fd] = After(2)[q].fd_table[fd]
    <3> HIDE DEF After
    <3>1. \A fd \in Fds : ~(fd <= 2)
      BY DEF Fds
    <3> QED BY <1>5, <1>6, <2>1, <3>1
  <2>3. Tables(files, After(2))
    <3> HIDE DEF After
    <3> QED BY <1>8, <2>1, <2>2
  <2> HIDE DEF After
  <2> QED BY <1>1, <2>1, <2>3
<1>10. ASSUME NEW n \in 2..(MaxFd - 1) - 1, n \in T PROVE n + 1 \in T
  <2>1. n \in 2..MaxFd - 1 /\ n + 1 \in 2..MaxFd - 1 /\ n + 1 # 2 /\ (n + 1) - 1 = n /\ n + 1 \in Fds
    BY <1>4 DEF Fds
  <2>2. h[n + 1] = IF g[n + 1] = -1 THEN h[n] ELSE Share(h[n], g[n + 1])
    BY <1>7, <2>1
  <2>3. h[n] = [fs |-> h[n].fs, files |-> h[n].files] /\ Tables(h[n].files, After(n))
        /\ \A s \in Slots : h[n].files[s].flag = files[s].flag
    BY <1>10
  <2> HIDE DEF After
  <2>4. After(n)[child].fd_table[n + 1] = -1 /\ After(n + 1)[child].fd_table[n + 1] = g[n + 1]
    BY <1>6, <2>1
  <2>5. ASSUME NEW q \in Procs, NEW fd \in Fds
        PROVE  After(n + 1)[q].fd_table[fd] = IF q = child /\ fd = n + 1 THEN g[n + 1] ELSE After(n)[q].fd_table[fd]
    <3>1. fd <= n + 1 <=> fd <= n \/ fd = n + 1
      BY DEF Fds
    <3> QED BY <1>6, <2>1, <3>1
  <2>6. CASE g[n + 1] = -1
    <3>1. \A q \in Procs, fd \in Fds : After(n)[q].fd_table[fd] = After(n + 1)[q].fd_table[fd]
      BY <2>4, <2>5, <2>6
    <3>2. Tables(h[n].files, After(n + 1))
      BY <1>8, <2>1, <2>3, <3>1
    <3> QED BY <2>1, <2>2, <2>3, <2>6, <3>2
  <2>7. CASE g[n + 1] # -1
    <3>0. PICK slot : slot = g[n + 1]
      OBVIOUS
    <3>1. OnlyFd(After(n), After(n + 1), child, n + 1, slot)
      BY <2>5, <3>0 DEF OnlyFd
    <3>2. TasksType(After(n + 1))
      BY <1>6, <2>1
    <3>3. PICK k : k = n + 1
      OBVIOUS
    <3>4. PICK a : a = After(n)
      OBVIOUS
    <3>5. PICK b : b = After(n + 1)
      OBVIOUS
    <3>6. h[k] = Share(h[n], slot) /\ a[child].fd_table[k] = -1
      BY <2>2, <2>4, <2>7, <3>0, <3>3, <3>4
    <3>7. slot \in Slots /\ files[slot].flag = PIPE_FLAG
      BY <1>2, <1>5, <2>1, <2>7, <3>0 DEF IsTask
    <3>8. UsersOf(a, slot) # {}
      <4>1. a[p].fd_table[n + 1] = slot
        BY <1>2, <1>5, <1>6, <2>1, <3>0, <3>4
      <4>2. <<p, n + 1>> \in UsersOf(a, slot)
        BY <2>1, <4>1 DEF UsersOf
      <4> QED BY <4>2
    <3>9. /\ h[k] = [fs |-> h[k].fs, files |-> h[k].files] /\ Tables(h[k].files, b)
          /\ \A s \in Slots : h[k].files[s].flag = h[n].files[s].flag
      <4>1. /\ k \in Fds /\ OnlyFd(a, b, child, k, slot) /\ TasksType(b) /\ Tables(h[n].files, a)
            /\ h[n].files[slot].flag = PIPE_FLAG
        BY <2>1, <2>3, <3>1, <3>2, <3>3, <3>4, <3>5, <3>7
      <4> QED BY ONLY <2>3, <3>6, <3>7, <3>8, <4>1, child \in Procs, ShareSlotTables
    <3> QED BY <2>1, <2>3, <3>3, <3>5, <3>9
  <2> QED BY <2>6, <2>7
<1>11. MaxFd - 1 \in T
  <2> HIDE DEF T, After
  <2>1. MaxFd - 1 \in Int /\ 2 \in T /\ \A k \in 2..(MaxFd - 1) - 1 : k \in T => k + 1 \in T
    BY <1>4, <1>9, <1>10
  <2>2. \A k \in 2..MaxFd - 1 : k \in T
    BY ONLY <2>1, Upto
  <2> QED BY <1>4, <2>2
<1>12. TasksType([tasks EXCEPT ![child] = tasks[p]])
       /\ \A q \in Procs, fd \in Fds :
            [tasks EXCEPT ![child] = tasks[p]][q].fd_table[fd] = After(MaxFd - 1)[q].fd_table[fd]
  <2> HIDE DEF After
  <2>1. PICK b : b = [tasks EXCEPT ![child] = tasks[p]]
    OBVIOUS
  <2>2. b[child] = tasks[p] /\ \A q \in Procs \ {child} : b[q] = tasks[q]
    BY <1>5, <2>1 DEF TasksType
  <2>3. \A fd \in Fds : fd <= MaxFd - 1
    BY DEF Fds
  <2>5. b = [q \in Procs |-> b[q]]
    BY <1>5, <2>1 DEF TasksType
  <2>6. TasksType(b)
    BY <1>5, <2>2, <2>5 DEF TasksType
  <2>7. ASSUME NEW q \in Procs, NEW fd \in Fds PROVE b[q].fd_table[fd] = After(MaxFd - 1)[q].fd_table[fd]
    <3>1. MaxFd - 1 \in 2..MaxFd - 1
      BY <1>4
    <3>2. CASE q = child
      BY <1>2, <1>6, <2>2, <2>3, <3>1, <3>2
    <3>3. CASE q # child
      BY <1>6, <2>2, <3>1, <3>3
    <3> QED BY <3>2, <3>3
  <2> QED BY <2>1, <2>6, <2>7
<1>13. Tables(t.files, After(MaxFd - 1))
  BY <1>3, <1>11
<1> HIDE DEF After
<1>14. PICK b : b = [tasks EXCEPT ![child] = tasks[p]]
  OBVIOUS
<1>15. \A s \in Slots : UsersOf(b, s) = UsersOf(After(MaxFd - 1), s)
  BY <1>12, <1>14 DEF UsersOf
<1> QED BY <1>12, <1>13, <1>14, <1>15 DEF Tables

\* The table with another file in a slot.
SlotSet(files, slot, file) == [files EXCEPT ![slot] = file]

\* The table with a slot installed.
FdInstalled(tasks, p, slot) == [tasks EXCEPT ![p].fd_table = pcb_fd_install(@, slot)]

\* A slot that may have one user more, and a file that may take a free slot.
RoomFor(file, users) ==
  /\ file.inode # NULL
  /\ file.flag = PIPE_FLAG => file.pos >= Cardinality(users) + 1
  /\ file.flag # PIPE_FLAG => users = {}

IsNew(file) ==
  /\ IsFile(file)
  /\ file.flag = PIPE_FLAG => file.inode = PAGE /\ file.pos \in Int /\ file.pos >= 1

\* At most one user more.
OneMore(users, users2) == Cardinality(users2) <= Cardinality(users) + 1

(* A free slot is taken: nobody refers to it (fs/file.c:19).               *)
LEMMA SlotTaken ==
  ASSUME NEW files, NEW tasks, Tables(files, tasks), NEW slot \in Slots, files[slot].inode = NULL,
         NEW file, IsNew(file), NEW files2, files2 = SlotSet(files, slot, file)
  PROVE  Tables(files2, tasks) /\ UsersOf(tasks, slot) = {} /\ files2[slot] = file
<1>1. FilesType(files) /\ TasksType(tasks) /\ SlotOK(files[slot], UsersOf(tasks, slot))
  BY DEF Tables
<1>0. /\ IsFile(file) /\ files2 = [files EXCEPT ![slot] = file]
      /\ file.flag = PIPE_FLAG => file.inode = PAGE /\ file.pos \in Int /\ file.pos >= 1
  BY DEF IsNew, SlotSet
<1>2. UsersOf(tasks, slot) = {}
  BY <1>1 DEF SlotOK
<1>3. /\ FilesType(files2) /\ files2[slot] = file
      /\ \A s \in Slots \ {slot} : files2[s] = files[s]
  <2>1. slot \in 0..MaxSlot - 1 /\ Slots \subseteq 0..MaxSlot - 1
    BY DEF Slots
  <2> QED BY <1>0, <1>1, <2>1 DEF FilesType
<1>4. SlotOK(files2[slot], UsersOf(tasks, slot))
  BY <1>0, <1>2, <1>3, FS_EmptySet DEF SlotOK
<1> QED BY <1>1, <1>2, <1>3, <1>4 DEF Tables

(* A slot whose inode is another one or whose position has moved.          *)
LEMMA SlotMoved ==
  ASSUME NEW files, NEW tasks, Tables(files, tasks), NEW slot \in Slots,
         files[slot].flag # PIPE_FLAG, NEW pos, NEW files2,
         files2 = [files EXCEPT ![slot].pos = pos]
  PROVE  Tables(files2, tasks)
<1>1. FilesType(files) /\ TasksType(tasks) /\ SlotOK(files[slot], UsersOf(tasks, slot))
  BY DEF Tables
<1>2. PICK file : file = [files[slot] EXCEPT !.pos = pos]
  OBVIOUS
<1>3. slot \in 0..MaxSlot - 1 /\ Slots \subseteq 0..MaxSlot - 1
  BY DEF Slots
<1>4. files2 = [files EXCEPT ![slot] = file]
  BY ONLY <1>2, files2 = [files EXCEPT ![slot].pos = pos]
<1>5. file = [inode |-> files[slot].inode, pos |-> pos, flag |-> files[slot].flag]
  BY <1>1, <1>2, <1>3 DEF FilesType, IsFile
<1>6. IsFile(file)
  BY <1>5 DEF IsFile
<1>7. FilesType(files2) /\ files2[slot] = file /\ \A s \in Slots \ {slot} : files2[s] = files[s]
  BY <1>1, <1>3, <1>4, <1>6 DEF FilesType
<1>8. SlotOK(files2[slot], UsersOf(tasks, slot))
  BY <1>1, <1>5, <1>7 DEF SlotOK
<1> QED BY <1>1, <1>7, <1>8 DEF Tables

(* A descriptor is installed, or there is none that is free                *)
(* (fs/file.c:41).                                                         *)
LEMMA Installed ==
  ASSUME NEW tasks, TasksType(tasks), NEW p \in Procs, tasks[p].live, NEW slot \in Slots,
         NEW tasks2, tasks2 = FdInstalled(tasks, p, slot)
  PROVE  /\ TasksType(tasks2) /\ tasks2[p].live
         /\ \/ tasks2 = tasks
            \/ \E fd \in Fds : tasks[p].fd_table[fd] = -1 /\ OnlyFd(tasks, tasks2, p, fd, slot)
<1>1. PICK g : g = tasks[p].fd_table
  OBVIOUS
<1>2. IsTask(tasks[p]) /\ p \in DOMAIN tasks
  BY DEF TasksType
<1>3. PICK free : free = {fd \in Fds : g[fd] = -1}
  OBVIOUS
<1>4. tasks2 = [tasks EXCEPT ![p].fd_table = pcb_fd_install(g, slot)]
  BY <1>1 DEF FdInstalled
<1>5. CASE free = {}
  <2>1. pcb_fd_install(g, slot) = g
    BY <1>3, <1>5 DEF pcb_fd_install
  <2>2. [tasks[p] EXCEPT !.fd_table = g] = tasks[p]
    BY ONLY <1>1, <1>2 DEF IsTask
  <2>3. tasks2 = [tasks EXCEPT ![p] = tasks[p]]
    BY ONLY <1>4, <2>1, <2>2
  <2>4. tasks2 = tasks
    BY <2>3 DEF TasksType
  <2> QED BY <2>4
<1>6. CASE free # {}
  <2>1. PICK fd : fd = Lowest(free)
    OBVIOUS
  <2>2. free \in SUBSET Nat
    BY <1>3, FsAssumption DEF Fds
  <2>3. fd \in free
    BY ONLY <1>6, <2>1, <2>2, LowestFacts
  <2>4. fd \in Fds /\ g[fd] = -1
    BY <1>3, <2>3
  <2>5. pcb_fd_install(g, slot) = [g EXCEPT ![fd] = slot]
    BY <1>3, <1>6, <2>1 DEF pcb_fd_install
  <2>6. tasks2 = FdSet(tasks, p, fd, slot)
    BY ONLY <1>1, <1>4, <2>5 DEF FdSet
  <2>7. fd \in 0..MaxFd - 1
    BY <2>4 DEF Fds
  <2>8. TasksType(tasks2) /\ tasks2[p].live = tasks[p].live /\ OnlyFd(tasks, tasks2, p, fd, slot)
    <3>1. slot \in Slots \cup {-1}
      OBVIOUS
    <3>2. fd \in Fds => slot \in Slots \cup {-1}
      BY <3>1
    <3>3. tasks[p].live \/ slot = -1 \/ fd \notin Fds
      OBVIOUS
    <3>4. p \in Procs
      OBVIOUS
    <3>5. TasksType(tasks)
      OBVIOUS
    <3>6. TasksType(tasks2) /\ OnlyFd(tasks, tasks2, p, fd, slot)
      BY ONLY <2>6, <2>7, <3>2, <3>3, <3>4, <3>5, Assigned
    <3>7. tasks2[p].live = tasks[p].live
      BY ONLY <2>6, <2>7, <3>2, <3>3, <3>4, <3>5, Assigned
    <3> QED BY <3>6, <3>7
  <2> QED BY <1>1, <2>4, <2>8
<1> QED BY <1>5, <1>6

(* The tables agree after a descriptor has been installed for a slot that  *)
(* has room for one user more.                                             *)
LEMMA InstalledTables ==
  ASSUME NEW files, NEW tasks, Tables(files, tasks), NEW p \in Procs, tasks[p].live,
         NEW slot \in Slots, RoomFor(files[slot], UsersOf(tasks, slot)),
         NEW tasks2, tasks2 = FdInstalled(tasks, p, slot)
  PROVE  /\ Tables(files, tasks2) /\ tasks2[p].live
         /\ OneMore(UsersOf(tasks, slot), UsersOf(tasks2, slot))
<1>1. FilesType(files) /\ TasksType(tasks) /\ SlotOK(files[slot], UsersOf(tasks, slot))
  BY DEF Tables
<1>2. /\ TasksType(tasks2) /\ tasks2[p].live
      /\ \/ tasks2 = tasks
         \/ \E fd \in Fds : tasks[p].fd_table[fd] = -1 /\ OnlyFd(tasks, tasks2, p, fd, slot)
  BY <1>1, Installed
<1>3. IsFiniteSet(UsersOf(tasks, slot)) /\ Cardinality(UsersOf(tasks, slot)) \in Nat
  BY <1>1, FS_CardinalityType DEF SlotOK
<1>4. CASE tasks2 = tasks
  <2>1. PICK n \in Nat : n = Cardinality(UsersOf(tasks, slot))
    BY <1>3
  <2>2. n <= n + 1
    OBVIOUS
  <2> QED BY ONLY <1>2, <1>4, <2>1, <2>2, Tables(files, tasks) DEF OneMore
<1>5. ASSUME NEW fd \in Fds, tasks[p].fd_table[fd] = -1, OnlyFd(tasks, tasks2, p, fd, slot)
      PROVE  /\ Tables(files, tasks2)
             /\ OneMore(UsersOf(tasks, slot), UsersOf(tasks2, slot))
  <2>1. PICK u : u = <<p, fd>>
    OBVIOUS
  <2>2. PICK users : users = UsersOf(tasks, slot)
    OBVIOUS
  <2>3. UsersOf(tasks2, slot) = users \cup {u}
    <3>1. UsersOf(tasks2, slot) = (users \ {u}) \cup {u}
      BY <1>5, <2>1, <2>2, UsersMove
    <3> QED BY <3>1
  <2>4. /\ IsFiniteSet(users \cup {u}) /\ Cardinality(users) \in Nat
        /\ Cardinality(users \cup {u}) = Cardinality(users) \/ Cardinality(users \cup {u}) = Cardinality(users) + 1
    BY <1>3, <2>2, FS_AddElement, FS_CardinalityType
  <2>5. SlotOK(files[slot], users \cup {u})
    BY <1>1, <2>2, <2>4 DEF SlotOK, RoomFor
  <2>6. tasks[p].fd_table[fd] \in {-1, slot} /\ slot \in {-1, slot}
    BY <1>5
  <2>7. Tables(files, tasks2)
    <3>1. \A s \in Slots \ {slot} : files[s] = files[s]
      OBVIOUS
    <3>2. SlotOK(files[slot], UsersOf(tasks2, slot))
      BY <2>3, <2>5
    <3>3. PICK x : x = slot
      OBVIOUS
    <3>4. /\ tasks[p].fd_table[fd] \in {-1, slot} /\ x \in {-1, slot}
          /\ OnlyFd(tasks, tasks2, p, fd, x)
      BY <1>5, <2>6, <3>3
    <3> QED BY ONLY <1>1, <1>2, <3>1, <3>2, <3>4, Tables(files, tasks),
                    p \in Procs, slot \in Slots, fd \in Fds, TablesMove
  <2>8. PICK n \in Nat : n = Cardinality(users)
    BY <2>4
  <2>9. PICK n2 : n2 = Cardinality(users \cup {u})
    OBVIOUS
  <2>10. n2 <= n + 1
    BY ONLY <2>4, <2>8, <2>9, n \in Nat
  <2> QED BY ONLY <2>2, <2>3, <2>7, <2>8, <2>9, <2>10 DEF OneMore
<1> QED BY <1>2, <1>4, <1>5

-----------------------------------------------------------------------------
(* The tables agree in every state *)



(* Files, descriptors and their users as the system starts.                *)
LEMMA FirstTables == Tables(NoFiles, FirstTask)
<1>1. FilesType(NoFiles) /\ \A slot \in Slots : NoFiles[slot] = NoFile
  <2>1. NoFiles = [slot \in 0..MaxSlot - 1 |-> NoFile]
    BY DEF NoFiles
  <2>2. IsFile(NoFile)
    BY DEF IsFile, NoFile
  <2>3. \A slot \in 0..MaxSlot - 1 : NoFiles[slot] = NoFile
    BY <2>1
  <2>4. Slots \subseteq 0..MaxSlot - 1
    BY DEF Slots
  <2> QED BY <2>1, <2>2, <2>3, <2>4 DEF FilesType
<1>2. \A p \in Procs : IsTask(FirstTask[p]) /\ \A fd \in Fds : FirstTask[p].fd_table[fd] = -1
  <2>1. PICK g : g = [fd \in 0..MaxFd - 1 |-> IF fd < 3 THEN fd ELSE -1]
    OBVIOUS
  <2>2. \A fd \in Fds : g[fd] = -1
    BY <2>1 DEF Fds
  <2>3. NewTask = [live |-> FALSE, cwd |-> 0, fd_table |-> g]
    BY <2>1 DEF NewTask
  <2>4. g = [fd \in 0..MaxFd - 1 |-> g[fd]]
    BY <2>1
  <2>5. ASSUME NEW p \in Procs PROVE IsTask(FirstTask[p]) /\ FirstTask[p].fd_table = g
    <3>1. PICK x : x = FirstTask[p]
      OBVIOUS
    <3>2. x = [live |-> p = init, cwd |-> 0, fd_table |-> g]
      BY <2>3, <3>1 DEF FirstTask
    <3>3. x.fd_table = g /\ x = [live |-> x.live, cwd |-> x.cwd, fd_table |-> x.fd_table]
      BY <3>2
    <3> QED BY <2>2, <2>4, <3>1, <3>3 DEF IsTask
  <2> QED BY <2>2, <2>5
<1>3. TasksType(FirstTask)
  BY <1>2 DEF TasksType, FirstTask
<1>4. \A slot \in Slots : UsersOf(FirstTask, slot) = {}
  BY <1>2 DEF UsersOf, Slots
<1>5. SlotOK(NoFile, {})
  BY FS_EmptySet DEF SlotOK, NoFile
<1> QED BY <1>1, <1>3, <1>4, <1>5 DEF Tables

(* A file takes a slot and a descriptor (fs/file.c:220).                   *)
LEMMA InstallTables ==
  ASSUME Tables(file_table, task), NEW p \in Procs, task[p].live, NEW slot \in Slots,
         file_table[slot].inode = NULL, NEW no, no # NULL, NEW flag, flag # PIPE_FLAG, NEW f,
         Install(p, slot, File(no, flag), f)
  PROVE  Tables(file_table', task')
<1>1. PICK file : file = File(no, flag)
  OBVIOUS
<1>2. IsFile(file) /\ file.flag # PIPE_FLAG /\ file.inode # NULL
  BY <1>1 DEF File, IsFile
<1>3. PICK files2 : files2 = SlotSet(file_table, slot, file)
  OBVIOUS
<1>4. PICK tasks2 : tasks2 = FdInstalled(task, p, slot)
  OBVIOUS
<1>5. file_table' = files2 /\ task' = tasks2
  BY <1>1, <1>3, <1>4 DEF Install, Count, Return, SlotSet, FdInstalled
<1>6. Tables(files2, task) /\ UsersOf(task, slot) = {} /\ files2[slot] = file
  <2>1. IsNew(file)
    BY <1>2 DEF IsNew
  <2> QED BY <1>3, <2>1, SlotTaken
<1>7. Tables(files2, tasks2)
  <2>1. RoomFor(files2[slot], UsersOf(task, slot))
    BY <1>2, <1>6 DEF RoomFor
  <2> QED BY <1>4, <1>6, <2>1, InstalledTables
<1> QED BY <1>5, <1>7

(* sys_open (fs.c:500).                                                    *)
LEMMA OpenTables ==
  ASSUME Tables(file_table, task), NEW p \in Procs, NEW path,
         NEW flags, flags # PIPE_FLAG, sys_open(p, path, flags)
  PROVE  Tables(file_table', task')
<1>1. PICK rec : OpenAt(p, rec, path, flags)
  BY DEF sys_open
<1>2. task[p].live
  BY DEF sys_open, Ready
<1>3. PICK slot : slot = get_free_slot_in_global
  OBVIOUS
<1>4. slot = -1 \/ (slot \in Slots /\ file_table[slot].inode = NULL)
  BY <1>3, FreeSlot
<1>5. CASE UNCHANGED vars
  BY <1>5 DEF vars
<1>6. CASE file_create(p, rec, Last(path), slot, flags)
  <2>1. CASE slot = -1
    <3>1. PICK f : NoSlot(f)
      BY <1>6, <2>1 DEF file_create
    <3> QED BY <3>1 DEF NoSlot, Count, Return, vars
  <2>2. CASE slot # -1
    <3>1. PICK a : a = inode_bitmap_alloc(OpenParent(fs, rec))
      OBVIOUS
    <3>2. PICK f : Install(p, slot, File(a.no, flags), f)
      BY <1>6, <2>2, <3>1 DEF file_create
    <3>3. OpenParent(fs, rec).ibits = fs.ibits
      <4>1. inode_open(fs, rec.parent).ibits = fs.ibits
        BY DEF inode_open
      <4> QED BY <4>1 DEF OpenParent
    <3>4. a.no = FirstFree(fs.ibits, inode_bitmap_len)
      BY <3>1, <3>3 DEF inode_bitmap_alloc, TakeInode
    <3>5. a.no \in 0..inode_bitmap_len
      <4>1. PICK bits : bits = fs.ibits
        OBVIOUS
      <4>2. inode_bitmap_len \in Nat
        BY LengthsType
      <4>3. FirstFree(bits, inode_bitmap_len) \in 0..inode_bitmap_len
        BY ONLY <4>2, FirstFreeExists, Zenon
      <4> QED BY <3>4, <4>1, <4>3
    <3>6. a.no # NULL
      BY <3>5, LengthsType DEF NULL
    <3> QED BY <1>2, <1>4, <2>2, <3>2, <3>6, InstallTables
  <2> QED BY <2>1, <2>2
<1>7. CASE rec.no # -1 /\ file_open(p, rec, slot, flags)
  <2>1. CASE slot = -1
    BY <1>7, <2>1 DEF file_open, Count, Return
  <2>2. CASE slot # -1
    <3>1. PICK f : OpenFile(p, f, rec.no, slot, flags)
      BY <1>7, <2>2 DEF file_open
    <3>2. rec.no # NULL
      BY <1>7 DEF NULL
    <3>3. CASE Writable(flags) /\ f.open[rec.no].deny
      <4>1. PICK file : file = File(rec.no, flags)
        OBVIOUS
      <4>2. IsFile(file) /\ file.flag # PIPE_FLAG
        BY <4>1 DEF File, IsFile
      <4>3. PICK files2 : files2 = SlotSet(file_table, slot, file)
        OBVIOUS
      <4>4. file_table' = files2 /\ task' = task
        BY <3>1, <3>3, <4>1, <4>3 DEF OpenFile, Count, Return, SlotSet
      <4>5. Tables(files2, task)
        <5>1. IsNew(file)
          BY <4>2 DEF IsNew
        <5> QED BY <1>4, <2>2, <4>3, <5>1, SlotTaken
      <4> QED BY <4>4, <4>5
    <3>4. CASE ~(Writable(flags) /\ f.open[rec.no].deny)
      <4>1. PICK g : Install(p, slot, File(rec.no, flags), g)
        BY <3>1, <3>4 DEF OpenFile
      <4> QED BY <1>2, <1>4, <2>2, <3>2, <4>1, InstallTables
    <3> QED BY <3>3, <3>4
  <2> QED BY <2>1, <2>2
<1> QED BY <1>1, <1>3, <1>5, <1>6, <1>7 DEF OpenAt

(* sys_close (fs.c:592).                                                   *)
LEMMA CloseTables ==
  ASSUME Tables(file_table, task), NEW p \in Procs, NEW fd \in Fds, sys_close(p, fd)
  PROVE  Tables(file_table', task')
<1>1. PICK t0 : t0 = [fs |-> fs, files |-> file_table]
  OBVIOUS
<1>2. PICK t : t = CloseSlot(t0, task[p].fd_table[fd])
  OBVIOUS
<1>3. PICK tasks2 : tasks2 = FdSet(task, p, fd, -1)
  OBVIOUS
<1>4. /\ task[p].fd_table[fd] # -1
      /\ file_table' = t.files /\ task' = tasks2
  BY <1>1, <1>2, <1>3 DEF sys_close, Done, Return, FdSet
<1>5. fd \in 0..MaxFd - 1
  BY DEF Fds
<1>6. TasksType(tasks2) /\ OnlyFd(task, tasks2, p, fd, -1)
  <2>1. TasksType(task)
    BY DEF Tables
  <2>2. PICK v : v = -1
    OBVIOUS
  <2>3. v \in Slots \cup {-1}
    BY <2>2
  <2> QED BY ONLY <1>3, <1>5, <2>1, <2>2, <2>3, p \in Procs, Assigned
<1>7. t0 = [fs |-> t0.fs, files |-> t0.files] /\ t0.files = file_table
  BY <1>1
<1>8. Tables(t.files, tasks2)
  BY ONLY <1>2, <1>4, <1>6, <1>7, Tables(file_table, task), p \in Procs, fd \in Fds, CloseSlotTables
<1> QED BY <1>4, <1>8

(* sys_write, sys_read and sys_lseek change the position of a file only    *)
(* (fs.c:619, fs.c:661, fs.c:703).                                         *)
LEMMA PositionTables ==
  ASSUME Tables(file_table, task), NEW p \in Procs, NEW fd \in Fds, HasFile(p, fd),
         task' = task, file_table' = file_table
           \/ \E pos : file_table' = [file_table EXCEPT ![task[p].fd_table[fd]].pos = pos]
  PROVE  Tables(file_table', task')
<1>1. PICK slot : slot = task[p].fd_table[fd]
  OBVIOUS
<1>2. slot \in Slots /\ file_table[slot].flag # PIPE_FLAG
  BY <1>1 DEF Tables, TasksType, IsTask, HasFile, IsPipe
<1>3. CASE file_table' = file_table
  BY <1>3
<1>4. ASSUME NEW pos, file_table' = [file_table EXCEPT ![slot].pos = pos]
      PROVE  Tables(file_table', task)
  <2>1. PICK files2 : files2 = [file_table EXCEPT ![slot].pos = pos]
    OBVIOUS
  <2>2. Tables(files2, task)
    BY <1>2, <2>1, SlotMoved
  <2> QED BY <1>4, <2>1, <2>2
<1> QED BY <1>1, <1>3, <1>4

(* sys_pipe and sys_fd_redirect (pipe.c:44, pipe.c:13).                    *)
LEMMA PipeTables ==
  ASSUME Tables(file_table, task), NEW p \in Procs, sys_pipe(p)
  PROVE  Tables(file_table', task')
<1>1. PICK slot : slot = get_free_slot_in_global
  OBVIOUS
<1>2. slot = -1 \/ (slot \in Slots /\ file_table[slot].inode = NULL)
  BY <1>1, FreeSlot
<1>3. task[p].live /\ PipeAt(p, slot)
  BY <1>1 DEF sys_pipe, Ready
<1>4. CASE slot = -1
  BY <1>3, <1>4 DEF PipeAt, Count, Return
<1>5. CASE slot # -1
  <2>1. PICK file : file = [inode |-> PAGE, pos |-> 2, flag |-> PIPE_FLAG]
    OBVIOUS
  <2>2. PICK files2 : files2 = SlotSet(file_table, slot, file)
    OBVIOUS
  <2>3. PICK tasks1 : tasks1 = FdInstalled(task, p, slot)
    OBVIOUS
  <2>4. PICK tasks2 : tasks2 = FdInstalled(tasks1, p, slot)
    OBVIOUS
  <2>5. tasks2 = [task EXCEPT ![p].fd_table = pcb_fd_install(pcb_fd_install(@, slot), slot)]
    <3>1. p \in DOMAIN task /\ IsTask(task[p])
      BY DEF Tables, TasksType
    <3>2. PICK g : g = pcb_fd_install(task[p].fd_table, slot)
      OBVIOUS
    <3>3. PICK x : x = [task[p] EXCEPT !.fd_table = g]
      OBVIOUS
    <3>4. PICK y : y = [task[p] EXCEPT !.fd_table = pcb_fd_install(g, slot)]
      OBVIOUS
    <3>5. x.fd_table = g /\ y = [x EXCEPT !.fd_table = pcb_fd_install(g, slot)]
      BY ONLY <3>1, <3>3, <3>4 DEF IsTask
    <3>6. tasks1 = [task EXCEPT ![p] = x] /\ tasks1[p] = x
      BY ONLY <2>3, <3>1, <3>2, <3>3 DEF FdInstalled
    <3>7. tasks2 = [tasks1 EXCEPT ![p] = y]
      BY ONLY <2>4, <3>5, <3>6 DEF FdInstalled
    <3>8. tasks2 = [task EXCEPT ![p] = y]
      BY ONLY <3>6, <3>7
    <3> QED BY ONLY <3>2, <3>4, <3>8
  <2>6. file_table' = files2 /\ task' = tasks2
    BY <1>3, <1>5, <2>1, <2>2, <2>5 DEF PipeAt, Count, Return, SlotSet
  <2>7. IsFile(file) /\ file.inode = PAGE /\ file.pos = 2 /\ file.flag = PIPE_FLAG /\ PAGE # NULL
    BY <2>1 DEF IsFile, PAGE, NULL
  <2>8. slot \in Slots /\ file_table[slot].inode = NULL
    BY <1>2, <1>5
  <2>9. Tables(files2, task) /\ UsersOf(task, slot) = {} /\ files2[slot] = file
    <3>1. IsNew(file)
      BY <2>7 DEF IsNew
    <3> QED BY <2>2, <2>8, <3>1, SlotTaken
  <2>10. Cardinality(UsersOf(task, slot)) = 0
    BY <2>9, FS_EmptySet
  <2>11. files2[slot].inode # NULL /\ files2[slot].flag = PIPE_FLAG /\ files2[slot].pos = 2
    BY <2>7, <2>9
  <2>12. /\ Tables(files2, tasks1) /\ tasks1[p].live
         /\ OneMore(UsersOf(task, slot), UsersOf(tasks1, slot))
    <3>1. RoomFor(files2[slot], UsersOf(task, slot))
      BY <2>10, <2>11 DEF RoomFor
    <3> QED BY <1>3, <2>3, <2>8, <2>9, <3>1, InstalledTables
  <2>13. PICK n \in Nat : n = Cardinality(UsersOf(tasks1, slot))
    <3>1. IsFiniteSet(UsersOf(tasks1, slot))
      BY <2>8, <2>12 DEF Tables, SlotOK
    <3> QED BY <3>1, FS_CardinalityType
  <2>14. Tables(files2, tasks2)
    <3>1. RoomFor(files2[slot], UsersOf(tasks1, slot))
      BY <2>10, <2>11, <2>12, <2>13 DEF RoomFor, OneMore
    <3> QED BY <2>4, <2>8, <2>12, <3>1, InstalledTables
  <2> QED BY <2>6, <2>14
<1> QED BY <1>4, <1>5

(* A descriptor below 3, or the working directory, changes.                *)
LEMMA OtherTables ==
  ASSUME NEW files, NEW tasks, Tables(files, tasks), NEW tasks2, TasksType(tasks2),
         \A q \in Procs, k \in Fds : tasks2[q].fd_table[k] = tasks[q].fd_table[k]
  PROVE  Tables(files, tasks2)
<1>1. \A slot : UsersOf(tasks2, slot) = UsersOf(tasks, slot)
  BY DEF UsersOf
<1> QED BY <1>1 DEF Tables

(* sys_fd_redirect of the shell (pipe.c:13).                               *)
LEMMA RedirectTables ==
  ASSUME Tables(file_table, task), NEW p \in Procs, NEW fd, sys_fd_redirect(p, 0, fd)
  PROVE  Tables(file_table', task')
<1>1. PICK v : v = IF fd < 3 THEN fd ELSE task[p].fd_table[fd]
  OBVIOUS
<1>2. PICK tasks2 : tasks2 = FdSet(task, p, 0, v)
  OBVIOUS
<1>3. task' = tasks2 /\ file_table' = file_table
  BY <1>1, <1>2 DEF sys_fd_redirect, Count, Return, FdSet
<1>4. 0 \in 0..MaxFd - 1 /\ 0 \notin Fds
  BY FsAssumption DEF Fds
<1>5. TasksType(tasks2) /\ OnlyFd(task, tasks2, p, 0, v)
  <2>1. TasksType(task)
    BY DEF Tables
  <2>2. PICK z : z = 0
    OBVIOUS
  <2>3. z \in 0..MaxFd - 1 /\ z \notin Fds /\ tasks2 = FdSet(task, p, z, v)
    BY <1>2, <1>4, <2>2
  <2>4. TasksType(tasks2) /\ OnlyFd(task, tasks2, p, z, v)
    BY ONLY <2>1, <2>3, p \in Procs, Assigned
  <2> QED BY <2>2, <2>4
<1>6. \A q \in Procs, k \in Fds : tasks2[q].fd_table[k] = task[q].fd_table[k]
  BY <1>4, <1>5 DEF OnlyFd
<1> QED BY <1>3, <1>5, <1>6, OtherTables

(* sys_chdir (fs.c:1192).                                                  *)
LEMMA ChdirTables ==
  ASSUME Tables(file_table, task), NEW p \in Procs, NEW path, sys_chdir(p, path)
  PROVE  Tables(file_table', task')
<1>1. PICK no : task' = [task EXCEPT ![p].cwd = no] /\ file_table' = file_table
  BY DEF sys_chdir, Count, Return
<1>2. TasksType(task) /\ IsTask(task[p]) /\ p \in DOMAIN task
  BY DEF Tables, TasksType
<1>3. PICK x : x = [live |-> task[p].live, cwd |-> no, fd_table |-> task[p].fd_table]
  OBVIOUS
<1>4. x = [task[p] EXCEPT !.cwd = no]
  <2>1. PICK y : y = task[p]
    OBVIOUS
  <2>2. y = [live |-> y.live, cwd |-> y.cwd, fd_table |-> y.fd_table]
    BY <1>2, <2>1 DEF IsTask
  <2>3. PICK l : l = y.live
    OBVIOUS
  <2>4. PICK c : c = y.cwd
    OBVIOUS
  <2>5. PICK g : g = y.fd_table
    OBVIOUS
  <2>6. y = [live |-> l, cwd |-> c, fd_table |-> g]
    BY ONLY <2>2, <2>3, <2>4, <2>5
  <2>7. [y EXCEPT !.cwd = no] = [live |-> l, cwd |-> no, fd_table |-> g]
    BY ONLY <2>6
  <2> QED BY ONLY <1>3, <2>1, <2>3, <2>5, <2>7
<1>5. PICK tasks2 : tasks2 = [task EXCEPT ![p] = x]
  OBVIOUS
<1>6. task' = tasks2
  BY ONLY <1>1, <1>4, <1>5
<1>7. tasks2[p] = x /\ \A q \in Procs \ {p} : tasks2[q] = task[q]
  BY ONLY <1>2, <1>5 DEF TasksType
<1>8. IsTask(x)
  BY <1>2, <1>3 DEF IsTask
<1>9. TasksType(tasks2)
  BY <1>2, <1>5, <1>7, <1>8 DEF TasksType
<1>10. \A q \in Procs, k \in Fds : tasks2[q].fd_table[k] = task[q].fd_table[k]
  BY <1>3, <1>7
<1> QED BY <1>1, <1>6, <1>9, <1>10, OtherTables

(* Every step keeps the tables together.                                   *)
LEMMA NextTables ==
  ASSUME ~ShareFiles, Tables(file_table, task), [Next]_vars
  PROVE  Tables(file_table', task')
<1>1. CASE UNCHANGED vars
  BY <1>1 DEF vars
<1>2. ASSUME NEW p \in Users, NEW path \in Paths, NEW flags \in OpenFlags, sys_open(p, path, flags)
      PROVE  Tables(file_table', task')
  <2>1. flags \subseteq {"wronly", "rdwd", "creat"} /\ Users \subseteq Procs
    BY FsAssumption
  <2>2. flags # PIPE_FLAG
    <3>1. "pipe" \notin {"wronly", "rdwd", "creat"}
      OBVIOUS
    <3> QED BY <2>1, <3>1 DEF PIPE_FLAG
  <2> QED BY <1>2, <2>1, <2>2, OpenTables
<1>3. ASSUME NEW p, NEW path, sys_unlink(p, path) \/ sys_mkdir(p, path) \/ sys_rmdir(p, path)
      PROVE  Tables(file_table', task')
  <2>1. file_table' = file_table /\ task' = task
    BY <1>3 DEF sys_unlink, Unlink, sys_mkdir, Mkdir, sys_rmdir, Rmdir, Done, Count, Return, vars
  <2> QED BY <2>1
<1>4. ASSUME NEW p \in Users, NEW path \in Paths, sys_chdir(p, path)
      PROVE  Tables(file_table', task')
  BY <1>4, FsAssumption, ChdirTables
<1>5. ASSUME NEW p \in Procs, NEW fd \in Fds, sys_close(p, fd)
      PROVE  Tables(file_table', task')
  BY <1>5, CloseTables
<1>6. ASSUME NEW p \in Procs, NEW fd \in Fds, NEW count, sys_write(p, fd, count) \/ sys_read(p, fd, count)
      PROVE  Tables(file_table', task')
  <2>1. task' = task /\ HasFile(p, fd)
    BY <1>6, Zenon DEF sys_write, sys_read, Done, Count, Return
  <2>2. file_table' = file_table
          \/ \E pos : file_table' = [file_table EXCEPT ![task[p].fd_table[fd]].pos = pos]
    BY <1>6, Zenon DEF sys_write, sys_read, Done, Count, Return
  <2> QED BY ONLY <1>6, <2>1, <2>2, Tables(file_table, task), PositionTables, Zenon
<1>7. ASSUME NEW p \in Procs, NEW fd \in Fds, NEW offset, NEW whence, Seek(p, fd, offset, whence)
      PROVE  Tables(file_table', task')
  <2>1. task' = task /\ HasFile(p, fd)
    BY <1>7 DEF Seek, Done, Count, Return
  <2>2. file_table' = file_table
          \/ \E pos : file_table' = [file_table EXCEPT ![task[p].fd_table[fd]].pos = pos]
    BY <1>7 DEF Seek, Done, Count, Return
  <2> QED BY <2>1, <2>2, PositionTables, Zenon
<1>8. ASSUME NEW p \in Procs, NEW fd, sys_fd_redirect(p, 0, fd)
      PROVE  Tables(file_table', task')
  BY <1>8, RedirectTables
<1>9. ASSUME NEW p \in Procs, sys_pipe(p)
      PROVE  Tables(file_table', task')
  BY <1>9, PipeTables
<1>10. ASSUME NEW p \in Procs, NEW child \in Procs, sys_fork(p, child)
       PROVE  Tables(file_table', task')
  <2>1. PICK t : t = ShareAll([fs |-> fs, files |-> file_table], task[p].fd_table)
    OBVIOUS
  <2>2. PICK tasks2 : tasks2 = [task EXCEPT ![child] = task[p]]
    OBVIOUS
  <2>3. task[p].live /\ ~task[child].live /\ file_table' = t.files /\ task' = tasks2
    BY <1>10, <2>1, <2>2 DEF sys_fork, Ready, Count, Return
  <2>4. \A fd \in Fds : task[p].fd_table[fd] # -1 => file_table[task[p].fd_table[fd]].flag = PIPE_FLAG
    BY <1>10 DEF sys_fork, IsPipe
  <2>5. Tables(t.files, tasks2)
    BY <2>1, <2>2, <2>3, <2>4, ShareAllTables
  <2> QED BY <2>3, <2>5
<1>11. ASSUME NEW p \in Procs, sys_exit(p)
       PROVE  Tables(file_table', task')
  <2>1. PICK t : t = CloseAll([fs |-> fs, files |-> file_table], task[p].fd_table)
    OBVIOUS
  <2>2. PICK tasks2 : tasks2 = [task EXCEPT ![p] = NewTask]
    OBVIOUS
  <2>3. file_table' = t.files /\ task' = tasks2
    BY <1>11, <2>1, <2>2 DEF sys_exit, Done, Return
  <2>4. Tables(t.files, tasks2)
    BY <2>1, <2>2, CloseAllTables
  <2> QED BY <2>3, <2>4
<1>12. CASE WriteSector
  BY <1>12 DEF WriteSector
<1>13. CASE Crash
  BY <1>13, FirstTables DEF Crash
<1> QED BY <1>1, <1>2, <1>3, <1>4, <1>5, <1>6, <1>7, <1>8, <1>9, <1>10, <1>11, <1>12, <1>13 DEF Next

(* Tables that agree have no pipe whose page is gone.                      *)
LEMMA TablesKeepPipes == Tables(file_table, task) => PipesAlive
<1>1. ASSUME Tables(file_table, task), NEW slot \in Slots, NEW users, users = UsersOf(task, slot),
             file_table[slot].flag = PIPE_FLAG, users # {}
      PROVE  file_table[slot].inode = PAGE /\ file_table[slot].pos >= Cardinality(users)
  <2>1. SlotOK(file_table[slot], users)
    BY <1>1 DEF Tables
  <2> QED BY <1>1, <2>1 DEF SlotOK
<1> QED BY <1>1 DEF PipesAlive, UsersOf

-----------------------------------------------------------------------------
(* file_write *)

\* The addresses of a file of n blocks.
FileMap(A, x, n) ==
  /\ Distinct(A, x)
  /\ \A k \in 1..MaxBlocks : /\ Address(A, x, k) \in Nat
                             /\ Address(A, x, k) # 0 <=> k <= n
                             /\ Address(A, x, k) = x.sec[Direct + 1] => Address(A, x, k) = 0
  /\ x.sec[Direct + 1] # 0 <=> n > Direct
  /\ x.sec[Direct + 1] # 0 => /\ x.sec[Direct + 1] \in Blocks
                              /\ A[x.sec[Direct + 1]] = [k \in 1..TableLen |-> A[x.sec[Direct + 1]][k]]

SecWith(S, k, lba) == [i \in 1..Direct + 1 |-> IF i = k THEN lba ELSE S[i]]

(* A regular file is one with as many blocks as its size tells, which hold *)
(* its bytes.                                                              *)
LEMMA RegularMap ==
  ASSUME NEW A, NEW x
  PROVE  IsRegular(A, x) <=> /\ x.size <= MaxSize /\ FileMap(A, x, FileBlocks(x.size))
                             /\ Holds(A, x, x.no, 0..x.size - 1)
  BY DEF IsRegular, FileMap

\* The blocks of a file stay where they are.
SameAddresses(A, x, A2, x2) ==
  \A k \in 1..MaxBlocks : Address(A, x, k) # 0 => Address(A2, x2, k) = Address(A, x, k)

(* A byte stays in its block when the block and its address stay.          *)
LEMMA ByteStays ==
  ASSUME WithinBounds, NEW A, NEW x, NEW A2, NEW x2, SameAddresses(A, x, A2, x2),
         \A l \in BlocksIn(A, x) \cap Blocks : A2[l] = A[l],
         NEW no, NEW pos, HasByte(A, x, no, pos)
  PROVE  HasByte(A2, x2, no, pos)
<1>1. PICK k, lba : k = pos \div BlockSize + 1 /\ lba = Address(A, x, k)
  OBVIOUS
<1>2. k \in 1..MaxBlocks /\ lba \in Blocks /\ A[lba][(pos % BlockSize) + 1] = Byte(no, pos)
  BY <1>1 DEF HasByte
<1>3. lba # 0
  BY <1>2, Sizes
<1>4. lba \in BlocksIn(A, x)
  BY <1>1, <1>2, <1>3 DEF BlocksIn
<1>5. A2[lba] = A[lba] /\ Address(A2, x2, k) = lba
  BY <1>1, <1>2, <1>3, <1>4 DEF SameAddresses
<1> QED BY ONLY <1>1, <1>2, <1>5 DEF HasByte

(* The blocks of a file, block by block.                                   *)
LEMMA BlocksByAddress ==
  ASSUME NEW A, NEW x
  PROVE  /\ \A l : l \in AllBlocks(A, x) <=>
                     l # 0 /\ (l = x.sec[Direct + 1] \/ \E k \in 1..MaxBlocks : l = Address(A, x, k))
         /\ \A k \in 1..MaxBlocks : Address(A, x, k) # 0 => Address(A, x, k) \in AllBlocks(A, x)
  BY DEF AllBlocks, BlocksIn

(* One direct block more.                                                  *)
LEMMA MapDirect ==
  ASSUME WithinBounds, NEW A, NEW x, NEW n \in Nat, FileMap(A, x, n), n + 1 <= Direct,
         NEW lba \in Nat, lba # 0, lba \notin AllBlocks(A, x),
         NEW x2, x2.sec = SecWith(x.sec, n + 1, lba)
  PROVE  /\ FileMap(A, x2, n + 1) /\ AllBlocks(A, x2) = AllBlocks(A, x) \cup {lba}
         /\ SameAddresses(A, x, A, x2)
<1>1. Direct \in Nat /\ TableLen \in Nat /\ MaxBlocks = Direct + TableLen
  BY Sizes
<1>2. x.sec[Direct + 1] = 0 /\ x2.sec[Direct + 1] = 0
  BY <1>1 DEF FileMap, SecWith
<1>3. \A k \in 1..MaxBlocks : Address(A, x2, k) = IF k = n + 1 THEN lba ELSE Address(A, x, k)
  BY <1>1, <1>2 DEF Address, SecWith
<1>4. FileMap(A, x2, n + 1)
  <2>1. \A k \in 1..MaxBlocks : /\ Address(A, x2, k) \in Nat
                                /\ (Address(A, x2, k) # 0 <=> k <= n + 1)
    BY <1>1, <1>3 DEF FileMap
  <2>2. \A k \in 1..MaxBlocks : Address(A, x, k) # lba
    BY BlocksByAddress
  <2>3. Distinct(A, x2)
    BY <1>3, <2>2 DEF FileMap, Distinct
  <2> QED BY <1>1, <1>2, <2>1, <2>3 DEF FileMap
<1>5. \A k \in 1..MaxBlocks : k = n + 1 => Address(A, x, k) = 0
  BY <1>1 DEF FileMap
<1>6. n + 1 \in 1..MaxBlocks
  BY <1>1
<1>7. \A l : l \in AllBlocks(A, x2) <=> l \in AllBlocks(A, x) \cup {lba}
  BY <1>2, <1>3, <1>5, <1>6, BlocksByAddress
<1>8. SameAddresses(A, x, A, x2)
  BY <1>3, <1>5 DEF SameAddresses
<1> QED BY <1>4, <1>7, <1>8

(* The first indirect block, with the block that lists it.                 *)
LEMMA MapFirst ==
  ASSUME WithinBounds, NEW A, NEW x, FileMap(A, x, Direct), NEW t \in Blocks, t \notin AllBlocks(A, x),
         NEW lba \in Nat, lba # 0, lba # t, lba \notin AllBlocks(A, x),
         NEW x2, x2.sec = SecWith(x.sec, Direct + 1, t),
         NEW A2, A2[t] = [k \in 1..TableLen |-> IF k = 1 THEN lba ELSE 0]
  PROVE  /\ FileMap(A2, x2, Direct + 1) /\ AllBlocks(A2, x2) = AllBlocks(A, x) \cup {t, lba}
         /\ SameAddresses(A, x, A2, x2)
<1>1. /\ Direct \in Nat /\ Direct >= 1 /\ TableLen \in Nat /\ TableLen >= 1
      /\ MaxBlocks = Direct + TableLen /\ t \in Nat /\ t # 0
  BY Sizes
<1>2. x.sec[Direct + 1] = 0 /\ x2.sec[Direct + 1] = t
  BY <1>1 DEF FileMap, SecWith
<1>3. \A k \in 1..MaxBlocks :
        /\ k <= Direct => Address(A2, x2, k) = Address(A, x, k)
        /\ k = Direct + 1 => Address(A2, x2, k) = lba
        /\ k > Direct + 1 => Address(A2, x2, k) = 0
        /\ k > Direct => Address(A, x, k) = 0
  <2>1. \A k \in 1..MaxBlocks : k <= Direct => Address(A2, x2, k) = Address(A, x, k)
    BY <1>1 DEF Address, SecWith
  <2>2. \A k \in 1..MaxBlocks : k > Direct => Address(A2, x2, k) = A2[t][k - Direct] /\ Address(A, x, k) = 0
    BY <1>1, <1>2 DEF Address
  <2>3. \A k \in 1..MaxBlocks : k > Direct => k - Direct \in 1..TableLen
    BY <1>1
  <2>4. \A j \in 1..TableLen : A2[t][j] = IF j = 1 THEN lba ELSE 0
    OBVIOUS
  <2> SUFFICES ASSUME NEW k \in 1..MaxBlocks
               PROVE  /\ k <= Direct => Address(A2, x2, k) = Address(A, x, k)
                      /\ k = Direct + 1 => Address(A2, x2, k) = lba
                      /\ k > Direct + 1 => Address(A2, x2, k) = 0
                      /\ k > Direct => Address(A, x, k) = 0
    OBVIOUS
  <2>5. k > Direct => Address(A2, x2, k) = IF k - Direct = 1 THEN lba ELSE 0
    BY ONLY k \in 1..MaxBlocks, <2>2, <2>3, <2>4
  <2>6. k \in Int /\ Direct \in Int
    BY <1>1
  <2>7. /\ k = Direct + 1 => k > Direct /\ k - Direct = 1
        /\ k > Direct + 1 => k > Direct /\ k - Direct # 1
    BY ONLY <2>6
  <2>8. k > Direct => Address(A, x, k) = 0
    BY ONLY k \in 1..MaxBlocks, <2>2
  <2>9. k <= Direct => Address(A2, x2, k) = Address(A, x, k)
    BY ONLY k \in 1..MaxBlocks, <2>1
  <2> QED BY ONLY <2>5, <2>7, <2>8, <2>9
<1>4. \A k \in 1..MaxBlocks : k <= Direct => Address(A, x, k) \in Nat /\ Address(A, x, k) # 0 /\ Address(A, x, k) # t
  BY <1>1, BlocksByAddress DEF FileMap
<1>5. FileMap(A2, x2, Direct + 1)
  <2>1. \A k \in 1..MaxBlocks : /\ Address(A2, x2, k) \in Nat
                                /\ (Address(A2, x2, k) # 0 <=> k <= Direct + 1)
                                /\ (Address(A2, x2, k) = t => Address(A2, x2, k) = 0)
    BY <1>1, <1>3, <1>4
  <2>2. A2[t] = [k \in 1..TableLen |-> A2[t][k]]
    OBVIOUS
  <2>3. \A k \in 1..MaxBlocks : Address(A, x, k) # lba
    BY BlocksByAddress
  <2>4. \A k \in 1..MaxBlocks : k <= Direct \/ k = Direct + 1 \/ k > Direct + 1
    BY <1>1
  <2>5. Distinct(A2, x2)
    <3> SUFFICES ASSUME NEW k \in 1..MaxBlocks, NEW j \in 1..MaxBlocks,
                        Address(A2, x2, k) = Address(A2, x2, j), Address(A2, x2, k) # 0
                 PROVE  k = j
      BY DEF Distinct
    <3> QED BY <1>3, <2>3, <2>4 DEF FileMap, Distinct
  <2> QED BY <1>1, <1>2, <2>1, <2>2, <2>5 DEF FileMap
<1>6. \A l : l \in AllBlocks(A2, x2) <=> l \in AllBlocks(A, x) \cup {t, lba}
  <2>1. Direct + 1 \in 1..MaxBlocks
    BY <1>1
  <2>2. \A l : l \in AllBlocks(A2, x2) => l \in AllBlocks(A, x) \cup {t, lba}
    <3> SUFFICES ASSUME NEW k \in 1..MaxBlocks, Address(A2, x2, k) # 0
                 PROVE  Address(A2, x2, k) \in AllBlocks(A, x) \cup {lba}
      BY <1>2, BlocksByAddress
    <3>1. k <= Direct \/ k = Direct + 1 \/ k > Direct + 1
      BY <1>1
    <3> QED BY <1>3, <3>1, BlocksByAddress
  <2>3. \A l : l \in AllBlocks(A, x) => l \in AllBlocks(A2, x2)
    <3> SUFFICES ASSUME NEW k \in 1..MaxBlocks, Address(A, x, k) # 0
                 PROVE  Address(A, x, k) \in AllBlocks(A2, x2)
      BY <1>2, BlocksByAddress
    <3>1. k <= Direct
      BY <1>1, <1>3
    <3> QED BY <1>3, <3>1, BlocksByAddress
  <2>4. t \in AllBlocks(A2, x2) /\ lba \in AllBlocks(A2, x2)
    BY <1>1, <1>2, <1>3, <2>1, BlocksByAddress
  <2> QED BY <2>2, <2>3, <2>4
<1>7. SameAddresses(A, x, A2, x2)
  BY <1>1, <1>3 DEF SameAddresses
<1> QED BY <1>5, <1>6, <1>7

(* One indirect block more.                                                *)
LEMMA MapMore ==
  ASSUME WithinBounds, NEW A, NEW x, NEW n \in Nat, FileMap(A, x, n), n > Direct, n + 1 <= MaxBlocks,
         NEW lba \in Nat, lba # 0, lba \notin AllBlocks(A, x), NEW t, t = x.sec[Direct + 1],
         NEW A2, A2[t] = [k \in 1..TableLen |-> IF k = n + 1 - Direct THEN lba ELSE A[t][k]]
  PROVE  /\ FileMap(A2, x, n + 1) /\ AllBlocks(A2, x) = AllBlocks(A, x) \cup {lba}
         /\ SameAddresses(A, x, A2, x)
<1>1. /\ Direct \in Nat /\ Direct >= 1 /\ TableLen \in Nat /\ TableLen >= 1
      /\ MaxBlocks = Direct + TableLen
  BY Sizes
<1>2. t # 0 /\ t \in Blocks /\ t \in AllBlocks(A, x)
  BY BlocksByAddress DEF FileMap
<1>3. \A k \in 1..MaxBlocks : Address(A2, x, k) = IF k = n + 1 THEN lba ELSE Address(A, x, k)
  <2>1. \A k \in 1..MaxBlocks : k <= Direct => Address(A2, x, k) = Address(A, x, k)
    BY <1>1 DEF Address
  <2>2. \A k \in 1..MaxBlocks : k > Direct => Address(A2, x, k) = A2[t][k - Direct] /\ Address(A, x, k) = A[t][k - Direct]
    BY <1>1, <1>2 DEF Address
  <2>3. \A k \in 1..MaxBlocks : k > Direct => k - Direct \in 1..TableLen
    BY <1>1
  <2>4. \A j \in 1..TableLen : A2[t][j] = IF j = n + 1 - Direct THEN lba ELSE A[t][j]
    OBVIOUS
  <2> SUFFICES ASSUME NEW k \in 1..MaxBlocks
               PROVE  Address(A2, x, k) = IF k = n + 1 THEN lba ELSE Address(A, x, k)
    OBVIOUS
  <2>5. k > Direct => Address(A2, x, k) = IF k - Direct = n + 1 - Direct THEN lba ELSE Address(A, x, k)
    BY ONLY k \in 1..MaxBlocks, <2>2, <2>3, <2>4
  <2>6. k \in Int /\ Direct \in Int /\ n \in Int /\ n > Direct
    BY <1>1
  <2>7. /\ k - Direct = n + 1 - Direct <=> k = n + 1
        /\ k <= Direct => k # n + 1
        /\ k <= Direct \/ k > Direct
    BY ONLY <2>6
  <2>8. k <= Direct => Address(A2, x, k) = Address(A, x, k)
    BY ONLY k \in 1..MaxBlocks, <2>1
  <2> QED BY ONLY <2>5, <2>7, <2>8
<1>4. FileMap(A2, x, n + 1)
  <2>1. \A k \in 1..MaxBlocks : /\ Address(A2, x, k) \in Nat
                                /\ (Address(A2, x, k) # 0 <=> k <= n + 1)
                                /\ (Address(A2, x, k) = t => Address(A2, x, k) = 0)
    <3>1. \A k \in 1..MaxBlocks : /\ Address(A, x, k) \in Nat /\ (Address(A, x, k) # 0 <=> k <= n)
                                  /\ (Address(A, x, k) = t => Address(A, x, k) = 0)
      BY DEF FileMap
    <3>2. lba # t
      BY <1>2
    <3> SUFFICES ASSUME NEW k \in 1..MaxBlocks
                 PROVE  /\ Address(A2, x, k) \in Nat
                        /\ (Address(A2, x, k) # 0 <=> k <= n + 1)
                        /\ (Address(A2, x, k) = t => Address(A2, x, k) = 0)
      OBVIOUS
    <3>3. CASE k = n + 1
      <4>1. Address(A2, x, k) = lba
        BY ONLY <1>3, <3>3, k \in 1..MaxBlocks
      <4>2. k <= n + 1
        BY ONLY <3>3, n \in Nat
      <4> QED BY ONLY <3>2, <4>1, <4>2, lba \in Nat, lba # 0
    <3>4. CASE k # n + 1
      <4>1. Address(A2, x, k) = Address(A, x, k)
        BY ONLY <1>3, <3>4, k \in 1..MaxBlocks
      <4>2. k \in Int
        OBVIOUS
      <4>3. k <= n <=> k <= n + 1
        BY ONLY <3>4, <4>2, n \in Nat
      <4>4. /\ Address(A, x, k) \in Nat /\ (Address(A, x, k) # 0 <=> k <= n)
            /\ (Address(A, x, k) = t => Address(A, x, k) = 0)
        BY ONLY <3>1, k \in 1..MaxBlocks
      <4> QED BY ONLY <4>1, <4>3, <4>4
    <3> QED BY <3>3, <3>4
  <2>2. A2[t] = [k \in 1..TableLen |-> A2[t][k]]
    OBVIOUS
  <2>3. \A k \in 1..MaxBlocks : Address(A, x, k) # lba
    BY BlocksByAddress
  <2>4. Distinct(A2, x)
    BY <1>3, <2>3 DEF FileMap, Distinct
  <2> QED BY <1>1, <1>2, <2>1, <2>2, <2>4 DEF FileMap
<1>5. \A k \in 1..MaxBlocks : k = n + 1 => Address(A, x, k) = 0
  BY <1>1 DEF FileMap
<1>6. n + 1 \in 1..MaxBlocks
  BY <1>1
<1>7. \A l : l \in AllBlocks(A2, x) <=> l \in AllBlocks(A, x) \cup {lba}
  BY <1>3, <1>5, <1>6, BlocksByAddress
<1>8. SameAddresses(A, x, A2, x)
  BY <1>3, <1>5 DEF SameAddresses
<1> QED BY <1>4, <1>7, <1>8

(* A write to another block than the indirect one.                         *)
LEMMA MapData ==
  ASSUME WithinBounds, NEW A, NEW x, NEW n \in Nat, FileMap(A, x, n),
         NEW A2, x.sec[Direct + 1] # 0 => A2[x.sec[Direct + 1]] = A[x.sec[Direct + 1]]
  PROVE  FileMap(A2, x, n) /\ AllBlocks(A2, x) = AllBlocks(A, x) /\ SameAddresses(A, x, A2, x)
<1>1. \A k : Address(A2, x, k) = Address(A, x, k)
  BY DEF Address
<1>2. \A l : l \in AllBlocks(A2, x) <=> l \in AllBlocks(A, x)
  BY <1>1, BlocksByAddress
<1>3. x.sec[Direct + 1] # 0 => A2[x.sec[Direct + 1]] = [k \in 1..TableLen |-> A2[x.sec[Direct + 1]][k]]
  BY DEF FileMap
<1>4. FileMap(A2, x, n)
  BY <1>1, <1>3 DEF FileMap, Distinct
<1> QED BY <1>1, <1>2, <1>4 DEF SameAddresses

\* open_inodes with other addresses in one inode.
IsSec(S) == S = [k \in 1..Direct + 1 |-> S[k]] /\ \A k \in 1..Direct + 1 : S[k] \in Nat
NewSec(open, no, S) == [open EXCEPT ![no].sec = S]

OnlySec(open, op2, no) ==
  /\ op2 = [i \in DOMAIN open |-> op2[i]] /\ DOMAIN op2 = DOMAIN open
  /\ \A i \in DOMAIN open : i # no => op2[i] = open[i]
  /\ op2[no] = Node(open[no].no, open[no].size, op2[no].sec, open[no].cnt, open[no].deny)
  /\ IsSec(op2[no].sec)

(* The addresses in an inode change.                                       *)
LEMMA NewSecFacts ==
  ASSUME NEW open, NEW op1, NEW no \in DOMAIN open, OnlySec(open, op1, no), NEW S, IsSec(S),
         NEW op2, op2 = NewSec(op1, no, S)
  PROVE  OnlySec(open, op2, no) /\ op2[no].sec = S
<1>1. PICK x, y : x = op1[no] /\ y = open[no]
  OBVIOUS
<1>2. x = Node(y.no, y.size, x.sec, y.cnt, y.deny)
  BY <1>1 DEF OnlySec
<1>3. op2 = [op1 EXCEPT ![no] = [x EXCEPT !.sec = S]]
  BY <1>1 DEF NewSec
<1>4. [x EXCEPT !.sec = S] = Node(y.no, y.size, S, y.cnt, y.deny)
  BY <1>2, NodeChanges
<1>5. PICK z : z = Node(y.no, y.size, S, y.cnt, y.deny)
  OBVIOUS
<1>6. z.sec = S
  BY <1>5, NodeChanges
<1>7. op2 = [op1 EXCEPT ![no] = z] /\ DOMAIN op1 = DOMAIN open
  BY <1>3, <1>4, <1>5 DEF OnlySec
<1>8. op2[no] = z /\ \A i \in DOMAIN open : i # no => op2[i] = op1[i]
  BY <1>7
<1>9. op2 = [i \in DOMAIN open |-> op2[i]]
  BY <1>7
<1> QED BY <1>1, <1>5, <1>6, <1>7, <1>8, <1>9 DEF OnlySec

\* The file no grows in memory to n blocks: its blocks are its own.
Growing(f0, f, no, n) ==
  /\ f.panic = "none" /\ DiskShape(f) /\ BitsOK(f) /\ f.ibits = f0.ibits /\ f0.bbits \subseteq f.bbits
  /\ NodesOf(f) = NodesOf(f0)
  /\ no \in DOMAIN f0.open /\ OnlySec(f0.open, f.open, no)
  /\ FileMap(DataOf(f), f.open[no], n)
  /\ Apart(AllBlocks(DataOf(f), f.open[no]), NodesOf(f0), DataOf(f0), f0.ibits \ {no}, f.bbits)
  /\ \A l \in Blocks : l \notin AllBlocks(DataOf(f), f.open[no]) => DataOf(f)[l] = DataOf(f0)[l]

\* The bytes the file has stay.
KeepsBytes(f, g, no) ==
  \A pos : HasByte(DataOf(f), f.open[no], no, pos) => HasByte(DataOf(g), g.open[no], no, pos)

(* The blocks of a file before it grows.                                   *)
LEMMA GrowingStart ==
  ASSUME WithinBounds, NEW f, NEW D, Good(f, D), f.panic = "none", NEW no \in f.ibits \ D, no \in DOMAIN f.open
  PROVE  Growing(f, f, no, FileBlocks(f.open[no].size))
<1>1. PICK V, A, N, x, y : V = NodesOf(f) /\ A = DataOf(f) /\ N = f.ibits /\ x = f.open[no] /\ y = V[no]
  OBVIOUS
<1>2. IsTree(V, A, N, D, f.bbits) /\ OpenOK(V, N, f.open) /\ DiskShape(f) /\ BitsOK(f)
  BY <1>1 DEF Good
<1>3. IsNode(y, no) /\ IsRegular(A, y) /\ BlocksOK(V, A, N, f.bbits)
  BY <1>1, <1>2 DEF IsTree
<1>4. IsOpen(x, y) /\ f.open = [i \in DOMAIN f.open |-> f.open[i]]
  BY <1>1, <1>2 DEF OpenOK
<1>5. x.sec = y.sec /\ x.size = y.size /\ x = Node(x.no, x.size, x.sec, x.cnt, x.deny)
  BY <1>4, IsOpenFacts
<1>6. IsSec(x.sec)
  BY <1>3, <1>5 DEF IsNode, IsSec
<1>7. OnlySec(f.open, f.open, no)
  BY <1>1, <1>4, <1>5, <1>6 DEF OnlySec
<1>8. FileMap(A, x, FileBlocks(x.size)) /\ AllBlocks(A, x) = AllBlocks(A, y)
  <2>1. FileMap(A, y, FileBlocks(y.size))
    BY <1>3, RegularMap
  <2>2. \A k : Address(A, x, k) = Address(A, y, k)
    BY <1>5 DEF Address
  <2> QED BY <1>5, <2>1, <2>2 DEF FileMap, Distinct, AllBlocks, BlocksIn
<1>9. Apart(AllBlocks(A, x), V, A, N \ {no}, f.bbits)
  BY <1>1, <1>3, <1>8 DEF BlocksOK, Apart, NotOf
<1> QED BY <1>1, <1>2, <1>7, <1>8, <1>9 DEF Growing

(* A block whose bit was free belongs to no file.                          *)
LEMMA GrowingApart ==
  ASSUME WithinBounds, NEW f0, NEW D, Good(f0, D), NEW f, NEW no, NEW n, Growing(f0, f, no, n),
         NEW lba \in Nat, lba >= data_start_lba, lba - data_start_lba \notin f.bbits
  PROVE  /\ lba \notin AllBlocks(DataOf(f), f.open[no]) /\ lba # 0 /\ lba # data_start_lba
         /\ NotOf(lba, NodesOf(f0), DataOf(f0), f0.ibits \ {no})
<1>1. lba - data_start_lba \notin f0.bbits
  BY DEF Growing
<1>2. NotOf(lba, NodesOf(f0), DataOf(f0), f0.ibits) /\ lba # data_start_lba
  BY <1>1, BlockApart DEF Good
<1>3. lba \notin AllBlocks(DataOf(f), f.open[no])
  BY DEF Growing, Apart, IsTaken
<1> QED BY <1>2, <1>3, Sizes DEF NotOf

(* A direct block is added.                                                *)
LEMMA GrowDirect ==
  ASSUME WithinBounds, NEW f0, NEW D, Good(f0, D), NEW f, NEW no, NEW n \in Nat, Growing(f0, f, no, n),
         n + 1 <= Direct, NEW b, BlockTaken(f, b), NEW g, SameDisk(b.fs, g), g.panic = "none",
         g.bbits = b.fs.bbits, g.ibits = b.fs.ibits,
         NEW S, S = SecWith(f.open[no].sec, n + 1, b.lba), g.open = NewSec(b.fs.open, no, S)
  PROVE  Growing(f0, g, no, n + 1) /\ KeepsBytes(f, g, no)
<1>1. PICK A, x, x2, lba, op1, op2 :
         /\ A = DataOf(f) /\ x = f.open[no] /\ x2 = g.open[no] /\ lba = b.lba
         /\ op1 = f.open /\ op2 = g.open
  OBVIOUS
<1>2. /\ b.fs.panic = "none" /\ Quiet(f, b.fs) /\ BitsOK(b.fs) /\ b.fs.open = op1 /\ b.fs.ibits = f.ibits
      /\ lba \in Nat /\ lba >= data_start_lba /\ lba - data_start_lba \notin f.bbits
      /\ b.fs.bbits = f.bbits \cup {lba - data_start_lba}
  BY <1>1 DEF BlockTaken
<1>3. /\ lba \notin AllBlocks(A, x) /\ lba # 0
      /\ NotOf(lba, NodesOf(f0), DataOf(f0), f0.ibits \ {no})
  BY <1>1, <1>2, GrowingApart
<1>4. /\ no \in DOMAIN f0.open /\ OnlySec(f0.open, op1, no) /\ FileMap(A, x, n)
      /\ Apart(AllBlocks(A, x), NodesOf(f0), DataOf(f0), f0.ibits \ {no}, f.bbits)
      /\ \A l \in Blocks : l \notin AllBlocks(A, x) => A[l] = DataOf(f0)[l]
      /\ BitsOK(f) /\ f.ibits = f0.ibits /\ f0.bbits \subseteq f.bbits /\ NodesOf(f) = NodesOf(f0)
  BY <1>1 DEF Growing
<1>5. IsSec(S)
  <2>1. IsSec(x.sec)
    BY <1>1, <1>4 DEF OnlySec
  <2> QED BY <1>1, <1>2, <2>1 DEF IsSec, SecWith
<1>6. OnlySec(f0.open, op2, no) /\ x2.sec = S
  <2>1. op2 = NewSec(op1, no, S)
    BY <1>1, <1>2
  <2>2. OnlySec(f0.open, op2, no) /\ op2[no].sec = S
    BY <1>4, <1>5, <2>1, NewSecFacts
  <2> QED BY <1>1, <2>2
<1>7. DiskShape(g) /\ NodesOf(g) = NodesOf(f) /\ DataOf(g) = A
  BY <1>1, <1>2, QuietMemory DEF Quiet
<1>8. /\ FileMap(A, x2, n + 1) /\ AllBlocks(A, x2) = AllBlocks(A, x) \cup {lba}
      /\ SameAddresses(A, x, A, x2)
  <2>1. x2.sec = SecWith(x.sec, n + 1, lba)
    BY <1>1, <1>6
  <2> QED BY <1>2, <1>3, <1>4, <2>1, MapDirect
<1>9. Apart(AllBlocks(A, x2), NodesOf(f0), DataOf(f0), f0.ibits \ {no}, g.bbits)
  BY <1>2, <1>3, <1>4, <1>8 DEF Apart, IsTaken
<1>10. BitsOK(g) /\ f0.bbits \subseteq g.bbits /\ g.ibits = f0.ibits
  BY <1>2, <1>4 DEF BitsOK
<1>11. KeepsBytes(f, g, no)
  <2>1. \A pos : HasByte(A, x, no, pos) => HasByte(A, x2, no, pos)
    BY <1>8, ByteStays
  <2> QED BY <1>1, <1>7, <2>1 DEF KeepsBytes
<1> QED BY <1>1, <1>4, <1>6, <1>7, <1>8, <1>9, <1>10, <1>11 DEF Growing

\* The indirect block t has been written, and the file has n blocks.
GrownTo(f0, f, g, no, n, open, t, T) ==
  /\ g.panic \in {"none", "outside"}
  /\ g.panic = "none" => /\ Growing(f0, g, no, n) /\ KeepsBytes(f, g, no)
                         /\ g.open = open /\ DataOf(g)[t] = T

(* The indirect block is written for its first block.                      *)
LEMMA GrowFirst ==
  ASSUME WithinBounds, NEW f0, NEW D, Good(f0, D), NEW f, NEW no, Growing(f0, f, no, Direct),
         NEW a, BlockTaken(f, a), NEW f1, SameDisk(a.fs, f1), f1.panic = "none",
         f1.bbits = a.fs.bbits, f1.ibits = a.fs.ibits,
         NEW S, S = SecWith(f.open[no].sec, Direct + 1, a.lba), f1.open = NewSec(a.fs.open, no, S),
         NEW b, BlockTaken(f1, b), NEW T, T = [k \in 1..TableLen |-> IF k = 1 THEN b.lba ELSE 0],
         NEW g, g = ide_write(b.fs, a.lba, T)
  PROVE  GrownTo(f0, f, g, no, Direct + 1, f1.open, a.lba, T)
<1>1. PICK A, x, x2, t, lba, op1, op2, h :
         /\ A = DataOf(f) /\ x = f.open[no] /\ x2 = f1.open[no] /\ t = a.lba /\ lba = b.lba
         /\ op1 = f.open /\ op2 = f1.open /\ h = b.fs
  OBVIOUS
<1>2. /\ a.fs.panic = "none" /\ Quiet(f, a.fs) /\ BitsOK(a.fs) /\ a.fs.open = op1 /\ a.fs.ibits = f.ibits
      /\ t \in Nat /\ t >= data_start_lba /\ t - data_start_lba \notin f.bbits
      /\ a.fs.bbits = f.bbits \cup {t - data_start_lba}
  BY <1>1 DEF BlockTaken
<1>3. /\ h.panic = "none" /\ Quiet(f1, h) /\ BitsOK(h) /\ h.open = op2 /\ h.ibits = f1.ibits
      /\ lba \in Nat /\ lba >= data_start_lba /\ lba - data_start_lba \notin f1.bbits
      /\ h.bbits = f1.bbits \cup {lba - data_start_lba}
  BY <1>1 DEF BlockTaken
<1>4. /\ no \in DOMAIN f0.open /\ OnlySec(f0.open, op1, no) /\ FileMap(A, x, Direct)
      /\ Apart(AllBlocks(A, x), NodesOf(f0), DataOf(f0), f0.ibits \ {no}, f.bbits)
      /\ \A l \in Blocks : l \notin AllBlocks(A, x) => A[l] = DataOf(f0)[l]
      /\ f.ibits = f0.ibits /\ f0.bbits \subseteq f.bbits /\ NodesOf(f) = NodesOf(f0)
  BY <1>1 DEF Growing
<1>5. /\ t \notin AllBlocks(A, x) /\ t # 0
      /\ NotOf(t, NodesOf(f0), DataOf(f0), f0.ibits \ {no})
  BY <1>1, <1>2, GrowingApart
<1>6. /\ lba \notin AllBlocks(A, x) /\ lba # 0 /\ lba # t
      /\ NotOf(lba, NodesOf(f0), DataOf(f0), f0.ibits \ {no})
  <2>1. lba - data_start_lba \notin f.bbits /\ lba # t
    BY <1>2, <1>3, Sizes
  <2> QED BY <1>1, <1>3, <2>1, GrowingApart
<1>7. IsSec(S)
  <2>1. IsSec(x.sec)
    BY <1>1, <1>4 DEF OnlySec
  <2> QED BY <1>1, <1>2, <2>1 DEF IsSec, SecWith
<1>8. OnlySec(f0.open, op2, no) /\ x2.sec = S
  <2>1. op2 = NewSec(op1, no, S)
    BY <1>1, <1>2
  <2>2. OnlySec(f0.open, op2, no) /\ op2[no].sec = S
    BY <1>4, <1>7, <2>1, NewSecFacts
  <2> QED BY <1>1, <2>2
<1>9. DiskShape(h) /\ NodesOf(h) = NodesOf(f) /\ DataOf(h) = A
  <2>1. Quiet(a.fs, f1)
    BY <1>2, QuietMemory DEF Quiet
  <2> QED BY <1>1, <1>2, <1>3, <2>1 DEF Quiet
<1>10. /\ g.panic \in {"none", "outside"}
       /\ g.open = op2 /\ g.bbits = h.bbits /\ g.ibits = h.ibits
       /\ g.panic = "none" => /\ t \in Blocks /\ DiskShape(g) /\ NodesOf(g) = NodesOf(h)
                              /\ DataOf(g) = Changed(A, t, T)
  <2>1. IsSector(T)
    BY Sizes DEF IsSector
  <2>2. DiskShape(h) /\ h.panic = "none" /\ t \in Nat /\ t >= data_start_lba
    BY <1>2, <1>3, <1>9
  <2>3. PICK g2 : g2 = ide_write(h, t, T)
    OBVIOUS
  <2>4. g2 = g
    BY <1>1, <2>3
  <2>5. /\ g2.panic \in {"none", "outside"}
        /\ g2.open = h.open /\ g2.bbits = h.bbits /\ g2.ibits = h.ibits
        /\ g2.panic = "none" => /\ t \in Blocks /\ DiskShape(g2) /\ NodesOf(g2) = NodesOf(h)
                                /\ DataOf(g2) = Changed(DataOf(h), t, T)
    BY ONLY WithinBounds, <2>1, <2>2, <2>3, DataEffect
  <2> QED BY ONLY <1>3, <1>9, <2>4, <2>5
<1>11. ASSUME g.panic = "none"
       PROVE  /\ Growing(f0, g, no, Direct + 1) /\ KeepsBytes(f, g, no)
              /\ g.open = op2 /\ DataOf(g)[t] = T
  <2>1. PICK A2 : A2 = DataOf(g)
    OBVIOUS
  <2>2. A2[t] = T /\ \A l \in Blocks : l # t => A2[l] = A[l]
    <3>1. A = [l \in Blocks |-> A[l]]
      BY <1>1 DEF DataOf
    <3> QED BY <1>10, <1>11, <2>1, <3>1 DEF Changed
  <2>3. /\ FileMap(A2, x2, Direct + 1) /\ AllBlocks(A2, x2) = AllBlocks(A, x) \cup {t, lba}
        /\ SameAddresses(A, x, A2, x2)
    <3>1. t \in Blocks
      BY <1>10, <1>11
    <3>2. x2.sec = SecWith(x.sec, Direct + 1, t)
      BY <1>1, <1>8
    <3>3. A2[t] = [k \in 1..TableLen |-> IF k = 1 THEN lba ELSE 0]
      BY <1>1, <2>2
    <3> QED BY <1>3, <1>4, <1>5, <1>6, <3>1, <3>2, <3>3, MapFirst
  <2>4. g.bbits = f.bbits \cup {t - data_start_lba} \cup {lba - data_start_lba}
    BY <1>2, <1>3, <1>10
  <2>5. Apart(AllBlocks(A2, x2), NodesOf(f0), DataOf(f0), f0.ibits \ {no}, g.bbits)
    BY <1>2, <1>3, <1>4, <1>5, <1>6, <2>3, <2>4 DEF Apart, IsTaken
  <2>6. BitsOK(g) /\ f0.bbits \subseteq g.bbits /\ g.ibits = f0.ibits
    BY <1>2, <1>3, <1>4, <1>10, <2>4 DEF BitsOK
  <2>7. \A l \in Blocks : l \notin AllBlocks(A2, x2) => A2[l] = DataOf(f0)[l]
    BY <1>4, <2>2, <2>3
  <2>8. NodesOf(g) = NodesOf(f0) /\ DiskShape(g) /\ g.open[no] = x2
    BY <1>1, <1>4, <1>9, <1>10, <1>11
  <2>9. KeepsBytes(f, g, no)
    <3>1. \A l \in BlocksIn(A, x) \cap Blocks : A2[l] = A[l]
      BY <1>5, <2>2 DEF AllBlocks
    <3>2. \A pos : HasByte(A, x, no, pos) => HasByte(A2, x2, no, pos)
      BY <2>3, <3>1, ByteStays
    <3> QED BY <1>1, <2>1, <2>8, <3>2 DEF KeepsBytes
  <2> QED BY <1>4, <1>8, <1>10, <1>11, <2>1, <2>2, <2>3, <2>5, <2>6, <2>7, <2>8, <2>9 DEF Growing
<1> QED BY <1>1, <1>10, <1>11 DEF GrownTo

\* An indirect block with another address.
TableWith(s, i, lba) == [k \in 1..TableLen |-> IF k = i THEN lba ELSE s[k]]

(* The indirect block is written again for one block more.                 *)
LEMMA GrowMore ==
  ASSUME WithinBounds, NEW f0, NEW D, Good(f0, D), NEW f, NEW no, NEW n \in Nat, Growing(f0, f, no, n),
         n > Direct, n + 1 <= MaxBlocks, NEW b, BlockTaken(f, b), NEW t, t = f.open[no].sec[Direct + 1],
         NEW T, T = TableWith(DataOf(f)[t], n + 1 - Direct, b.lba),
         NEW g, g = ide_write(b.fs, t, T)
  PROVE  GrownTo(f0, f, g, no, n + 1, f.open, t, T)
<1>1. PICK A, x, lba, op1, h :
         /\ A = DataOf(f) /\ x = f.open[no] /\ lba = b.lba /\ op1 = f.open /\ h = b.fs
  OBVIOUS
<1>3. /\ h.panic = "none" /\ Quiet(f, h) /\ BitsOK(h) /\ h.open = op1 /\ h.ibits = f.ibits
      /\ lba \in Nat /\ lba >= data_start_lba /\ lba - data_start_lba \notin f.bbits
      /\ h.bbits = f.bbits \cup {lba - data_start_lba}
  BY <1>1 DEF BlockTaken
<1>4. /\ no \in DOMAIN f0.open /\ OnlySec(f0.open, op1, no) /\ FileMap(A, x, n)
      /\ Apart(AllBlocks(A, x), NodesOf(f0), DataOf(f0), f0.ibits \ {no}, f.bbits)
      /\ \A l \in Blocks : l \notin AllBlocks(A, x) => A[l] = DataOf(f0)[l]
      /\ f.ibits = f0.ibits /\ f0.bbits \subseteq f.bbits /\ NodesOf(f) = NodesOf(f0)
  BY <1>1 DEF Growing
<1>5. t \in Blocks /\ t # 0 /\ t \in AllBlocks(A, x) /\ t \in Nat /\ t >= data_start_lba
  <2>1. t # 0 /\ t \in Blocks
    BY <1>1, <1>4 DEF FileMap
  <2>2. t \in Nat /\ t >= data_start_lba
    BY <2>1, Sizes DEF Blocks
  <2> QED BY <1>1, <2>1, <2>2, BlocksByAddress
<1>6. /\ lba \notin AllBlocks(A, x) /\ lba # 0
      /\ NotOf(lba, NodesOf(f0), DataOf(f0), f0.ibits \ {no})
  BY <1>1, <1>3, GrowingApart
<1>9. DiskShape(h) /\ NodesOf(h) = NodesOf(f) /\ DataOf(h) = A
  BY <1>1, <1>3 DEF Quiet
<1>10. /\ g.panic \in {"none", "outside"}
       /\ g.open = op1 /\ g.bbits = h.bbits /\ g.ibits = h.ibits
       /\ g.panic = "none" => /\ DiskShape(g) /\ NodesOf(g) = NodesOf(h)
                              /\ DataOf(g) = Changed(A, t, T)
  <2>1. IsSector(T)
    BY Sizes DEF IsSector, TableWith
  <2>2. DiskShape(h) /\ h.panic = "none" /\ t \in Nat /\ t >= data_start_lba
    BY <1>3, <1>5, <1>9
  <2>3. PICK g2 : g2 = ide_write(h, t, T)
    OBVIOUS
  <2>4. g2 = g
    BY <1>1, <2>3
  <2>5. /\ g2.panic \in {"none", "outside"}
        /\ g2.open = h.open /\ g2.bbits = h.bbits /\ g2.ibits = h.ibits
        /\ g2.panic = "none" => /\ t \in Blocks /\ DiskShape(g2) /\ NodesOf(g2) = NodesOf(h)
                                /\ DataOf(g2) = Changed(DataOf(h), t, T)
    BY ONLY WithinBounds, <2>1, <2>2, <2>3, DataEffect
  <2> QED BY ONLY <1>3, <1>9, <2>4, <2>5
<1>11. ASSUME g.panic = "none"
       PROVE  /\ Growing(f0, g, no, n + 1) /\ KeepsBytes(f, g, no)
              /\ g.open = op1 /\ DataOf(g)[t] = T
  <2>1. PICK A2 : A2 = DataOf(g)
    OBVIOUS
  <2>2. A2[t] = T /\ \A l \in Blocks : l # t => A2[l] = A[l]
    <3>1. A = [l \in Blocks |-> A[l]]
      BY <1>1 DEF DataOf
    <3> QED BY <1>5, <1>10, <1>11, <2>1, <3>1, Zenon DEF Changed
  <2>3. /\ FileMap(A2, x, n + 1) /\ AllBlocks(A2, x) = AllBlocks(A, x) \cup {lba}
        /\ SameAddresses(A, x, A2, x)
    <3>1. A2[t] = [k \in 1..TableLen |-> IF k = n + 1 - Direct THEN lba ELSE A[t][k]]
      BY <1>1, <2>2 DEF TableWith
    <3>2. t = x.sec[Direct + 1]
      BY <1>1
    <3> QED BY <1>3, <1>4, <1>6, <3>1, <3>2, MapMore
  <2>4. g.bbits = f.bbits \cup {lba - data_start_lba}
    BY <1>3, <1>10, Zenon
  <2>5. Apart(AllBlocks(A2, x), NodesOf(f0), DataOf(f0), f0.ibits \ {no}, g.bbits)
    BY <1>3, <1>4, <1>6, <2>3, <2>4 DEF Apart, IsTaken
  <2>6. BitsOK(g) /\ f0.bbits \subseteq g.bbits /\ g.ibits = f0.ibits
    BY <1>3, <1>4, <1>10, <2>4, Zenon DEF BitsOK
  <2>7. \A l \in Blocks : l \notin AllBlocks(A2, x) => A2[l] = DataOf(f0)[l]
    BY <1>4, <1>5, <2>2, <2>3
  <2>8. NodesOf(g) = NodesOf(f0) /\ DiskShape(g) /\ g.open[no] = x
    BY <1>1, <1>4, <1>9, <1>10, <1>11, Zenon
  <2>9. KeepsBytes(f, g, no)
    <3>1. t \notin BlocksIn(A, x)
      BY <1>1, <1>4 DEF FileMap, BlocksIn
    <3>2. \A l \in BlocksIn(A, x) \cap Blocks : A2[l] = A[l]
      BY <2>2, <3>1
    <3>3. \A pos : HasByte(A, x, no, pos) => HasByte(A2, x, no, pos)
      BY <2>3, <3>2, ByteStays
    <3> QED BY <1>1, <2>1, <2>8, <3>3 DEF KeepsBytes
  <2> QED BY <1>4, <1>10, <1>11, <2>1, <2>2, <2>3, <2>5, <2>6, <2>7, <2>8, <2>9, Zenon DEF Growing
<1> QED BY <1>1, <1>10, <1>11, Zenon DEF GrownTo

\* Block k of the file has new bytes, and the others have theirs.
BytesPut(f, g, no, k, s) ==
  \A pos : \/ HasByte(DataOf(f), f.open[no], no, pos) /\ pos \div BlockSize + 1 # k
           \/ s[(pos % BlockSize) + 1] = Byte(no, pos) /\ pos \div BlockSize + 1 = k
           => HasByte(DataOf(g), g.open[no], no, pos)

(* The bytes of one block are written.                                     *)
LEMMA GrowData ==
  ASSUME WithinBounds, NEW f0, NEW f, NEW no, NEW n \in Nat, Growing(f0, f, no, n),
         NEW k \in 1..MaxBlocks, k <= n, NEW lba, lba = Address(DataOf(f), f.open[no], k), NEW s, IsSector(s),
         NEW g, g = ide_write(f, lba, s)
  PROVE  /\ g.panic \in {"none", "outside"} /\ g.open = f.open
         /\ g.panic = "none" => /\ Growing(f0, g, no, n) /\ BytesPut(f, g, no, k, s)
                                /\ \A i : Address(DataOf(g), g.open[no], i) = Address(DataOf(f), f.open[no], i)
<1>1. PICK A, x, t : A = DataOf(f) /\ x = f.open[no] /\ t = x.sec[Direct + 1]
  OBVIOUS
<1>4. /\ f.panic = "none" /\ DiskShape(f)
      /\ FileMap(A, x, n)
      /\ Apart(AllBlocks(A, x), NodesOf(f0), DataOf(f0), f0.ibits \ {no}, f.bbits)
      /\ \A l \in Blocks : l \notin AllBlocks(A, x) => A[l] = DataOf(f0)[l]
  BY <1>1 DEF Growing
<1>5. lba # 0 /\ lba # t /\ lba \in AllBlocks(A, x)
  BY <1>1, <1>4, BlocksByAddress DEF FileMap
<1>6. lba \in Nat /\ lba >= data_start_lba
  BY <1>4, <1>5 DEF Apart, IsTaken
<1>7. /\ g.panic \in {"none", "outside"}
      /\ g.open = f.open /\ g.bbits = f.bbits /\ g.ibits = f.ibits
      /\ g.panic = "none" => /\ lba \in Blocks /\ DiskShape(g) /\ NodesOf(g) = NodesOf(f)
                             /\ DataOf(g) = Changed(A, lba, s)
  BY <1>1, <1>4, <1>6, DataEffect
<1>8. ASSUME g.panic = "none"
      PROVE  /\ Growing(f0, g, no, n) /\ BytesPut(f, g, no, k, s)
             /\ \A i : Address(DataOf(g), g.open[no], i) = Address(DataOf(f), f.open[no], i)
  <2>1. PICK A2 : A2 = DataOf(g)
    OBVIOUS
  <2>2. A2[lba] = s /\ \A l \in Blocks : l # lba => A2[l] = A[l]
    <3>1. A = [l \in Blocks |-> A[l]]
      BY <1>1 DEF DataOf
    <3> QED BY <1>7, <1>8, <2>1, <3>1 DEF Changed
  <2>3. t # 0 => A2[t] = A[t]
    BY <1>1, <1>4, <1>5, <2>2 DEF FileMap
  <2>4. FileMap(A2, x, n) /\ AllBlocks(A2, x) = AllBlocks(A, x)
    BY <1>1, <1>4, <2>3, MapData
  <2>5. \A i : Address(A2, x, i) = Address(A, x, i)
    BY <1>1, <2>3 DEF Address
  <2>6. \A l \in Blocks : l \notin AllBlocks(A2, x) => A2[l] = DataOf(f0)[l]
    BY <1>4, <1>5, <2>2, <2>4
  <2>7. Growing(f0, g, no, n)
    BY <1>1, <1>7, <1>8, <2>1, <2>4, <2>6 DEF Growing, BitsOK
  <2>8. ASSUME NEW pos, HasByte(A, x, no, pos), pos \div BlockSize + 1 # k
        PROVE  HasByte(A2, x, no, pos)
    <3>1. PICK j, l : j = pos \div BlockSize + 1 /\ l = Address(A, x, j)
      OBVIOUS
    <3>2. j \in 1..MaxBlocks /\ l \in Blocks /\ A[l][(pos % BlockSize) + 1] = Byte(no, pos)
      BY <2>8, <3>1 DEF HasByte
    <3>3. l # lba
      BY <1>1, <1>4, <1>5, <2>8, <3>1, <3>2 DEF FileMap, Distinct
    <3>4. A2[l] = A[l] /\ Address(A2, x, j) = l
      BY <2>2, <2>5, <3>1, <3>2, <3>3
    <3> QED BY ONLY <3>1, <3>2, <3>4 DEF HasByte
  <2>9. ASSUME NEW pos, s[(pos % BlockSize) + 1] = Byte(no, pos), pos \div BlockSize + 1 = k
        PROVE  HasByte(A2, x, no, pos)
    BY <1>1, <1>7, <1>8, <2>2, <2>5, <2>9 DEF HasByte
  <2>10. BytesPut(f, g, no, k, s)
    BY <1>1, <1>7, <2>1, <2>8, <2>9 DEF BytesPut
  <2> QED BY <1>1, <1>7, <2>1, <2>5, <2>7, <2>10
<1> QED BY <1>7, <1>8

(* The blocks of a file before a write.                                    *)
LEMMA OwnBlocksFacts ==
  ASSUME WithinBounds, NEW f0, NEW f, NEW no, NEW n, Growing(f0, f, no, n), NEW m, m = OwnBlocks(f, no)
  PROVE  /\ IsBlocks(m) /\ m.fs = f
         /\ m.blk = [k \in 1..MaxBlocks |-> Address(DataOf(f), f.open[no], k)]
<1>1. PICK x : x = f.open[no]
  OBVIOUS
<1>2. x.sec[Direct + 1] = 0 \/ x.sec[Direct + 1] \in Blocks
  BY <1>1 DEF Growing, FileMap
<1>3. \A k \in 1..MaxBlocks : Address(f.disk, x, k) = Address(DataOf(f), x, k)
  BY <1>2, BlocksOfData
<1>4. all_blocks_lba(f, x) = [k \in 1..MaxBlocks |-> Address(f.disk, x, k)]
  BY DEF all_blocks_lba, Address
<1>5. m = [fs |-> f, blk |-> all_blocks_lba(f, x)]
  BY <1>1 DEF OwnBlocks
<1>6. IsFs(f)
  BY DEF Growing, DiskShape
<1>7. m.fs = f /\ m.blk = all_blocks_lba(f, x) /\ m = [fs |-> m.fs, blk |-> m.blk]
  BY ONLY <1>5
<1> QED BY ONLY <1>1, <1>3, <1>4, <1>6, <1>7 DEF IsBlocks

(* A write allocates one block.                                            *)
LEMMA OneNewBlock ==
  ASSUME NEW m, IsBlocks(m), NEW has \in Nat, NEW a, a = AllocSynced(m.fs),
         NEW h, h = NewBlocks(m, has, has + 1)
  PROVE  IsBlocks(h) /\ h.fs = a.fs /\ h.blk = [m.blk EXCEPT ![has + 1] = a.lba]
<1>1. PICK got : Got(got, m, has, has + 1) /\ h = got[has + 1]
  <2>1. PICK got : got = CHOOSE x : Got(x, m, has, has + 1)
    OBVIOUS
  <2>2. Got(got, m, has, has + 1)
    BY <2>1, GotExist
  <2>3. h = (CHOOSE x : Got(x, m, has, has + 1))[has + 1]
    BY DEF NewBlocks, Got
  <2> QED BY <2>1, <2>2, <2>3
<1>2. got[has] = m
  BY <1>1 DEF Got
<1>3. got[has + 1] = Listed(got[has], AllocSynced(got[has].fs), has + 1)
  <2>1. has + 1 # has /\ (has + 1) - 1 = has /\ has + 1 \in has..has + 1
    OBVIOUS
  <2> QED BY <1>1, <2>1 DEF Got
<1>4. h = [fs |-> a.fs, blk |-> [m.blk EXCEPT ![has + 1] = a.lba]]
  BY <1>1, <1>2, <1>3 DEF Listed
<1>5. IsFs(a.fs)
  <2>1. PICK bit : bit = FirstFree(m.fs.bbits, block_bitmap_len)
    OBVIOUS
  <2>2. IsFs(m.fs)
    BY DEF IsBlocks
  <2> QED BY <2>1, <2>2, AllocFollows DEF Follows
<1>6. h.fs = a.fs /\ h.blk = [m.blk EXCEPT ![has + 1] = a.lba] /\ h = [fs |-> h.fs, blk |-> h.blk]
  BY ONLY <1>4
<1> QED BY ONLY <1>5, <1>6 DEF IsBlocks

\* The addresses of an inode with those at ks taken from blk.
SecFrom(S, blk, ks) == [k \in 1..Direct + 1 |-> IF k \in ks THEN blk[k] ELSE S[k]]

InodeEntered(m, g, no, S) ==
  /\ IsBlocks(g) /\ g.blk = m.blk /\ SameDisk(m.fs, g.fs) /\ g.fs.panic = m.fs.panic
  /\ g.fs.bbits = m.fs.bbits /\ g.fs.ibits = m.fs.ibits
  /\ g.fs.open = NewSec(m.fs.open, no, S)

(* New addresses enter the inode.                                          *)
LEMMA InInodeEffect ==
  ASSUME NEW m, IsBlocks(m), NEW open, open = m.fs.open, NEW no \in DOMAIN open,
         NEW x, x = open[no], IsInode(x), IsSec(x.sec),
         NEW ks, NEW g, g = InInode(m, no, ks), NEW S, S = SecFrom(x.sec, m.blk, ks)
  PROVE  InodeEntered(m, g, no, S)
<1>1. PICK op2 : op2 = NewSec(open, no, S)
  OBVIOUS
<1>2. PICK h : h = [m.fs EXCEPT !.open = op2]
  OBVIOUS
<1>3. DOMAIN x.sec = 1..Direct + 1
  BY DEF IsSec
<1>4. g = [m EXCEPT !.fs = h]
  BY <1>1, <1>2, <1>3 DEF InInode, NewSec, SecFrom
<1>5. g = [fs |-> h, blk |-> m.blk]
  BY ONLY <1>4, IsBlocks(m) DEF IsBlocks
<1>6. g.fs = h /\ g.blk = m.blk /\ g = [fs |-> g.fs, blk |-> g.blk]
  BY ONLY <1>5
<1>7. IsFs(m.fs)
  BY DEF IsBlocks
<1>8. SameDisk(m.fs, h) /\ h.panic = m.fs.panic /\ h.open = op2 /\ h.bbits = m.fs.bbits /\ h.ibits = m.fs.ibits
  BY ONLY <1>2, <1>7, OpenFollows
<1>9. IsFs(h)
  BY <1>8 DEF SameDisk
<1> QED BY ONLY open = m.fs.open, <1>1, <1>6, <1>8, <1>9 DEF IsBlocks, InodeEntered

\* A write has its blocks, or the kernel has stopped.
BlocksMade(f0, f, m, no, will) ==
  /\ IsBlocks(m) /\ Follows(f, m.fs) /\ m.fs.panic \in {"none", "full", "outside"}
  /\ m.fs.panic = "none" =>
       /\ Growing(f0, m.fs, no, will)
       /\ \A k \in 1..will : m.blk[k] = Address(DataOf(m.fs), m.fs.open[no], k)

BytesStay(f, m, no) == m.fs.panic = "none" => KeepsBytes(f, m.fs, no)

(* The inode of a file that grows.                                         *)
LEMMA GrowingNode ==
  ASSUME WithinBounds, NEW f0, NEW D, Good(f0, D), NEW f, NEW no, NEW n, Growing(f0, f, no, n),
         NEW x, x = f.open[no]
  PROVE  /\ no \in DOMAIN f.open /\ f.open = [i \in DOMAIN f.open |-> f.open[i]]
         /\ IsInode(x) /\ IsSec(x.sec) /\ DiskShape(f) /\ BitsOK(f) /\ f.panic = "none"
         /\ FileMap(DataOf(f), x, n) /\ OnlySec(f0.open, f.open, no)
<1>1. OnlySec(f0.open, f.open, no) /\ no \in DOMAIN f0.open
  BY DEF Growing
<1>2. IsInode(x)
  <2>1. PICK y : y = f0.open[no]
    OBVIOUS
  <2>2. x = Node(y.no, y.size, x.sec, y.cnt, y.deny)
    BY <1>1, <2>1 DEF OnlySec
  <2>3. x.no = y.no /\ x.size = y.size /\ x.cnt = y.cnt /\ x.deny = y.deny
    BY <2>2, NodeChanges
  <2> QED BY <2>2, <2>3 DEF IsInode, Node
<1>3. no \in DOMAIN f.open /\ f.open = [i \in DOMAIN f.open |-> f.open[i]] /\ IsSec(x.sec)
  BY <1>1 DEF OnlySec
<1>4. DiskShape(f) /\ BitsOK(f) /\ f.panic = "none" /\ FileMap(DataOf(f), x, n)
  BY DEF Growing
<1> QED BY <1>1, <1>2, <1>3, <1>4

(* A new block is taken, or there is none.                                 *)
LEMMA TakenBlock ==
  ASSUME WithinBounds, NEW f, DiskShape(f), BitsOK(f), f.panic = "none",
         NEW a, a \in {block_bitmap_alloc(f), AllocSynced(f)}
  PROVE  /\ Follows(f, a.fs) /\ IsFs(a.fs) /\ a.fs.open = f.open /\ a = [fs |-> a.fs, lba |-> a.lba]
         /\ a.fs.panic = "full" \/ BlockTaken(f, a)
<1>1. /\ a.fs.panic \in {"none", "full"} /\ a = [fs |-> a.fs, lba |-> a.lba]
      /\ a.fs.open = f.open /\ a.fs.ibits = f.ibits /\ Follows(f, a.fs)
      /\ a.fs.panic = "none" =>
           /\ Quiet(f, a.fs) /\ BitsOK(a.fs)
           /\ a.lba \in Nat /\ a.lba >= data_start_lba
           /\ a.lba - data_start_lba \notin f.bbits
           /\ a.fs.bbits = f.bbits \cup {a.lba - data_start_lba}
  BY TakeEffect
<1>2. IsFs(a.fs)
  BY <1>1 DEF Follows
<1> QED BY ONLY <1>1, <1>2 DEF BlockTaken

(* Situation 1 of file_write.                                              *)
LEMMA MakeDirect ==
  ASSUME WithinBounds, NEW f0, NEW D, Good(f0, D), NEW f, NEW no, NEW has \in Nat, has >= 1,
         Growing(f0, f, no, has), has + 1 <= Direct, NEW m, m = DirectBlocks(f, no, has, has + 1)
  PROVE  BlocksMade(f0, f, m, no, has + 1) /\ BytesStay(f, m, no)
<1>1. PICK x, A, open : x = f.open[no] /\ A = DataOf(f) /\ open = f.open
  OBVIOUS
<1>2. /\ no \in DOMAIN open /\ open = [i \in DOMAIN open |-> open[i]]
      /\ IsInode(x) /\ IsSec(x.sec) /\ DiskShape(f) /\ BitsOK(f) /\ f.panic = "none"
      /\ FileMap(A, x, has) /\ OnlySec(f0.open, open, no)
  BY <1>1, GrowingNode
<1>3. Direct \in Nat /\ MaxBlocks \in Nat /\ Direct <= MaxBlocks
  BY Sizes
<1>4. \A k \in 1..Direct : x.sec[k] # 0 <=> k <= has
  <2>1. \A k \in 1..Direct : Address(A, x, k) = x.sec[k]
    BY <1>3 DEF Address
  <2> QED BY <1>2, <1>3, <2>1 DEF FileMap
<1>5. PICK own : own = OwnBlocks(f, no)
  OBVIOUS
<1>6. IsBlocks(own) /\ own.fs = f /\ own.blk = [k \in 1..MaxBlocks |-> Address(A, x, k)]
  BY <1>1, <1>5, OwnBlocksFacts
<1>7. PICK a, h : a = AllocSynced(f) /\ h = NewBlocks(own, has, has + 1)
  OBVIOUS
<1>8. IsBlocks(h) /\ h.fs = a.fs /\ h.blk = [own.blk EXCEPT ![has + 1] = a.lba]
  <2>1. IsBlocks(own) /\ a = AllocSynced(own.fs) /\ h = NewBlocks(own, has, has + 1)
    BY <1>6, <1>7
  <2> QED BY ONLY has \in Nat, <2>1, OneNewBlock
<1> PICK ks : ks = has + 1..has + 1
  OBVIOUS
<1>9. m = InInode(h, no, ks)
  <2>1. x.sec[has] # 0 /\ \A k \in has + 1..has + 1 : x.sec[k] = 0
    BY <1>3, <1>4
  <2> QED BY <1>1, <1>5, <1>7, <2>1 DEF DirectBlocks, ASSERT
<1>10. /\ Follows(f, a.fs) /\ IsFs(a.fs) /\ a.fs.open = open
       /\ a.fs.panic = "full" \/ BlockTaken(f, a)
  BY <1>1, <1>2, <1>7, TakenBlock
<1>11. PICK S : S = SecFrom(x.sec, h.blk, ks)
  OBVIOUS
<1>12. /\ IsBlocks(m) /\ m.blk = h.blk /\ SameDisk(h.fs, m.fs) /\ m.fs.panic = h.fs.panic
       /\ m.fs.bbits = h.fs.bbits /\ m.fs.ibits = h.fs.ibits
       /\ m.fs.open = NewSec(open, no, S)
  <2>1. open = h.fs.open
    BY <1>8, <1>10
  <2>2. x = open[no] /\ no \in DOMAIN open /\ IsInode(x) /\ IsSec(x.sec)
    BY <1>1, <1>2
  <2>3. InodeEntered(h, m, no, S)
    BY ONLY <1>8, <1>9, <1>11, <2>1, <2>2, InInodeEffect
  <2> QED BY <2>1, <2>3 DEF InodeEntered
<1>13. h.blk[has + 1] = a.lba /\ \A k \in 1..has : h.blk[k] = x.sec[k]
  <2>1. \A k \in 1..Direct : Address(A, x, k) = x.sec[k]
    BY <1>3 DEF Address
  <2>2. has + 1 \in 1..MaxBlocks /\ \A k \in 1..has : k \in 1..MaxBlocks /\ k \in 1..Direct /\ k # has + 1
    BY <1>3
  <2> QED BY <1>6, <1>8, <2>1, <2>2
<1>14. S = SecWith(x.sec, has + 1, a.lba)
  <2>1. \A k \in 1..Direct + 1 : k \in has + 1..has + 1 <=> k = has + 1
    BY <1>3
  <2> QED BY <1>11, <1>13, <2>1 DEF SecWith, SecFrom
<1>15. Follows(f, m.fs)
  <2>1. Follows(a.fs, m.fs)
    BY <1>8, <1>12, FollowsMemory
  <2> QED BY <1>10, <2>1, FollowsTwice
<1>16. ASSUME m.fs.panic = "none"
       PROVE  /\ Growing(f0, m.fs, no, has + 1) /\ KeepsBytes(f, m.fs, no)
              /\ \A k \in 1..has + 1 : m.blk[k] = Address(DataOf(m.fs), m.fs.open[no], k)
  <2>1. BlockTaken(f, a)
    BY <1>8, <1>10, <1>12, <1>16
  <2>2. PICK g : g = m.fs
    OBVIOUS
  <2>3. /\ SameDisk(a.fs, g) /\ g.panic = "none" /\ g.bbits = a.fs.bbits /\ g.ibits = a.fs.ibits
        /\ S = SecWith(f.open[no].sec, has + 1, a.lba) /\ g.open = NewSec(a.fs.open, no, S)
    BY <1>1, <1>8, <1>10, <1>12, <1>14, <1>16, <2>2
  <2>4. Growing(f0, g, no, has + 1) /\ KeepsBytes(f, g, no)
    BY <2>1, <2>3, GrowDirect
  <2>5. g.open[no].sec = S
    <3>1. IsSec(S)
      <4>1. \A k \in 1..Direct + 1 : S[k] \in Nat
        BY <1>2, <1>14, <2>1 DEF SecWith, IsSec, BlockTaken
      <4> QED BY <1>11, <4>1 DEF IsSec, SecFrom
    <3>2. no \in DOMAIN f0.open
      BY DEF Growing
    <3>3. g.open = NewSec(open, no, S)
      BY <1>12, <2>2
    <3> QED BY <1>2, <3>1, <3>2, <3>3, NewSecFacts
  <2>6. \A k \in 1..has + 1 : m.blk[k] = S[k] /\ k <= Direct /\ k \in 1..Direct + 1
    BY <1>3, <1>12, <1>13, <1>14 DEF SecWith
  <2> QED BY <2>2, <2>4, <2>5, <2>6 DEF Address
<1>17. m.fs.panic \in {"none", "full", "outside"}
  BY <1>8, <1>10, <1>12 DEF BlockTaken
<1> QED BY <1>12, <1>15, <1>16, <1>17 DEF BlocksMade, BytesStay

PutSec(f, no, k, lba) == [f EXCEPT !.open[no].sec[k] = lba]

SecEntered(f, g, no, S) ==
  /\ SameDisk(f, g) /\ Follows(f, g) /\ g.panic = f.panic /\ g.bbits = f.bbits /\ g.ibits = f.ibits
  /\ g.open = NewSec(f.open, no, S)

(* One address enters the inode.                                           *)
LEMMA AddressEntered ==
  ASSUME NEW f, IsFs(f), NEW no, IsSec(f.open[no].sec), NEW k \in 1..Direct + 1, NEW lba,
         NEW S, S = SecWith(f.open[no].sec, k, lba), NEW g, g = PutSec(f, no, k, lba)
  PROVE  SecEntered(f, g, no, S)
<1>1. PICK op2 : op2 = NewSec(f.open, no, S)
  OBVIOUS
<1>2. S = [f.open[no].sec EXCEPT ![k] = lba]
  <2>1. PICK s : s = f.open[no].sec
    OBVIOUS
  <2>2. s = [i \in 1..Direct + 1 |-> s[i]]
    BY <2>1 DEF IsSec
  <2> QED BY ONLY <2>1, <2>2, S = SecWith(f.open[no].sec, k, lba), k \in 1..Direct + 1 DEF SecWith
<1>3. g = [f EXCEPT !.open = op2]
  BY <1>1, <1>2 DEF NewSec, PutSec
<1>4. /\ Follows(f, g) /\ SameDisk(f, g) /\ g.panic = f.panic
      /\ g.open = op2 /\ g.bbits = f.bbits /\ g.ibits = f.ibits
  BY <1>3, OpenFollows
<1> QED BY <1>1, <1>4 DEF SecEntered

(* Situation 3 of file_write.                                              *)
LEMMA MakeMore ==
  ASSUME WithinBounds, NEW f0, NEW D, Good(f0, D), NEW f, NEW no, NEW has \in Nat, has > Direct,
         Growing(f0, f, no, has), has + 1 <= MaxBlocks, NEW m, m = MoreIndirect(f, no, has, has + 1)
  PROVE  BlocksMade(f0, f, m, no, has + 1) /\ BytesStay(f, m, no)
<1>1. PICK x, A, open, t : x = f.open[no] /\ A = DataOf(f) /\ open = f.open /\ t = x.sec[Direct + 1]
  OBVIOUS
<1>2. /\ no \in DOMAIN open /\ open = [i \in DOMAIN open |-> open[i]]
      /\ IsInode(x) /\ IsSec(x.sec) /\ DiskShape(f) /\ BitsOK(f) /\ f.panic = "none"
      /\ FileMap(A, x, has) /\ OnlySec(f0.open, open, no)
  BY <1>1, GrowingNode
<1>3. Direct \in Nat /\ MaxBlocks \in Nat /\ TableLen \in Nat /\ MaxBlocks = Direct + TableLen
  BY Sizes
<1>4. t # 0
  BY <1>1, <1>2 DEF FileMap
<1>5. PICK own : own = OwnBlocks(f, no)
  OBVIOUS
<1>6. IsBlocks(own) /\ own.fs = f /\ own.blk = [k \in 1..MaxBlocks |-> Address(A, x, k)]
  BY <1>1, <1>5, OwnBlocksFacts
<1>7. PICK a, h : a = AllocSynced(f) /\ h = NewBlocks(own, has, has + 1)
  OBVIOUS
<1>8. IsBlocks(h) /\ h.fs = a.fs /\ h.blk = [own.blk EXCEPT ![has + 1] = a.lba]
  <2>1. IsBlocks(own) /\ a = AllocSynced(own.fs) /\ h = NewBlocks(own, has, has + 1)
    BY <1>6, <1>7
  <2> QED BY ONLY has \in Nat, <2>1, OneNewBlock
<1>9. m = WriteTable(h, t)
  BY <1>1, <1>4, <1>5, <1>7 DEF MoreIndirect, ASSERT
<1>10. /\ Follows(f, a.fs) /\ IsFs(a.fs) /\ a.fs.open = open
       /\ a.fs.panic = "full" \/ BlockTaken(f, a)
  BY <1>1, <1>2, <1>7, TakenBlock
<1>11. PICK T : T = [k \in 1..TableLen |-> IF k = has + 1 - Direct THEN a.lba ELSE A[t][k]]
  OBVIOUS
<1>12. \A k \in 1..MaxBlocks : h.blk[k] = IF k = has + 1 THEN a.lba ELSE Address(A, x, k)
  BY <1>6, <1>8
<1>13. \A k \in 1..TableLen : T[k] = h.blk[Direct + k]
  <2>1. \A k \in 1..TableLen : /\ Direct + k \in 1..MaxBlocks
                               /\ Address(A, x, Direct + k) = A[t][k]
                               /\ Direct + k = has + 1 <=> k = has + 1 - Direct
    BY <1>1, <1>3, <1>4 DEF Address
  <2> QED BY <1>11, <1>12, <2>1
<1>14. IsBlocks(m) /\ m.blk = h.blk /\ Wrote(h.fs, m.fs) /\ m.fs = ide_write(h.fs, t, T)
  <2>1. T = [k \in 1..TableLen |-> h.blk[Direct + k]]
    BY <1>11, <1>13
  <2>2. m = [h EXCEPT !.fs = ide_write(@, t, T)]
    BY <1>9, <2>1 DEF WriteTable
  <2> QED BY <1>8, <2>2, BlocksWrote
<1>15. Follows(f, m.fs)
  <2>1. Follows(a.fs, m.fs)
    BY <1>8, <1>14 DEF Wrote
  <2> QED BY <1>10, <2>1, FollowsTwice
<1>16. ASSUME BlockTaken(f, a)
       PROVE  /\ m.fs.panic \in {"none", "outside"}
              /\ m.fs.panic = "none" => /\ Growing(f0, m.fs, no, has + 1) /\ KeepsBytes(f, m.fs, no)
                                        /\ m.fs.open = open /\ DataOf(m.fs)[t] = T
  <2>1. PICK g : g = m.fs
    OBVIOUS
  <2>2. g = ide_write(a.fs, t, T)
    BY <1>8, <1>14, <2>1
  <2>3. t = f.open[no].sec[Direct + 1]
    BY <1>1
  <2>4. T = TableWith(DataOf(f)[t], has + 1 - Direct, a.lba)
    BY <1>1, <1>11 DEF TableWith
  <2>5. GrownTo(f0, f, g, no, has + 1, f.open, t, T)
    BY ONLY WithinBounds, Good(f0, D), has \in Nat, Growing(f0, f, no, has), has > Direct,
            has + 1 <= MaxBlocks, <1>16, <2>2, <2>3, <2>4, GrowMore
  <2> QED BY <1>1, <2>1, <2>5 DEF GrownTo
<1>17. ASSUME m.fs.panic = "none"
       PROVE  /\ Growing(f0, m.fs, no, has + 1) /\ KeepsBytes(f, m.fs, no)
              /\ \A k \in 1..has + 1 : m.blk[k] = Address(DataOf(m.fs), m.fs.open[no], k)
  <2>1. BlockTaken(f, a)
    BY <1>8, <1>10, <1>14, <1>17 DEF Wrote
  <2>2. /\ Growing(f0, m.fs, no, has + 1) /\ KeepsBytes(f, m.fs, no)
        /\ m.fs.open = open /\ DataOf(m.fs)[t] = T
    BY <1>16, <1>17, <2>1
  <2>3. ASSUME NEW k \in 1..has + 1
        PROVE  m.blk[k] = Address(DataOf(m.fs), x, k)
    <3>1. k \in 1..MaxBlocks
      BY <1>3
    <3>2. CASE k <= Direct
      <4>1. Address(A, x, k) = Address(DataOf(m.fs), x, k) /\ k # has + 1
        BY <1>3, <3>2 DEF Address
      <4> QED BY <1>12, <1>14, <3>1, <4>1
    <3>3. CASE k > Direct
      <4>1. k - Direct \in 1..TableLen /\ Direct + (k - Direct) = k
        BY <1>3, <3>1, <3>3
      <4>2. Address(DataOf(m.fs), x, k) = T[k - Direct]
        BY <1>1, <1>3, <1>4, <2>2, <3>3 DEF Address
      <4> QED BY <1>13, <1>14, <4>1, <4>2
    <3> QED BY <1>3, <3>2, <3>3
  <2> QED BY <1>1, <2>2, <2>3
<1>18. m.fs.panic \in {"none", "full", "outside"}
  BY <1>8, <1>10, <1>14, <1>16 DEF Wrote
<1> QED BY <1>14, <1>15, <1>17, <1>18 DEF BlocksMade, BytesStay

(* all_blocks of a write that makes the indirect block a.lba.              *)
LEMMA WithTableFacts ==
  ASSUME WithinBounds, NEW a, IsFs(a.fs), NEW no, NEW x, x = a.fs.open[no], IsSec(x.sec),
         x.sec[Direct + 1] = 0, NEW w, w = WithTable(a, no),
         NEW S, S = SecWith(x.sec, Direct + 1, a.lba)
  PROVE  /\ IsBlocks(w) /\ SecEntered(a.fs, w.fs, no, S)
         /\ w.blk = [k \in 1..MaxBlocks |-> IF k <= Direct THEN x.sec[k] ELSE 0]
<1>1. PICK g : g = PutSec(a.fs, no, Direct + 1, a.lba)
  OBVIOUS
<1>2. SecEntered(a.fs, g, no, S)
  <2>1. Direct + 1 \in 1..Direct + 1
    BY Sizes
  <2>2. IsSec(a.fs.open[no].sec) /\ S = SecWith(a.fs.open[no].sec, Direct + 1, a.lba)
    OBVIOUS
  <2> QED BY <1>1, <2>1, <2>2, AddressEntered
<1>3. w = [fs |-> g, blk |-> [k \in 1..MaxBlocks |-> IF k <= Direct THEN x.sec[k] ELSE 0]]
  BY <1>1 DEF WithTable, ASSERT, PutSec
<1>4. /\ w.fs = g /\ w.blk = [k \in 1..MaxBlocks |-> IF k <= Direct THEN x.sec[k] ELSE 0]
      /\ w = [fs |-> w.fs, blk |-> w.blk]
  BY ONLY <1>3
<1> QED BY <1>2, <1>4 DEF IsBlocks, SecEntered, SameDisk

(* No direct block is entered when all of them are there.                  *)
LEMMA NothingEntered ==
  ASSUME WithinBounds, NEW h, IsBlocks(h), NEW no, no \in DOMAIN h.fs.open,
         h.fs.open = [i \in DOMAIN h.fs.open |-> h.fs.open[i]], NEW x, x = h.fs.open[no],
         IsInode(x), IsSec(x.sec), NEW e, e = EnterLow(h, no, Direct)
  PROVE  IsBlocks(e) /\ e.blk = h.blk /\ SameDisk(h.fs, e.fs) /\ e.fs.panic = h.fs.panic
         /\ e.fs.bbits = h.fs.bbits /\ e.fs.ibits = h.fs.ibits /\ e.fs.open = h.fs.open
<1>1. PICK ks : ks = {k \in Direct + 1..Direct : h.blk[k] < Direct}
  OBVIOUS
<1>2. ks = {}
  BY <1>1, Sizes
<1>3. e = InInode(h, no, ks)
  BY <1>1 DEF EnterLow
<1>4. PICK S, open : S = SecFrom(x.sec, h.blk, ks) /\ open = h.fs.open
  OBVIOUS
<1>5. S = x.sec
  BY <1>2, <1>4 DEF SecFrom, IsSec
<1>6. InodeEntered(h, e, no, S)
  <2>1. open = h.fs.open /\ no \in DOMAIN open /\ x = open[no]
    BY <1>4
  <2> QED BY ONLY IsBlocks(h), IsInode(x), IsSec(x.sec), <1>3, <1>4, <2>1, InInodeEffect
<1>7. NewSec(open, no, S) = open
  <2>1. [x EXCEPT !.sec = S] = x
    BY <1>5 DEF IsInode
  <2> QED BY <1>4, <2>1 DEF NewSec
<1> QED BY <1>4, <1>6, <1>7 DEF InodeEntered

(* Situation 2 of file_write.                                              *)
LEMMA MakeFirst ==
  ASSUME WithinBounds, NEW f0, NEW D, Good(f0, D), NEW f, NEW no, NEW has \in Nat, has = Direct,
         Growing(f0, f, no, has), NEW m, m = FirstIndirect(f, no, has, has + 1)
  PROVE  BlocksMade(f0, f, m, no, has + 1) /\ BytesStay(f, m, no)
<1>1. PICK x, A, open, a, t : /\ x = f.open[no] /\ A = DataOf(f) /\ open = f.open
                              /\ a = block_bitmap_alloc(f) /\ t = a.lba
  OBVIOUS
<1>2. /\ no \in DOMAIN open /\ open = [i \in DOMAIN open |-> open[i]]
      /\ IsInode(x) /\ IsSec(x.sec) /\ DiskShape(f) /\ BitsOK(f) /\ f.panic = "none"
      /\ FileMap(A, x, has) /\ OnlySec(f0.open, open, no)
  BY <1>1, GrowingNode
<1>3. Direct \in Nat /\ Direct >= 1 /\ MaxBlocks \in Nat /\ TableLen \in Nat /\ TableLen >= 1
      /\ MaxBlocks = Direct + TableLen
  BY Sizes
<1>4. x.sec[Direct + 1] = 0
  BY <1>1, <1>2 DEF FileMap
<1>5. /\ Follows(f, a.fs) /\ IsFs(a.fs) /\ a.fs.open = open
      /\ a.fs.panic = "full" \/ BlockTaken(f, a)
  BY <1>1, <1>2, TakenBlock
<1>6. PICK w, S : w = WithTable(a, no) /\ S = SecWith(x.sec, Direct + 1, a.lba)
  OBVIOUS
<1>7. /\ IsBlocks(w) /\ SecEntered(a.fs, w.fs, no, S)
      /\ w.blk = [k \in 1..MaxBlocks |-> IF k <= Direct THEN x.sec[k] ELSE 0]
  <2>1. x = a.fs.open[no]
    BY <1>1, <1>5
  <2> QED BY <1>2, <1>4, <1>5, <1>6, <2>1, WithTableFacts
<1>8. PICK b, h, e : b = AllocSynced(w.fs) /\ h = NewBlocks(w, has, has + 1) /\ e = EnterLow(h, no, has)
  OBVIOUS
<1>9. IsBlocks(h) /\ h.fs = b.fs /\ h.blk = [w.blk EXCEPT ![has + 1] = b.lba]
  <2>1. IsBlocks(w) /\ b = AllocSynced(w.fs) /\ h = NewBlocks(w, has, has + 1)
    BY <1>7, <1>8
  <2> QED BY ONLY has \in Nat, <2>1, OneNewBlock
<1>10. m = WriteTable(e, t)
  BY <1>1, <1>6, <1>8 DEF FirstIndirect
<1>11. IsBlocks(e) /\ e.blk = h.blk /\ Follows(h.fs, e.fs)
  BY <1>8, <1>9, InInodeFollows DEF EnterLow
<1>12. PICK T : T = [k \in 1..TableLen |-> IF k = 1 THEN b.lba ELSE 0]
  OBVIOUS
<1>13. \A k \in 1..MaxBlocks : e.blk[k] = IF k = has + 1 THEN b.lba ELSE IF k <= Direct THEN x.sec[k] ELSE 0
  BY <1>7, <1>9, <1>11
<1>14. \A k \in 1..TableLen : T[k] = e.blk[Direct + k]
  <2>1. \A k \in 1..TableLen : /\ Direct + k \in 1..MaxBlocks /\ ~(Direct + k <= Direct)
                               /\ Direct + k = has + 1 <=> k = 1
    BY <1>3
  <2> QED BY <1>12, <1>13, <2>1
<1>15. IsBlocks(m) /\ m.blk = e.blk /\ Wrote(e.fs, m.fs) /\ m.fs = ide_write(e.fs, t, T)
  <2>1. T = [k \in 1..TableLen |-> e.blk[Direct + k]]
    BY <1>12, <1>14
  <2>2. m = [e EXCEPT !.fs = ide_write(@, t, T)]
    BY <1>10, <2>1 DEF WriteTable
  <2> QED BY <1>11, <2>2, BlocksWrote
<1>16. Follows(a.fs, w.fs) /\ Follows(w.fs, b.fs) /\ Follows(b.fs, m.fs)
  <2>1. PICK bit : bit = FirstFree(w.fs.bbits, block_bitmap_len)
    OBVIOUS
  <2>2. IsFs(w.fs)
    BY <1>7 DEF IsBlocks
  <2>3. Follows(w.fs, b.fs)
    BY <1>8, <2>1, <2>2, AllocFollows
  <2>4. Follows(b.fs, m.fs)
    BY <1>9, <1>11, <1>15, FollowsTwice DEF Wrote
  <2> QED BY <1>7, <2>3, <2>4 DEF SecEntered
<1>17. Follows(f, m.fs)
  BY <1>5, <1>16, FollowsTwice
<1>18. ASSUME BlockTaken(f, a)
       PROVE  /\ DiskShape(w.fs) /\ BitsOK(w.fs) /\ w.fs.panic = "none"
              /\ b.fs.panic = "full" \/ BlockTaken(w.fs, b)
              /\ w.fs.open = NewSec(open, no, S) /\ OnlySec(f0.open, w.fs.open, no) /\ w.fs.open[no].sec = S
              /\ b.fs.open = w.fs.open
  <2>1. DiskShape(w.fs) /\ BitsOK(w.fs) /\ w.fs.panic = "none"
    <3>1. DiskShape(a.fs) /\ BitsOK(a.fs) /\ a.fs.panic = "none"
      BY <1>18 DEF BlockTaken, Quiet
    <3>2. SameDisk(a.fs, w.fs) /\ w.fs.panic = a.fs.panic /\ w.fs.bbits = a.fs.bbits /\ w.fs.ibits = a.fs.ibits
      BY <1>7 DEF SecEntered
    <3> QED BY <3>1, <3>2, QuietMemory DEF Quiet, BitsOK
  <2>2. b.fs.open = w.fs.open /\ (b.fs.panic = "full" \/ BlockTaken(w.fs, b))
    BY <1>8, <2>1, TakenBlock
  <2>3. w.fs.open = NewSec(open, no, S)
    BY <1>5, <1>7 DEF SecEntered
  <2>4. IsSec(S)
    BY <1>1, <1>2, <1>6, <1>18, <1>3 DEF IsSec, SecWith, BlockTaken
  <2>5. OnlySec(f0.open, w.fs.open, no) /\ w.fs.open[no].sec = S
    <3>1. PICK op2 : op2 = w.fs.open
      OBVIOUS
    <3>2. no \in DOMAIN f0.open
      BY DEF Growing
    <3> QED BY <1>2, <2>3, <2>4, <3>1, <3>2, NewSecFacts
  <2> QED BY <2>1, <2>2, <2>3, <2>5
<1>19. ASSUME BlockTaken(f, a), BlockTaken(w.fs, b)
       PROVE  GrownTo(f0, f, m.fs, no, has + 1, w.fs.open, t, T)
  <2>1. PICK y : y = b.fs.open[no]
    OBVIOUS
  <2>2. /\ no \in DOMAIN h.fs.open /\ h.fs.open = [i \in DOMAIN h.fs.open |-> h.fs.open[i]]
        /\ y = h.fs.open[no] /\ IsInode(y) /\ IsSec(y.sec)
    <3>1. OnlySec(f0.open, b.fs.open, no) /\ no \in DOMAIN f0.open
      BY <1>18, <1>19 DEF Growing
    <3>2. IsInode(y)
      <4>1. PICK z : z = f0.open[no]
        OBVIOUS
      <4>2. y = Node(z.no, z.size, y.sec, z.cnt, z.deny)
        BY <2>1, <3>1, <4>1 DEF OnlySec
      <4>3. y.no = z.no /\ y.size = z.size /\ y.cnt = z.cnt /\ y.deny = z.deny
        BY <4>2, NodeChanges
      <4> QED BY <4>2, <4>3 DEF IsInode, Node
    <3> QED BY <1>9, <2>1, <3>1, <3>2 DEF OnlySec
  <2>3. SameDisk(h.fs, e.fs) /\ e.fs.panic = h.fs.panic
        /\ e.fs.bbits = h.fs.bbits /\ e.fs.ibits = h.fs.ibits /\ e.fs.open = h.fs.open
    <3>1. e = EnterLow(h, no, Direct)
      BY <1>8
    <3> QED BY <1>9, <2>2, <3>1, NothingEntered
  <2>4. PICK c, f1, g : c = [fs |-> e.fs, lba |-> b.lba] /\ f1 = w.fs /\ g = m.fs
    OBVIOUS
  <2>5. c.fs = e.fs /\ c.lba = b.lba
    BY <2>4
  <2>6. BlockTaken(f1, c)
    <3>1. /\ b.fs.panic = "none" /\ Quiet(f1, b.fs) /\ BitsOK(b.fs) /\ b.fs.open = f1.open /\ b.fs.ibits = f1.ibits
          /\ b.lba \in Nat /\ b.lba >= data_start_lba /\ b.lba - data_start_lba \notin f1.bbits
          /\ b.fs.bbits = f1.bbits \cup {b.lba - data_start_lba}
      BY <1>19, <2>4 DEF BlockTaken
    <3>2. Quiet(f1, e.fs)
      <4>1. Quiet(b.fs, e.fs)
        BY <1>9, <2>3, <3>1, QuietMemory DEF Quiet
      <4> QED BY <3>1, <4>1, QuietTwice
    <3>3. BitsOK(e.fs)
      BY <1>9, <2>3, <3>1 DEF BitsOK
    <3> QED BY <1>9, <2>3, <2>5, <3>1, <3>2, <3>3 DEF BlockTaken
  <2>7. T = [k \in 1..TableLen |-> IF k = 1 THEN c.lba ELSE 0] /\ g = ide_write(c.fs, a.lba, T)
    BY <1>1, <1>12, <1>15, <2>4, <2>5
  <2>8. /\ SameDisk(a.fs, f1) /\ f1.panic = "none" /\ f1.bbits = a.fs.bbits /\ f1.ibits = a.fs.ibits
        /\ f1.open = NewSec(a.fs.open, no, S)
    BY <1>7, <1>18, <1>19, <2>4 DEF SecEntered
  <2>9. S = SecWith(f.open[no].sec, Direct + 1, a.lba) /\ Growing(f0, f, no, Direct)
    BY <1>1, <1>6
  <2>10. GrownTo(f0, f, g, no, Direct + 1, f1.open, a.lba, T)
    BY ONLY WithinBounds, Good(f0, D), <1>19, <2>6, <2>7, <2>8, <2>9, GrowFirst
  <2> QED BY <1>1, <2>4, <2>10
<1>20. ASSUME m.fs.panic = "none"
       PROVE  /\ Growing(f0, m.fs, no, has + 1) /\ KeepsBytes(f, m.fs, no)
              /\ \A k \in 1..has + 1 : m.blk[k] = Address(DataOf(m.fs), m.fs.open[no], k)
  <2>1. BlockTaken(f, a) /\ BlockTaken(w.fs, b)
    BY <1>5, <1>16, <1>18, <1>20 DEF Follows
  <2>2. /\ Growing(f0, m.fs, no, has + 1) /\ KeepsBytes(f, m.fs, no)
        /\ m.fs.open = w.fs.open /\ DataOf(m.fs)[t] = T
    BY <1>19, <1>20, <2>1 DEF GrownTo
  <2>3. PICK y : y = m.fs.open[no]
    OBVIOUS
  <2>4. y.sec = S
    BY <1>18, <2>1, <2>2, <2>3
  <2>5. t # 0
    BY <1>1, <2>1, Sizes DEF BlockTaken
  <2>6. y.sec[Direct + 1] = t /\ \A k \in 1..Direct : y.sec[k] = x.sec[k]
    BY <1>1, <1>3, <1>6, <2>4 DEF SecWith
  <2>7. ASSUME NEW k \in 1..has + 1
        PROVE  m.blk[k] = Address(DataOf(m.fs), y, k)
    <3>1. k \in 1..MaxBlocks
      BY <1>3
    <3>2. CASE k <= Direct
      <4>1. k # has + 1 /\ k \in 1..Direct
        BY <1>3, <3>2
      <4> QED BY <1>13, <1>15, <2>6, <3>1, <3>2, <4>1 DEF Address
    <3>3. CASE k > Direct
      <4>1. k = has + 1 /\ k - Direct = 1 /\ 1 \in 1..TableLen /\ ~(k <= Direct)
        BY <1>3, <3>1, <3>3
      <4>2. Address(DataOf(m.fs), y, k) = T[1]
        BY <2>2, <2>5, <2>6, <4>1 DEF Address
      <4> QED BY <1>12, <1>13, <1>15, <3>1, <4>1, <4>2
    <3> QED BY <1>3, <3>2, <3>3
  <2> QED BY <2>2, <2>3, <2>7
<1>21. m.fs.panic \in {"none", "full", "outside"}
  <2>1. CASE a.fs.panic = "full"
    BY <1>16, <2>1 DEF Follows
  <2>2. CASE BlockTaken(f, a) /\ b.fs.panic = "full"
    BY <1>16, <2>2 DEF Follows
  <2>3. CASE BlockTaken(f, a) /\ BlockTaken(w.fs, b)
    BY <1>19, <2>3 DEF GrownTo
  <2> QED BY <1>5, <1>18, <2>1, <2>2, <2>3
<1> QED BY <1>15, <1>17, <1>20, <1>21 DEF BlocksMade, BytesStay

(* Quotients.                                                              *)
LEMMA Quotient ==
  ASSUME NEW b \in Nat \ {0}, NEW a \in Nat, NEW c \in Nat
  PROVE  /\ a \div b \in Nat /\ (a = 0 => a \div b = 0)
         /\ a <= c => a \div b <= c \div b
         /\ c <= a + b => c \div b <= a \div b + 1
         /\ \A n \in Nat : a < n * b => a \div b < n
<1>1. PICK p, q : p = a \div b /\ q = c \div b
  OBVIOUS
<1>2. p \in Nat /\ b * p <= a /\ a < b * p + b
  BY <1>1
<1>3. q \in Nat /\ b * q <= c /\ c < b * q + b
  BY <1>1
<1>4. a = 0 => p = 0
  BY <1>1
<1>5. a <= c => p <= q
  <2>1. p >= q + 1 => b * p >= b * (q + 1)
    BY <1>2, <1>3
  <2>2. b * (q + 1) = b * q + b /\ b * p \in Nat /\ b * q \in Nat
    BY <1>2, <1>3
  <2> QED BY <1>2, <1>3, <2>1, <2>2
<1>6. c <= a + b => q <= p + 1
  <2>1. q >= p + 2 => b * q >= b * (p + 2)
    BY <1>2, <1>3
  <2>2. b * (p + 2) = b * p + b + b /\ b * p \in Nat /\ b * q \in Nat
    BY <1>2, <1>3
  <2> QED BY <1>2, <1>3, <2>1, <2>2
<1>7. ASSUME NEW n \in Nat, a < n * b
      PROVE  p < n
  <2>1. p >= n => b * p >= b * n
    BY <1>2
  <2>2. b * n = n * b /\ b * p \in Nat /\ b * n \in Nat
    BY <1>2
  <2> QED BY <1>2, <1>7, <2>1, <2>2
<1> QED BY <1>1, <1>2, <1>4, <1>5, <1>6, <1>7

(* A position from its block and its place in the block.                   *)
LEMMA Place ==
  ASSUME NEW b \in Nat \ {0}, NEW a \in Nat
  PROVE  a % b \in 0..b - 1 /\ (a \div b) * b + (a % b) = a
<1>1. PICK q, r : q = a \div b /\ r = a % b
  OBVIOUS
<1>2. q \in Nat /\ r \in 0..b - 1 /\ a = b * q + r
  BY <1>1
<1>3. b * q = q * b
  BY <1>2
<1> QED BY <1>1, <1>2, <1>3

(* The blocks of a write.                                                  *)
LEMMA MakeGood ==
  ASSUME WithinBounds, NEW f0, NEW D, Good(f0, D), NEW f, NEW no, NEW has \in Nat, has >= 1,
         Growing(f0, f, no, has), NEW will \in {has, has + 1}, will <= MaxBlocks,
         NEW m, m = MakeBlocks(f, no, has, will)
  PROVE  BlocksMade(f0, f, m, no, will) /\ BytesStay(f, m, no)
<1>1. f.panic = "none" /\ IsFs(f)
  BY DEF Growing, DiskShape
<1>2. Direct \in Nat /\ will \in Nat
  BY Sizes
<1>3. CASE will = has
  <2>1. m = OwnBlocks(f, no)
    <3>1. PICK holds \in BOOLEAN : holds <=> (will <= Direct \/ f.open[no].sec[Direct + 1] # 0)
      OBVIOUS
    <3>2. FileMap(DataOf(f), f.open[no], has)
      BY DEF Growing
    <3>3. holds
      BY <1>2, <1>3, <3>1, <3>2 DEF FileMap
    <3>4. ASSERT(f, will <= Direct \/ f.open[no].sec[Direct + 1] # 0) = f
      BY <3>1, <3>3 DEF ASSERT
    <3> QED BY <1>1, <1>2, <1>3, <3>4 DEF MakeBlocks
  <2>2. PICK x, A : x = f.open[no] /\ A = DataOf(f)
    OBVIOUS
  <2>3. IsBlocks(m) /\ m.fs = f /\ m.blk = [k \in 1..MaxBlocks |-> Address(A, x, k)]
    BY <2>1, <2>2, OwnBlocksFacts
  <2>4. \A k \in 1..will : k \in 1..MaxBlocks
    BY <1>2, Sizes
  <2>5. Follows(f, m.fs)
    BY <1>1, <2>3, FollowsSame
  <2>6. \A k \in 1..will : m.blk[k] = Address(DataOf(m.fs), m.fs.open[no], k)
    BY ONLY <2>2, <2>3, <2>4
  <2>7. m.fs.panic = "none" /\ Growing(f0, m.fs, no, will)
    BY <1>1, <1>3, <2>3
  <2>8. BytesStay(f, m, no)
    BY <2>3 DEF BytesStay, KeepsBytes
  <2> QED BY ONLY <2>3, <2>5, <2>6, <2>7, <2>8 DEF BlocksMade
<1>4. CASE will = has + 1 /\ will <= Direct
  <2>1. m = DirectBlocks(f, no, has, has + 1)
    BY <1>1, <1>2, <1>4 DEF MakeBlocks
  <2> QED BY <1>4, <2>1, MakeDirect
<1>5. CASE will = has + 1 /\ has = Direct
  <2>1. m = FirstIndirect(f, no, has, has + 1)
    BY <1>1, <1>2, <1>5 DEF MakeBlocks
  <2> QED BY <1>5, <2>1, MakeFirst
<1>6. CASE will = has + 1 /\ has > Direct
  <2>1. m = MoreIndirect(f, no, has, has + 1)
    BY <1>1, <1>2, <1>6 DEF MakeBlocks
  <2> QED BY <1>6, <2>1, MakeMore
<1>7. will <= Direct \/ has = Direct \/ has > Direct
  BY <1>2
<1> QED BY <1>3, <1>4, <1>5, <1>6, <1>7

(* A file has its first block before a write.                              *)
LEMMA FirstBlockGood ==
  ASSUME WithinBounds, NEW f0, NEW D, Good(f0, D), f0.panic = "none", NEW no \in f0.ibits \ D,
         no \in DOMAIN f0.open, NEW size, size = f0.open[no].size,
         NEW f, f = FirstBlock(f0, no)
  PROVE  /\ Follows(f0, f) /\ IsFs(f) /\ size \in Nat
         /\ f.panic = "full" \/ (Growing(f0, f, no, size \div BlockSize + 1) /\ KeepsBytes(f0, f, no))
<1>1. PICK x, y : x = f0.open[no] /\ y = NodesOf(f0)[no]
  OBVIOUS
<1>2. DiskShape(f0) /\ BitsOK(f0) /\ IsFs(f0)
  BY DEF Good, DiskShape
<1>3. size \in Nat
  <2>1. IsOpen(x, y) /\ IsNode(y, no)
    BY <1>1 DEF Good, OpenOK, IsTree
  <2> QED BY <1>1, <2>1, IsOpenFacts DEF IsNode
<1>4. Growing(f0, f0, no, FileBlocks(size))
  BY GrowingStart
<1>5. /\ IsSec(x.sec) /\ FileMap(DataOf(f0), x, FileBlocks(size)) /\ OnlySec(f0.open, f0.open, no)
  BY <1>1, <1>4, GrowingNode
<1>6. /\ size \div BlockSize \in Nat /\ (size = 0 => size \div BlockSize = 0)
      /\ Direct \in Nat /\ Direct >= 1 /\ MaxBlocks \in Nat /\ MaxBlocks >= 1
  BY <1>3, Sizes, Quotient
<1>7. x.sec[1] # 0 <=> 1 <= FileBlocks(size)
  <2>1. Address(DataOf(f0), x, 1) = x.sec[1] /\ 1 \in 1..MaxBlocks
    BY <1>6 DEF Address
  <2> QED BY <1>5, <2>1 DEF FileMap
<1>8. CASE size # 0
  <2>1. FileBlocks(size) = size \div BlockSize + 1
    BY <1>8 DEF FileBlocks
  <2>2. f = f0
    BY <1>1, <1>6, <1>7, <2>1 DEF FirstBlock
  <2> QED BY <1>2, <1>3, <1>4, <2>1, <2>2, FollowsSame DEF KeepsBytes
<1>9. CASE size = 0
  <2>1. FileBlocks(size) = 0 /\ size \div BlockSize + 1 = 0 + 1
    BY <1>6, <1>9 DEF FileBlocks
  <2>2. PICK a : a = AllocSynced(f0)
    OBVIOUS
  <2>3. /\ Follows(f0, a.fs) /\ IsFs(a.fs) /\ a.fs.open = f0.open
        /\ a.fs.panic = "full" \/ BlockTaken(f0, a)
    BY <1>2, <2>2, TakenBlock
  <2>4. PICK h : h = ASSERT(a.fs, a.lba # data_start_lba)
    OBVIOUS
  <2>5. Follows(a.fs, h) /\ IsFs(h) /\ h.open = a.fs.open /\ (a.lba # data_start_lba => h = a.fs)
    BY <2>3, <2>4, AssertFollows DEF SameDisk
  <2>6. f = PutSec(h, no, 1, a.lba)
    BY <1>1, <1>7, <2>1, <2>2, <2>4 DEF FirstBlock, AsFirst, PutSec
  <2>7. PICK S : S = SecWith(x.sec, 1, a.lba)
    OBVIOUS
  <2>8. SecEntered(h, f, no, S)
    <3>1. IsSec(h.open[no].sec) /\ S = SecWith(h.open[no].sec, 1, a.lba)
      BY <1>1, <1>5, <2>3, <2>5, <2>7
    <3>2. 1 \in 1..Direct + 1
      BY <1>6
    <3> QED BY <2>5, <2>6, <3>1, <3>2, AddressEntered
  <2>9. Follows(f0, f) /\ IsFs(f)
    <3>1. Follows(h, f) /\ IsFs(f)
      BY <2>8 DEF SecEntered, SameDisk
    <3> QED BY <2>3, <2>5, <3>1, FollowsTwice
  <2>10. CASE a.fs.panic = "full"
    BY <1>3, <2>5, <2>8, <2>9, <2>10 DEF Follows, SecEntered
  <2>11. CASE BlockTaken(f0, a)
    <3>1. a.lba # data_start_lba
      BY <1>4, <2>11, GrowingApart DEF BlockTaken
    <3>2. h = a.fs /\ a.fs.panic = "none"
      BY <2>5, <2>11, <3>1 DEF BlockTaken
    <3>3. SameDisk(a.fs, f) /\ f.panic = "none" /\ f.bbits = a.fs.bbits /\ f.ibits = a.fs.ibits
          /\ f.open = NewSec(a.fs.open, no, S)
      BY <2>8, <3>2 DEF SecEntered
    <3>4. Growing(f0, f0, no, 0) /\ S = SecWith(f0.open[no].sec, 0 + 1, a.lba) /\ 0 + 1 <= Direct /\ 0 \in Nat
      BY <1>1, <1>4, <1>6, <2>1, <2>7
    <3>5. Growing(f0, f, no, 0 + 1) /\ KeepsBytes(f0, f, no)
      BY ONLY WithinBounds, Good(f0, D), <2>11, <3>3, <3>4, GrowDirect
    <3> QED BY <1>3, <2>1, <2>9, <3>5
  <2> QED BY <2>3, <2>10, <2>11
<1> QED BY <1>8, <1>9

\* The positions whose bytes are there when the blocks before n are written.
Reached(size, count, n) == {pos \in 0..size + count - 1 : pos < size \/ pos \div BlockSize < n}

BytesMade(m, no, positions) ==
  m.fs.panic = "none" => Holds(DataOf(m.fs), m.fs.open[no], no, positions)

\* What goes to block idx, which holds old before.
Mixed(no, idx, size, count, old) ==
  [o \in 1..BlockSize |->
     IF idx * BlockSize + o - 1 \in size..size + count - 1 THEN Byte(no, idx * BlockSize + o - 1)
     ELSE IF idx = size \div BlockSize THEN old[o] ELSE 0]

(* A block that is written has the bytes it had, and those of the write.   *)
LEMMA MixedBytes ==
  ASSUME WithinBounds, NEW f, NEW g, NEW no, NEW size \in Nat, NEW count \in Nat, NEW idx \in Nat,
         idx >= size \div BlockSize, NEW lba, lba = Address(DataOf(f), f.open[no], idx + 1),
         Holds(DataOf(f), f.open[no], no, Reached(size, count, idx)),
         NEW s, s = Mixed(no, idx, size, count, f.disk[lba]), BytesPut(f, g, no, idx + 1, s)
  PROVE  Holds(DataOf(g), g.open[no], no, Reached(size, count, idx + 1))
<1> SUFFICES ASSUME NEW pos \in Reached(size, count, idx + 1)
             PROVE  HasByte(DataOf(g), g.open[no], no, pos)
  BY DEF Holds
<1>1. PICK q, r : q = pos \div BlockSize /\ r = pos % BlockSize
  OBVIOUS
<1>2. BlockSize \in Nat \ {0}
  BY Sizes
<1>3. pos \in Nat /\ pos < size + count /\ (pos < size \/ q < idx + 1)
  BY <1>1 DEF Reached
<1>4. q \in Nat /\ r \in 0..BlockSize - 1 /\ q * BlockSize + r = pos
  <2>1. pos \div BlockSize \in Nat
    BY <1>2, <1>3, Quotient
  <2>2. pos % BlockSize \in 0..BlockSize - 1 /\ (pos \div BlockSize) * BlockSize + (pos % BlockSize) = pos
    BY ONLY <1>2, <1>3, Place
  <2> QED BY ONLY <1>1, <2>1, <2>2
<1>5. pos < size => q <= size \div BlockSize /\ size \div BlockSize \in Nat
  BY <1>1, <1>2, <1>3, Quotient
<1>6. pos < size \/ q < idx => HasByte(DataOf(f), f.open[no], no, pos)
  BY <1>1, <1>3 DEF Reached, Holds
<1>7. CASE q # idx
  <2>1. pos < size \/ q < idx
    BY <1>3, <1>4, <1>7
  <2>2. q + 1 # idx + 1
    BY <1>4, <1>7
  <2> QED BY <1>1, <1>6, <2>1, <2>2 DEF BytesPut
<1>8. CASE q = idx
  <2>1. PICK o : o = r + 1
    OBVIOUS
  <2>2. o \in 1..BlockSize /\ idx * BlockSize + o - 1 = pos
    <3>1. idx * BlockSize \in Nat /\ idx * BlockSize + r = pos
      BY <1>2, <1>4, <1>8
    <3> QED BY ONLY <1>2, <1>4, <2>1, <3>1
  <2>3. s[o] = Byte(no, pos)
    <3>1. CASE pos \in size..size + count - 1
      BY <2>2, <3>1 DEF Mixed
    <3>2. CASE pos \notin size..size + count - 1
      <4>1. pos < size
        BY <1>3, <3>2
      <4>2. idx = size \div BlockSize
        BY <1>5, <1>8, <4>1
      <4>3. s[o] = f.disk[lba][o]
        BY <2>2, <3>2, <4>2 DEF Mixed
      <4>4. lba \in Blocks /\ DataOf(f)[lba][o] = Byte(no, pos)
        BY <1>1, <1>6, <1>8, <2>1, <4>1 DEF HasByte
      <4>5. DataOf(f)[lba] = f.disk[lba]
        BY <4>4 DEF DataOf
      <4> QED BY <4>3, <4>4, <4>5
    <3> QED BY <3>1, <3>2
  <2> QED BY <1>1, <1>8, <2>1, <2>3 DEF BytesPut
<1> QED BY <1>7, <1>8

(* One block of data is written.                                           *)
LEMMA BlockWritten ==
  ASSUME WithinBounds, NEW f0, NEW f, NEW m, NEW no, NEW will \in Nat, will <= MaxBlocks,
         BlocksMade(f0, f, m, no, will), NEW idx \in Nat, idx + 1 <= will,
         NEW size \in Nat, NEW count \in Nat, idx >= size \div BlockSize,
         BytesMade(m, no, Reached(size, count, idx)),
         NEW g, g = WriteBlock(m, no, idx, size, count)
  PROVE  BlocksMade(f0, f, g, no, will) /\ BytesMade(g, no, Reached(size, count, idx + 1))
<1>1. IsBlocks(g) /\ g.blk = m.blk /\ Wrote(m.fs, g.fs)
  BY BlockWritesFollow DEF BlocksMade
<1>2. Follows(f, g.fs)
  BY <1>1, FollowsTwice DEF BlocksMade, Wrote
<1>3. CASE m.fs.panic # "none"
  BY <1>1, <1>2, <1>3 DEF BlocksMade, BytesMade, Wrote
<1>4. CASE m.fs.panic = "none"
  <2>1. PICK f1, lba : f1 = m.fs /\ lba = m.blk[idx + 1]
    OBVIOUS
  <2>2. Growing(f0, f1, no, will) /\ \A k \in 1..will : m.blk[k] = Address(DataOf(f1), f1.open[no], k)
    BY <1>4, <2>1 DEF BlocksMade
  <2>3. PICK s : s = Mixed(no, idx, size, count, f1.disk[lba])
    OBVIOUS
  <2>4. PICK h : h = ide_write(f1, lba, s)
    OBVIOUS
  <2>5. g.fs = h
    <3>1. g = [m EXCEPT !.fs = ide_write(@, lba, s)]
      BY <2>1, <2>3 DEF WriteBlock, Mixed
    <3> QED BY <2>1, <2>4, <3>1, BlocksWrote DEF BlocksMade
  <2>6. IsSector(s)
    BY <2>3, Sizes DEF IsSector, Mixed
  <2>7. PICK k : k = idx + 1
    OBVIOUS
  <2>8. k \in 1..MaxBlocks /\ k <= will /\ lba = Address(DataOf(f1), f1.open[no], k)
    BY <2>1, <2>2, <2>7, Sizes
  <2>9. /\ h.panic \in {"none", "outside"} /\ h.open = f1.open
        /\ h.panic = "none" =>
             /\ Growing(f0, h, no, will) /\ BytesPut(f1, h, no, k, s)
             /\ \A i : Address(DataOf(h), h.open[no], i) = Address(DataOf(f1), f1.open[no], i)
    BY ONLY WithinBounds, will \in Nat, <2>2, <2>4, <2>6, <2>8, GrowData
  <2>10. BlocksMade(f0, f, g, no, will)
    BY <1>1, <1>2, <2>2, <2>5, <2>9 DEF BlocksMade
  <2>11. ASSUME h.panic = "none"
         PROVE  Holds(DataOf(h), h.open[no], no, Reached(size, count, idx + 1))
    <3>1. Holds(DataOf(f1), f1.open[no], no, Reached(size, count, idx))
      BY <1>4, <2>1 DEF BytesMade
    <3>2. BytesPut(f1, h, no, idx + 1, s) /\ lba = Address(DataOf(f1), f1.open[no], idx + 1)
      BY <2>7, <2>8, <2>9, <2>11
    <3> QED BY <2>3, <3>1, <3>2, MixedBytes
  <2> QED BY <2>5, <2>10, <2>11 DEF BytesMade
<1> QED BY <1>3, <1>4

(* The bytes of a write go to its blocks.                                  *)
LEMMA DataWritten ==
  ASSUME WithinBounds, NEW f0, NEW f, NEW m, NEW no, NEW size \in Nat, NEW count \in Nat, count >= 1,
         NEW will \in Nat, will = (size + count) \div BlockSize + 1, will <= MaxBlocks,
         BlocksMade(f0, f, m, no, will), BytesMade(m, no, 0..size - 1),
         NEW g, g = WriteData(m, no, size, count)
  PROVE  BlocksMade(f0, f, g, no, will) /\ BytesMade(g, no, 0..size + count - 1)
<1>1. PICK from, to : from = size \div BlockSize /\ to = (size + count - 1) \div BlockSize
  OBVIOUS
<1>2. from \in Nat /\ to \in Nat /\ from <= to /\ to + 1 <= will
  <2>1. BlockSize \in Nat \ {0}
    BY Sizes
  <2>2. PICK a, c : a = size + count - 1 /\ c = size + count
    OBVIOUS
  <2>3. a \in Nat /\ c \in Nat /\ size <= a /\ a <= c
    BY <2>2
  <2>4. a \div BlockSize \in Nat /\ size \div BlockSize \in Nat /\ size \div BlockSize <= a \div BlockSize
        /\ a \div BlockSize <= c \div BlockSize /\ c \div BlockSize \in Nat
    BY <2>1, <2>3, Quotient
  <2> QED BY <1>1, <2>2, <2>4
<1>3. PICK h : WrittenTo(h, m, no, size, count, from, to + 1) /\ g = h[to + 1]
  <2>1. PICK h : h = CHOOSE x : WrittenTo(x, m, no, size, count, from, to + 1)
    OBVIOUS
  <2>2. WrittenTo(h, m, no, size, count, from, to + 1)
    <3>1. from \in Int /\ to + 1 \in Int /\ from <= to + 1
      BY <1>2
    <3> QED BY <2>1, <3>1, WrittenExist
  <2>3. g = (CHOOSE x : WrittenTo(x, m, no, size, count, from, to + 1))[to + 1]
    BY <1>1 DEF WriteData, WrittenTo
  <2> QED BY <2>1, <2>2, <2>3
<1> DEFINE T == {n \in from..to + 1 : /\ BlocksMade(f0, f, h[n], no, will)
                                      /\ BytesMade(h[n], no, Reached(size, count, n))}
<1>4. from \in T
  <2>1. from \in from..to + 1 /\ h[from] = m
    BY <1>2, <1>3 DEF WrittenTo
  <2>2. \A pos \in Reached(size, count, from) : pos \in 0..size - 1
    <3> SUFFICES ASSUME NEW pos \in Nat, pos \div BlockSize < size \div BlockSize PROVE pos < size
      BY <1>1 DEF Reached
    <3>1. BlockSize \in Nat \ {0}
      BY Sizes
    <3>2. size <= pos => size \div BlockSize <= pos \div BlockSize
      BY <3>1, Quotient
    <3>3. pos \div BlockSize \in Nat /\ size \div BlockSize \in Nat
      BY <3>1, Quotient
    <3> QED BY <3>2, <3>3
  <2>3. BytesMade(m, no, Reached(size, count, from))
    BY <2>2 DEF BytesMade, Holds
  <2> QED BY <2>1, <2>3
<1>5. ASSUME NEW n \in from..to, n \in T PROVE n + 1 \in T
  <2>1. n + 1 \in from..to + 1 /\ n + 1 # from /\ (n + 1) - 1 = n /\ n \in Nat /\ n + 1 <= will
    BY <1>2
  <2>2. h[n + 1] = WriteBlock(h[n], no, n, size, count)
    BY <1>3, <2>1 DEF WrittenTo
  <2>3. BlocksMade(f0, f, h[n], no, will) /\ BytesMade(h[n], no, Reached(size, count, n))
    BY <1>5
  <2>4. n >= size \div BlockSize
    BY <1>1, <1>2
  <2>5. BlocksMade(f0, f, h[n + 1], no, will) /\ BytesMade(h[n + 1], no, Reached(size, count, n + 1))
    BY <2>1, <2>2, <2>3, <2>4, BlockWritten
  <2> QED BY <2>1, <2>5
<1>6. \A n \in from..to + 1 : n \in T
  <2>1. (to + 1) - 1 = to /\ from \in Int /\ to + 1 \in Int
    BY <1>2
  <2> HIDE DEF T
  <2> QED BY <1>4, <1>5, <2>1, Upto
<1>7. \A pos \in 0..size + count - 1 : pos \in Reached(size, count, to + 1)
  <2> SUFFICES ASSUME NEW pos \in 0..size + count - 1 PROVE pos \div BlockSize < to + 1
    BY DEF Reached
  <2>1. PICK c : c = size + count - 1
    OBVIOUS
  <2>2. BlockSize \in Nat \ {0} /\ c \in Nat /\ pos \in Nat /\ pos <= c
    BY <2>1, Sizes
  <2>3. pos \div BlockSize <= c \div BlockSize /\ pos \div BlockSize \in Nat
    BY <2>2, Quotient
  <2> QED BY <1>1, <1>2, <2>1, <2>3
<1>8. BlocksMade(f0, f, g, no, will) /\ BytesMade(g, no, Reached(size, count, to + 1))
  BY <1>2, <1>3, <1>6
<1> QED BY <1>7, <1>8 DEF BytesMade, Holds

PutSize(f, no, n) == [f EXCEPT !.open[no].size = n]

(* The inode of a file that has grown is written.                          *)
LEMMA GrownSynced ==
  ASSUME WithinBounds, NEW f0, NEW D, Good(f0, D), NEW no \in f0.ibits \ D, NEW f, NEW will,
         Growing(f0, f, no, will), NEW n \in Nat, FileBlocks(n) = will, n <= MaxSize,
         Holds(DataOf(f), f.open[no], no, 0..n - 1),
         NEW h, h = PutSize(f, no, n), NEW g, g = SyncOpen(h, no)
  PROVE  Good(g, D) /\ g.panic = "none" /\ g.ibits = f0.ibits /\ SameUsers(f0, g)
<1>1. PICK V, A, N, V2, A2, x, x0, x2, op0, op1, op2 :
         /\ V = NodesOf(f0) /\ A = DataOf(f0) /\ N = f0.ibits /\ V2 = NodesOf(g) /\ A2 = DataOf(g)
         /\ x = f.open[no] /\ x0 = f0.open[no] /\ op0 = f0.open /\ op1 = f.open
         /\ op2 = Resized(op1, no, n) /\ x2 = op2[no]
  OBVIOUS
<1>2. /\ IsTree(V, A, N, D, f0.bbits) /\ OpenOK(V, N, op0)
  BY <1>1 DEF Good
<1>3. /\ f.panic = "none" /\ DiskShape(f) /\ BitsOK(f) /\ f.ibits = N /\ f0.bbits \subseteq f.bbits
      /\ NodesOf(f) = V /\ no \in DOMAIN op0 /\ OnlySec(op0, op1, no)
      /\ FileMap(DataOf(f), x, will)
      /\ Apart(AllBlocks(DataOf(f), x), V, A, N \ {no}, f.bbits)
      /\ \A l \in Blocks : l \notin AllBlocks(DataOf(f), x) => DataOf(f)[l] = A[l]
  BY <1>1 DEF Growing
<1>4. no \in DOMAIN op1 /\ op1 = [i \in DOMAIN op1 |-> op1[i]] /\ IsInode(x) /\ IsSec(x.sec)
  BY <1>1, GrowingNode
<1>5. h.open = op2 /\ SameDisk(f, h) /\ h.panic = "none" /\ h.bbits = f.bbits /\ h.ibits = f.ibits
  <2>1. h = [f EXCEPT !.open = op2]
    BY <1>1 DEF PutSize, Resized
  <2> QED BY <1>3, <2>1, OpenFollows DEF DiskShape
<1>6. DiskShape(h) /\ NodesOf(h) = V /\ DataOf(h) = DataOf(f)
  BY <1>3, <1>5, QuietMemory DEF Quiet
<1>7. /\ DOMAIN op2 = DOMAIN op1 /\ op2 = [i \in DOMAIN op1 |-> IF i = no THEN op2[no] ELSE op1[i]]
      /\ x2 = Node(x.no, n, x.sec, x.cnt, x.deny)
      /\ \A i \in DOMAIN op1 : i # no => op2[i] = op1[i]
  BY <1>1, <1>4, ResizedFields DEF Node
<1>8. IsOpen(x0, V[no]) /\ IsNode(V[no], no)
  BY <1>1, <1>2, <1>3 DEF OpenOK, IsTree
<1>9. x.no = no /\ x.cnt = x0.cnt /\ x.deny = x0.deny /\ x0.cnt \in Nat \ {0} /\ x0.deny \in BOOLEAN
  <2>1. x = Node(x0.no, x0.size, x.sec, x0.cnt, x0.deny)
    BY <1>1, <1>3 DEF OnlySec
  <2>2. x0.no = no
    BY <1>8, IsOpenFacts DEF IsNode
  <2> QED BY <1>8, <2>1, <2>2, NodeChanges, IsOpenFacts
<1>10. x2.no = no /\ x2.size = n /\ x2.sec = x.sec /\ x2.cnt = x0.cnt /\ x2.deny = x0.deny
  BY <1>7, <1>9, NodeChanges
<1>11. no \in Few
  BY <1>1, <1>2 DEF IsTree
<1>12. /\ g.panic = "none" /\ DiskShape(g) /\ g.open = op2 /\ g.bbits = f.bbits /\ g.ibits = N
       /\ V2 = Changed(V, no, OnDisk(x2)) /\ A2 = DataOf(f)
  <2>1. g = inode_sync(h, x2)
    BY <1>1, <1>5 DEF SyncOpen
  <2> QED BY <1>1, <1>3, <1>5, <1>6, <1>10, <1>11, <2>1, InodeSyncEffect
<1>13. /\ V2[no] = [no |-> no, size |-> n, sec |-> x.sec, cnt |-> 1, deny |-> FALSE]
       /\ \A m \in Few : m # no => V2[m] = V[m]
  <2>1. V = [m \in Few |-> V[m]]
    BY <1>1 DEF NodesOf
  <2>2. OnDisk(x2) = [no |-> no, size |-> n, sec |-> x.sec, cnt |-> 1, deny |-> FALSE]
    BY <1>4, <1>10 DEF OnDisk, IsSec
  <2> QED BY <1>11, <1>12, <2>1, <2>2 DEF Changed
<1>14. IsNode(V2[no], no) /\ V2[no].sec = x.sec /\ V2[no].size = n
  BY <1>4, <1>13 DEF IsNode, IsSec
<1>15. AllBlocks(A2, V2[no]) = AllBlocks(A2, x) /\ IsRegular(A2, V2[no])
  <2>1. \A k : Address(A2, V2[no], k) = Address(A2, x, k)
    BY <1>14 DEF Address
  <2>2. FileMap(A2, V2[no], FileBlocks(V2[no].size))
    BY <1>3, <1>12, <1>14, <2>1 DEF FileMap, Distinct
  <2>3. Holds(A2, V2[no], no, 0..n - 1)
    BY <1>1, <1>12, <2>1 DEF Holds, HasByte
  <2>4. IsRegular(A2, V2[no])
    BY <1>13, <1>14, <2>2, <2>3, RegularMap
  <2>5. AllBlocks(A2, V2[no]) = AllBlocks(A2, x)
    BY <1>14, <2>1 DEF AllBlocks, BlocksIn
  <2> QED BY <2>4, <2>5
<1>16. SameBut(V, A, V2, A2, N, {no})
  <2>1. ASSUME NEW m \in N \ {no}
        PROVE  V2[m] = V[m] /\ \A l \in AllBlocks(A, V[m]) \cap Blocks : A2[l] = A[l]
    <3>1. \A l \in AllBlocks(A, V[m]) : l \notin AllBlocks(A2, x)
      BY <1>3, <1>12 DEF Apart, NotOf
    <3>2. m \in Few
      BY <1>2 DEF IsTree
    <3> QED BY <1>3, <1>12, <1>13, <3>1, <3>2
  <2> QED BY <2>1 DEF SameBut
<1>17. IsTree(V2, A2, N, D, g.bbits)
  <2>1. Apart(AllBlocks(A2, V2[no]), V, A, N \ {no}, g.bbits) /\ f0.bbits \subseteq g.bbits
    BY <1>3, <1>12, <1>15
  <2> QED BY <1>1, <1>2, <1>14, <1>15, <1>16, <2>1, TreeWrite
<1>18. OpenOK(V2, N, op2) /\ \A m : Cnt(op2, m) = Cnt(op0, m)
  <2>1. DOMAIN op2 = DOMAIN op0
    BY <1>3, <1>7 DEF OnlySec
  <2>2. IsOpen(op2[no], V2[no])
    <3>1. x2 = Node(V2[no].no, V2[no].size, V2[no].sec, x0.cnt, x0.deny)
      <4>1. V2[no].no = no
        BY <1>13
      <4> QED BY <1>7, <1>9, <1>14, <4>1
    <3> QED BY <1>1, <1>9, <3>1, IsOpenFacts
  <2>3. \A i \in DOMAIN op2 : i # no => op2[i] = op0[i] /\ V2[i] = V[i]
    <3>1. DOMAIN op0 \subseteq Few
      BY <1>2 DEF OpenOK, IsTree
    <3> QED BY <1>3, <1>7, <1>13, <2>1, <3>1 DEF OnlySec
  <2>4. op2 = [i \in DOMAIN op2 |-> op2[i]]
    BY <1>7
  <2>5. OpenOK(V2, N, op2)
    BY <1>2, <2>1, <2>2, <2>3, <2>4 DEF OpenOK
  <2>6. \A m : Cnt(op2, m) = Cnt(op0, m)
    BY <1>1, <1>10, <2>1, <2>3 DEF Cnt
  <2> QED BY <2>5, <2>6
<1>19. BitsOK(g)
  BY <1>3, <1>12 DEF BitsOK
<1> QED BY <1>1, <1>12, <1>17, <1>18, <1>19 DEF Good, SameUsers

(* What an open regular file has in its blocks.                            *)
LEMMA OpenedFile ==
  ASSUME NEW f, NEW D, Good(f, D), NEW no \in f.ibits \ D, no \in DOMAIN f.open,
         NEW x, x = f.open[no], NEW A, A = DataOf(f)
  PROVE  /\ x.size \in Nat /\ x.size <= MaxSize /\ FileMap(A, x, FileBlocks(x.size))
         /\ Holds(A, x, no, 0..x.size - 1)
<1>1. PICK y : y = NodesOf(f)[no]
  OBVIOUS
<1>2. IsOpen(x, y) /\ IsNode(y, no) /\ IsRegular(A, y)
  BY <1>1 DEF Good, OpenOK, IsTree
<1>3. x.sec = y.sec /\ x.size = y.size /\ y.no = no /\ y.size \in Nat
  <2>1. x.sec = y.sec /\ x.size = y.size
    BY <1>2, IsOpenFacts
  <2>2. y.no = no /\ y.size \in Nat
    BY <1>2 DEF IsNode
  <2> QED BY <2>1, <2>2
<1>4. \A k : Address(A, x, k) = Address(A, y, k)
  BY <1>3 DEF Address
<1>5. x.size <= MaxSize /\ FileMap(A, y, FileBlocks(x.size)) /\ Holds(A, y, no, 0..x.size - 1)
  BY <1>2, <1>3, RegularMap
<1>6. FileMap(A, x, FileBlocks(x.size))
  BY <1>3, <1>4, <1>5 DEF FileMap, Distinct
<1>7. Holds(A, x, no, 0..x.size - 1)
  BY <1>4, <1>5 DEF Holds, HasByte
<1> QED BY <1>3, <1>5, <1>6, <1>7

(* file_write keeps the file system sound.                                 *)
LEMMA WriteGood ==
  ASSUME WithinBounds, NEW f, NEW D, Good(f, D), f.panic = "none", NEW no \in f.ibits \ D,
         no \in DOMAIN f.open, NEW count \in Nat, count >= 1, count <= BlockSize,
         f.open[no].size + count <= MaxSize, NEW w, w = file_write(f, no, count), NEW g, g = w.fs
  PROVE  /\ Follows(f, g) /\ w.pos \in 0..MaxSize
         /\ \/ g.panic \in {"full", "outside"}
            \/ Good(g, D) /\ g.panic = "none" /\ g.ibits = f.ibits /\ SameUsers(f, g)
<1>1. PICK size, f1 : size = f.open[no].size /\ f1 = FirstBlock(f, no)
  OBVIOUS
<1>2. PICK has, will : has = size \div BlockSize + 1 /\ will = (size + count) \div BlockSize + 1
  OBVIOUS
<1>3. /\ Follows(f, f1) /\ IsFs(f1) /\ size \in Nat
      /\ f1.panic = "full" \/ (Growing(f, f1, no, has) /\ KeepsBytes(f, f1, no))
  BY <1>1, <1>2, FirstBlockGood
<1>4. BlockSize \in Nat \ {0} /\ MaxBlocks \in Nat /\ MaxBlocks >= 1 /\ MaxSize \in Nat
      /\ MaxSize < (MaxBlocks - 1) * BlockSize
  <2>1. BlockSize \in Nat \ {0} /\ MaxBlocks \in Nat /\ MaxBlocks >= 1
    BY Sizes
  <2>2. MaxSize \in Nat
    BY FsAssumption
  <2>3. MaxSize < (MaxBlocks - 1) * BlockSize
    BY Zenon DEF WithinBounds
  <2> QED BY <2>1, <2>2, <2>3
<1>5. /\ has \in Nat /\ has >= 1 /\ will \in Nat /\ will \in {has, has + 1} /\ will <= MaxBlocks
      /\ ~(size + count > MaxBlocks * BlockSize)
  <2>1. PICK c, k : c = size + count /\ k = MaxBlocks - 1
    OBVIOUS
  <2>2. c \in Nat /\ k \in Nat /\ size <= c /\ c <= size + BlockSize /\ c < k * BlockSize
    BY <1>1, <1>3, <1>4, <2>1
  <2>3. /\ size \div BlockSize \in Nat /\ size \div BlockSize <= c \div BlockSize
        /\ c \div BlockSize <= size \div BlockSize + 1
    BY ONLY <1>3, <1>4, <2>2, Quotient
  <2>4. c \div BlockSize \in Nat /\ c \div BlockSize < k
    BY <1>4, <2>2, Quotient
  <2>5. MaxBlocks * BlockSize = k * BlockSize + BlockSize /\ k * BlockSize \in Nat
    BY <1>4, <2>1, <2>2
  <2> QED BY <1>2, <1>4, <2>1, <2>2, <2>3, <2>4, <2>5
<1>6. PICK m : m = MakeBlocks(f1, no, has, will)
  OBVIOUS
<1>7. BlocksMade(f, f1, m, no, will) /\ BytesMade(m, no, 0..size - 1)
  <2>1. CASE f1.panic = "full"
    <3>1. m = [fs |-> f1, blk |-> Zeros(MaxBlocks)]
      BY <1>6, <2>1 DEF MakeBlocks
    <3>2. m.fs = f1 /\ m = [fs |-> m.fs, blk |-> m.blk]
      BY <3>1
    <3> QED BY <1>3, <2>1, <3>2, FollowsSame DEF BlocksMade, BytesMade, IsBlocks
  <2>2. CASE Growing(f, f1, no, has) /\ KeepsBytes(f, f1, no)
    <3>1. BlocksMade(f, f1, m, no, will) /\ BytesStay(f1, m, no)
      BY <1>5, <1>6, <2>2, MakeGood
    <3>2. Holds(DataOf(f), f.open[no], no, 0..size - 1)
      BY <1>1, OpenedFile
    <3>3. BytesMade(m, no, 0..size - 1)
      BY <2>2, <3>1, <3>2 DEF BytesStay, KeepsBytes, BytesMade, Holds
    <3> QED BY <3>1, <3>3
  <2> QED BY <1>3, <2>1, <2>2
<1>8. PICK d : d = WriteData(m, no, size, count)
  OBVIOUS
<1>9. BlocksMade(f, f1, d, no, will) /\ BytesMade(d, no, 0..size + count - 1)
  BY <1>2, <1>3, <1>5, <1>7, <1>8, DataWritten
<1>10. PICK n, h : n = size + count /\ h = PutSize(d.fs, no, n)
  OBVIOUS
<1>11. g = SyncOpen(h, no) /\ w.pos = size - 1 + count
  <2>1. w = [fs |-> SyncOpen(h, no), pos |-> size - 1 + count]
    <3>1. ASSERT(f1, will <= MaxBlocks) = f1
      BY <1>5 DEF ASSERT
    <3> QED BY <1>1, <1>2, <1>5, <1>6, <1>8, <1>10, <3>1, Zenon DEF file_write, PutSize
  <2>2. w.fs = SyncOpen(h, no) /\ w.pos = size - 1 + count
    BY ONLY <2>1
  <2> QED BY <2>2
<1>12. Follows(d.fs, h) /\ h.panic = d.fs.panic /\ IsFs(h)
  <2>1. PICK op2 : op2 = Resized(d.fs.open, no, n)
    OBVIOUS
  <2>2. h = [d.fs EXCEPT !.open = op2]
    BY <1>10, <2>1 DEF PutSize, Resized
  <2>3. IsFs(d.fs)
    BY <1>9 DEF BlocksMade, IsBlocks
  <2> QED BY <2>2, <2>3, OpenFollows DEF Follows
<1>13. Follows(h, g) /\ (h.panic # "none" => g.panic = h.panic)
  BY <1>11, <1>12, InodeSyncWrote DEF Wrote
<1>14. Follows(f, g)
  <2>1. Follows(f1, d.fs)
    BY <1>9 DEF BlocksMade
  <2> QED BY <1>3, <1>12, <1>13, <2>1, FollowsTwice
<1>15. w.pos \in 0..MaxSize
  BY <1>1, <1>3, <1>4, <1>11
<1>16. CASE d.fs.panic # "none"
  BY <1>9, <1>12, <1>13, <1>14, <1>15, <1>16 DEF BlocksMade
<1>17. CASE d.fs.panic = "none"
  <2>1. PICK f2 : f2 = d.fs
    OBVIOUS
  <2>2. Growing(f, f2, no, will) /\ h = PutSize(f2, no, n)
    BY <1>9, <1>10, <1>17, <2>1 DEF BlocksMade
  <2>3. n \in Nat /\ FileBlocks(n) = will /\ n <= MaxSize
    BY <1>1, <1>2, <1>3, <1>10 DEF FileBlocks
  <2>4. Holds(DataOf(f2), f2.open[no], no, 0..n - 1)
    <3>1. Holds(DataOf(f2), f2.open[no], no, 0..size + count - 1)
      BY ONLY <1>9, <1>17, <2>1 DEF BytesMade
    <3>2. n - 1 = size + count - 1
      BY <1>3, <1>10
    <3> QED BY ONLY <3>1, <3>2 DEF Holds
  <2>5. Good(g, D) /\ g.panic = "none" /\ g.ibits = f.ibits /\ SameUsers(f, g)
    BY <1>11, <2>2, <2>3, <2>4, GrownSynced
  <2> QED BY <1>14, <1>15, <2>5
<1> QED BY <1>16, <1>17

-----------------------------------------------------------------------------
(* The slots of file_table with an inode.                                  *)
UsedSlots(files, no) == {slot \in Slots : files[slot].inode = no}

\* A slot has the page of a pipe or the inode of a regular file.
FileOK(file, N, D) ==
  IF file.flag = PIPE_FLAG THEN file.inode \in {NULL, PAGE}
  ELSE file.inode = NULL \/ (file.inode \in N \ D /\ file.pos \in 0..MaxSize)

FilesOK(files, N, D) == \A slot \in Slots : FileOK(files[slot], N, D)

\* i_open_cnt is the number of the inode's slots, and one for the root.
CountsOK(open, files) ==
  \A no \in Nat : Cnt(open, no) = Cardinality(UsedSlots(files, no)) + OneUser(no, 0)

\* The file system on the disk, in memory and in the table of open files.
Sound(f, files, D) == Good(f, D) /\ FilesOK(files, f.ibits, D) /\ CountsOK(f.open, files)

(* The slots are finitely many.                                            *)
LEMMA SlotsFinite == IsFiniteSet(Slots)
<1>1. 3 \in Int /\ MaxSlot - 1 \in Int
  BY FsAssumption
<1> QED BY ONLY <1>1, FS_Interval DEF Slots

InodesBut(files, files2, slot) == \A s \in Slots \ {slot} : files2[s].inode = files[s].inode

CountMoved(files, files2, slot, m) ==
  /\ Cardinality(UsedSlots(files, m)) \in Nat /\ Cardinality(UsedSlots(files2, m)) \in Nat
  /\ Cardinality(UsedSlots(files2, m))
       = Cardinality(UsedSlots(files, m)) - OneUser(m, files[slot].inode)
           + OneUser(m, files2[slot].inode)

(* When one slot gets another inode, the counts of both change by one.     *)
LEMMA SlotChanged ==
  ASSUME NEW files, NEW files2, NEW slot \in Slots, InodesBut(files, files2, slot), NEW m \in Nat
  PROVE  CountMoved(files, files2, slot, m)
<1>1. PICK R : R = UsedSlots(files, m) \ {slot}
  OBVIOUS
<1>2. IsFiniteSet(R) /\ slot \notin R
  <2> QED BY <1>1, SlotsFinite, FS_Subset DEF UsedSlots
<1>3. /\ UsedSlots(files, m) = IF files[slot].inode = m THEN R \cup {slot} ELSE R
      /\ UsedSlots(files2, m) = IF files2[slot].inode = m THEN R \cup {slot} ELSE R
  BY <1>1 DEF UsedSlots, InodesBut
<1>4. Cardinality(R) \in Nat /\ Cardinality(R \cup {slot}) = Cardinality(R) + 1
  BY <1>2, FS_CardinalityType, FS_AddElement
<1> QED BY <1>3, <1>4 DEF OneUser, CountMoved

(* Without a change of an inode all counts stay.                           *)
LEMMA SlotsSame ==
  ASSUME NEW files, NEW files2, \A s \in Slots : files2[s].inode = files[s].inode, NEW m
  PROVE  UsedSlots(files2, m) = UsedSlots(files, m)
BY DEF UsedSlots

(* An inode in a slot is open, and one that no slot has is not, but the    *)
(* root is always.                                                         *)
LEMMA OpenSlots ==
  ASSUME NEW f, NEW D, NEW files, Sound(f, files, D)
  PROVE  /\ 0 \in DOMAIN f.open /\ f.ibits \subseteq Nat
         /\ \A slot \in Slots : files[slot].inode \in Nat => files[slot].inode \in DOMAIN f.open
         /\ \A m \in Nat : m # 0 /\ (\A slot \in Slots : files[slot].inode # m) => Cnt(f.open, m) = 0
         /\ \A m \in D \ {0} : Cnt(f.open, m) = 0
<1>1. Good(f, D) /\ FilesOK(files, f.ibits, D) /\ CountsOK(f.open, files)
  BY DEF Sound
<1>2. \A m : Cnt(f.open, m) \in Nat /\ (Cnt(f.open, m) = 0 <=> m \notin DOMAIN f.open)
  BY <1>1, CntFacts DEF Good
<1>3. f.ibits \subseteq Nat /\ D \subseteq f.ibits
  BY <1>1 DEF Good, IsTree, Few
<1>5. ASSUME NEW m \in Nat
      PROVE  /\ Cnt(f.open, m) = Cardinality(UsedSlots(files, m)) + OneUser(m, 0)
             /\ Cardinality(UsedSlots(files, m)) \in Nat
             /\ Cardinality(UsedSlots(files, m)) = 0 <=> UsedSlots(files, m) = {}
  <2>1. IsFiniteSet(UsedSlots(files, m))
    BY SlotsFinite, FS_Subset DEF UsedSlots
  <2> QED BY <1>1, <2>1, FS_CardinalityType, FS_EmptySet DEF CountsOK
<1>6. 0 \in DOMAIN f.open
  BY <1>2, <1>5 DEF OneUser
<1>7. ASSUME NEW slot \in Slots, files[slot].inode \in Nat PROVE files[slot].inode \in DOMAIN f.open
  <2>1. PICK m \in Nat : m = files[slot].inode
    BY <1>7
  <2>2. slot \in UsedSlots(files, m)
    BY <2>1 DEF UsedSlots
  <2> QED BY <1>2, <1>5, <2>1, <2>2 DEF OneUser
<1>8. ASSUME NEW m \in Nat, m # 0, \A slot \in Slots : files[slot].inode # m PROVE Cnt(f.open, m) = 0
  <2>1. UsedSlots(files, m) = {}
    BY <1>8 DEF UsedSlots
  <2> QED BY <1>5, <1>8, <2>1 DEF OneUser
<1>9. ASSUME NEW m \in D \ {0} PROVE Cnt(f.open, m) = 0
  <2>1. m \in Nat /\ m # NULL /\ m # PAGE
    BY <1>3 DEF NULL, PAGE
  <2>2. ASSUME NEW slot \in Slots PROVE files[slot].inode # m
    BY <1>1, <2>1 DEF FilesOK, FileOK
  <2> QED BY <1>8, <2>1, <2>2
<1> QED BY <1>3, <1>6, <1>7, <1>8, <1>9

Known == {"none", "full", "slot", "outside"}

\* What a call leaves behind, with files the new file_table.
StepOK(f, g, files) ==
  /\ Follows(f, g) /\ g.panic \in Known
  /\ g.panic = "none" => \E D : Sound(g, files, D)

(* When an object that no slot has is gone, the rest is sound.             *)
LEMMA GoneSound ==
  ASSUME NEW f, NEW D, NEW files, Sound(f, files, D), NEW no \in Nat, NEW g, ObjectGone(f, g, D, no),
         \A slot \in Slots : files[slot].flag # PIPE_FLAG => files[slot].inode # no
  PROVE  Sound(g, files, D \ {no})
<1>1. FilesOK(files, f.ibits, D) /\ CountsOK(f.open, files)
  BY DEF Sound
<1>2. Good(g, D \ {no}) /\ g.ibits = f.ibits \ {no} /\ SameUsers(f, g)
  BY DEF ObjectGone
<1>3. FilesOK(files, g.ibits, D \ {no})
  BY <1>1, <1>2 DEF FilesOK, FileOK
<1>4. CountsOK(g.open, files)
  BY <1>1, <1>2 DEF CountsOK, SameUsers
<1> QED BY <1>2, <1>3, <1>4 DEF Sound

(* sys_unlink of a file that no slot has (fs.c:745).                       *)
LEMMA UnlinkSound ==
  ASSUME WithinBounds, NEW f, NEW D, NEW files, Sound(f, files, D), f.panic = "none",
         NEW path \in Paths, NEW rec, rec = search_file(f, path), rec.type = "regular",
         NEW no, no = rec.no, \A slot \in Slots : files[slot].inode # no,
         NEW g, g = CloseParent(inode_release(delete_dir_entry(OpenParent(f, rec), rec.parent, no), no), rec)
  PROVE  StepOK(f, g, files)
<1>1. Good(f, D)
  BY DEF Sound
<1>2. RecOK(f, D, path, rec, Len(path))
  BY <1>1, SearchFile
<1>3. no # -1
  BY <1>2 DEF RecOK
<1>4. rec.no # -1
  BY <1>3
<1>5. rec.no \in f.ibits /\ rec.no # 0
  BY ONLY WithinBounds, <1>1, <1>4, path \in Paths, rec = search_file(f, path), FoundEntry
<1>6. 0 \in DOMAIN f.open /\ no \in Nat /\ Cnt(f.open, no) = 0
  BY <1>5, OpenSlots
<1>7. ObjectGone(f, g, D, no) /\ Follows(f, g)
  BY ONLY <1>1, <1>3, <1>6, WithinBounds, f.panic = "none", path \in Paths, rec = search_file(f, path),
          rec.type = "regular", no = rec.no, UnlinkGood,
          g = CloseParent(inode_release(delete_dir_entry(OpenParent(f, rec), rec.parent, no), no), rec)
<1>8. Sound(g, files, D \ {no})
  BY <1>6, <1>7, GoneSound
<1>9. g.panic = "none"
  BY <1>7 DEF ObjectGone
<1> QED BY <1>7, <1>8, <1>9 DEF StepOK, Known

(* sys_rmdir of an empty directory (fs.c:1013).                            *)
LEMMA RmdirSound ==
  ASSUME WithinBounds, NEW f, NEW D, NEW files, Sound(f, files, D), f.panic = "none",
         NEW path \in Paths, NEW rec, rec = search_file(f, path), rec.type = "directory",
         NEW no, no = rec.no, dir_is_empty(InodeAt(f, no)),
         NEW g, g = CloseParent(inode_close(dir_remove(inode_open(OpenParent(f, rec), no), rec.parent, no), no), rec)
  PROVE  StepOK(f, g, files)
<1>1. Good(f, D) /\ FilesOK(files, f.ibits, D)
  BY DEF Sound
<1>2. RecOK(f, D, path, rec, Len(path))
  BY <1>1, SearchFile
<1>3. no # -1
  BY <1>2 DEF RecOK
<1>4. rec.no # -1
  BY <1>3
<1>5. rec.no \in f.ibits /\ rec.no # 0 /\ (rec.no \in D <=> rec.type = "directory")
  BY ONLY WithinBounds, <1>1, <1>4, path \in Paths, rec = search_file(f, path), FoundEntry
<1>6. 0 \in DOMAIN f.open /\ no \in Nat /\ no \in D \ {0} /\ Cnt(f.open, no) = 0
  BY <1>5, OpenSlots
<1>7. ObjectGone(f, g, D, no) /\ Follows(f, g)
  BY ONLY <1>1, <1>6, WithinBounds, f.panic = "none", path \in Paths, rec = search_file(f, path),
          rec.type = "directory", no = rec.no, dir_is_empty(InodeAt(f, no)), RmdirGood,
          g = CloseParent(inode_close(dir_remove(inode_open(OpenParent(f, rec), no), rec.parent, no), no), rec)
<1>8. \A slot \in Slots : files[slot].flag # PIPE_FLAG => files[slot].inode # no
  BY <1>1, <1>6 DEF FilesOK, FileOK, NULL
<1>9. Sound(g, files, D \ {no})
  BY <1>6, <1>7, <1>8, GoneSound
<1>10. g.panic = "none"
  BY <1>7 DEF ObjectGone
<1> QED BY <1>7, <1>9, <1>10 DEF StepOK, Known

(* sys_mkdir of a name that is new (fs.c:815).                             *)
LEMMA MkdirSound ==
  ASSUME WithinBounds, NEW f, NEW D, NEW files, Sound(f, files, D), f.panic = "none",
         NEW path \in Paths, path \in FilePaths \cup DirPaths,
         NEW rec, rec = search_file(f, path), rec.no = -1, rec.depth = Len(path),
         NEW a, a = inode_bitmap_alloc(OpenParent(f, rec)),
         NEW g, g = MakeDirectory(a, rec, Last(path)), g.ibits \subseteq Few
  PROVE  StepOK(f, g, files)
<1>1. Good(f, D) /\ FilesOK(files, f.ibits, D) /\ CountsOK(f.open, files) /\ 0 \in DOMAIN f.open
  BY OpenSlots DEF Sound
<1>2. /\ Follows(f, g)
      /\ g.panic \in {"full", "outside"} \/ ObjectMade(f, g, D \cup {a.no}, a.no, 0)
  BY ONLY <1>1, WithinBounds, f.panic = "none", path \in Paths, path \in FilePaths \cup DirPaths,
          rec = search_file(f, path), rec.no = -1, rec.depth = Len(path), MkdirGood,
          a = inode_bitmap_alloc(OpenParent(f, rec)), g = MakeDirectory(a, rec, Last(path)), g.ibits \subseteq Few
<1>3. CASE g.panic \in {"full", "outside"}
  BY <1>2, <1>3 DEF StepOK, Known
<1>4. CASE ObjectMade(f, g, D \cup {a.no}, a.no, 0)
  <2>1. PICK no : no = a.no
    OBVIOUS
  <2>2. /\ Good(g, D \cup {no}) /\ g.panic = "none" /\ g.ibits = f.ibits \cup {no} /\ no \notin f.ibits
        /\ \A m : Cnt(g.open, m) = Cnt(f.open, m) + (IF m = no THEN 0 ELSE 0)
    BY ONLY <1>4, <2>1 DEF ObjectMade
  <2>3. \A m : Cnt(f.open, m) \in Nat
    BY <1>1, CntFacts DEF Good
  <2>4. \A m : Cnt(g.open, m) = Cnt(f.open, m)
    BY <2>2, <2>3
  <2>5. CountsOK(g.open, files)
    BY <1>1, <2>4 DEF CountsOK
  <2>6. FilesOK(files, g.ibits, D \cup {no})
    BY <1>1, <2>2 DEF FilesOK, FileOK
  <2>7. Sound(g, files, D \cup {no})
    BY <2>2, <2>5, <2>6 DEF Sound
  <2> QED BY <1>2, <2>2, <2>7 DEF StepOK, Known
<1> QED BY <1>2, <1>3, <1>4

(* A free slot gets a regular file, and the file one user.                 *)
LEMMA SlotSound ==
  ASSUME NEW f, NEW D, NEW files, Sound(f, files, D), FilesType(files),
         NEW slot \in Slots, files[slot].inode = NULL, NEW no \in Nat, NEW flag, flag # PIPE_FLAG,
         NEW files2, files2 = SlotSet(files, slot, File(no, flag)),
         NEW g, Good(g, D), f.ibits \subseteq g.ibits, no \in g.ibits \ D,
         \A m : Cnt(g.open, m) = Cnt(f.open, m) + OneUser(m, no)
  PROVE  Sound(g, files2, D)
<1>1. FilesOK(files, f.ibits, D) /\ CountsOK(f.open, files)
  BY DEF Sound
<1>2. PICK file : file = File(no, flag)
  OBVIOUS
<1>3. file.inode = no /\ file.pos = 0 /\ file.flag = flag /\ IsFile(file)
  BY <1>2 DEF File, IsFile
<1>4. files2 = [files EXCEPT ![slot] = file]
  BY <1>2 DEF SlotSet
<1>5. files2[slot] = file /\ \A s \in Slots \ {slot} : files2[s] = files[s]
  <2>1. slot \in 0..MaxSlot - 1 /\ Slots \subseteq 0..MaxSlot - 1
    BY DEF Slots
  <2> QED BY <1>4, <2>1 DEF FilesType
<1>6. FilesOK(files2, g.ibits, D)
  <2>1. 0 \in 0..MaxSize
    BY FsAssumption
  <2>2. FileOK(file, g.ibits, D)
    BY <1>3, <2>1 DEF FileOK
  <2>3. \A s \in Slots : FileOK(files[s], f.ibits, D) => FileOK(files[s], g.ibits, D)
    BY DEF FileOK
  <2> QED BY <1>1, <1>5, <2>2, <2>3 DEF FilesOK
<1>7. ASSUME NEW m \in Nat
      PROVE  Cnt(g.open, m) = Cardinality(UsedSlots(files2, m)) + OneUser(m, 0)
  <2>1. InodesBut(files, files2, slot)
    BY <1>5 DEF InodesBut
  <2>2. CountMoved(files, files2, slot, m)
    BY ONLY <2>1, m \in Nat, slot \in Slots, SlotChanged
  <2>3. OneUser(m, files[slot].inode) = 0 /\ files2[slot].inode = no
    BY <1>3, <1>5 DEF OneUser, NULL
  <2>4. Cnt(f.open, m) = Cardinality(UsedSlots(files, m)) + OneUser(m, 0)
    BY <1>1 DEF CountsOK
  <2>5. OneUser(m, 0) \in Nat /\ OneUser(m, no) \in Nat
    BY DEF OneUser
  <2>6. Cnt(g.open, m) = Cnt(f.open, m) + OneUser(m, no)
    OBVIOUS
  <2> QED BY ONLY <2>2, <2>3, <2>4, <2>5, <2>6 DEF CountMoved
<1> QED BY <1>6, <1>7 DEF Sound, CountsOK

\* The file system with another write_deny of an open inode.
WithDeny(f, no, deny) == [f EXCEPT !.open[no].deny = deny]

(* write_deny is in memory only.                                           *)
LEMMA DenyGood ==
  ASSUME NEW f, NEW D, Good(f, D), NEW no \in DOMAIN f.open, NEW deny \in BOOLEAN,
         NEW g, g = WithDeny(f, no, deny)
  PROVE  /\ Good(g, D) /\ Follows(f, g) /\ g.panic = f.panic /\ g.ibits = f.ibits
         /\ SameCnt(f.open, g.open)
<1>1. DiskShape(f) /\ BitsOK(f) /\ OpenOK(NodesOf(f), f.ibits, f.open) /\ IsFs(f)
  BY DEF Good, DiskShape
<1>2. PICK V, N, open, op2 : V = NodesOf(f) /\ N = f.ibits /\ open = f.open /\ op2 = Denied(open, no, deny)
  OBVIOUS
<1>3. g = [f EXCEPT !.open = op2]
  BY <1>2 DEF WithDeny, Denied
<1>4. /\ Follows(f, g) /\ SameDisk(f, g) /\ g.panic = f.panic
      /\ g.open = op2 /\ g.bbits = f.bbits /\ g.ibits = f.ibits
  BY <1>1, <1>3, OpenFollows
<1>5. OpenOK(V, N, op2) /\ SameCnt(open, op2)
  <2>1. OpenOK(V, N, open)
    BY <1>1, <1>2
  <2>2. no \in DOMAIN open
    BY <1>2
  <2>3. op2 = Denied(open, no, deny)
    BY <1>2
  <2> QED BY ONLY <2>1, <2>2, <2>3, deny \in BOOLEAN, DeniedOK
<1>6. OpenOK(NodesOf(f), f.ibits, g.open) /\ SameCnt(f.open, g.open)
  BY <1>2, <1>4, <1>5
<1>7. Quiet(f, g)
  BY <1>1, <1>4, QuietMemory
<1>8. Good(g, D)
  BY <1>1, <1>4, <1>6, <1>7 DEF Good, Quiet, BitsOK
<1> QED BY <1>4, <1>6, <1>8

(* sys_open of a new name (file_create, file.c:146).                       *)
LEMMA CreateSound ==
  ASSUME WithinBounds, NEW f, NEW D, NEW files, Sound(f, files, D), f.panic = "none", FilesType(files),
         NEW path \in Paths, path \in FilePaths \cup DirPaths,
         NEW rec, rec = search_file(f, path), rec.no = -1, rec.depth = Len(path),
         NEW a, a = inode_bitmap_alloc(OpenParent(f, rec)), NEW g, g = Created(a, rec, Last(path)),
         NEW slot \in Slots, files[slot].inode = NULL, NEW flag, flag # PIPE_FLAG,
         NEW files2, files2 = SlotSet(files, slot, File(a.no, flag)), g.ibits \subseteq Few
  PROVE  StepOK(f, g, files2)
<1>1. Good(f, D) /\ 0 \in DOMAIN f.open
  BY OpenSlots DEF Sound
<1>2. Follows(f, g) /\ (g.panic = "full" \/ ObjectMade(f, g, D, a.no, 1))
  BY ONLY <1>1, WithinBounds, f.panic = "none", path \in Paths, path \in FilePaths \cup DirPaths,
          rec = search_file(f, path), rec.no = -1, rec.depth = Len(path), CreateGood,
          a = inode_bitmap_alloc(OpenParent(f, rec)), g = Created(a, rec, Last(path)), g.ibits \subseteq Few
<1>3. CASE g.panic = "full"
  BY <1>2, <1>3 DEF StepOK, Known
<1>4. CASE ObjectMade(f, g, D, a.no, 1)
  <2>1. PICK no : no = a.no
    OBVIOUS
  <2>2. /\ Good(g, D) /\ g.panic = "none" /\ g.ibits = f.ibits \cup {no} /\ no \notin f.ibits
        /\ \A m : Cnt(g.open, m) = Cnt(f.open, m) + (IF m = no THEN 1 ELSE 0)
    BY ONLY <1>4, <2>1 DEF ObjectMade
  <2>3. \A m : Cnt(g.open, m) = Cnt(f.open, m) + OneUser(m, no)
    BY <2>2 DEF OneUser
  <2>4. no \in Nat /\ no \in g.ibits \ D /\ f.ibits \subseteq g.ibits
    BY <1>1, <2>2 DEF Good, IsTree, Few
  <2>5. files2 = SlotSet(files, slot, File(no, flag))
    BY <2>1
  <2>6. Good(g, D)
    BY <2>2
  <2>7. Sound(g, files2, D)
    BY ONLY <2>3, <2>4, <2>5, <2>6, Sound(f, files, D), FilesType(files), slot \in Slots,
            files[slot].inode = NULL, flag # PIPE_FLAG, SlotSound
  <2> QED BY <1>2, <2>2, <2>7 DEF StepOK, Known
<1> QED BY <1>2, <1>3, <1>4

\* The file is open, with and without a change of write_deny.
Opened(f, h, no, files) ==
  /\ StepOK(f, h, files) /\ h.open[no].deny \in BOOLEAN
  /\ \A deny \in BOOLEAN : StepOK(f, WithDeny(h, no, deny), files)

(* sys_open of a file in the root (file_open, file.c:268).                 *)
LEMMA OpenSound ==
  ASSUME WithinBounds, NEW f, NEW D, NEW files, Sound(f, files, D), f.panic = "none", FilesType(files),
         NEW path \in Paths, Len(path) = 1, NEW rec, rec = search_file(f, path), rec.no # -1,
         rec.type # "directory", rec.depth = Len(path), NEW h, h = inode_open(OpenParent(f, rec), rec.no),
         NEW no, no = rec.no, NEW slot \in Slots, files[slot].inode = NULL, NEW flag, flag # PIPE_FLAG,
         NEW files2, files2 = SlotSet(files, slot, File(no, flag))
  PROVE  Opened(f, h, no, files2)
<1>1. Good(f, D) /\ 0 \in DOMAIN f.open
  BY OpenSlots DEF Sound
<1>2. RecOK(f, D, path, rec, Len(path))
  BY <1>1, SearchFile
<1>3. rec.held = FALSE
  BY <1>2 DEF RecOK
<1>4. /\ rec.parent \in D /\ rec.held \in BOOLEAN /\ (~rec.held => rec.parent = 0)
      /\ rec.no \in f.ibits /\ (rec.no \in D <=> rec.type = "directory")
  BY ONLY WithinBounds, <1>1, path \in Paths, rec = search_file(f, path), rec.no # -1, FoundEntry
<1>5. PICK p : p = OpenParent(f, rec)
  OBVIOUS
<1>6. /\ Good(p, D) /\ Follows(f, p) /\ p.panic = "none" /\ p.ibits = f.ibits
      /\ \A m : Cnt(p.open, m) = Cnt(f.open, m) + Held(rec, m)
  BY <1>1, <1>4, <1>5, OpenParentEffect
<1>7. no \in p.ibits /\ no \notin D /\ h = inode_open(p, no) /\ no \in Nat /\ p.panic = "none"
  BY <1>1, <1>4, <1>5, <1>6 DEF Good, IsTree, Few
<1>8. /\ Good(h, D) /\ Follows(p, h) /\ h.panic = p.panic /\ h.ibits = p.ibits
      /\ no \in DOMAIN h.open /\ UserMore(p.open, h.open, no)
  BY <1>6, <1>7, OpenGood
<1>9. Follows(f, h)
  BY <1>6, <1>8, FollowsTwice
<1>10. \A m : Cnt(h.open, m) = Cnt(f.open, m) + OneUser(m, no)
  <2>1. \A m : Cnt(f.open, m) \in Nat
    BY <1>1, CntFacts DEF Good
  <2>2. \A m : Held(rec, m) = 0
    BY <1>3 DEF Held
  <2>3. \A m : Cnt(h.open, m) = Cnt(p.open, m) + OneUser(m, no)
    BY <1>8 DEF UserMore
  <2>4. \A m : Cnt(p.open, m) = Cnt(f.open, m) + Held(rec, m)
    BY <1>6
  <2> QED BY ONLY <2>1, <2>2, <2>3, <2>4
<1>11. ASSUME NEW g, Good(g, D), g.ibits = f.ibits, g.panic = "none", Follows(f, g),
              \A m : Cnt(g.open, m) = Cnt(f.open, m) + OneUser(m, no)
       PROVE  StepOK(f, g, files2)
  <2>1. no \in g.ibits \ D /\ f.ibits \subseteq g.ibits /\ no \in Nat
    BY <1>6, <1>7, <1>11
  <2>2. Sound(g, files2, D)
    BY ONLY <1>11, <2>1, Sound(f, files, D), FilesType(files), slot \in Slots, files[slot].inode = NULL,
            flag # PIPE_FLAG, files2 = SlotSet(files, slot, File(no, flag)), SlotSound
  <2> QED BY <1>11, <2>2 DEF StepOK, Known
<1>12. StepOK(f, h, files2)
  BY <1>6, <1>8, <1>9, <1>10, <1>11
<1>13. ASSUME NEW deny \in BOOLEAN PROVE StepOK(f, WithDeny(h, no, deny), files2)
  <2>1. PICK g : g = WithDeny(h, no, deny)
    OBVIOUS
  <2>2. /\ Good(g, D) /\ Follows(h, g) /\ g.panic = h.panic /\ g.ibits = h.ibits
        /\ SameCnt(h.open, g.open)
    BY <1>8, <2>1, DenyGood
  <2>3. Follows(f, g)
    BY <1>9, <2>2, FollowsTwice
  <2>4. \A m : Cnt(g.open, m) = Cnt(f.open, m) + OneUser(m, no)
    BY <1>10, <2>2 DEF SameCnt
  <2>5. g.ibits = f.ibits /\ g.panic = "none"
    BY <1>6, <1>8, <2>2
  <2>6. StepOK(f, g, files2)
    BY <1>11, <2>2, <2>3, <2>4, <2>5
  <2> QED BY <2>1, <2>6
<1>14. h.open[no].deny \in BOOLEAN
  BY <1>8 DEF Good, OpenOK, IsOpen
<1> QED BY <1>12, <1>13, <1>14 DEF Opened

(* sys_close of a descriptor's slot (fs.c:592, file_close file.c:305).     *)
LEMMA CloseSlotSound ==
  ASSUME NEW t, t = [fs |-> t.fs, files |-> t.files], FilesType(t.files),
         NEW D, Sound(t.fs, t.files, D), t.fs.panic = "none",
         NEW slot \in Slots, t.files[slot].inode # NULL, NEW t2, t2 = CloseSlot(t, slot)
  PROVE  Sound(t2.fs, t2.files, D) /\ t2.fs.panic = "none" /\ Follows(t.fs, t2.fs)
<1>1. PICK files, file, f : files = t.files /\ file = files[slot] /\ f = t.fs
  OBVIOUS
<1>2. slot \in DOMAIN files /\ IsFile(file) /\ Slots \subseteq DOMAIN files
  <2>1. slot \in 0..MaxSlot - 1 /\ Slots \subseteq 0..MaxSlot - 1
    BY DEF Slots
  <2> QED BY <1>1, <2>1 DEF FilesType
<1>3. /\ Good(f, D) /\ FilesOK(files, f.ibits, D) /\ CountsOK(f.open, files)
      /\ FileOK(file, f.ibits, D) /\ IsFs(f) /\ f.ibits \subseteq Nat
  BY <1>1 DEF Sound, FilesOK, Good, DiskShape, IsTree, Few
<1>4. CASE file.flag = PIPE_FLAG
  <2>1. PICK file2 : file2 = [inode |-> IF file.pos = 1 THEN NULL ELSE file.inode,
                              pos |-> file.pos - 1, flag |-> file.flag]
    OBVIOUS
  <2>2. t2 = ClosePipe(t, slot)
    BY <1>1, <1>4 DEF CloseSlot
  <2>3. t2 = [fs |-> t.fs, files |-> [files EXCEPT ![slot] = file2]]
    BY <1>1, <2>1, <2>2, PipeClosed
  <2>4. t2.fs = f /\ t2.files[slot] = file2 /\ \A s \in Slots \ {slot} : t2.files[s] = files[s]
    BY <1>1, <1>2, <2>3
  <2>5. file.inode = PAGE /\ file2.inode \in {NULL, PAGE} /\ file2.flag = PIPE_FLAG
    BY <1>1, <1>3, <1>4, <2>1 DEF FileOK
  <2>6. FilesOK(t2.files, f.ibits, D)
    BY <1>3, <2>4, <2>5 DEF FilesOK, FileOK
  <2>7. ASSUME NEW m \in Nat PROVE UsedSlots(t2.files, m) = UsedSlots(files, m)
    <3>1. m # NULL /\ m # PAGE
      BY DEF NULL, PAGE
    <3> QED BY <1>1, <2>4, <2>5, <3>1 DEF UsedSlots
  <2>8. CountsOK(t2.fs.open, t2.files)
    BY <1>3, <2>4, <2>7 DEF CountsOK
  <2> QED BY <1>1, <1>3, <2>4, <2>6, <2>8, FollowsSame DEF Sound
<1>5. CASE file.flag # PIPE_FLAG
  <2>1. PICK no : no = file.inode
    OBVIOUS
  <2>2. no \in Nat /\ no \in f.ibits \ D
    BY <1>1, <1>3, <1>5, <2>1 DEF FileOK
  <2>3. no \in DOMAIN f.open
    BY <1>1, <2>1, <2>2, OpenSlots
  <2>4. PICK h, g : h = WithDeny(f, no, FALSE) /\ g = inode_close(h, no)
    OBVIOUS
  <2>5. t2 = [fs |-> g, files |-> [files EXCEPT ![slot].inode = NULL]]
    BY <1>1, <1>5, <2>1, <2>3, <2>4 DEF CloseSlot, file_close, WithDeny
  <2>6. PICK file2 : file2 = [inode |-> NULL, pos |-> file.pos, flag |-> file.flag]
    OBVIOUS
  <2>7. t2.files = [files EXCEPT ![slot] = file2] /\ t2.fs = g
    <3>1. file2 = [file EXCEPT !.inode = NULL]
      BY <1>2, <2>6 DEF IsFile
    <3> QED BY ONLY <1>1, <2>5, <3>1
  <2>8. t2.files[slot] = file2 /\ \A s \in Slots \ {slot} : t2.files[s] = files[s]
    BY <1>2, <2>7
  <2>9. /\ Good(h, D) /\ Follows(f, h) /\ h.panic = f.panic /\ h.ibits = f.ibits
        /\ SameCnt(f.open, h.open)
    <3>1. Good(f, D) /\ no \in DOMAIN f.open /\ h = WithDeny(f, no, FALSE) /\ FALSE \in BOOLEAN
      BY <1>3, <2>3, <2>4
    <3> QED BY ONLY <3>1, DenyGood
  <2>10. /\ no \in DOMAIN h.open /\ DiskShape(h) /\ BitsOK(h) /\ IsFs(h)
         /\ OpenOK(NodesOf(h), h.ibits, h.open)
    BY <2>3, <2>9 DEF SameCnt, Good, DiskShape
  <2>11. /\ Quiet(h, g) /\ g.open = Unlinked(h.open, no) /\ g.panic = h.panic
         /\ g.bbits = h.bbits /\ g.ibits = h.ibits
    BY <2>4, <2>10, OpenCloseEffect
  <2>12. OpenOK(NodesOf(h), h.ibits, g.open) /\ UserLess(h.open, g.open, no)
    <3>1. PICK V, N, open, op2 : V = NodesOf(h) /\ N = h.ibits /\ open = h.open /\ op2 = g.open
      OBVIOUS
    <3>2. OpenOK(V, N, open) /\ no \in DOMAIN open /\ op2 = Unlinked(open, no)
      BY <2>10, <2>11, <3>1
    <3>3. OpenOK(V, N, op2) /\ UserLess(open, op2, no)
      BY ONLY <3>2, UnlinkedOK
    <3> QED BY <3>1, <3>3
  <2>13. Good(g, D)
    BY <2>9, <2>10, <2>11, <2>12 DEF Good, Quiet, BitsOK
  <2>14. Follows(f, g)
    <3>1. Follows(h, g)
      BY <2>4, <2>10, OpenCloseFollow
    <3> QED BY <2>9, <3>1, FollowsTwice
  <2>15. FilesOK(t2.files, g.ibits, D)
    BY <1>3, <1>5, <2>6, <2>8, <2>9, <2>11 DEF FilesOK, FileOK
  <2>16. ASSUME NEW m \in Nat
         PROVE  Cnt(g.open, m) = Cardinality(UsedSlots(t2.files, m)) + OneUser(m, 0)
    <3>1. PICK files2 : files2 = t2.files
      OBVIOUS
    <3>3. InodesBut(files, files2, slot)
      BY <2>8, <3>1 DEF InodesBut
    <3>4. CountMoved(files, files2, slot, m)
      BY ONLY <3>3, m \in Nat, slot \in Slots, SlotChanged
    <3>5. OneUser(m, files2[slot].inode) = 0 /\ files[slot].inode = no
      BY <1>1, <2>1, <2>6, <2>8, <3>1 DEF OneUser, NULL
    <3>6. Cnt(f.open, m) = Cardinality(UsedSlots(files, m)) + OneUser(m, 0)
      BY <1>3 DEF CountsOK
    <3>7. Cnt(g.open, m) = Cnt(h.open, m) - OneUser(m, no) /\ Cnt(h.open, m) = Cnt(f.open, m)
      BY <2>9, <2>12 DEF UserLess, SameCnt
    <3>8. OneUser(m, 0) \in Nat /\ OneUser(m, no) \in Nat
      BY DEF OneUser
    <3>9. Cnt(g.open, m) = Cardinality(UsedSlots(files2, m)) + OneUser(m, 0)
      BY ONLY <3>4, <3>5, <3>6, <3>7, <3>8 DEF CountMoved
    <3> QED BY <3>1, <3>9
  <2>17. CountsOK(g.open, t2.files)
    BY <2>16 DEF CountsOK
  <2> QED BY <1>1, <2>7, <2>9, <2>11, <2>13, <2>14, <2>15, <2>17 DEF Sound
<1> QED BY <1>4, <1>5

(* exit closes all that is open (wait_exit.c:66).                          *)
LEMMA CloseAllSound ==
  ASSUME NEW f, NEW files, NEW tasks, Tables(files, tasks), NEW p \in Procs,
         NEW D, Sound(f, files, D), f.panic = "none",
         NEW t, t = CloseAll([fs |-> f, files |-> files], tasks[p].fd_table)
  PROVE  StepOK(f, t.fs, t.files)
<1>1. PICK t0, g : t0 = [fs |-> f, files |-> files] /\ g = tasks[p].fd_table
  OBVIOUS
<1>2. PICK h : InTurn(h, t0, g) /\ t = h[MaxFd - 1]
  <2>1. ClosedTo([fs |-> f, files |-> files], tasks[p].fd_table, t)
    BY CloseAllTables
  <2> QED BY <1>1, <2>1 DEF ClosedTo
<1> DEFINE T == {n \in 2..MaxFd - 1 :
                   Sound(h[n].fs, h[n].files, D) /\ h[n].fs.panic = "none" /\ Follows(f, h[n].fs)}
<1>3. MaxFd \in Nat /\ MaxFd > 3
  BY FsAssumption
<1>4. /\ \A n \in 2..MaxFd - 1 :
           h[n] = IF n = 2 THEN t0
                  ELSE IF g[n] = -1 THEN h[n - 1] ELSE CloseSlot(h[n - 1], g[n])
      /\ \A n \in 2..MaxFd - 1 : h[n] = [fs |-> h[n].fs, files |-> h[n].files] /\ FilesType(h[n].files)
      /\ \A n \in 3..MaxFd - 1 : g[n] # -1 =>
           g[n] \in Slots /\ h[n - 1].files[g[n]].inode # NULL
  BY <1>2 DEF InTurn, Closed
<1>5. 2 \in T
  <2>1. 2 \in 2..MaxFd - 1 /\ h[2].fs = f /\ h[2].files = files
    BY <1>1, <1>3, <1>4
  <2>2. IsFs(f)
    BY DEF Sound, Good, DiskShape
  <2> QED BY <2>1, <2>2, FollowsSame
<1>6. ASSUME NEW n \in 2..(MaxFd - 1) - 1, n \in T PROVE n + 1 \in T
  <2>1. n \in 2..MaxFd - 1 /\ n + 1 \in 3..MaxFd - 1 /\ n + 1 # 2 /\ (n + 1) - 1 = n /\ n + 1 \in 2..MaxFd - 1
    BY <1>3
  <2>2. PICK k, x, y : k = n + 1 /\ x = h[n] /\ y = h[k]
    OBVIOUS
  <2>3. /\ y = IF g[k] = -1 THEN x ELSE CloseSlot(x, g[k])
        /\ g[k] # -1 => g[k] \in Slots /\ x.files[g[k]].inode # NULL
    BY <1>4, <2>1, <2>2
  <2>4. x = [fs |-> x.fs, files |-> x.files] /\ FilesType(x.files)
    BY <1>4, <2>1, <2>2
  <2>5. Sound(x.fs, x.files, D) /\ x.fs.panic = "none" /\ Follows(f, x.fs)
    BY <1>6, <2>2
  <2>6. Sound(y.fs, y.files, D) /\ y.fs.panic = "none" /\ Follows(f, y.fs)
    <3>1. CASE g[k] = -1
      BY <2>3, <2>5, <3>1
    <3>2. CASE g[k] # -1
      <4>1. PICK slot : slot = g[k]
        OBVIOUS
      <4>2. slot \in Slots /\ x.files[slot].inode # NULL /\ y = CloseSlot(x, slot)
        BY <2>3, <3>2, <4>1
      <4>3. Sound(y.fs, y.files, D) /\ y.fs.panic = "none" /\ Follows(x.fs, y.fs)
        BY ONLY <2>4, <2>5, <4>2, CloseSlotSound
      <4> QED BY <2>5, <4>3, FollowsTwice
    <3> QED BY <3>1, <3>2
  <2> QED BY <2>1, <2>2, <2>6
<1>7. MaxFd - 1 \in T
  <2> HIDE DEF T
  <2> QED BY <1>3, <1>5, <1>6, Upto
<1> QED BY <1>2, <1>7 DEF StepOK, Known

\* Nothing but the counts of pipes has changed.
PipesOnly(files, files2) ==
  \A s \in Slots : /\ files2[s].inode = files[s].inode /\ files2[s].flag = files[s].flag
                   /\ files[s].flag # PIPE_FLAG => files2[s].pos = files[s].pos

(* fork counts the descriptors of pipes (fork.c:135).                      *)
LEMMA ShareAllPipes ==
  ASSUME NEW f, NEW files, FilesType(files), NEW g,
         \A fd \in Fds : g[fd] # -1 => g[fd] \in Slots /\ files[g[fd]].flag = PIPE_FLAG,
         NEW t, t = ShareAll([fs |-> f, files |-> files], g)
  PROVE  t.fs = f /\ PipesOnly(files, t.files)
<1>1. PICK t0 : t0 = [fs |-> f, files |-> files]
  OBVIOUS
<1>2. PICK h : Shared(h, t0, g, MaxFd - 1) /\ t = h[MaxFd - 1]
  <2>1. PICK h : h = CHOOSE x : Shared(x, t0, g, MaxFd - 1)
    OBVIOUS
  <2>2. Shared(h, t0, g, MaxFd - 1)
    BY <2>1, SharedExist
  <2>3. t = (CHOOSE x : Shared(x, t0, g, MaxFd - 1))[MaxFd - 1]
    BY <1>1 DEF ShareAll, Shared
  <2> QED BY <2>1, <2>2, <2>3
<1> DEFINE T == {n \in 2..MaxFd - 1 :
                   h[n] = [fs |-> f, files |-> h[n].files] /\ FilesType(h[n].files)
                     /\ PipesOnly(files, h[n].files)}
<1>3. MaxFd \in Nat /\ MaxFd > 3
  BY FsAssumption
<1>4. \A n \in 2..MaxFd - 1 :
        h[n] = IF n = 2 THEN t0
               ELSE IF g[n] = -1 THEN h[n - 1] ELSE Share(h[n - 1], g[n])
  BY <1>2 DEF Shared
<1>5. 2 \in T
  <2>1. 2 \in 2..MaxFd - 1 /\ h[2] = t0 /\ t0.files = files
    BY <1>1, <1>3, <1>4
  <2> QED BY <1>1, <2>1 DEF PipesOnly
<1>6. ASSUME NEW n \in 2..(MaxFd - 1) - 1, n \in T PROVE n + 1 \in T
  <2>1. n + 1 \in Fds /\ n + 1 # 2 /\ (n + 1) - 1 = n /\ n + 1 \in 2..MaxFd - 1
    BY <1>3 DEF Fds
  <2>2. PICK k, x, y, fls : k = n + 1 /\ x = h[n] /\ y = h[k] /\ fls = x.files
    OBVIOUS
  <2>3. /\ y = IF g[k] = -1 THEN x ELSE Share(x, g[k])
        /\ g[k] # -1 => g[k] \in Slots /\ files[g[k]].flag = PIPE_FLAG
    BY <1>4, <2>1, <2>2
  <2>4. x = [fs |-> f, files |-> fls] /\ FilesType(fls) /\ PipesOnly(files, fls)
    BY <1>6, <2>2
  <2>5. y = [fs |-> f, files |-> y.files] /\ FilesType(y.files) /\ PipesOnly(files, y.files)
    <3>1. CASE g[k] = -1
      BY <2>3, <2>4, <3>1
    <3>2. CASE g[k] # -1
      <4>1. PICK slot, file : slot = g[k] /\ file = fls[slot]
        OBVIOUS
      <4>2. slot \in Slots /\ y = Share(x, slot) /\ files[slot].flag = PIPE_FLAG
        BY <2>3, <3>2, <4>1
      <4>3. IsFile(file) /\ slot \in DOMAIN fls
        <5>1. slot \in 0..MaxSlot - 1
          BY <4>2 DEF Slots
        <5> QED BY <2>4, <4>1, <5>1 DEF FilesType
      <4>4. PICK file2 : file2 = [inode |-> file.inode, pos |-> file.pos + 1, flag |-> file.flag]
        BY Zenon
      <4>5. y = [x EXCEPT !.files[slot].pos = @ + 1]
        BY <2>2, <2>4, <4>1, <4>2, Zenon DEF Share, PipesOnly
      <4>6. file2 = [file EXCEPT !.pos = @ + 1]
        BY <4>3, <4>4 DEF IsFile
      <4>7. y = [fs |-> f, files |-> [fls EXCEPT ![slot] = file2]]
        BY ONLY <2>4, <4>1, <4>5, <4>6
      <4>8. y.files = [fls EXCEPT ![slot] = file2] /\ y = [fs |-> f, files |-> y.files]
        BY ONLY <4>7
      <4>9. IsFile(file2) /\ file2.inode = file.inode /\ file2.flag = file.flag
        BY <4>4 DEF IsFile
      <4>10. FilesType(y.files) /\ y.files[slot] = file2 /\ \A s \in Slots \ {slot} : y.files[s] = fls[s]
        <5>1. slot \in 0..MaxSlot - 1 /\ Slots \subseteq 0..MaxSlot - 1
          BY <4>2 DEF Slots
        <5> QED BY <2>4, <4>8, <4>9, <5>1 DEF FilesType
      <4>11. PipesOnly(files, y.files)
        BY <2>4, <4>1, <4>2, <4>9, <4>10 DEF PipesOnly
      <4> QED BY <4>8, <4>10, <4>11
    <3> QED BY <3>1, <3>2
  <2> QED BY <2>1, <2>2, <2>5
<1>7. MaxFd - 1 \in T
  <2> HIDE DEF T
  <2> QED BY <1>3, <1>5, <1>6, Upto
<1>8. t = [fs |-> f, files |-> t.files] /\ PipesOnly(files, t.files)
  BY <1>2, <1>7
<1> QED BY <1>8

(* What keeps the inodes in the slots keeps all sound.                     *)
LEMMA MovedSound ==
  ASSUME NEW f, NEW D, NEW files, Sound(f, files, D),
         NEW g, Good(g, D), g.ibits = f.ibits, SameUsers(f, g),
         NEW files2, \A s \in Slots : files2[s].inode = files[s].inode, FilesOK(files2, f.ibits, D)
  PROVE  Sound(g, files2, D)
BY SlotsSame DEF Sound, CountsOK, SameUsers

\* The table with another position in a slot.
PosSet(files, slot, pos) == [files EXCEPT ![slot].pos = pos]

(* sys_write, sys_read and sys_lseek move fd_pos within MaxSize.           *)
LEMMA PositionSound ==
  ASSUME NEW f, NEW D, NEW files, Sound(f, files, D), FilesType(files),
         NEW g, Good(g, D), g.ibits = f.ibits, SameUsers(f, g),
         NEW slot \in Slots, files[slot].flag # PIPE_FLAG, NEW pos \in 0..MaxSize,
         NEW files2, files2 = PosSet(files, slot, pos)
  PROVE  Sound(g, files2, D)
<1>1. PICK file : file = files[slot]
  OBVIOUS
<1>2. IsFile(file) /\ slot \in DOMAIN files /\ Slots \subseteq DOMAIN files
  <2>1. slot \in 0..MaxSlot - 1 /\ Slots \subseteq 0..MaxSlot - 1
    BY DEF Slots
  <2> QED BY <1>1, <2>1 DEF FilesType
<1>3. PICK file2 : file2 = [inode |-> file.inode, pos |-> pos, flag |-> file.flag]
  OBVIOUS
<1>4. files2 = [files EXCEPT ![slot] = file2]
  <2>1. file2 = [file EXCEPT !.pos = pos]
    BY <1>2, <1>3 DEF IsFile
  <2> QED BY ONLY <1>1, <2>1, files2 = PosSet(files, slot, pos) DEF PosSet
<1>5. files2[slot] = file2 /\ \A s \in Slots \ {slot} : files2[s] = files[s]
  BY <1>2, <1>4
<1>6. FileOK(file, f.ibits, D) /\ \A s \in Slots : FileOK(files[s], f.ibits, D)
  BY <1>1 DEF Sound, FilesOK
<1>7. FileOK(file2, f.ibits, D)
  BY <1>1, <1>3, <1>6 DEF FileOK
<1>8. FilesOK(files2, f.ibits, D)
  BY <1>5, <1>6, <1>7 DEF FilesOK
<1>9. \A s \in Slots : files2[s].inode = files[s].inode
  BY <1>1, <1>3, <1>5
<1> QED BY <1>8, <1>9, MovedSound

-----------------------------------------------------------------------------
(* The state between two calls.                                            *)
Calm(D) == Sound(fs, file_table, D) /\ Tables(file_table, task) /\ fs.panic = "none"

(* A call that changes nothing.                                            *)
LEMMA NothingDone ==
  ASSUME NEW D, Calm(D), fs' = fs, disk' = disk, file_table' = file_table
  PROVE  StepOK(fs, fs', file_table') /\ disk' = disk
<1>1. IsFs(fs)
  BY DEF Calm, Sound, Good, DiskShape
<1>2. Follows(fs, fs)
  BY <1>1, FollowsSame
<1> QED BY <1>2 DEF Calm, StepOK, Known

(* Without a slot file_create (file.c:154) has taken an inode number in    *)
(* vain, or there was none.                                                *)
LEMMA NoSlotStep ==
  ASSUME WithinBounds, NEW f, NEW D, Good(f, D), f.panic = "none", 0 \in DOMAIN f.open,
         NEW path \in Paths, path \in FilePaths \cup DirPaths,
         NEW rec, rec = search_file(f, path), rec.no = -1, rec.depth = Len(path),
         NEW a, a = inode_bitmap_alloc(OpenParent(f, rec))
  PROVE  Follows(f, a.fs) /\ a.fs.panic \in {"none", "full"}
<1>1. PICK name, de : name = Last(path) /\ de = Entry(name, 0, "regular")
  OBVIOUS
<1>2. rec.parent \in D /\ rec.held \in BOOLEAN /\ (~rec.held => rec.parent = 0)
  <2>1. de = Entry(name, 0, "regular") /\ "regular" \in {"regular", "directory"}
    BY <1>1
  <2> QED BY <1>1, <2>1, NameIsNew
<1>3. PICK f1 : f1 = OpenParent(f, rec)
  OBVIOUS
<1>4. Good(f1, D) /\ Follows(f, f1) /\ f1.panic = "none"
  BY <1>2, <1>3, OpenParentEffect
<1>5. Follows(f1, a.fs) /\ (a.fs.panic = "full" \/ Allocated(f1, a))
  <2>1. a = inode_bitmap_alloc(f1) /\ DiskShape(f1) /\ BitsOK(f1)
    BY <1>3, <1>4 DEF Good
  <2> QED BY <1>4, <2>1, AllocInode
<1> QED BY <1>4, <1>5, FollowsTwice DEF Allocated

(* sys_open (fs.c:515).                                                    *)
LEMMA OpenStep ==
  ASSUME WithinBounds, NEW D, Calm(D), FewInodes', NEW p, NEW path \in Paths,
         NEW flags \in OpenFlags, sys_open(p, path, flags)
  PROVE  StepOK(fs, fs', file_table') /\ disk' = disk
<1>1. Sound(fs, file_table, D) /\ FilesType(file_table) /\ fs.panic = "none" /\ Good(fs, D)
  BY DEF Calm, Tables, Sound
<1>2. PICK rec : rec = search_file(fs, path) /\ OpenAt(p, rec, path, flags)
  BY DEF sys_open
<1>3. PICK slot : slot = get_free_slot_in_global
  OBVIOUS
<1>4. slot = -1 \/ (slot \in Slots /\ file_table[slot].inode = NULL)
  BY <1>3, FreeSlot
<1>5. path \in IF "creat" \in flags THEN FilePaths ELSE OpenPaths
  BY DEF sys_open
<1>6. flags # PIPE_FLAG
  <2>1. flags \subseteq {"wronly", "rdwd", "creat"}
    BY FsAssumption
  <2>2. "pipe" \notin {"wronly", "rdwd", "creat"}
    OBVIOUS
  <2> QED BY <2>1, <2>2 DEF PIPE_FLAG
<1>7. CASE UNCHANGED vars
  <2>1. fs' = fs /\ disk' = disk /\ file_table' = file_table
    BY <1>7 DEF vars
  <2> QED BY <2>1, NothingDone
<1>8. CASE /\ "creat" \in flags /\ rec.no = -1 /\ rec.depth = Len(path)
           /\ file_create(p, rec, Last(path), slot, flags)
  <2>1. CASE slot = -1
    <3>1. PICK a : a = inode_bitmap_alloc(OpenParent(fs, rec)) /\ NoSlot(a.fs)
      BY <1>8, <2>1 DEF file_create
    <3>2. CASE a.fs.panic = "none"
      BY <1>7, <3>1, <3>2 DEF NoSlot
    <3>3. CASE a.fs.panic # "none"
      <4>1. fs' = a.fs /\ disk' = disk
        BY <3>1, <3>3 DEF NoSlot, Count, Return
      <4>2. PICK f : f = fs
        OBVIOUS
      <4>3. Good(f, D) /\ f.panic = "none" /\ 0 \in DOMAIN f.open
        BY <1>1, <4>2, OpenSlots
      <4>4. path \in FilePaths \cup DirPaths
        BY <1>5, <1>8
      <4>5. /\ rec = search_file(f, path) /\ rec.no = -1 /\ rec.depth = Len(path)
            /\ a = inode_bitmap_alloc(OpenParent(f, rec))
        BY <1>2, <1>8, <3>1, <4>2
      <4>6. Follows(f, a.fs) /\ a.fs.panic \in {"none", "full"}
        BY ONLY <4>3, <4>4, <4>5, WithinBounds, path \in Paths, NoSlotStep
      <4> QED BY <3>3, <4>1, <4>2, <4>6 DEF StepOK, Known
    <3> QED BY <3>2, <3>3
  <2>2. CASE slot # -1
    <3>1. PICK a : /\ a = inode_bitmap_alloc(OpenParent(fs, rec))
                   /\ Install(p, slot, File(a.no, flags), Created(a, rec, Last(path)))
      BY <1>8, <2>2 DEF file_create
    <3>2. PICK g, files2 : /\ g = Created(a, rec, Last(path))
                           /\ files2 = SlotSet(file_table, slot, File(a.no, flags))
      OBVIOUS
    <3>3. fs' = g /\ file_table' = files2 /\ disk' = disk
      BY <3>1, <3>2 DEF Install, Count, Return, SlotSet
    <3>4. g.ibits \subseteq Few
      BY <3>3 DEF FewInodes
    <3>5. path \in FilePaths \cup DirPaths
      BY <1>5, <1>8
    <3>6. slot \in Slots /\ file_table[slot].inode = NULL
      BY <1>4, <2>2
    <3>7. PICK f, files : f = fs /\ files = file_table
      OBVIOUS
    <3>8. /\ Sound(f, files, D) /\ f.panic = "none" /\ FilesType(files) /\ rec = search_file(f, path)
          /\ a = inode_bitmap_alloc(OpenParent(f, rec)) /\ files[slot].inode = NULL
          /\ files2 = SlotSet(files, slot, File(a.no, flags)) /\ rec.no = -1 /\ rec.depth = Len(path)
          /\ g = Created(a, rec, Last(path)) /\ slot \in Slots
      BY <1>1, <1>2, <1>8, <3>1, <3>2, <3>6, <3>7
    <3>9. StepOK(f, g, files2)
      BY ONLY <1>6, <3>4, <3>5, <3>8, path \in Paths, WithinBounds, CreateSound
    <3> QED BY <3>3, <3>7, <3>9
  <2> QED BY <2>1, <2>2
<1>9. CASE /\ "creat" \notin flags /\ rec.no # -1 /\ rec.depth = Len(path) /\ rec.type # "directory"
           /\ file_open(p, rec, slot, flags)
  <2>1. Len(path) = 1
    BY <1>5, <1>9, Zenon DEF WithinBounds
  <2>2. CASE slot = -1
    <3>1. fs' = OpenParent(fs, rec) /\ disk' = disk /\ file_table' = file_table
      BY <1>9, <2>2 DEF file_open, Count, Return
    <3>2. RecOK(fs, D, path, rec, Len(path))
      BY <1>1, <1>2, SearchFile
    <3>3. rec.held = FALSE
      BY <1>9, <2>1, <3>2 DEF RecOK
    <3>4. OpenParent(fs, rec) = fs
      BY <3>3 DEF OpenParent
    <3> QED BY <3>1, <3>4, NothingDone
  <2>3. CASE slot # -1
    <3>1. PICK h, no : h = inode_open(OpenParent(fs, rec), rec.no) /\ no = rec.no
      OBVIOUS
    <3>2. OpenFile(p, h, no, slot, flags)
      BY <1>9, <2>3, <3>1 DEF file_open
    <3>3. PICK files2 : files2 = SlotSet(file_table, slot, File(no, flags))
      OBVIOUS
    <3>4. slot \in Slots /\ file_table[slot].inode = NULL
      BY <1>4, <2>3
    <3>5. PICK f, files : f = fs /\ files = file_table
      OBVIOUS
    <3>6. /\ Sound(f, files, D) /\ f.panic = "none" /\ FilesType(files) /\ rec = search_file(f, path)
          /\ h = inode_open(OpenParent(f, rec), rec.no) /\ files[slot].inode = NULL
          /\ files2 = SlotSet(files, slot, File(no, flags)) /\ rec.no # -1 /\ rec.depth = Len(path)
          /\ rec.type # "directory" /\ slot \in Slots /\ no = rec.no
      BY <1>1, <1>2, <1>9, <3>1, <3>3, <3>4, <3>5
    <3>7. Opened(f, h, no, files2)
      BY ONLY <1>6, <2>1, <3>6, path \in Paths, WithinBounds, OpenSound
    <3>8. CASE Writable(flags) /\ h.open[no].deny
      <4>1. fs' = h /\ file_table' = files2 /\ disk' = disk
        BY <3>2, <3>3, <3>8 DEF OpenFile, Count, Return, SlotSet
      <4> QED BY <3>5, <3>7, <4>1 DEF Opened
    <3>9. CASE ~(Writable(flags) /\ h.open[no].deny)
      <4>1. PICK deny : deny = (h.open[no].deny \/ Writable(flags))
        OBVIOUS
      <4>2. Install(p, slot, File(no, flags), [h EXCEPT !.open[no].deny = @ \/ Writable(flags)])
        BY <3>2, <3>9 DEF OpenFile
      <4>3. fs' = WithDeny(h, no, deny) /\ file_table' = files2 /\ disk' = disk
        BY <3>3, <4>1, <4>2 DEF Install, Count, Return, SlotSet, WithDeny
      <4>4. deny \in BOOLEAN
        BY <3>7, <4>1 DEF Opened
      <4> QED BY <3>5, <3>7, <4>3, <4>4 DEF Opened
    <3> QED BY <3>8, <3>9
  <2> QED BY <2>2, <2>3
<1> QED BY <1>2, <1>3, <1>7, <1>8, <1>9 DEF OpenAt

(* The slot of a descriptor is in use.                                     *)
LEMMA SlotOfFd ==
  ASSUME Tables(file_table, task), NEW p \in Procs, NEW fd \in Fds, NEW slot,
         slot = task[p].fd_table[fd], slot # -1
  PROVE  slot \in Slots /\ file_table[slot].inode # NULL
<1>1. slot \in Slots
  BY DEF Tables, TasksType, IsTask
<1>2. <<p, fd>> \in UsersOf(task, slot) /\ SlotOK(file_table[slot], UsersOf(task, slot))
  BY <1>1 DEF Tables, UsersOf
<1> QED BY <1>1, <1>2 DEF SlotOK

(* A descriptor that is not of a pipe has a regular file that is open.     *)
LEMMA FileOfFd ==
  ASSUME NEW D, Calm(D), NEW p \in Procs, NEW fd \in Fds, HasFile(p, fd),
         NEW slot, slot = task[p].fd_table[fd], NEW no, no = file_table[slot].inode
  PROVE  /\ slot \in Slots /\ file_table[slot].flag # PIPE_FLAG
         /\ no \in fs.ibits \ D /\ no \in DOMAIN fs.open /\ file_table[slot].pos \in 0..MaxSize
<1>1. slot # -1 /\ file_table[slot].flag # PIPE_FLAG
  BY DEF HasFile, IsPipe
<1>2. Tables(file_table, task) /\ Sound(fs, file_table, D)
  BY DEF Calm
<1>3. slot \in Slots /\ no # NULL
  BY <1>1, <1>2, SlotOfFd
<1>4. no \in fs.ibits \ D /\ file_table[slot].pos \in 0..MaxSize
  BY <1>1, <1>2, <1>3 DEF Sound, FilesOK, FileOK
<1>5. no \in DOMAIN fs.open
  <2>1. fs.ibits \subseteq Nat
    BY <1>2, OpenSlots
  <2> QED BY <1>2, <1>3, <1>4, <2>1, OpenSlots
<1> QED BY <1>1, <1>3, <1>4, <1>5

(* sys_close (fs.c:592).                                                   *)
LEMMA CloseStep ==
  ASSUME NEW D, Calm(D), NEW p \in Procs, NEW fd \in Fds, sys_close(p, fd)
  PROVE  StepOK(fs, fs', file_table') /\ disk' = disk
<1>1. PICK slot, t, t2 : /\ slot = task[p].fd_table[fd] /\ t = [fs |-> fs, files |-> file_table]
                         /\ t2 = CloseSlot(t, slot)
  OBVIOUS
<1>2. fs' = t2.fs /\ file_table' = t2.files /\ disk' = disk /\ slot # -1
  BY <1>1 DEF sys_close, Done, Return
<1>3. slot \in Slots /\ file_table[slot].inode # NULL
  BY <1>1, <1>2, SlotOfFd DEF Calm
<1>4. /\ t = [fs |-> t.fs, files |-> t.files] /\ FilesType(t.files) /\ Sound(t.fs, t.files, D)
      /\ t.fs.panic = "none" /\ t.files[slot].inode # NULL
  BY <1>1, <1>3 DEF Calm, Tables
<1>5. Sound(t2.fs, t2.files, D) /\ t2.fs.panic = "none" /\ Follows(t.fs, t2.fs)
  BY ONLY <1>1, <1>3, <1>4, CloseSlotSound
<1>6. t.fs = fs
  BY <1>1
<1> QED BY <1>2, <1>5, <1>6 DEF StepOK, Known

(* exit (wait_exit.c:66).                                                  *)
LEMMA ExitStep ==
  ASSUME NEW D, Calm(D), NEW p \in Procs, sys_exit(p)
  PROVE  StepOK(fs, fs', file_table') /\ disk' = disk
<1>1. PICK t : t = CloseAll([fs |-> fs, files |-> file_table], task[p].fd_table)
  OBVIOUS
<1>2. fs' = t.fs /\ file_table' = t.files /\ disk' = disk
  BY <1>1 DEF sys_exit, Done, Return
<1>3. PICK f, files, tasks : f = fs /\ files = file_table /\ tasks = task
  OBVIOUS
<1>4. /\ Tables(files, tasks) /\ Sound(f, files, D) /\ f.panic = "none"
      /\ t = CloseAll([fs |-> f, files |-> files], tasks[p].fd_table)
  BY <1>1, <1>3 DEF Calm
<1>5. StepOK(f, t.fs, t.files)
  BY ONLY <1>4, p \in Procs, CloseAllSound
<1> QED BY <1>2, <1>3, <1>5

(* fork of a process that has pipes only (fork.c:135).                     *)
LEMMA ForkStep ==
  ASSUME ~ShareFiles, NEW D, Calm(D), NEW p \in Procs, NEW child, sys_fork(p, child)
  PROVE  StepOK(fs, fs', file_table') /\ disk' = disk
<1>1. PICK t, f, files, g :
        /\ t = ShareAll([fs |-> fs, files |-> file_table], task[p].fd_table)
        /\ f = fs /\ files = file_table /\ g = task[p].fd_table
  OBVIOUS
<1>2. fs' = t.fs /\ file_table' = t.files /\ disk' = disk
  BY <1>1 DEF sys_fork, Count, Return
<1>3. \A fd \in Fds : g[fd] # -1 => g[fd] \in Slots /\ files[g[fd]].flag = PIPE_FLAG
  BY <1>1 DEF sys_fork, Calm, Tables, TasksType, IsTask, IsPipe
<1>4. FilesType(files) /\ Sound(f, files, D)
  BY <1>1 DEF Calm, Tables
<1>5. t.fs = f /\ PipesOnly(files, t.files)
  <2>1. t = ShareAll([fs |-> f, files |-> files], g)
    BY <1>1
  <2> QED BY ONLY <1>3, <1>4, <2>1, ShareAllPipes
<1>6. /\ Good(f, D) /\ FilesOK(files, f.ibits, D) /\ IsFs(f)
  BY <1>4 DEF Sound, Good, DiskShape
<1>7. FilesOK(t.files, f.ibits, D) /\ \A s \in Slots : t.files[s].inode = files[s].inode
  BY <1>5, <1>6 DEF FilesOK, FileOK, PipesOnly
<1>8. SameUsers(f, f)
  BY DEF SameUsers
<1>9. Sound(f, t.files, D)
  BY <1>4, <1>6, <1>7, <1>8, MovedSound
<1>10. Follows(f, f)
  BY <1>6, FollowsSame
<1> QED BY <1>1, <1>2, <1>5, <1>9, <1>10 DEF Calm, StepOK, Known

(* sys_unlink (fs.c:745).                                                  *)
LEMMA UnlinkStep ==
  ASSUME WithinBounds, NEW D, Calm(D), NEW p, NEW path \in Paths, sys_unlink(p, path)
  PROVE  StepOK(fs, fs', file_table') /\ disk' = disk
<1>1. PICK rec : rec = search_file(fs, path) /\ Unlink(rec)
  BY DEF sys_unlink
<1>2. CASE UNCHANGED vars
  <2>1. fs' = fs /\ disk' = disk /\ file_table' = file_table
    BY <1>2 DEF vars
  <2> QED BY <2>1, NothingDone
<1>3. CASE ~UNCHANGED vars
  <2>1. PICK f, files, no, g :
          /\ f = fs /\ files = file_table /\ no = rec.no
          /\ g = CloseParent(inode_release(delete_dir_entry(OpenParent(fs, rec), rec.parent, no), no), rec)
    OBVIOUS
  <2>2. /\ rec.type = "regular" /\ \A slot \in Slots : files[slot].inode # no
        /\ fs' = g /\ file_table' = files /\ disk' = disk
    BY <1>1, <1>3, <2>1 DEF Unlink, Done, Return
  <2>3. /\ Sound(f, files, D) /\ f.panic = "none" /\ rec = search_file(f, path)
        /\ g = CloseParent(inode_release(delete_dir_entry(OpenParent(f, rec), rec.parent, no), no), rec)
    BY <1>1, <2>1 DEF Calm
  <2>4. StepOK(f, g, files)
    <3>1. no = rec.no /\ rec.type = "regular" /\ \A slot \in Slots : files[slot].inode # no
      BY <2>1, <2>2
    <3> QED BY ONLY <2>3, <3>1, WithinBounds, path \in Paths, UnlinkSound
  <2> QED BY <2>1, <2>2, <2>4
<1> QED BY <1>2, <1>3

(* sys_mkdir (fs.c:815).                                                   *)
LEMMA MkdirStep ==
  ASSUME WithinBounds, NEW D, Calm(D), FewInodes', NEW p, NEW path \in Paths, path \in DirPaths,
         sys_mkdir(p, path)
  PROVE  StepOK(fs, fs', file_table') /\ disk' = disk
<1>1. PICK rec : rec = search_file(fs, path) /\ Mkdir(rec, path)
  BY DEF sys_mkdir
<1>2. CASE UNCHANGED vars
  <2>1. fs' = fs /\ disk' = disk /\ file_table' = file_table
    BY <1>2 DEF vars
  <2> QED BY <2>1, NothingDone
<1>3. CASE ~UNCHANGED vars
  <2>1. PICK f, files, a, g :
          /\ f = fs /\ files = file_table /\ a = inode_bitmap_alloc(OpenParent(fs, rec))
          /\ g = MakeDirectory(a, rec, Last(path))
    OBVIOUS
  <2>2. /\ rec.no = -1 /\ rec.depth = Len(path)
        /\ fs' = g /\ file_table' = files /\ disk' = disk
    BY <1>1, <1>3, <2>1 DEF Mkdir, Count, Return
  <2>3. /\ Sound(f, files, D) /\ f.panic = "none" /\ rec = search_file(f, path)
        /\ a = inode_bitmap_alloc(OpenParent(f, rec)) /\ g.ibits \subseteq Few
        /\ path \in FilePaths \cup DirPaths /\ g = MakeDirectory(a, rec, Last(path))
    BY <1>1, <2>1, <2>2 DEF Calm, FewInodes
  <2>4. StepOK(f, g, files)
    BY ONLY <2>2, <2>3, WithinBounds, path \in Paths, MkdirSound
  <2> QED BY <2>1, <2>2, <2>4
<1> QED BY <1>2, <1>3

(* sys_rmdir (fs.c:1013): a name that is found and is not of a directory,  *)
(* or of one that is not empty, is left.                                   *)
LEMMA RmdirStep ==
  ASSUME WithinBounds, NEW D, Calm(D), NEW p, NEW path \in Paths, sys_rmdir(p, path)
  PROVE  StepOK(fs, fs', file_table') /\ disk' = disk
<1>1. PICK rec : rec = search_file(fs, path) /\ Rmdir(rec)
  BY DEF sys_rmdir
<1>2. CASE UNCHANGED vars
  <2>1. fs' = fs /\ disk' = disk /\ file_table' = file_table
    BY <1>2 DEF vars
  <2> QED BY <2>1, NothingDone
<1>3. CASE ~UNCHANGED vars
  <2>1. PICK f, files, no, g :
          /\ f = fs /\ files = file_table /\ no = rec.no
          /\ g = CloseParent(inode_close(dir_remove(inode_open(OpenParent(fs, rec), no), rec.parent, no), no), rec)
    OBVIOUS
  <2>2. /\ rec.type = "directory" /\ dir_is_empty(InodeAt(f, no))
        /\ fs' = g /\ file_table' = files /\ disk' = disk
    BY <1>1, <1>3, <2>1 DEF Rmdir, Done, Return
  <2>3. /\ Sound(f, files, D) /\ f.panic = "none" /\ rec = search_file(f, path)
        /\ g = CloseParent(inode_close(dir_remove(inode_open(OpenParent(f, rec), no), rec.parent, no), no), rec)
        /\ no = rec.no
    BY <1>1, <2>1 DEF Calm
  <2>4. StepOK(f, g, files)
    BY ONLY <2>2, <2>3, WithinBounds, path \in Paths, RmdirSound
  <2> QED BY <2>1, <2>2, <2>4
<1> QED BY <1>2, <1>3

(* A call that moves the position of a descriptor's file within MaxSize.   *)
LEMMA MoveStep ==
  ASSUME NEW D, Calm(D), NEW slot \in Slots, file_table[slot].flag # PIPE_FLAG, NEW pos \in 0..MaxSize,
         fs' = fs, disk' = disk, file_table' = PosSet(file_table, slot, pos)
  PROVE  StepOK(fs, fs', file_table') /\ disk' = disk
<1>1. PICK f, files, files2 : f = fs /\ files = file_table /\ files2 = PosSet(file_table, slot, pos)
  OBVIOUS
<1>2. /\ Sound(f, files, D) /\ FilesType(files) /\ Good(f, D) /\ IsFs(f) /\ f.panic = "none"
      /\ files[slot].flag # PIPE_FLAG /\ files2 = PosSet(files, slot, pos)
  BY <1>1 DEF Calm, Tables, Sound, Good, DiskShape
<1>3. SameUsers(f, f) /\ f.ibits = f.ibits
  BY DEF SameUsers
<1>4. Sound(f, files2, D)
  BY ONLY <1>2, <1>3, slot \in Slots, pos \in 0..MaxSize, PositionSound
<1>5. Follows(f, f)
  BY <1>2, FollowsSame
<1> QED BY <1>1, <1>2, <1>4, <1>5 DEF StepOK, Known

(* sys_write of a regular file (file_write, file.c:323).                   *)
LEMMA WriteStep ==
  ASSUME WithinBounds, NEW D, Calm(D), NEW p \in Procs, NEW fd \in Fds, NEW count \in Writes,
         sys_write(p, fd, count)
  PROVE  StepOK(fs, fs', file_table') /\ disk' = disk
<1>1. PICK slot, no : slot = task[p].fd_table[fd] /\ no = file_table[slot].inode
  OBVIOUS
<1>2. HasFile(p, fd)
  BY DEF sys_write
<1>3. /\ slot \in Slots /\ file_table[slot].flag # PIPE_FLAG
      /\ no \in fs.ibits \ D /\ no \in DOMAIN fs.open
  BY ONLY <1>1, <1>2, Calm(D), p \in Procs, fd \in Fds, FileOfFd
<1>4. PICK w : /\ w = file_write(fs, no, count) /\ fs.open[no].size + count <= MaxSize
               /\ fs' = w.fs /\ disk' = disk
               /\ file_table' = [file_table EXCEPT ![slot].pos = IF w.pos = -1 THEN @ ELSE w.pos]
  BY <1>1, <1>3, Zenon DEF sys_write, Done, Return
<1>5. PICK f, files, g : f = fs /\ files = file_table /\ g = w.fs
  OBVIOUS
<1>6. /\ Sound(f, files, D) /\ FilesType(files) /\ Good(f, D) /\ f.panic = "none"
      /\ no \in f.ibits \ D /\ no \in DOMAIN f.open /\ f.open[no].size + count <= MaxSize
      /\ w = file_write(f, no, count) /\ files[slot].flag # PIPE_FLAG
  BY <1>3, <1>4, <1>5 DEF Calm, Tables, Sound
<1>7. count \in Nat /\ count >= 1 /\ count <= BlockSize
  <2>1. count \in Nat /\ count >= 1
    BY FsAssumption
  <2> QED BY <2>1, Zenon DEF WithinBounds
<1>8. /\ Follows(f, g) /\ w.pos \in 0..MaxSize
      /\ \/ g.panic \in {"full", "outside"}
         \/ Good(g, D) /\ g.panic = "none" /\ g.ibits = f.ibits /\ SameUsers(f, g)
  BY ONLY <1>5, <1>6, <1>7, WithinBounds, WriteGood
<1>9. PICK pos, files2 : pos = w.pos /\ files2 = PosSet(files, slot, pos)
  OBVIOUS
<1>10. file_table' = files2 /\ fs' = g
  <2>1. w.pos # -1
    BY <1>8
  <2> QED BY <1>4, <1>5, <1>9, <2>1 DEF PosSet
<1>11. CASE g.panic \in {"full", "outside"}
  BY <1>4, <1>5, <1>8, <1>10, <1>11 DEF StepOK, Known
<1>12. CASE Good(g, D) /\ g.panic = "none" /\ g.ibits = f.ibits /\ SameUsers(f, g)
  <2>1. pos \in 0..MaxSize
    BY <1>8, <1>9
  <2>2. Sound(g, files2, D)
    BY ONLY <1>3, <1>6, <1>9, <1>12, <2>1, PositionSound
  <2> QED BY <1>4, <1>5, <1>8, <1>10, <1>12, <2>2 DEF StepOK, Known
<1> QED BY <1>8, <1>11, <1>12

(* sys_lseek (fs.c:647).                                                   *)
LEMMA SeekStep ==
  ASSUME NEW D, Calm(D), NEW p \in Procs, NEW fd \in Fds, NEW seek \in Seeks, Seek(p, fd, seek[1], seek[2])
  PROVE  StepOK(fs, fs', file_table') /\ disk' = disk
<1>1. PICK slot, no, file, pos :
        /\ slot = task[p].fd_table[fd] /\ file = file_table[slot] /\ no = file.inode
        /\ pos = sys_lseek(fs.open[no], file.pos, seek[1], seek[2])
  OBVIOUS
<1>2. HasFile(p, fd)
  BY DEF Seek
<1>3. no = file_table[slot].inode
  BY <1>1
<1>4. /\ slot \in Slots /\ file_table[slot].flag # PIPE_FLAG
      /\ no \in fs.ibits \ D /\ no \in DOMAIN fs.open /\ file.pos \in 0..MaxSize
  BY ONLY <1>1, <1>2, <1>3, Calm(D), p \in Procs, fd \in Fds, FileOfFd
<1>5. /\ fs' = fs /\ disk' = disk
      /\ file_table' = [file_table EXCEPT ![slot].pos = IF pos = -1 THEN @ ELSE pos]
  BY <1>1, <1>4, Zenon DEF Seek, Count, Return
<1>6. fs.open[no].size \in Nat /\ fs.open[no].size <= MaxSize
  <2>1. IsOpen(fs.open[no], NodesOf(fs)[no]) /\ IsRegular(DataOf(fs), NodesOf(fs)[no])
        /\ IsNode(NodesOf(fs)[no], no)
    BY <1>4 DEF Calm, Sound, Good, IsTree, OpenOK
  <2> QED BY <2>1 DEF IsOpen, IsRegular, IsNode
<1>7. pos = -1 \/ pos \in 0..MaxSize
  <2>1. PICK offset, whence, size : offset = seek[1] /\ whence = seek[2] /\ size = fs.open[no].size
    OBVIOUS
  <2>2. offset \in Int /\ whence \in {"set", "cur", "end"}
    BY <2>1, FsAssumption
  <2>3. MaxSize \in Nat
    BY FsAssumption
  <2>4. PICK new_pos : new_pos = CASE whence = "set" -> offset
                                   [] whence = "cur" -> file.pos + offset
                                   [] whence = "end" -> size + offset
    OBVIOUS
  <2>5. new_pos \in Int
    <3>1. file.pos \in Int /\ size \in Int
      BY <1>4, <1>6, <2>1
    <3> QED BY <2>2, <2>4, <3>1
  <2>6. pos = IF new_pos < 0 \/ new_pos > size - 1 THEN -1 ELSE new_pos
    BY <1>1, <2>1, <2>4 DEF sys_lseek
  <2> QED BY <1>6, <2>1, <2>3, <2>5, <2>6
<1>8. PICK pos2 : pos2 = IF pos = -1 THEN file.pos ELSE pos
  OBVIOUS
<1>9. file_table' = PosSet(file_table, slot, pos2) /\ pos2 \in 0..MaxSize
  BY <1>1, <1>4, <1>5, <1>7, <1>8 DEF PosSet
<1> QED BY <1>4, <1>5, <1>9, MoveStep

(* A file that reaches behind the direct blocks has an indirect block.     *)
LEMMA TablePresent ==
  ASSUME WithinBounds, NEW A, NEW x, NEW size \in Nat, FileMap(A, x, FileBlocks(size)),
         NEW end \in Nat, end <= size, end \div BlockSize > Direct
  PROVE  x.sec[Direct + 1] # 0
<1>1. BlockSize \in Nat \ {0} /\ Direct \in Nat
  BY Sizes
<1>2. PICK n, m : n = end \div BlockSize /\ m = size \div BlockSize
  OBVIOUS
<1>3. n \in Nat /\ m \in Nat /\ n <= m /\ (size = 0 => m = 0)
  BY <1>1, <1>2, Quotient
<1>4. n > Direct
  BY <1>2
<1>5. FileBlocks(size) = m + 1
  BY <1>1, <1>2, <1>3, <1>4 DEF FileBlocks
<1>6. x.sec[Direct + 1] # 0 <=> m + 1 > Direct
  BY <1>5 DEF FileMap
<1> QED BY <1>1, <1>3, <1>4, <1>6

\* What file_read says of a position and an inode's size.
ReadOK(r, pos) == r.end # "assert" /\ pos + Len(r.bytes) \in 0..MaxSize

(* file_read returns bytes of the file only, and its ASSERTs hold: the     *)
(* files are smaller than the blocks it can address.                       *)
LEMMA ReadFacts ==
  ASSUME WithinBounds, NEW f, NEW inode, inode.size \in Nat, inode.size <= MaxSize,
         NEW A, FileMap(A, inode, FileBlocks(inode.size)),
         NEW pos \in 0..MaxSize, NEW count \in Reads
  PROVE  ReadOK(file_read(f, inode, pos, count), pos)
<1>1. PICK size, start, end, r :
        /\ size = IF pos + count > inode.size THEN inode.size - pos ELSE count
        /\ start = pos \div BlockSize /\ end = (pos + size) \div BlockSize
        /\ r = file_read(f, inode, pos, count)
  OBVIOUS
<1>2. count \in Nat /\ MaxSize \in Nat
  BY FsAssumption
<1>3. size \in Int /\ pos + size \in 0..MaxSize
  BY <1>1, <1>2
<1>4. start < MaxBlocks - 1 /\ end < MaxBlocks - 1 /\ start \in Nat /\ end \in Nat
  <2>1. BlockSize \in Nat /\ BlockSize >= 1 /\ MaxBlocks \in Nat
    BY Sizes
  <2>2. MaxSize < (MaxBlocks - 1) * BlockSize
    BY Zenon DEF WithinBounds
  <2>3. ASSUME NEW n \in Nat, n <= MaxSize
        PROVE  n \div BlockSize < MaxBlocks - 1 /\ n \div BlockSize \in Nat
    <3>1. PICK q : q = n \div BlockSize
      OBVIOUS
    <3>2. q \in Nat /\ q * BlockSize <= n
      BY ONLY <2>1, <2>3, <3>1
    <3>3. q < MaxBlocks - 1
      <4>1. SUFFICES ASSUME q >= MaxBlocks - 1 PROVE FALSE
        BY <2>1, <3>2
      <4>2. q * BlockSize >= (MaxBlocks - 1) * BlockSize
        BY ONLY <2>1, <3>2, <4>1, SMTT(30)
      <4>3. PICK x, y : x = q * BlockSize /\ y = (MaxBlocks - 1) * BlockSize
        OBVIOUS
      <4>4. x \in Int /\ y \in Int
        BY <2>1, <3>2, <4>3
      <4> QED BY ONLY <1>2, <2>2, <2>3, <3>2, <4>2, <4>3, <4>4
    <3> QED BY <3>1, <3>2, <3>3
  <2>4. pos + size \in Nat /\ pos + size <= MaxSize /\ pos \in Nat /\ pos <= MaxSize
    BY <1>2, <1>3
  <2> QED BY <1>1, <2>3, <2>4
<1>5. CASE size = 0
  <2>1. r = [end |-> "end", bytes |-> <<>>]
    BY <1>1, <1>5, Zenon DEF file_read
  <2>2. r.end = "end" /\ Len(r.bytes) = 0
    BY <2>1
  <2> QED BY <1>1, <2>2 DEF ReadOK
<1>6. CASE size # 0
  <2>1. PICK Bs : r = [end |-> "read", bytes |-> [k \in 1..size |-> Bs[k]]]
    <3>1. PICK blk : blk = ReadBlocks(f, inode, start, end)
      OBVIOUS
    <3> DEFINE Byt(k) == LET lba == blk[k \div BlockSize + 1]
                         IN  IF lba = Junk THEN Junk ELSE f.disk[lba][(k % BlockSize) + 1]
    <3>2. ~(start >= MaxBlocks - 1 \/ end >= MaxBlocks - 1)
      <4>1. MaxBlocks \in Nat
        BY Sizes
      <4> QED BY <1>4, <4>1
    <3>3. r = [end |-> "read", bytes |-> [k \in 1..size |-> Byt(pos + k - 1)]]
      <4>1. ~(start < Direct /\ end > Direct /\ inode.sec[Direct + 1] = 0)
        <5>1. PICK isize, last : isize = inode.size /\ last = pos + size
          OBVIOUS
        <5>2. isize \in Nat /\ last \in Nat /\ last <= isize /\ end = last \div BlockSize
          BY <1>1, <1>2, <1>3, <5>1
        <5>3. FileMap(A, inode, FileBlocks(isize))
          BY <5>1
        <5>4. end > Direct => inode.sec[Direct + 1] # 0
          BY ONLY WithinBounds, <5>2, <5>3, TablePresent
        <5> QED BY <5>4
      <4> QED BY <1>1, <1>6, <3>1, <3>2, <4>1, Zenon DEF file_read
    <3> HIDE DEF Byt
    <3>4. PICK Bs : Bs = [k \in 1..size |-> Byt(pos + k - 1)]
      OBVIOUS
    <3>5. Bs = [k \in 1..size |-> Bs[k]]
      BY <3>4
    <3>6. r = [end |-> "read", bytes |-> [k \in 1..size |-> Bs[k]]]
      BY ONLY <3>3, <3>4, <3>5, Zenon
    <3> QED BY ONLY <3>6, Zenon
  <2>2. r.end = "read" /\ r.bytes = [k \in 1..size |-> Bs[k]]
    BY <2>1
  <2>3. CASE size >= 0
    <3>1. size \in Nat
      BY <1>3, <2>3
    <3>2. Len(r.bytes) = size
      BY <2>2, <3>1
    <3> QED BY <1>1, <1>3, <2>2, <3>2 DEF ReadOK
  <2>4. CASE size < 0
    <3>1. 1..size = 1..0
      BY <1>3, <2>4
    <3>2. r.bytes = [k \in 1..0 |-> Bs[k]]
      BY <2>2, <3>1
    <3>3. Len(r.bytes) = 0
      BY <3>2
    <3>4. r.end # "assert" /\ pos + Len(r.bytes) = pos
      <4>1. pos \in Int
        BY <1>2
      <4>2. pos + Len(r.bytes) = pos
        BY ONLY <3>3, <4>1
      <4>3. r.end # "assert"
        BY ONLY <2>2
      <4> QED BY ONLY <4>2, <4>3
    <3> QED BY ONLY <1>1, <3>4, pos \in 0..MaxSize DEF ReadOK
  <2> QED BY <1>3, <2>3, <2>4
<1> QED BY <1>5, <1>6

(* sys_read of a regular file (file_read, file.c:558).                     *)
LEMMA ReadStep ==
  ASSUME WithinBounds, NEW D, Calm(D), NEW p \in Procs, NEW fd \in Fds, NEW count \in Reads,
         sys_read(p, fd, count)
  PROVE  StepOK(fs, fs', file_table') /\ disk' = disk
<1>1. PICK slot, no, file, r :
        /\ slot = task[p].fd_table[fd] /\ file = file_table[slot] /\ no = file.inode
        /\ r = file_read(fs, fs.open[no], file.pos, count)
  OBVIOUS
<1>2. HasFile(p, fd)
  BY Zenon DEF sys_read
<1>3. no = file_table[slot].inode
  BY <1>1
<1>4. /\ slot \in Slots /\ file_table[slot].flag # PIPE_FLAG
      /\ no \in fs.ibits \ D /\ no \in DOMAIN fs.open /\ file.pos \in 0..MaxSize
  BY ONLY <1>1, <1>2, <1>3, Calm(D), p \in Procs, fd \in Fds, FileOfFd
<1>5. /\ fs' = ASSERT(fs, r.end # "assert") /\ disk' = disk
      /\ file_table' = [file_table EXCEPT ![slot].pos = @ + Len(r.bytes)]
  BY <1>1, <1>4, Zenon DEF sys_read, Count, Return
<1>6. PICK inode : inode = fs.open[no]
  OBVIOUS
<1>7. inode.size \in Nat /\ inode.size <= MaxSize /\ FileMap(DataOf(fs), inode, FileBlocks(inode.size))
  <2>1. PICK f : f = fs
    OBVIOUS
  <2>2. Good(f, D) /\ no \in f.ibits \ D /\ no \in DOMAIN f.open /\ inode = f.open[no]
    BY <1>4, <1>6, <2>1 DEF Calm, Sound
  <2>3. inode.size \in Nat /\ inode.size <= MaxSize /\ FileMap(DataOf(f), inode, FileBlocks(inode.size))
    BY ONLY <2>2, OpenedFile
  <2> QED BY <2>1, <2>3
<1>8. PICK pos : pos = file.pos
  OBVIOUS
<1>9. ReadOK(r, pos)
  <2>1. pos \in 0..MaxSize /\ r = file_read(fs, inode, pos, count)
    BY <1>1, <1>4, <1>6, <1>8, Zenon
  <2> QED BY ONLY <1>7, <2>1, WithinBounds, count \in Reads, ReadFacts
<1>10. fs' = fs
  BY <1>5, <1>9 DEF ReadOK, ASSERT
<1>11. PICK pos2 : pos2 = pos + Len(r.bytes)
  OBVIOUS
<1>12. file_table' = PosSet(file_table, slot, pos2) /\ pos2 \in 0..MaxSize
  BY <1>1, <1>5, <1>8, <1>9, <1>11, Zenon DEF PosSet, ReadOK
<1> QED BY <1>4, <1>5, <1>10, <1>12, MoveStep

\* The table with a pipe in a slot.
PipeSet(files, slot) == [files EXCEPT ![slot] = [inode |-> PAGE, pos |-> 2, flag |-> PIPE_FLAG]]

(* A pipe in a free slot changes no inode's count.                         *)
LEMMA PipeSound ==
  ASSUME NEW f, NEW D, NEW files, Sound(f, files, D), FilesType(files),
         NEW slot \in Slots, files[slot].inode = NULL, NEW files2, files2 = PipeSet(files, slot)
  PROVE  Sound(f, files2, D)
<1>1. PICK file2 : file2 = [inode |-> PAGE, pos |-> 2, flag |-> PIPE_FLAG]
  OBVIOUS
<1>2. slot \in DOMAIN files
  BY DEF FilesType, Slots
<1>3. files2[slot] = file2 /\ \A s \in Slots \ {slot} : files2[s] = files[s]
  <2>1. files2 = [files EXCEPT ![slot] = file2]
    BY <1>1 DEF PipeSet
  <2> QED BY <1>2, <2>1
<1>4. FileOK(file2, f.ibits, D)
  BY <1>1 DEF FileOK
<1>5. FilesOK(files2, f.ibits, D)
  BY <1>3, <1>4 DEF Sound, FilesOK
<1>6. \A m \in Nat : UsedSlots(files2, m) = UsedSlots(files, m)
  <2>1. ASSUME NEW m \in Nat, NEW s \in Slots
        PROVE  files2[s].inode = m <=> files[s].inode = m
    <3>1. m # PAGE /\ m # NULL
      BY DEF PAGE, NULL
    <3>2. file2.inode = PAGE
      BY <1>1
    <3> QED BY <1>3, <3>1, <3>2
  <2> QED BY <2>1 DEF UsedSlots
<1> QED BY <1>5, <1>6 DEF Sound, CountsOK

(* sys_pipe (pipe.c:37): without a free slot it stops at an ASSERT.        *)
LEMMA PipeStep ==
  ASSUME NEW D, Calm(D), NEW p, sys_pipe(p)
  PROVE  StepOK(fs, fs', file_table') /\ disk' = disk
<1>1. PICK slot : slot = get_free_slot_in_global
  OBVIOUS
<1>2. slot = -1 \/ (slot \in Slots /\ file_table[slot].inode = NULL)
  BY <1>1, FreeSlot
<1>3. PipeAt(p, slot)
  BY <1>1 DEF sys_pipe
<1>4. Sound(fs, file_table, D) /\ FilesType(file_table) /\ IsFs(fs) /\ fs.panic = "none"
  BY DEF Calm, Tables, Sound, Good, DiskShape
<1>5. CASE slot = -1
  <2>1. PICK g : g = Panic(fs, "slot")
    OBVIOUS
  <2>2. fs' = g /\ disk' = disk
    BY <1>3, <1>5, <2>1 DEF PipeAt, Count, Return
  <2>3. Follows(fs, g) /\ g.panic = "slot"
    BY <1>4, <2>1, PanicFollows
  <2> QED BY <2>2, <2>3 DEF StepOK, Known
<1>6. CASE slot # -1
  <2>1. PICK files2 : files2 = PipeSet(file_table, slot)
    OBVIOUS
  <2>2. fs' = fs /\ disk' = disk /\ file_table' = files2
    BY <1>3, <1>6, <2>1 DEF PipeAt, Count, Return, PipeSet
  <2>3. Sound(fs, files2, D)
    BY <1>2, <1>4, <1>6, <2>1, PipeSound
  <2>4. Follows(fs, fs)
    BY <1>4, FollowsSame
  <2> QED BY <1>4, <2>2, <2>3, <2>4 DEF StepOK, Known
<1> QED BY <1>5, <1>6

(* sys_chdir (fs.c:1199) and sys_fd_redirect (pipe.c:88) change the tasks. *)
LEMMA TaskStep ==
  ASSUME NEW D, Calm(D), NEW p, NEW path, NEW fd1, NEW fd2,
         sys_chdir(p, path) \/ sys_fd_redirect(p, fd1, fd2)
  PROVE  StepOK(fs, fs', file_table') /\ disk' = disk
<1>1. fs' = fs /\ disk' = disk /\ file_table' = file_table
  BY DEF sys_chdir, sys_fd_redirect, Count, Return
<1> QED BY <1>1, NothingDone

-----------------------------------------------------------------------------
(* The sectors of a partition that partition_format (fs.c:132) has made.   *)
LEMMA FormattedSectors ==
  ASSUME WithinBounds, NEW lba \in 0..SecCnt - 1, NEW s, s = FormattedDisk[lba]
  PROVE  /\ lba \in 2..inode_bitmap_lba - 1 => s = BitsOfSector(FormatBits, lba - 2)
         /\ lba \in inode_bitmap_lba..inode_table_lba - 1 => s = BitsOfSector({0}, lba - inode_bitmap_lba)
         /\ lba \in inode_table_lba..data_start_lba - 1 =>
              s = [w \in 1..SectorWords |-> IF lba = inode_table_lba /\ w <= InodeWords THEN RootWords[w] ELSE 0]
         /\ lba = data_start_lba =>
              s = EntrySector(<<Entry(".", 0, "directory"), Entry("..", 0, "directory")>>)
         /\ lba > data_start_lba => s = Zeros(BlockSize)
<1>1. /\ SecCnt \in Nat /\ inode_bitmap_lba \in Nat /\ inode_table_lba \in Nat /\ data_start_lba \in Nat
      /\ inode_bitmap_lba >= 3 /\ inode_table_lba > inode_bitmap_lba
      /\ inode_table_lba + 1 <= data_start_lba /\ data_start_lba < SecCnt
  BY Layout
<1>2. PICK i, t, ds : i = inode_bitmap_lba /\ t = inode_table_lba /\ ds = data_start_lba
  OBVIOUS
<1>3. PICK bb, ib, words, dots, zeros, junk :
        /\ bb = BitsOfSector(FormatBits, lba - 2) /\ ib = BitsOfSector({0}, lba - inode_bitmap_lba)
        /\ words = [w \in 1..SectorWords |-> IF lba = inode_table_lba /\ w <= InodeWords THEN RootWords[w] ELSE 0]
        /\ dots = EntrySector(<<Entry(".", 0, "directory"), Entry("..", 0, "directory")>>)
        /\ zeros = Zeros(BlockSize) /\ junk = [o \in 1..BlockSize |-> Junk]
  OBVIOUS
<1>4. s = CASE lba < 2 -> junk
            [] lba \in 2..i - 1 -> bb
            [] lba \in i..t - 1 -> ib
            [] lba \in t..ds - 1 -> words
            [] lba = ds -> dots
            [] OTHER -> zeros
  <2> HIDE DEF WithinBounds
  <2>1. block_bitmap_lba = 2
    BY DEF block_bitmap_lba
  <2> QED BY ONLY <1>2, <1>3, <2>1, lba \in 0..SecCnt - 1, s = FormattedDisk[lba] DEF FormattedDisk
<1>5. /\ lba \in Int /\ i \in Int /\ t \in Int /\ ds \in Int /\ i >= 3 /\ t > i /\ t + 1 <= ds
  BY <1>1, <1>2
<1>6. /\ lba \in 2..i - 1 => s = bb
      /\ lba \in i..t - 1 => s = ib
      /\ lba \in t..ds - 1 => s = words
      /\ lba = ds => s = dots
      /\ lba > ds => s = zeros
  BY ONLY <1>4, <1>5
<1> QED BY ONLY <1>2, <1>3, <1>6

(* The bits of a formatted partition.                                      *)
LEMMA FormattedBits ==
  ASSUME WithinBounds
  PROVE  /\ FormatBits \subseteq 0..block_bitmap_len - 1 /\ 0 \in FormatBits
         /\ \A bits, sec : BitsOfSector(bits, sec) \subseteq bits
         /\ \A bits : 0 \in bits => 0 \in BitsOfSector(bits, 0)
<1>1. /\ block_bitmap_len \in Nat /\ block_bitmap_len >= 1
      /\ block_bitmap_bit_len \in Nat
  BY Layout
<1>2. FormatBits = {0} \cup (block_bitmap_bit_len + 1)..(block_bitmap_len - 1)
  BY DEF FormatBits, block_bitmap_len
<1>3. BitsPerSec \in Nat /\ BitsPerSec >= 1
  BY InodeAssumption
<1>4. 0 \div BitsPerSec = 0
  BY ONLY <1>3
<1> QED BY <1>1, <1>2, <1>4 DEF BitsOfSector

(* The shape of what is on a formatted partition.                          *)
LEMMA FormattedShape == ASSUME WithinBounds PROVE DiskOK(FormattedDisk)
<1>1. PICK d : d = FormattedDisk
  OBVIOUS
<1>2. /\ SecCnt \in Nat /\ inode_bitmap_lba \in Nat /\ inode_table_lba \in Nat /\ data_start_lba \in Nat
      /\ inode_bitmap_lba >= 3 /\ inode_table_lba > inode_bitmap_lba
      /\ inode_table_lba + 1 <= data_start_lba /\ data_start_lba < SecCnt
      /\ inode_bitmap_len \in Nat /\ inode_bitmap_len >= 1
  BY Layout
<1>3. DOMAIN d = 0..SecCnt - 1
  BY <1>1 DEF FormattedDisk
<1>4. ASSUME NEW lba \in 0..SecCnt - 1
      PROVE  TypedSector(lba, d[lba])
  <2>1. PICK s : s = d[lba]
    OBVIOUS
  <2>2. /\ lba \in 2..inode_bitmap_lba - 1 => s = BitsOfSector(FormatBits, lba - 2)
        /\ lba \in inode_bitmap_lba..inode_table_lba - 1 => s = BitsOfSector({0}, lba - inode_bitmap_lba)
        /\ lba \in inode_table_lba..data_start_lba - 1 =>
             s = [w \in 1..SectorWords |-> IF lba = inode_table_lba /\ w <= InodeWords THEN RootWords[w] ELSE 0]
        /\ lba = data_start_lba =>
             s = EntrySector(<<Entry(".", 0, "directory"), Entry("..", 0, "directory")>>)
        /\ lba > data_start_lba => s = Zeros(BlockSize)
    BY <1>1, <2>1, FormattedSectors
  <2>3. lba \in 2..inode_bitmap_lba - 1 => s \subseteq 0..block_bitmap_len - 1
    BY <2>2, FormattedBits
  <2>4. lba \in inode_bitmap_lba..inode_table_lba - 1 => s \subseteq 0..inode_bitmap_len - 1
    <3>1. BitsOfSector({0}, lba - inode_bitmap_lba) \subseteq {0}
      BY DEF BitsOfSector
    <3> QED BY <1>2, <2>2, <3>1
  <2>5. /\ SectorWords \in Nat /\ EntriesPerSec \in Nat /\ BlockSize \in Nat
    BY InodeAssumption
  <2>6. CASE lba \in inode_table_lba..data_start_lba - 1
    <3>1. PICK words : words = [w \in 1..SectorWords |-> IF lba = inode_table_lba /\ w <= InodeWords
                                                         THEN RootWords[w] ELSE 0]
      OBVIOUS
    <3>2. IsSector(words) /\ DOMAIN words = 1..SectorWords
      BY <2>5, <3>1 DEF IsSector
    <3> QED BY <1>2, <2>1, <2>2, <2>6, <3>1, <3>2 DEF TypedSector
  <2>7. CASE lba = data_start_lba
    <3>1. PICK es : es = <<Entry(".", 0, "directory"), Entry("..", 0, "directory")>>
      OBVIOUS
    <3>2. IsSector(EntrySector(es))
      BY <2>5 DEF EntrySector, IsSector
    <3> QED BY <1>2, <2>1, <2>2, <2>7, <3>1, <3>2 DEF TypedSector
  <2>8. CASE lba > data_start_lba
    <3>1. IsSector(Zeros(BlockSize))
      BY <2>5 DEF Zeros, IsSector
    <3> QED BY <1>2, <2>1, <2>2, <2>8, <3>1 DEF TypedSector
  <2>9. CASE lba < inode_table_lba
    BY <1>2, <2>1, <2>3, <2>4, <2>9 DEF TypedSector
  <2> QED BY <1>2, <2>6, <2>7, <2>8, <2>9
<1> QED BY <1>1, <1>3, <1>4 DEF DiskOK

(* The bits that mount_partition (fs.c:194) reads from a formatted disk.   *)
LEMMA FormattedMount ==
  ASSUME WithinBounds, NEW f, f = mount_partition(FormattedDisk)
  PROVE  /\ f.bbits \subseteq 0..block_bitmap_len - 1 /\ 0 \in f.bbits /\ f.ibits = {0}
<1>1. PICK d : d = FormattedDisk
  OBVIOUS
<1>2. /\ SecCnt \in Nat /\ inode_bitmap_lba \in Nat /\ inode_table_lba \in Nat /\ data_start_lba \in Nat
      /\ inode_bitmap_lba >= 3 /\ inode_table_lba > inode_bitmap_lba
      /\ inode_table_lba + 1 <= data_start_lba /\ data_start_lba < SecCnt
      /\ block_bitmap_sects \in Nat /\ block_bitmap_sects >= 1
      /\ inode_bitmap_lba = 2 + block_bitmap_sects
      /\ inode_table_lba = inode_bitmap_lba + inode_bitmap_sects
  BY Layout
<1>3. /\ f.bbits = UNION {d[2 + k] : k \in 0..block_bitmap_sects - 1}
      /\ f.ibits = UNION {d[inode_bitmap_lba + k] : k \in 0..inode_bitmap_sects - 1}
  BY <1>1 DEF mount_partition, MountedBits, block_bitmap_lba
<1>4. inode_bitmap_sects \in Int
  <2>1. InodeCnt \in Int /\ BitsPerSec \in Nat \ {0}
    BY InodeAssumption
  <2> QED BY <2>1, CeilingFacts DEF inode_bitmap_sects
<1>5. ASSUME NEW k \in 0..block_bitmap_sects - 1
      PROVE  d[2 + k] = BitsOfSector(FormatBits, k)
  <2>1. PICK lba : lba = 2 + k
    OBVIOUS
  <2>2. lba \in 0..SecCnt - 1 /\ lba \in 2..inode_bitmap_lba - 1 /\ lba - 2 = k
    BY ONLY <1>2, <1>4, <2>1, <1>5
  <2> QED BY <1>1, <2>1, <2>2, FormattedSectors
<1>6. ASSUME NEW k \in 0..inode_bitmap_sects - 1
      PROVE  d[inode_bitmap_lba + k] = BitsOfSector({0}, k)
  <2>1. PICK lba : lba = inode_bitmap_lba + k
    OBVIOUS
  <2>2. lba \in 0..SecCnt - 1 /\ lba \in inode_bitmap_lba..inode_table_lba - 1 /\ lba - inode_bitmap_lba = k
    BY ONLY <1>2, <1>4, <2>1, <1>6
  <2> QED BY <1>1, <2>1, <2>2, FormattedSectors
<1>7. /\ FormatBits \subseteq 0..block_bitmap_len - 1 /\ 0 \in FormatBits
      /\ \A bits, sec : BitsOfSector(bits, sec) \subseteq bits
      /\ \A bits : 0 \in bits => 0 \in BitsOfSector(bits, 0)
  BY FormattedBits
<1>8. f.bbits \subseteq 0..block_bitmap_len - 1
  <2>1. \A k \in 0..block_bitmap_sects - 1 : d[2 + k] \subseteq FormatBits
    BY ONLY <1>5, <1>7
  <2>2. f.bbits \subseteq FormatBits
    BY ONLY <1>3, <2>1
  <2> QED BY ONLY <1>7, <2>2
<1>9. 0 \in f.bbits
  <2>1. 0 \in 0..block_bitmap_sects - 1
    BY <1>2
  <2>2. 0 \in d[2 + 0]
    BY ONLY <1>5, <1>7, <2>1
  <2> QED BY ONLY <1>3, <2>1, <2>2
<1>10. f.ibits = {0}
  <2>1. 0 \in 0..inode_bitmap_sects - 1
    BY <1>2, <1>4
  <2>2. 0 \in d[inode_bitmap_lba + 0]
    BY ONLY <1>6, <1>7, <2>1
  <2>3. \A k \in 0..inode_bitmap_sects - 1 : d[inode_bitmap_lba + k] \subseteq {0}
    BY ONLY <1>6, <1>7
  <2>4. f.ibits \subseteq {0}
    BY ONLY <1>3, <2>3
  <2>5. 0 \in f.ibits
    BY ONLY <1>3, <2>1, <2>2
  <2> QED BY ONLY <2>4, <2>5
<1> QED BY <1>8, <1>9, <1>10

(* The inode of the root in a formatted partition.                         *)
LEMMA FormattedRoot ==
  ASSUME WithinBounds, 0 \in Few
  PROVE  LoadInode(FormattedDisk, 0) = OnDisk(NewDirectory(0, data_start_lba))
<1>1. PICK d, x, ds : d = FormattedDisk /\ x = LoadInode(FormattedDisk, 0) /\ ds = data_start_lba
  OBVIOUS
<1>2. /\ SecCnt \in Nat /\ inode_table_lba \in Nat /\ data_start_lba \in Nat
      /\ inode_table_lba + 1 <= data_start_lba /\ data_start_lba < SecCnt
  BY Layout
<1>3. Direct \in Nat /\ Direct >= 1 /\ SectorWords \in Nat
  BY InodeAssumption
<1>4. InodeWords = 3 + Direct /\ InodeWords <= SectorWords
  BY <1>3, 0 \in Few DEF InodeWords, Few
<1>5. d[inode_table_lba] = [w \in 1..SectorWords |-> IF w <= InodeWords THEN RootWords[w] ELSE 0]
  <2>1. PICK lba : lba = inode_table_lba
    OBVIOUS
  <2>2. lba \in 0..SecCnt - 1 /\ lba \in inode_table_lba..data_start_lba - 1
    BY <1>2, <2>1
  <2>3. d[lba] = [w \in 1..SectorWords |-> IF lba = inode_table_lba /\ w <= InodeWords THEN RootWords[w] ELSE 0]
    BY <1>1, <2>2, FormattedSectors
  <2> QED BY ONLY <2>1, <2>3
<1>6. PICK words : words = [j \in 1..InodeWords |-> d[inode_table_lba][InodeWords * 0 + j]]
  OBVIOUS
<1>7. x = FromWords(words)
  BY <1>1, <1>6, 0 \in Few, NodeWords
<1>8. \A j \in 1..InodeWords : words[j] = RootWords[j]
  <2>1. ASSUME NEW j \in 1..InodeWords
        PROVE  words[j] = RootWords[j]
    <3>1. InodeWords * 0 + j = j /\ j \in 1..SectorWords /\ j <= InodeWords
      BY <1>3, <1>4
    <3>2. words[j] = d[inode_table_lba][InodeWords * 0 + j]
      BY <1>6
    <3> QED BY ONLY <1>5, <3>1, <3>2
  <2> QED BY <2>1
<1>9. RootWords[1] = 0 /\ RootWords[2] = 2 /\ RootWords[3] = ds
      /\ \A k \in 2..Direct + 1 : RootWords[k + 2] = 0
  <2>1. PICK three, zeros : three = <<0, 2, ds>> /\ zeros = Zeros(Direct)
    OBVIOUS
  <2>2. zeros = [k \in 1..Direct |-> 0]
    BY <2>1 DEF Zeros
  <2>3. zeros \in Seq(Int) /\ Len(zeros) = Direct /\ \A k \in 1..Direct : zeros[k] = 0
    BY <1>3, <2>2
  <2>4. three \in Seq(Int) /\ Len(three) = 3 /\ three[1] = 0 /\ three[2] = 2 /\ three[3] = ds
    BY <1>1, <1>2, <2>1
  <2>5. RootWords = three \o zeros
    BY <1>1, <2>1 DEF RootWords
  <2>6. /\ \A k \in 1..3 : RootWords[k] = three[k]
        /\ \A k \in 4..3 + Direct : RootWords[k] = zeros[k - 3]
    <3>1. \A k \in 1..3 + Direct :
            RootWords[k] = IF k <= 3 THEN three[k] ELSE zeros[k - 3]
      <4>1. three \in Seq(Int) /\ zeros \in Seq(Int)
        BY <2>3, <2>4
      <4>2. \A k \in 1..Len(three) + Len(zeros) :
              (three \o zeros)[k] = IF k <= Len(three) THEN three[k] ELSE zeros[k - Len(three)]
        BY ONLY <4>1, ConcatProperties
      <4>3. PICK n, m : n = Len(three) /\ m = Len(zeros)
        OBVIOUS
      <4>4. n = 3 /\ m = Direct
        BY ONLY <2>3, <2>4, <4>3
      <4> QED BY ONLY <2>5, <4>2, <4>3, <4>4
    <3> QED BY ONLY <1>3, <3>1
  <2>7. ASSUME NEW k \in 2..Direct + 1
        PROVE  RootWords[k + 2] = 0
    <3>1. k + 2 \in 4..3 + Direct /\ (k + 2) - 3 \in 1..Direct
      BY <1>3
    <3> QED BY ONLY <2>3, <2>6, <3>1
  <2> QED BY ONLY <2>4, <2>6, <2>7
<1>10. words[1] = 0 /\ words[2] = 2 /\ \A k \in 1..Direct + 1 : words[k + 2] = IF k = 1 THEN ds ELSE 0
  <2>1. \A k \in 1..Direct + 1 : k + 2 \in 1..InodeWords /\ (k # 1 => k \in 2..Direct + 1)
    BY <1>3, <1>4
  <2>2. 1 \in 1..InodeWords /\ 2 \in 1..InodeWords
    BY <1>3, <1>4
  <2>3. 1 + 2 = 3
    OBVIOUS
  <2> QED BY ONLY <1>8, <1>9, <2>1, <2>2, <2>3
<1>11. PICK sec : sec = [k \in 1..Direct + 1 |-> IF k = 1 THEN ds ELSE 0]
  OBVIOUS
<1>12. x = [no |-> 0, size |-> 2, sec |-> sec, cnt |-> 1, deny |-> FALSE]
  <2>1. [k \in 1..Direct + 1 |-> words[k + 2]] = sec
    BY <1>10, <1>11
  <2> QED BY <1>7, <1>10, <2>1 DEF FromWords
<1>13. OnDisk(NewDirectory(0, ds)) = [no |-> 0, size |-> 2, sec |-> sec, cnt |-> 1, deny |-> FALSE]
  <2>1. PICK y : y = NewDirectory(0, ds)
    OBVIOUS
  <2>2. y.no = 0 /\ y.size = 2 /\ y.sec = [Zeros(Direct + 1) EXCEPT ![1] = ds]
    BY <2>1 DEF NewDirectory, inode_init
  <2>3. [k \in 1..Direct + 1 |-> y.sec[k]] = sec
    BY <1>3, <1>11, <2>2 DEF Zeros
  <2> QED BY <2>1, <2>2, <2>3 DEF OnDisk
<1> QED BY <1>1, <1>12, <1>13

(* A formatted partition is mounted with the root as its only object.      *)
LEMMA FormattedGood ==
  ASSUME WithinBounds, 0 \in Few, NEW f, f = Started(FormattedDisk)
  PROVE  Good(f, {0}) /\ f.panic = "none" /\ f.ibits = {0} /\ Logged(FormattedDisk, f)
         /\ DOMAIN f.open = {0} /\ f.open[0].cnt = 1
<1>1. PICK d, m, x, ds, t : /\ d = FormattedDisk /\ m = mount_partition(FormattedDisk)
                            /\ x = LoadInode(FormattedDisk, 0) /\ ds = data_start_lba /\ t = TRUE
  OBVIOUS
<1>2. PICK open : open = Link(<<>>, 0, x)
  OBVIOUS
<1>3. DOMAIN open = {0} /\ open[0] = x /\ open = [no \in DOMAIN open |-> open[no]]
  <2>1. DOMAIN << >> = {}
    OBVIOUS
  <2> QED BY <1>2, <2>1 DEF Link
<1>4. m.disk = d /\ m.log = <<>> /\ m.panic = "none" /\ m.open = <<>>
  BY <1>1 DEF mount_partition
<1>5. /\ f.disk = d /\ f.log = <<>> /\ f.panic = "none" /\ f.open = open
      /\ f.bbits = m.bbits /\ f.ibits = m.ibits /\ IsFs(f)
  <2>1. f = [m EXCEPT !.open = Link(@, 0, LoadInode(m.disk, 0))]
    <3>1. 0 \notin DOMAIN m.open
      BY <1>4
    <3>2. f = inode_open(m, 0)
      BY <1>1 DEF Started, open_root_dir
    <3> QED BY ONLY <3>1, <3>2 DEF inode_open
  <2>2. m = [disk |-> m.disk, log |-> m.log, panic |-> m.panic, open |-> m.open,
             bbits |-> m.bbits, ibits |-> m.ibits]
    BY <1>1 DEF mount_partition
  <2>3. f = [disk |-> d, log |-> <<>>, panic |-> "none", open |-> open,
             bbits |-> m.bbits, ibits |-> m.ibits]
    <3>1. Link(m.open, 0, LoadInode(m.disk, 0)) = open
      BY <1>1, <1>2, <1>4
    <3> QED BY ONLY <1>4, <2>1, <2>2, <3>1
  <2>4. d = [lba \in DOMAIN d |-> d[lba]]
    BY <1>1 DEF FormattedDisk
  <2>5. <<>> \in Seq(Range(<<>>))
    OBVIOUS
  <2>6. /\ f.disk = d /\ f.log = <<>> /\ f.panic = "none" /\ f.open = open
        /\ f.bbits = m.bbits /\ f.ibits = m.ibits
    BY ONLY <2>3
  <2> QED BY ONLY <2>3, <2>4, <2>5, <2>6 DEF IsFs
<1>6. m.bbits \subseteq 0..block_bitmap_len - 1 /\ 0 \in m.bbits /\ m.ibits = {0}
  BY <1>1, FormattedMount
<1>7. /\ SecCnt \in Nat /\ data_start_lba \in Nat /\ data_start_lba < SecCnt
      /\ inode_bitmap_len \in Nat /\ inode_bitmap_len >= 1 /\ data_start_lba >= 1
  BY Layout
<1>8. DiskShape(f)
  <2>1. LogOK(f.log)
    <3>1. Len(f.log) = 0
      BY <1>5
    <3> QED BY <3>1 DEF LogOK
  <2> QED BY <1>1, <1>5, <2>1, FormattedShape DEF DiskShape
<1>9. BitsOK(f)
  BY <1>5, <1>6, <1>7 DEF BitsOK
<1>10. PICK V, A, s : /\ V = NodesOf(f) /\ A = DataOf(f)
                      /\ s = EntrySector(<<Entry(".", 0, "directory"), Entry("..", 0, "directory")>>)
  OBVIOUS
<1>11. V[0] = x
  BY <1>1, <1>5, <1>10, 0 \in Few DEF NodesOf
<1>12. ds \in Blocks /\ A[ds] = s
  <2>1. ds \in 0..SecCnt - 1 /\ ds = data_start_lba
    BY <1>1, <1>7
  <2>2. d[ds] = s
    BY <1>1, <1>10, <2>1, FormattedSectors
  <2>3. ds \in Blocks
    BY <1>7, <2>1 DEF Blocks
  <2> QED BY <1>5, <1>10, <2>2, <2>3 DEF DataOf
<1>13. /\ IsNode(x, 0) /\ IsDirectory(A, x, 0) /\ AllBlocks(A, x) = {ds}
       /\ x.sec[1] = ds /\ \A i \in Rest : s[i].type = "unknown"
  <2>1. x = OnDisk(NewDirectory(0, ds))
    BY <1>1, FormattedRoot
  <2>2. 0 \in Nat
    OBVIOUS
  <2> QED BY ONLY <1>10, <1>12, <2>1, <2>2, WithinBounds, NewDirectoryFacts
<1>14. IsTree(V, A, {0}, {0}, m.bbits)
  <2>1. ChildrenOK(V, A, {0}, {0})
    <3>1. \A d0 \in {0}, e \in Rest : Sheet(V, A, d0)[e].type = "unknown"
      BY <1>11, <1>12, <1>13 DEF Sheet
    <3> QED BY ONLY <3>1, Zenon DEF ChildrenOK, IsKid, SameNo, SameName
  <2>2. BlocksOK(V, A, {0}, m.bbits)
    <3>1. IsTaken(ds, m.bbits)
      BY <1>1, <1>6, <1>7 DEF IsTaken
    <3> QED BY <1>11, <1>13, <3>1 DEF BlocksOK
  <2> QED BY <1>1, <1>11, <1>13, <2>1, <2>2, 0 \in Few DEF IsTree
<1>15. OpenOK(V, {0}, open)
  <2>1. IsOpen(x, x)
    <3>1. x = [no |-> 0, size |-> x.size, sec |-> x.sec, cnt |-> 1, deny |-> FALSE]
      BY <1>13 DEF IsNode
    <3>2. x.no = 0 /\ x.cnt = 1 /\ x.deny = FALSE
      BY ONLY <3>1
    <3>3. x = [no |-> x.no, size |-> x.size, sec |-> x.sec, cnt |-> x.cnt, deny |-> x.deny]
      BY ONLY <3>1, <3>2, Zenon
    <3>4. x.cnt \in Nat \ {0}
      BY ONLY <3>2
    <3>5. x.deny \in BOOLEAN
      BY ONLY <3>2, Zenon
    <3> QED BY ONLY <3>3, <3>4, <3>5, Zenon DEF IsOpen
  <2> QED BY <1>3, <1>11, <2>1 DEF OpenOK
<1>16. Good(f, {0})
  BY <1>5, <1>6, <1>8, <1>9, <1>10, <1>14, <1>15 DEF Good
<1>17. Logged(d, f)
  <2>1. Len(f.log) = 0
    BY <1>5
  <2> QED BY ONLY <1>5, <2>1 DEF Logged
<1>18. open[0].cnt = 1
  BY <1>3, <1>13 DEF IsNode
<1> QED BY <1>1, <1>3, <1>5, <1>6, <1>16, <1>17, <1>18

(* Without an open file only the root is in open_inodes.                   *)
LEMMA FormattedSound ==
  ASSUME WithinBounds, 0 \in Few, NEW f, f = Started(FormattedDisk)
  PROVE  Sound(f, NoFiles, {0}) /\ f.panic = "none" /\ Logged(FormattedDisk, f)
<1>1. Good(f, {0}) /\ f.panic = "none" /\ f.ibits = {0} /\ Logged(FormattedDisk, f)
      /\ DOMAIN f.open = {0} /\ f.open[0].cnt = 1
  BY FormattedGood
<1>2. \A slot \in Slots : NoFiles[slot] = NoFile
  BY DEF NoFiles, Slots
<1>3. NoFile.inode = NULL /\ NoFile.flag # PIPE_FLAG
  BY DEF NoFile, PIPE_FLAG
<1>4. FilesOK(NoFiles, f.ibits, {0})
  BY <1>2, <1>3 DEF FilesOK, FileOK
<1>5. CountsOK(f.open, NoFiles)
  <2>1. ASSUME NEW no \in Nat
        PROVE  Cnt(f.open, no) = Cardinality(UsedSlots(NoFiles, no)) + OneUser(no, 0)
    <3>1. UsedSlots(NoFiles, no) = {}
      BY <1>2, <1>3 DEF UsedSlots, NULL
    <3>2. Cardinality(UsedSlots(NoFiles, no)) = 0
      BY <3>1, FS_EmptySet
    <3> QED BY <1>1, <3>2 DEF Cnt, OneUser
  <2> QED BY <2>1 DEF CountsOK
<1> QED BY <1>1, <1>4, <1>5 DEF Sound

-----------------------------------------------------------------------------
(* The inductive invariant: what the calls rely on holds between them, the *)
(* writes under way lead to it, and a panic is one of those known.         *)
FsInv ==
  /\ Tables(file_table, task)
  /\ fs.panic \in Known
  /\ phase = "run" /\ fs.panic = "none" => Logged(disk, fs) /\ \E D : Sound(fs, file_table, D)

(* filesys_init leaves it (fs.c:349).                                      *)
LEMMA FsInit == ASSUME WithinBounds, Init, FewInodes PROVE FsInv
<1>1. PICK d, f : d = FormattedDisk /\ f = Started(FormattedDisk)
  OBVIOUS
<1>2. disk = d /\ fs = f /\ file_table = NoFiles /\ task = FirstTask
  BY <1>1 DEF Init
<1>3. 0 \in Few
  <2>1. PICK m : m = mount_partition(d)
    OBVIOUS
  <2>2. f.ibits = m.ibits
    BY <1>1, <2>1 DEF Started, open_root_dir, inode_open, mount_partition
  <2>3. m.ibits = {0}
    BY <1>1, <2>1, FormattedMount
  <2> QED BY <1>2, <2>2, <2>3 DEF FewInodes
<1>4. Sound(f, NoFiles, {0}) /\ f.panic = "none" /\ Logged(d, f)
  BY <1>1, <1>3, FormattedSound
<1> QED BY <1>2, <1>4, FirstTables DEF FsInv, Known

(* The sectors that are written between the calls.                         *)
LEMMA LogShifts ==
  ASSUME NEW f, DiskShape(f), NEW d, Logged(d, f), f.log # <<>>, NEW g, g = [f EXCEPT !.log = Tail(@)],
         NEW e, e = [d EXCEPT ![Head(f.log)[1]] = Head(f.log)[2]]
  PROVE  /\ Logged(e, g) /\ DiskShape(g) /\ g.disk = f.disk /\ g.panic = f.panic
         /\ g.open = f.open /\ g.bbits = f.bbits /\ g.ibits = f.ibits
<1>1. PICK l, l2, lba, s : l = f.log /\ l2 = Tail(l) /\ lba = Head(l)[1] /\ s = Head(l)[2]
  OBVIOUS
<1>2. /\ f = [disk |-> f.disk, log |-> l, panic |-> f.panic, open |-> f.open,
              bbits |-> f.bbits, ibits |-> f.ibits]
      /\ f.disk = [x \in DOMAIN f.disk |-> f.disk[x]] /\ l \in Seq(Range(l)) /\ l # <<>>
  BY <1>1 DEF DiskShape, IsFs
<1>3. g = [disk |-> f.disk, log |-> l2, panic |-> f.panic, open |-> f.open,
           bbits |-> f.bbits, ibits |-> f.ibits]
  BY ONLY <1>1, <1>2, g = [f EXCEPT !.log = Tail(@)]
<1>4. /\ g.disk = f.disk /\ g.log = l2 /\ g.panic = f.panic
      /\ g.open = f.open /\ g.bbits = f.bbits /\ g.ibits = f.ibits
  BY ONLY <1>3
<1>5. /\ Len(l) \in Nat \ {0} /\ Len(l2) = Len(l) - 1 /\ l2 \in Seq(Range(l))
      /\ l[1] = Head(l) /\ \A i \in 1..Len(l2) : l2[i] = l[i + 1]
  BY ONLY <1>1, <1>2
<1>6. DOMAIN f.disk = 0..SecCnt - 1 /\ LogOK(l) /\ DOMAIN f.disk = DOMAIN d
  BY <1>1 DEF DiskShape, DiskOK, Logged
<1>7. IsFs(g)
  <2>1. l2 \in Seq(Range(l2))
    <3>1. l2 = [i \in 1..Len(l2) |-> l2[i]]
      BY ONLY <1>5
    <3>2. \A i \in 1..Len(l2) : l2[i] \in Range(l2)
      BY ONLY <1>5 DEF Range
    <3>3. Len(l2) \in Nat
      BY ONLY <1>5
    <3> QED BY ONLY <3>1, <3>2, <3>3
  <2> QED BY ONLY <1>2, <1>3, <1>4, <2>1 DEF IsFs
<1>8. LogOK(l2)
  <2>1. ASSUME NEW i \in 1..Len(l2)
        PROVE  l2[i][1] \in 0..SecCnt - 1 /\ TypedSector(l2[i][1], l2[i][2])
    <3>1. i + 1 \in 1..Len(l) /\ l2[i] = l[i + 1]
      BY <1>5
    <3> QED BY <1>6, <3>1 DEF LogOK
  <2> QED BY <2>1 DEF LogOK
<1>9. DiskShape(g)
  BY <1>4, <1>7, <1>8 DEF DiskShape
<1>10. lba \in DOMAIN d /\ lba = l[1][1] /\ s = l[1][2]
  <2>1. 1 \in 1..Len(l)
    BY <1>5
  <2>2. lba = l[1][1] /\ s = l[1][2]
    BY <1>1, <1>5
  <2> QED BY <1>6, <2>1, <2>2 DEF LogOK
<1>11. DOMAIN e = DOMAIN d /\ e[lba] = s /\ \A x \in DOMAIN d : x # lba => e[x] = d[x]
  BY <1>1, <1>10
<1>12. Logged(e, g)
  <2>1. /\ \A x \in DOMAIN d : (\A i \in 1..Len(l) : l[i][1] # x) => f.disk[x] = d[x]
        /\ \A i \in 1..Len(l) : l[i][1] \in DOMAIN d /\ (\A j \in i + 1..Len(l) : l[j][1] # l[i][1])
                                  => f.disk[l[i][1]] = l[i][2]
    BY <1>1 DEF Logged
  <2>2. ASSUME NEW x \in DOMAIN e, \A i \in 1..Len(l2) : l2[i][1] # x
        PROVE  f.disk[x] = e[x]
    <3>1. \A i \in 2..Len(l) : l[i][1] # x
      <4>1. ASSUME NEW i \in 2..Len(l) PROVE l[i][1] # x
        <5>1. PICK j : j = i - 1
          OBVIOUS
        <5>2. j \in 1..Len(l2) /\ j + 1 = i
          BY <1>5, <5>1
        <5>3. l2[j] = l[i]
          BY <1>5, <5>2
        <5> QED BY ONLY <2>2, <5>2, <5>3
      <4> QED BY <4>1
    <3>2. CASE x = lba
      <4>1. 1 \in 1..Len(l) /\ 1 + 1 = 2
        BY <1>5
      <4>2. f.disk[l[1][1]] = l[1][2]
        BY ONLY <1>10, <2>1, <3>1, <3>2, <4>1
      <4> QED BY <1>10, <1>11, <3>2, <4>2
    <3>3. CASE x # lba
      <4>1. \A i \in 1..Len(l) : i = 1 \/ i \in 2..Len(l)
        BY <1>5
      <4>2. \A i \in 1..Len(l) : l[i][1] # x
        BY ONLY <1>10, <3>1, <3>3, <4>1
      <4>3. x \in DOMAIN d
        BY <1>11
      <4> QED BY <1>11, <2>1, <3>3, <4>2, <4>3
    <3> QED BY <3>2, <3>3
  <2>3. ASSUME NEW i \in 1..Len(l2), l2[i][1] \in DOMAIN e, \A j \in i + 1..Len(l2) : l2[j][1] # l2[i][1]
        PROVE  f.disk[l2[i][1]] = l2[i][2]
    <3>1. PICK k : k = i + 1
      OBVIOUS
    <3>2. k \in 1..Len(l) /\ l2[i] = l[k]
      BY <1>5, <3>1
    <3>3. \A j \in k + 1..Len(l) : l[j][1] # l[k][1]
      <4>1. ASSUME NEW j \in k + 1..Len(l) PROVE l[j][1] # l[k][1]
        <5>1. PICK m : m = j - 1
          OBVIOUS
        <5>2. m \in i + 1..Len(l2) /\ m \in 1..Len(l2) /\ m + 1 = j
          <6>1. Len(l) \in Int /\ Len(l2) = Len(l) - 1 /\ i \in Int /\ i >= 1
            BY <1>5
          <6> QED BY ONLY <3>1, <4>1, <5>1, <6>1
        <5>3. l2[m] = l[j]
          BY <1>5, <5>2
        <5> QED BY ONLY <2>3, <3>2, <5>2, <5>3
      <4> QED BY <4>1
    <3>4. l[k][1] \in DOMAIN d
      BY <1>11, <2>3, <3>2
    <3> QED BY ONLY <2>1, <3>2, <3>3, <3>4
  <2> QED BY ONLY <1>4, <1>6, <1>11, <2>2, <2>3 DEF Logged
<1> QED BY <1>4, <1>9, <1>12

(* A sector that reaches the platter changes nothing in memory.            *)
LEMMA SectorStep == ASSUME FsInv, WriteSector PROVE FsInv'
<1>1. PICK f, d, g, e : f = fs /\ d = disk /\ g = fs' /\ e = disk'
  OBVIOUS
<1>2. /\ file_table' = file_table /\ task' = task /\ phase' = phase /\ phase = "run" /\ f.log # <<>>
      /\ g = [f EXCEPT !.log = Tail(@)] /\ e = [d EXCEPT ![Head(f.log)[1]] = Head(f.log)[2]]
  BY <1>1 DEF WriteSector
<1>3. Tables(file_table, task) /\ f.panic \in Known
  BY <1>1 DEF FsInv
<1>4. g.panic = f.panic
  <2>1. f.panic \in Known
    BY <1>3
  <2> QED BY <1>2
<1>5. CASE f.panic # "none"
  BY <1>1, <1>2, <1>3, <1>4, <1>5 DEF FsInv
<1>6. CASE f.panic = "none"
  <2>1. PICK D : Logged(d, f) /\ Sound(f, file_table, D)
    BY <1>1, <1>2, <1>6 DEF FsInv
  <2>2. Good(f, D) /\ DiskShape(f)
    BY <2>1 DEF Sound, Good
  <2>3. /\ Logged(e, g) /\ DiskShape(g) /\ g.disk = f.disk
        /\ g.open = f.open /\ g.bbits = f.bbits /\ g.ibits = f.ibits
    BY ONLY <1>2, <2>1, <2>2, LogShifts
  <2>4. Good(g, D)
    BY <2>2, <2>3 DEF Good, BitsOK, NodesOf, DataOf
  <2>5. Sound(g, file_table, D)
    BY <2>1, <2>3, <2>4 DEF Sound
  <2> QED BY <1>1, <1>2, <1>3, <1>4, <2>3, <2>5 DEF FsInv
<1> QED BY <1>5, <1>6

(* Every call but Crash leaves what StepOK says.                           *)
LEMMA CallStep ==
  ASSUME WithinBounds, FewInodes', NEW D, Calm(D), Next, ~WriteSector, ~Crash
  PROVE  StepOK(fs, fs', file_table') /\ disk' = disk
<1> DEFINE Goal == StepOK(fs, fs', file_table') /\ disk' = disk
<1>1. ASSUME NEW p \in Users, NEW path \in Paths, NEW flags \in OpenFlags, sys_open(p, path, flags)
      PROVE  Goal
  BY <1>1, OpenStep
<1>2. ASSUME NEW p \in Users, NEW path \in Paths, sys_unlink(p, path)
      PROVE  Goal
  BY <1>2, UnlinkStep
<1>3. ASSUME NEW p \in Users, NEW path \in Paths, path \in DirPaths, sys_mkdir(p, path)
      PROVE  Goal
  BY <1>3, MkdirStep
<1>4. ASSUME NEW p \in Users, NEW path \in Paths, sys_rmdir(p, path)
      PROVE  Goal
  BY <1>4, RmdirStep
<1>5. ASSUME NEW p \in Users, NEW path \in Paths, sys_chdir(p, path)
      PROVE  Goal
  BY <1>5, TaskStep
<1>6. ASSUME NEW p \in Procs, NEW fd \in Fds, sys_close(p, fd)
      PROVE  Goal
  BY <1>6, CloseStep
<1>7. ASSUME NEW p \in Procs, NEW fd \in Fds, NEW count \in Writes, sys_write(p, fd, count)
      PROVE  Goal
  BY <1>7, WriteStep
<1>8. ASSUME NEW p \in Procs, NEW fd \in Fds, NEW count \in Reads, sys_read(p, fd, count)
      PROVE  Goal
  BY <1>8, ReadStep
<1>9. ASSUME NEW p \in Procs, NEW fd \in Fds, NEW seek \in Seeks, Seek(p, fd, seek[1], seek[2])
      PROVE  Goal
  BY <1>9, SeekStep
<1>10. ASSUME NEW p \in Procs, NEW fd, sys_fd_redirect(p, 0, fd)
       PROVE  Goal
  BY <1>10, TaskStep
<1>11. ASSUME NEW p \in Procs, sys_pipe(p)
       PROVE  Goal
  BY <1>11, PipeStep
<1>12. ASSUME NEW p \in Procs, NEW child \in Procs, sys_fork(p, child)
       PROVE  Goal
  <2>1. ~ShareFiles
    BY Zenon DEF WithinBounds
  <2> QED BY <1>12, <2>1, ForkStep
<1>13. ASSUME NEW p \in Procs, sys_exit(p)
       PROVE  Goal
  BY <1>13, ExitStep
<1> HIDE DEF Goal
<1>14. Goal
  BY <1>1, <1>2, <1>3, <1>4, <1>5, <1>6, <1>7, <1>8, <1>9, <1>10, <1>11, <1>12, <1>13 DEF Next
<1> QED BY <1>14 DEF Goal

(* A call is made between the calls.                                       *)
LEMMA CallIdle == ASSUME Next, ~WriteSector, ~Crash PROVE Idle
<1>1. ASSUME NEW p, NEW path, NEW flags, sys_open(p, path, flags) \/ sys_unlink(p, path)
               \/ sys_mkdir(p, path) \/ sys_rmdir(p, path) \/ sys_chdir(p, path)
      PROVE  Idle
  BY <1>1 DEF sys_open, sys_unlink, sys_mkdir, sys_rmdir, sys_chdir, Ready
<1>2. ASSUME NEW p, NEW fd, NEW count, sys_close(p, fd) \/ sys_write(p, fd, count) \/ sys_read(p, fd, count)
      PROVE  Idle
  BY <1>2, Zenon DEF sys_close, sys_write, sys_read, Ready
<1>3. ASSUME NEW p, NEW fd, NEW offset, NEW whence, Seek(p, fd, offset, whence) \/ sys_fd_redirect(p, 0, fd)
      PROVE  Idle
  BY <1>3 DEF Seek, sys_fd_redirect, Ready
<1>4. ASSUME NEW p, NEW child, sys_pipe(p) \/ sys_fork(p, child) \/ sys_exit(p)
      PROVE  Idle
  BY <1>4 DEF sys_pipe, sys_fork, sys_exit, Ready
<1> QED BY <1>1, <1>2, <1>3, <1>4 DEF Next

(* The invariant is inductive while the inodes in use are few.             *)
LEMMA FsNext == ASSUME WithinBounds, FewInodes', FsInv, [Next]_vars PROVE FsInv'
<1>1. CASE UNCHANGED vars
  BY <1>1 DEF vars, FsInv
<1>2. CASE WriteSector
  BY <1>2, SectorStep
<1>3. CASE Crash
  <2>1. Tables(file_table', task') /\ phase' # "run"
    BY <1>3, FirstTables DEF Crash
  <2>2. fs'.panic = "none"
    BY <1>3 DEF Crash, Started, open_root_dir, inode_open, mount_partition
  <2> QED BY <2>1, <2>2 DEF FsInv, Known
<1>4. CASE Next /\ ~WriteSector /\ ~Crash
  <2>1. Idle
    BY <1>4, CallIdle
  <2>2. PICK D : Logged(disk, fs) /\ Sound(fs, file_table, D)
    BY <2>1 DEF FsInv, Idle
  <2>3. Calm(D)
    BY <2>1, <2>2 DEF Calm, FsInv, Idle
  <2>4. StepOK(fs, fs', file_table') /\ disk' = disk
    BY ONLY <1>4, <2>3, WithinBounds, FewInodes', CallStep
  <2>5. Tables(file_table', task')
    <3>1. ~ShareFiles
      BY Zenon DEF WithinBounds
    <3>2. Tables(file_table, task)
      BY DEF FsInv
    <3> QED BY ONLY <3>1, <3>2, [Next]_vars, NextTables
  <2>6. Logged(disk', fs')
    BY <2>2, <2>4 DEF StepOK, Follows
  <2> QED BY <2>4, <2>5, <2>6 DEF StepOK, FsInv
<1> QED BY <1>1, <1>2, <1>3, <1>4

-----------------------------------------------------------------------------
(* Every ASSERT of the calls but those of Known holds.                     *)
LEMMA InvPanics == FsInv => OnlyKnownPanics
BY DEF FsInv, Known, OnlyKnownPanics

(* What is between the calls.                                              *)
LEMMA IdleSound ==
  ASSUME FsInv, Idle
  PROVE  /\ \E D : Sound(fs, file_table, D)
         /\ \A lba \in DOMAIN fs.disk : disk[lba] = fs.disk[lba]
<1>1. Logged(disk, fs) /\ \E D : Sound(fs, file_table, D)
  BY DEF FsInv, Idle
<1>2. Len(fs.log) = 0
  BY DEF Idle
<1> QED BY <1>1, <1>2 DEF Logged

(* An inode that is loaded is the one in the table.                        *)
LEMMA InvCache == ASSUME WithinBounds, FsInv PROVE CacheCoherent
<1>1. ASSUME Idle, NEW no \in DOMAIN fs.open
      PROVE  <<fs.open[no].no, fs.open[no].size, fs.open[no].sec>>
               = <<no, LoadInode(disk, no).size, LoadInode(disk, no).sec>>
  <2>1. PICK D : Sound(fs, file_table, D)
    BY <1>1, IdleSound
  <2>2. /\ OpenOK(NodesOf(fs), fs.ibits, fs.open)
        /\ IsTree(NodesOf(fs), DataOf(fs), fs.ibits, D, fs.bbits)
    BY <2>1 DEF Sound, Good
  <2>3. no \in fs.ibits /\ no \in Few /\ IsOpen(fs.open[no], NodesOf(fs)[no]) /\ IsNode(NodesOf(fs)[no], no)
    BY <1>1, <2>2 DEF OpenOK, IsTree
  <2>4. PICK x, y : x = fs.open[no] /\ y = NodesOf(fs)[no]
    OBVIOUS
  <2>5. x.no = y.no /\ x.size = y.size /\ x.sec = y.sec /\ y.no = no
    <3>1. IsOpen(x, y) /\ IsNode(y, no)
      BY <2>3, <2>4
    <3>2. x = [no |-> y.no, size |-> y.size, sec |-> y.sec, cnt |-> x.cnt, deny |-> x.deny]
      BY ONLY <3>1 DEF IsOpen
    <3>3. y = [no |-> no, size |-> y.size, sec |-> y.sec, cnt |-> 1, deny |-> FALSE]
      BY ONLY <3>1 DEF IsNode
    <3>4. y.no = no
      BY ONLY <3>3
    <3>5. PICK cnt, deny : cnt = x.cnt /\ deny = x.deny
      OBVIOUS
    <3>6. x = [no |-> y.no, size |-> y.size, sec |-> y.sec, cnt |-> cnt, deny |-> deny]
      BY ONLY <3>2, <3>5, Zenon
    <3> QED BY ONLY <3>4, <3>6
  <2>6. y = LoadInode(fs.disk, no)
    BY <2>3, <2>4 DEF NodesOf
  <2>7. LoadInode(fs.disk, no) = LoadInode(disk, no)
    <3>1. inode_table_lba \in DOMAIN fs.disk
      <4>1. DOMAIN fs.disk = 0..SecCnt - 1
        BY <2>1 DEF Sound, Good, DiskShape, DiskOK
      <4>2. /\ SecCnt \in Nat /\ inode_table_lba \in Nat
            /\ inode_table_lba + 1 <= data_start_lba /\ data_start_lba < SecCnt /\ data_start_lba \in Nat
        BY Layout
      <4> QED BY <4>1, <4>2
    <3>2. disk[inode_table_lba] = fs.disk[inode_table_lba]
      BY <1>1, <3>1, IdleSound
    <3>3. no \in Few
      BY <2>3
    <3> QED BY <3>2, <3>3, NodeWords
  <2> QED BY <2>4, <2>5, <2>6, <2>7
<1> QED BY <1>1 DEF CacheCoherent

(* i_open_cnt counts the slots of an inode.                                *)
LEMMA InvCounts == ASSUME FsInv PROVE CountsExact
<1>1. ASSUME Idle, NEW no \in 0..InodeCnt - 1, NEW users,
             users = Cardinality(SlotsOf(no)) + IF no = 0 THEN 1 ELSE 0
      PROVE  /\ no \in DOMAIN fs.open <=> users > 0
             /\ no \in DOMAIN fs.open => fs.open[no].cnt = users
  <2>1. PICK D : Sound(fs, file_table, D)
    BY <1>1, IdleSound
  <2>2. OpenOK(NodesOf(fs), fs.ibits, fs.open) /\ CountsOK(fs.open, file_table)
    BY <2>1 DEF Sound, Good
  <2>3. no \in Nat
    BY InodeAssumption
  <2>4. Cnt(fs.open, no) = users
    <3>1. SlotsOf(no) = UsedSlots(file_table, no)
      BY DEF SlotsOf, UsedSlots
    <3> QED BY <1>1, <2>2, <2>3, <3>1 DEF CountsOK, OneUser
  <2>5. Cnt(fs.open, no) \in Nat /\ (Cnt(fs.open, no) = 0 <=> no \notin DOMAIN fs.open)
    BY <2>2, CntFacts
  <2> QED BY <2>4, <2>5 DEF Cnt
<1> QED BY <1>1 DEF CountsExact

(* The addresses file_read collects for the blocks start..end are those of *)
(* the file, but for the pairs of start and end that ReadBack leaves out.  *)
LEMMA ReadAddress ==
  ASSUME WithinBounds, NEW f, NEW x, NEW start \in Nat, NEW end \in Nat, end < MaxBlocks - 1,
         NEW b \in start..end, start # end => end <= Direct /\ b < Direct
  PROVE  ReadBlocks(f, x, start, end)[b + 1] = Address(f.disk, x, b + 1)
<1>1. Direct \in Nat /\ MaxBlocks \in Nat /\ b + 1 \in 1..MaxBlocks
  BY Sizes
<1>2. all_blocks_lba(f, x)[b + 1] = Address(f.disk, x, b + 1)
  BY <1>1 DEF all_blocks_lba, Address
<1>3. CASE start = end /\ end < Direct
  <2>1. ReadBlocks(f, x, start, end) =
          [k \in 1..MaxBlocks |-> IF k \in end + 1..end + 1 THEN x.sec[k] ELSE Junk]
    BY <1>1, <1>3 DEF ReadBlocks
  <2>2. b = end /\ b + 1 \in end + 1..end + 1 /\ b + 1 <= Direct
    BY <1>1, <1>3
  <2> QED BY <1>1, <2>1, <2>2 DEF Address
<1>4. CASE start = end /\ end >= Direct
  <2>1. ReadBlocks(f, x, start, end) =
          [k \in 1..MaxBlocks |-> IF k <= Direct THEN Junk ELSE all_blocks_lba(f, x)[k]]
    BY <1>1, <1>4 DEF ReadBlocks
  <2>2. ~(b + 1 <= Direct)
    BY <1>1, <1>4
  <2> QED BY ONLY <1>1, <1>2, <2>1, <2>2
<1>5. CASE start # end
  <2>1. ReadBlocks(f, x, start, end) =
          [k \in 1..MaxBlocks |-> IF k \in start + 1..end + 1 THEN x.sec[k] ELSE Junk]
    BY <1>1, <1>5 DEF ReadBlocks
  <2>2. b + 1 \in start + 1..end + 1 /\ b + 1 <= Direct
    BY <1>1, <1>5
  <2> QED BY <1>1, <2>1, <2>2 DEF Address
<1> QED BY <1>1, <1>3, <1>4, <1>5

\* A read that ends before the last block, within the direct blocks or within
\* one block.
ReadWithin(pos, end) ==
  /\ end \div BlockSize < MaxBlocks - 1
  /\ end <= Direct * BlockSize \/ pos \div BlockSize = end \div BlockSize

IsRead(f, x, no, pos, count, end) ==
  file_read(f, x, pos, count)
    = [end |-> "read", bytes |-> SubSeq(Bytes(no, x.size), pos + 1, end)]

(* file_read returns the bytes of an open file.                            *)
LEMMA ReadBytes ==
  ASSUME WithinBounds, NEW f, NEW D, Good(f, D), NEW no \in f.ibits \ D, no \in DOMAIN f.open,
         NEW x, x = f.open[no], NEW size \in Nat, size = x.size,
         NEW pos \in Nat, NEW count \in Nat, count >= 1, NEW end \in Nat, end = pos + count, end <= size,
         ReadWithin(pos, end)
  PROVE  IsRead(f, x, no, pos, count, end)
<1>1. PICK A, s, e, blk : /\ A = DataOf(f) /\ s = pos \div BlockSize /\ e = end \div BlockSize
                          /\ blk = ReadBlocks(f, x, s, e)
  OBVIOUS
<1>2. FileMap(A, x, FileBlocks(size)) /\ Holds(A, x, no, 0..size - 1)
  BY <1>1, OpenedFile
<1>3. BlockSize \in Nat \ {0} /\ Direct \in Nat /\ MaxBlocks \in Nat
  BY Sizes
<1>4. s \in Nat /\ e \in Nat /\ s <= e /\ e < MaxBlocks - 1
  <2>1. pos <= end
    OBVIOUS
  <2>2. end \div BlockSize < MaxBlocks - 1
    BY DEF ReadWithin
  <2> QED BY ONLY <1>1, <1>3, <2>1, <2>2, pos \in Nat, end \in Nat, Quotient
<1>5. ASSUME NEW q \in pos..end - 1, NEW lba, lba = blk[q \div BlockSize + 1]
      PROVE  lba # Junk /\ f.disk[lba][(q % BlockSize) + 1] = Byte(no, q)
  <2>1. PICK b : b = q \div BlockSize
    OBVIOUS
  <2>2. b \in s..e
    <3>1. q \in Nat /\ pos <= q /\ q <= end
      OBVIOUS
    <3>2. q \div BlockSize \in Nat /\ s <= q \div BlockSize /\ q \div BlockSize <= e
      BY ONLY <1>1, <1>3, <3>1, pos \in Nat, end \in Nat, Quotient
    <3> QED BY ONLY <1>4, <2>1, <3>2
  <2>3. s # e => e <= Direct /\ b < Direct
    <3>1. s # e => end <= Direct * BlockSize
      BY <1>1 DEF ReadWithin
    <3>2. end <= Direct * BlockSize => b < Direct
      <4>1. \A n \in Nat : q < n * BlockSize => q \div BlockSize < n
        <5>1. q \in Nat
          OBVIOUS
        <5> QED BY ONLY <1>3, <5>1, Quotient
      <4>2. end <= Direct * BlockSize => q < Direct * BlockSize
        <5>1. q \in Nat /\ q < end /\ Direct * BlockSize \in Nat
          BY <1>3
        <5> QED BY ONLY <5>1, end \in Nat
      <4> QED BY ONLY <1>3, <2>1, <4>1, <4>2
    <3>3. end <= Direct * BlockSize => e <= Direct
      <4>1. end <= Direct * BlockSize => end < (Direct + 1) * BlockSize
        <5>1. (Direct + 1) * BlockSize = Direct * BlockSize + BlockSize /\ Direct * BlockSize \in Nat
          BY <1>3
        <5> QED BY <1>3, <5>1
      <4>2. end < (Direct + 1) * BlockSize => e < Direct + 1
        <5>1. \A n \in Nat : end < n * BlockSize => end \div BlockSize < n
          BY ONLY <1>3, end \in Nat, Quotient
        <5> QED BY ONLY <1>1, <1>3, <5>1
      <4> QED BY <1>3, <1>4, <4>1, <4>2
    <3> QED BY <3>1, <3>2, <3>3
  <2>4. lba = Address(f.disk, x, b + 1)
    BY <1>1, <1>4, <1>5, <2>1, <2>2, <2>3, ReadAddress
  <2>5. HasByte(A, x, no, q)
    BY <1>2, <1>3 DEF Holds
  <2>6. /\ b + 1 \in 1..MaxBlocks /\ Address(A, x, b + 1) \in Blocks
        /\ A[Address(A, x, b + 1)][(q % BlockSize) + 1] = Byte(no, q)
    BY <2>1, <2>5 DEF HasByte
  <2>7. Address(f.disk, x, b + 1) = Address(A, x, b + 1)
    <3>1. x.sec[Direct + 1] = 0 \/ x.sec[Direct + 1] \in Blocks
      BY <1>2 DEF FileMap
    <3> QED BY <1>1, <2>6, <3>1, BlocksOfData
  <2>8. lba \in Blocks /\ A[lba] = f.disk[lba]
    BY <1>1, <2>4, <2>6, <2>7 DEF DataOf
  <2>9. lba # Junk
    BY <2>8, Sizes, InodeAssumption
  <2> QED BY ONLY <2>4, <2>6, <2>7, <2>8, <2>9
<1>6. PICK bytes : bytes = [k \in 1..count |-> Byte(no, pos + k - 1)]
  OBVIOUS
<1>7. file_read(f, x, pos, count) = [end |-> "read", bytes |-> bytes]
  <2>1. PICK got : got = [k \in 1..count |->
                            LET lba == blk[(pos + k - 1) \div BlockSize + 1]
                            IN  IF lba = Junk THEN Junk ELSE f.disk[lba][((pos + k - 1) % BlockSize) + 1]]
    OBVIOUS
  <2>2. \A k \in 1..count : pos + k - 1 \in pos..end - 1
    BY <1>3
  <2>3. \A k \in 1..count : got[k] = Byte(no, pos + k - 1)
    BY <1>5, <2>1, <2>2
  <2>4. got = bytes
    BY <1>6, <2>1, <2>3
  <2>5. ~(pos + count > size) /\ count # 0 /\ ~(s >= MaxBlocks - 1 \/ e >= MaxBlocks - 1)
    BY <1>2, <1>3, <1>4
  <2>6. e > Direct => x.sec[Direct + 1] # 0
    <3>1. e > Direct => end \div BlockSize > Direct
      BY <1>1
    <3> QED BY ONLY WithinBounds, <1>2, <3>1, size \in Nat, end \in Nat, end <= size, TablePresent
  <2>7. ~(s < Direct /\ e > Direct /\ x.sec[Direct + 1] = 0)
    BY ONLY <2>6
  <2>8. file_read(f, x, pos, count) = [end |-> "read", bytes |-> got]
    BY ONLY end = pos + count, size = x.size, <1>1, <2>1, <2>5, <2>7, Zenon DEF file_read
  <2> QED BY <2>4, <2>8
<1>8. SubSeq(Bytes(no, size), pos + 1, end) = bytes
  <2>1. PICK all : all = Bytes(no, size)
    OBVIOUS
  <2>2. all = [k \in 1..size |-> Byte(no, k - 1)]
    BY <2>1 DEF Bytes
  <2>3. SubSeq(all, pos + 1, end) = [k \in 1..end - (pos + 1) + 1 |-> all[(pos + 1) + k - 1]]
    BY DEF SubSeq
  <2>4. end - (pos + 1) + 1 = count
    BY <1>3
  <2>5. \A k \in 1..count : all[(pos + 1) + k - 1] = Byte(no, pos + k - 1)
    <3> SUFFICES ASSUME NEW k \in 1..count PROVE all[(pos + 1) + k - 1] = Byte(no, pos + k - 1)
      OBVIOUS
    <3>1. PICK j : j = (pos + 1) + k - 1
      OBVIOUS
    <3>2. j \in 1..size /\ j - 1 = pos + k - 1
      BY <3>1
    <3>3. all[j] = Byte(no, j - 1)
      BY ONLY <2>2, <3>2
    <3> QED BY ONLY <3>1, <3>2, <3>3
  <2> QED BY <1>6, <2>1, <2>3, <2>4, <2>5
<1> QED BY <1>7, <1>8 DEF IsRead

(* Between the calls an inode that is loaded is the root or a file's, and  *)
(* a file is read as it was written.                                       *)
LEMMA InvReads == ASSUME WithinBounds, FsInv PROVE ReadBack
<1>1. ASSUME Idle, NEW no \in DOMAIN fs.open \ {0}
      PROVE  \E D : Good(fs, D) /\ no \in fs.ibits \ D
  <2>1. PICK D : Sound(fs, file_table, D)
    BY <1>1, IdleSound
  <2>2. Good(fs, D) /\ FilesOK(file_table, fs.ibits, D) /\ OpenOK(NodesOf(fs), fs.ibits, fs.open)
    BY <2>1 DEF Sound, Good
  <2>3. no \in Nat /\ Cnt(fs.open, no) # 0
    <3>1. DOMAIN fs.open \subseteq fs.ibits
      BY <2>2 DEF OpenOK
    <3> QED BY <1>1, <2>1, <2>2, <3>1, OpenSlots, CntFacts
  <2>4. PICK slot \in Slots : file_table[slot].inode = no
    BY <1>1, <2>1, <2>3, OpenSlots
  <2>5. FileOK(file_table[slot], fs.ibits, D)
    BY <2>2 DEF FilesOK
  <2>6. no \in fs.ibits \ D
    BY <2>3, <2>4, <2>5 DEF FileOK, NULL, PAGE
  <2> QED BY <2>2, <2>6
<1>2. ASSUME Idle, NEW no \in DOMAIN fs.open \ {0}, NEW x, x = fs.open[no],
             NEW pos \in 0..x.size - 1, NEW count \in 1..x.size - pos, NEW end, end = pos + count,
             ReadWithin(pos, end)
      PROVE  IsRead(fs, x, no, pos, count, end)
  <2>1. PICK D : Good(fs, D) /\ no \in fs.ibits \ D
    BY <1>1, <1>2
  <2>2. PICK size : size = x.size
    OBVIOUS
  <2>3. size \in Nat
    BY <1>2, <2>1, <2>2, OpenedFile
  <2>4. pos \in Nat /\ count \in Nat /\ count >= 1 /\ end \in Nat /\ end <= size
    BY <1>2, <2>2, <2>3
  <2> QED BY <1>2, <2>1, <2>2, <2>3, <2>4, ReadBytes
<1> QED BY <1>2 DEF ReadBack, ReadWithin, IsRead

-----------------------------------------------------------------------------
(* The invariant of the behaviours within the bounds.  This and the four   *)
(* theorems after it are conditional: they hold while every inode in use   *)
(* lies in the first sector of the inode table (six inodes of 76 bytes,    *)
(* which the first boot of main.c exceeds), and if no process forks with a *)
(* file open, paths are clean, sys_open gets files of the root, a directory*)
(* has one block, and one sys_write has one block of bytes at most.        *)
(* Outside of them inode.c:41, file.c:305 and file.c:451 do break it.      *)
THEOREM FsIsSound == ASSUME WithinBounds PROVE Spec /\ []FewInodes => []FsInv
<1>1. Init /\ FewInodes => FsInv
  BY FsInit
<1>2. FsInv /\ FewInodes /\ FewInodes' /\ [Next]_vars => FsInv'
  BY FsNext
<1> QED BY <1>1, <1>2, PTL DEF Spec

(* Within the same bounds the kernel stops in a file system call only for  *)
(* a full bitmap, for a full file_table in sys_pipe, or for the block      *)
(* behind the partition.                                                   *)
THEOREM PanicsAreKnown == ASSUME WithinBounds PROVE Spec /\ []FewInodes => []OnlyKnownPanics
BY FsIsSound, InvPanics, PTL

(* Within the same bounds open_inodes is the inode table between calls.    *)
THEOREM CacheIsCoherent == ASSUME WithinBounds PROVE Spec /\ []FewInodes => []CacheCoherent
BY FsIsSound, InvCache, PTL

(* Within the same bounds i_open_cnt is the number of slots between calls. *)
THEOREM CountsAreExact == ASSUME WithinBounds PROVE Spec /\ []FewInodes => []CountsExact
BY FsIsSound, InvCounts, PTL

(* Within the same bounds file_read (file.c:558) returns what file_write   *)
(* (file.c:323) has put in a file, from every position.                    *)
THEOREM ReadsBack == ASSUME WithinBounds PROVE Spec /\ []FewInodes => []ReadBack
BY FsIsSound, InvReads, PTL

(* No descriptor of a pipe is left without the pipe's page: pipe_read and  *)
(* pipe_write (pipe.c:72, pipe.c:97) find it, and sys_close (fs.c:592)     *)
(* gives it back with the last descriptor, not before.  The one hypothesis *)
(* is that no process forks while it has a regular file open, as none of   *)
(* the forks in src does (main.c:41, shell.c:171, prog_with_arg.c:11,      *)
(* prog_pipe.c:9): file_close (file.c:305) empties a slot that another     *)
(* process still uses.                                                     *)
THEOREM PipesStayAlive == ASSUME ~ShareFiles PROVE Spec => []PipesAlive
<1>1. Init => Tables(file_table, task)
  BY FirstTables DEF Init
<1>2. Tables(file_table, task) /\ [Next]_vars => Tables(file_table, task)'
  BY NextTables
<1>3. Tables(file_table, task) => PipesAlive
  BY TablesKeepPipes
<1> QED BY <1>1, <1>2, <1>3, PTL DEF Spec

=============================================================================
