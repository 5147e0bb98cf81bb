---------------------------- MODULE FsTreeProofs ----------------------------
(***************************************************************************)
(* The partition under the operators of Inode, Dir and File: what a disk   *)
(* with a tree of directories and files is (Good), what every operator     *)
(* keeps of a call's state whatever the disk holds (Follows), and that the *)
(* calls that open, create, remove and list lead from one such disk to     *)
(* another.  Fs's theorems are in FsProofs.                                *)
(***************************************************************************)
EXTENDS Fs, TLAPS, FiniteSetTheorems, SequenceTheorems, NaturalsInduction

-----------------------------------------------------------------------------
(* Numbers *)

(* A set of numbers that is not empty has a lowest one.                    *)
LEMMA LowestFacts ==
  ASSUME NEW S \in SUBSET Nat, S # {}
  PROVE  Lowest(S) \in S /\ \A i \in S : Lowest(S) <= i
<1>1. IsWellFoundedOn(OpToRel(<, Nat), Nat)
  BY NatLessThanWellFounded, Zenon
<1>2. PICK k \in S : \A i \in S : ~(<<i, k>> \in OpToRel(<, Nat))
  BY <1>1, WFMin, Zenon
<1>3. ASSUME NEW i \in S PROVE k <= i
  <2>1. <<i, k>> \in Nat \X Nat
    BY <1>2, Zenon
  <2>2. ~(i < k)
    BY <1>2, <2>1 DEF OpToRel
  <2> QED BY <2>2
<1> QED BY <1>2, <1>3, Zenon DEF Lowest

(* What holds of a and is passed from each number to the next holds up to  *)
(* b.                                                                      *)
LEMMA Upto ==
  ASSUME NEW a \in Int, NEW b \in Int, NEW T, a \in T,
         \A k \in a..b - 1 : k \in T => k + 1 \in T
  PROVE  \A k \in a..b : k \in T
<1> DEFINE U == {j \in Nat : a + j \in a..b /\ a + j \notin T}
<1>1. SUFFICES ASSUME U # {} PROVE FALSE
  <2>1. ASSUME NEW k \in a..b PROVE k \in T
    <3>1. k - a \in Nat /\ a + (k - a) = k
      BY <2>1
    <3> QED BY <3>1
  <2> QED BY <2>1
<1>2. PICK j \in U : \A i \in U : j <= i
  <2>1. U \in SUBSET Nat
    OBVIOUS
  <2> HIDE DEF U
  <2> QED BY <1>1, <2>1, LowestFacts
<1>3. j # 0
  OBVIOUS
<1>4. j - 1 \in Nat /\ a + (j - 1) \in a..b - 1 /\ (a + (j - 1)) + 1 = a + j
  BY <1>3
<1>5. a + (j - 1) \in T
  <2>1. j - 1 \notin U
    BY <1>2, <1>4
  <2> QED BY <1>4, <2>1
<1> QED BY <1>4, <1>5

-----------------------------------------------------------------------------
(* One state of the file system and a later one of the same call *)

\* The shape of the record.
IsFs(f) ==
  /\ f = [disk |-> f.disk, log |-> f.log, panic |-> f.panic, open |-> f.open,
          bbits |-> f.bbits, ibits |-> f.ibits]
  /\ f.disk = [lba \in DOMAIN f.disk |-> f.disk[lba]]
  /\ f.log \in Seq(Range(f.log))

\* d with the sectors of the log stored is f.disk.
Logged(d, f) ==
  /\ DOMAIN f.disk = DOMAIN d
  /\ \A lba \in DOMAIN d :
       (\A i \in 1..Len(f.log) : f.log[i][1] # lba) => f.disk[lba] = d[lba]
  /\ \A i \in 1..Len(f.log) :
       f.log[i][1] \in DOMAIN d /\ (\A j \in i + 1..Len(f.log) : f.log[j][1] # f.log[i][1])
         => f.disk[f.log[i][1]] = f.log[i][2]

\* What every operator keeps: a panic stays, and the log has all writes.
Follows(f, g) ==
  /\ IsFs(g)
  /\ f.panic # "none" => g.panic = f.panic
  /\ \A d : Logged(d, f) => Logged(d, g)

\* What changes in memory only.
SameDisk(f, g) == IsFs(g) /\ g.disk = f.disk /\ g.log = f.log

(* One operator after another.                                             *)
LEMMA FollowsTwice ==
  ASSUME NEW f, NEW g, NEW h, Follows(f, g), Follows(g, h)
  PROVE  Follows(f, h)
BY DEF Follows

(* No operator is one that changes nothing.                                *)
LEMMA FollowsSame ==
  ASSUME NEW f, IsFs(f)
  PROVE  Follows(f, f)
BY DEF Follows

(* Memory changes, and the panic does not.                                 *)
LEMMA FollowsMemory ==
  ASSUME NEW f, NEW g, SameDisk(f, g), f.panic # "none" => g.panic = f.panic
  PROVE  Follows(f, g)
BY DEF Follows, SameDisk, Logged

(* A record whose fields in memory are others.                             *)
LEMMA MemoryFollows ==
  ASSUME NEW f, IsFs(f), NEW g, NEW a, NEW b, NEW c,
         g = [disk |-> f.disk, log |-> f.log, panic |-> f.panic,
              open |-> a, bbits |-> b, ibits |-> c]
  PROVE  /\ Follows(f, g) /\ SameDisk(f, g) /\ g.panic = f.panic
         /\ g.open = a /\ g.bbits = b /\ g.ibits = c
<1>1. IsFs(g)
  BY DEF IsFs
<1>2. /\ g.disk = f.disk /\ g.log = f.log /\ g.panic = f.panic
      /\ g.open = a /\ g.bbits = b /\ g.ibits = c
  OBVIOUS
<1> QED BY <1>1, <1>2, FollowsMemory DEF SameDisk

(* The list open_inodes is assigned.                                         *)
LEMMA OpenFollows ==
  ASSUME NEW f, IsFs(f), NEW x, NEW g, g = [f EXCEPT !.open = x]
  PROVE  /\ Follows(f, g) /\ SameDisk(f, g) /\ g.panic = f.panic
         /\ g.open = x /\ g.bbits = f.bbits /\ g.ibits = f.ibits
<1>1. g = [disk |-> f.disk, log |-> f.log, panic |-> f.panic,
           open |-> x, bbits |-> f.bbits, ibits |-> f.ibits]
  BY DEF IsFs
<1> QED BY ONLY <1>1, IsFs(f), MemoryFollows

(* The block bitmap in memory is assigned.                                   *)
LEMMA BlockBitsFollow ==
  ASSUME NEW f, IsFs(f), NEW x, NEW g, g = [f EXCEPT !.bbits = x]
  PROVE  /\ Follows(f, g) /\ SameDisk(f, g) /\ g.panic = f.panic
         /\ g.open = f.open /\ g.bbits = x /\ g.ibits = f.ibits
<1>1. g = [disk |-> f.disk, log |-> f.log, panic |-> f.panic,
           open |-> f.open, bbits |-> x, ibits |-> f.ibits]
  BY DEF IsFs
<1> QED BY ONLY <1>1, IsFs(f), MemoryFollows

(* The inode bitmap in memory is assigned.                                   *)
LEMMA InodeBitsFollow ==
  ASSUME NEW f, IsFs(f), NEW x, NEW g, g = [f EXCEPT !.ibits = x]
  PROVE  /\ Follows(f, g) /\ SameDisk(f, g) /\ g.panic = f.panic
         /\ g.open = f.open /\ g.bbits = f.bbits /\ g.ibits = x
<1>1. g = [disk |-> f.disk, log |-> f.log, panic |-> f.panic,
           open |-> f.open, bbits |-> f.bbits, ibits |-> x]
  BY DEF IsFs
<1> QED BY ONLY <1>1, IsFs(f), MemoryFollows

(* A panic.                                                                *)
LEMMA PanicFollows ==
  ASSUME NEW f, IsFs(f), NEW why, NEW g, g = Panic(f, why), why # "none"
  PROVE  /\ Follows(f, g) /\ SameDisk(f, g) /\ g.open = f.open
         /\ g.bbits = f.bbits /\ g.ibits = f.ibits
         /\ g.panic = IF f.panic = "none" THEN why ELSE f.panic
<1>1. CASE f.panic = "none"
  <2>1. g = [disk |-> f.disk, log |-> f.log, panic |-> why,
             open |-> f.open, bbits |-> f.bbits, ibits |-> f.ibits]
    BY <1>1 DEF Panic, IsFs
  <2>2. SameDisk(f, g)
    BY <2>1 DEF SameDisk, IsFs
  <2> QED BY <1>1, <2>1, <2>2, FollowsMemory
<1>2. CASE f.panic # "none"
  <2>1. g = f
    BY <1>2 DEF Panic
  <2> QED BY <1>2, <2>1, FollowsSame DEF SameDisk
<1> QED BY <1>1, <1>2

(* An assertion.                                                           *)
LEMMA AssertFollows ==
  ASSUME NEW f, IsFs(f), NEW holds \in BOOLEAN, NEW g, g = ASSERT(f, holds)
  PROVE  /\ Follows(f, g) /\ SameDisk(f, g) /\ g.open = f.open
         /\ g.bbits = f.bbits /\ g.ibits = f.ibits
         /\ holds => g = f
<1>1. CASE holds
  BY <1>1, FollowsSame DEF ASSERT, SameDisk
<1>2. CASE ~holds
  <2>1. g = Panic(f, "assert")
    BY <1>2 DEF ASSERT
  <2> QED BY <1>2, <2>1, PanicFollows
<1> QED BY <1>1, <1>2

\* The sector is on the disk.
WroteAt(f, g, lba, sector) ==
  /\ g.panic = "none" /\ g.disk = [f.disk EXCEPT ![lba] = sector]
  /\ g.log = Append(f.log, <<lba, sector>>)

(* One sector written.                                                     *)
LEMMA WriteFollows ==
  ASSUME NEW f, IsFs(f), NEW lba, NEW sector, NEW g, g = ide_write(f, lba, sector)
  PROVE  /\ Follows(f, g)
         /\ g.open = f.open /\ g.bbits = f.bbits /\ g.ibits = f.ibits
         /\ f.panic = "none" => g.panic \in {"none", "outside"}
         /\ f.panic = "none" /\ ~(lba >= SecCnt) => WroteAt(f, g, lba, sector)
         /\ f.panic = "none" /\ lba >= SecCnt => g.panic = "outside"
         /\ f.panic # "none" => g = f
<1>1. CASE f.panic # "none"
  BY <1>1, FollowsSame DEF ide_write
<1>2. CASE f.panic = "none" /\ lba >= SecCnt
  <2>1. g = Panic(f, "outside")
    BY <1>2 DEF ide_write
  <2>2. "outside" # "none"
    OBVIOUS
  <2>3. /\ Follows(f, g) /\ g.open = f.open /\ g.bbits = f.bbits /\ g.ibits = f.ibits
        /\ g.panic = "outside"
    BY ONLY <1>2, <2>1, <2>2, IsFs(f), PanicFollows
  <2> QED BY ONLY <1>2, <2>3
<1>3. CASE f.panic = "none" /\ ~(lba >= SecCnt)
  <2>1. PICK d : d = [f.disk EXCEPT ![lba] = sector]
    OBVIOUS
  <2>2. PICK l : l = Append(f.log, <<lba, sector>>)
    OBVIOUS
  <2>3. g = [f EXCEPT !.disk = d, !.log = l]
    BY <1>3, <2>1, <2>2 DEF ide_write
  <2>4. g = [disk |-> d, log |-> l, panic |-> f.panic, open |-> f.open,
             bbits |-> f.bbits, ibits |-> f.ibits]
    BY <2>3 DEF IsFs
  <2>5. /\ Len(f.log) \in Nat /\ l \in Seq(Range(f.log) \cup {<<lba, sector>>})
        /\ Len(l) = Len(f.log) + 1 /\ l[Len(f.log) + 1] = <<lba, sector>>
        /\ \A i \in 1..Len(f.log) : l[i] = f.log[i]
    <3>1. f.log \in Seq(Range(f.log) \cup {<<lba, sector>>})
      BY DEF IsFs
    <3>2. PICK S : S = Range(f.log) \cup {<<lba, sector>>}
      OBVIOUS
    <3>3. f.log \in Seq(S) /\ <<lba, sector>> \in S
      BY <3>1, <3>2
    <3> QED BY <2>2, <3>2, <3>3, AppendProperties
  <2>6. l \in Seq(Range(l))
    <3>1. \A i \in 1..Len(l) : l[i] \in Range(l)
      BY <2>5 DEF Range
    <3> QED BY <2>5, <3>1
  <2>7. d = [x \in DOMAIN f.disk |-> d[x]] /\ DOMAIN d = DOMAIN f.disk
        /\ \A x \in DOMAIN f.disk : d[x] = IF x = lba THEN sector ELSE f.disk[x]
    BY <2>1 DEF IsFs
  <2>8. IsFs(g)
    BY <2>4, <2>6, <2>7 DEF IsFs
  <2>9. ASSUME NEW p, Logged(p, f) PROVE Logged(p, g)
    <3>1. DOMAIN d = DOMAIN p /\ g.disk = d /\ g.log = l
      BY <2>4, <2>7, <2>9 DEF Logged
    <3>2. ASSUME NEW x \in DOMAIN p, \A i \in 1..Len(l) : l[i][1] # x PROVE d[x] = p[x]
      <4>1. x # lba
        BY <2>5, <3>2
      <4>2. \A i \in 1..Len(f.log) : f.log[i][1] # x
        BY <2>5, <3>2
      <4> QED BY <2>7, <2>9, <3>1, <4>1, <4>2 DEF Logged
    <3>3. ASSUME NEW i \in 1..Len(l), l[i][1] \in DOMAIN p,
                 \A j \in i + 1..Len(l) : l[j][1] # l[i][1]
          PROVE  d[l[i][1]] = l[i][2]
      <4>1. CASE i = Len(f.log) + 1
        BY <2>5, <2>7, <3>1, <3>3, <4>1
      <4>2. CASE i # Len(f.log) + 1
        <5>1. i \in 1..Len(f.log) /\ l[i] = f.log[i]
          BY <2>5, <4>2
        <5>2. l[i][1] # lba
          BY <2>5, <3>3, <5>1
        <5>3. \A j \in i + 1..Len(f.log) : f.log[j][1] # f.log[i][1]
          <6>1. ASSUME NEW j \in i + 1..Len(f.log) PROVE f.log[j][1] # f.log[i][1]
            <7>1. j \in i + 1..Len(l) /\ l[j] = f.log[j]
              BY <2>5, <5>1
            <7> QED BY <3>3, <5>1, <7>1
          <6> QED BY <6>1
        <5> QED BY <2>7, <2>9, <3>1, <3>3, <5>1, <5>2, <5>3 DEF Logged
      <4> QED BY <4>1, <4>2
    <3> QED BY <3>1, <3>2, <3>3 DEF Logged
  <2>10. Follows(f, g)
    BY ONLY <1>3, <2>8, <2>9 DEF Follows
  <2>11. /\ g.open = f.open /\ g.bbits = f.bbits /\ g.ibits = f.ibits /\ g.panic = f.panic
         /\ g.disk = d /\ g.log = l
    BY ONLY <2>4
  <2>12. WroteAt(f, g, lba, sector)
    BY ONLY <1>3, <2>1, <2>2, <2>11 DEF WroteAt
  <2> QED BY ONLY <1>3, <2>10, <2>11, <2>12
<1>4. \/ f.panic # "none"
      \/ f.panic = "none" /\ lba >= SecCnt
      \/ f.panic = "none" /\ ~(lba >= SecCnt)
  OBVIOUS
<1> QED BY <1>1, <1>2, <1>3, <1>4

\* Only sectors were written.
Wrote(f, g) ==
  /\ Follows(f, g) /\ IsFs(g)
  /\ g.open = f.open /\ g.bbits = f.bbits /\ g.ibits = f.ibits
  /\ f.panic = "none" => g.panic \in {"none", "outside"}
  /\ f.panic # "none" => g.panic = f.panic

(* One.                                                                    *)
LEMMA WriteWrote ==
  ASSUME NEW f, IsFs(f), NEW lba, NEW sector, NEW g, g = ide_write(f, lba, sector)
  PROVE  Wrote(f, g)
<1>1. /\ Follows(f, g) /\ g.open = f.open /\ g.bbits = f.bbits /\ g.ibits = f.ibits
      /\ f.panic = "none" => g.panic \in {"none", "outside"}
  BY ONLY WriteFollows, IsFs(f), g = ide_write(f, lba, sector)
<1> QED BY <1>1 DEF Wrote, Follows

(* Two.                                                                    *)
LEMMA WroteTwice ==
  ASSUME NEW f, NEW g, NEW h, Wrote(f, g), Wrote(g, h)
  PROVE  Wrote(f, h)
BY FollowsTwice DEF Wrote

-----------------------------------------------------------------------------
(* Inodes and bitmaps: what every operator keeps *)

(* An inode is written to the table.                                       *)
LEMMA StoreWrote ==
  ASSUME NEW f, IsFs(f), NEW pos, NEW words, NEW g, g = StoreWords(f, pos, words)
  PROVE  Wrote(f, g)
<1>1. PICK s0 : s0 = PatchSector(f, pos.sec_lba, 0, pos.off_size, words)
  OBVIOUS
<1>2. PICK s1 : s1 = PatchSector(f, pos.sec_lba, 1, pos.off_size, words)
  OBVIOUS
<1>3. PICK l0 : l0 = pos.sec_lba + 0
  OBVIOUS
<1>4. PICK l1 : l1 = pos.sec_lba + 1
  OBVIOUS
<1>5. PICK h : h = ide_write(f, l0, s0)
  OBVIOUS
<1>6. PICK h2 : h2 = ide_write(h, l1, s1)
  OBVIOUS
<1>7. g = IF pos.multi_sec THEN h2 ELSE h
  BY <1>1, <1>2, <1>3, <1>4, <1>5, <1>6 DEF StoreWords
<1>8. Wrote(f, h) /\ IsFs(h)
  BY ONLY <1>5, IsFs(f), WriteWrote DEF Wrote
<1>9. Wrote(h, h2)
  BY ONLY <1>6, <1>8, WriteWrote
<1> QED BY ONLY <1>7, <1>8, <1>9, WroteTwice

(* An inode in open_inodes is changed or leaves it, or one enters it.      *)
LEMMA OpenCloseFollow ==
  ASSUME NEW f, IsFs(f), NEW no, NEW g, g \in {inode_open(f, no), inode_close(f, no)}
  PROVE  /\ Follows(f, g) /\ SameDisk(f, g) /\ g.panic = f.panic
         /\ g.bbits = f.bbits /\ g.ibits = f.ibits
<1>1. PICK x : g = [f EXCEPT !.open = x]
  <2>1. inode_open(f, no) = [f EXCEPT !.open = inode_open(f, no).open]
    BY DEF inode_open, IsFs
  <2>2. inode_close(f, no) = [f EXCEPT !.open = inode_close(f, no).open]
    BY DEF inode_close, IsFs
  <2> QED BY <2>1, <2>2
<1> QED BY <1>1, OpenFollows

(* A bit of the inode bitmap is taken.                                     *)
LEMMA TakeInodeFollows ==
  ASSUME NEW f, IsFs(f), NEW bit, NEW a, a = TakeInode(f, bit)
  PROVE  /\ Follows(f, a.fs) /\ SameDisk(f, a.fs) /\ a.no = bit
         /\ a.fs.open = f.open /\ a.fs.bbits = f.bbits
         /\ bit = inode_bitmap_len =>
              a.fs.ibits = f.ibits /\ a.fs.panic = IF f.panic = "none" THEN "full" ELSE f.panic
         /\ bit # inode_bitmap_len => a.fs.ibits = f.ibits \cup {bit} /\ a.fs.panic = f.panic
<1>1. CASE bit = inode_bitmap_len
  <2>1. a.fs = Panic(f, "full") /\ a.no = bit
    BY <1>1 DEF TakeInode
  <2>2. "full" # "none"
    OBVIOUS
  <2> QED BY <1>1, <2>1, <2>2, PanicFollows
<1>2. CASE bit # inode_bitmap_len
  <2>1. a.fs = [f EXCEPT !.ibits = @ \cup {bit}] /\ a.no = bit
    BY <1>2 DEF TakeInode
  <2> QED BY <1>2, <2>1, InodeBitsFollow
<1> QED BY <1>1, <1>2

(* A bit of the block bitmap is taken.                                     *)
LEMMA TakeBlockFollows ==
  ASSUME NEW f, IsFs(f), NEW bit, NEW a, a = TakeBlock(f, bit)
  PROVE  /\ Follows(f, a.fs) /\ SameDisk(f, a.fs) /\ a.lba = data_start_lba + bit
         /\ a.fs.open = f.open /\ a.fs.ibits = f.ibits
         /\ bit = block_bitmap_len =>
              a.fs.bbits = f.bbits /\ a.fs.panic = IF f.panic = "none" THEN "full" ELSE f.panic
         /\ bit # block_bitmap_len => a.fs.bbits = f.bbits \cup {bit} /\ a.fs.panic = f.panic
<1>1. CASE bit = block_bitmap_len
  <2>1. a.fs = Panic(f, "full") /\ a.lba = data_start_lba + bit
    BY <1>1 DEF TakeBlock
  <2>2. "full" # "none"
    OBVIOUS
  <2> QED BY <1>1, <2>1, <2>2, PanicFollows
<1>2. CASE bit # block_bitmap_len
  <2>1. a.fs = [f EXCEPT !.bbits = @ \cup {bit}] /\ a.lba = data_start_lba + bit
    BY <1>2 DEF TakeBlock
  <2> QED BY <1>2, <2>1, BlockBitsFollow
<1> QED BY <1>1, <1>2

(* A sector of a bitmap is written.                                        *)
LEMMA SyncWrote ==
  ASSUME NEW f, IsFs(f), NEW x
  PROVE  /\ Wrote(f, SyncBlockBit(f, x)) /\ Wrote(f, SyncInodeBit(f, x)) /\ Wrote(f, SyncLba(f, x))
<1>1. ASSUME NEW y PROVE Wrote(f, SyncBlockBit(f, y))
  BY WriteWrote DEF SyncBlockBit
<1>2. Wrote(f, SyncInodeBit(f, x))
  BY WriteWrote DEF SyncInodeBit
<1>3. Wrote(f, SyncLba(f, x))
  BY <1>1 DEF SyncLba
<1> QED BY <1>1, <1>2, <1>3

(* A new block, its bit written.                                           *)
LEMMA AllocFollows ==
  ASSUME NEW f, IsFs(f), NEW bit, bit = FirstFree(f.bbits, block_bitmap_len),
         NEW a, a = AllocSynced(f)
  PROVE  /\ Follows(f, a.fs) /\ a = [fs |-> a.fs, lba |-> a.lba]
         /\ a.lba = data_start_lba + bit
         /\ a.fs.open = f.open /\ a.fs.ibits = f.ibits
         /\ f.panic = "none" => a.fs.panic \in {"none", "full", "outside"}
         /\ a.fs.panic = "none" => bit # block_bitmap_len /\ a.fs.bbits = f.bbits \cup {bit}
<1>1. PICK b : b = TakeBlock(f, bit)
  OBVIOUS
<1>2. /\ Follows(f, b.fs) /\ IsFs(b.fs) /\ b.lba = data_start_lba + bit
      /\ b.fs.open = f.open /\ b.fs.ibits = f.ibits
      /\ bit = block_bitmap_len => b.fs.panic = IF f.panic = "none" THEN "full" ELSE f.panic
      /\ bit # block_bitmap_len => b.fs.bbits = f.bbits \cup {bit} /\ b.fs.panic = f.panic
  BY ONLY <1>1, IsFs(f), TakeBlockFollows DEF SameDisk
<1>3. PICK g : g = SyncLba(b.fs, b.lba)
  OBVIOUS
<1>4. b = [fs |-> b.fs, lba |-> b.lba]
  BY <1>1 DEF TakeBlock
<1>5. a = [fs |-> g, lba |-> b.lba]
  <2>1. a = [b EXCEPT !.fs = SyncLba(@, b.lba)]
    BY <1>1 DEF AllocSynced, block_bitmap_alloc, Synced
  <2> QED BY ONLY <1>3, <1>4, <2>1
<1>6. Wrote(b.fs, g)
  BY ONLY <1>2, <1>3, SyncWrote
<1>7. Follows(f, g)
  BY <1>2, <1>6, FollowsTwice DEF Wrote
<1>8. CASE bit = block_bitmap_len
  <2>1. g.panic # "none" /\ (f.panic = "none" => g.panic = "full")
    BY <1>2, <1>6, <1>8 DEF Wrote, Follows
  <2> QED BY <1>2, <1>5, <1>6, <1>7, <2>1 DEF Wrote
<1>9. CASE bit # block_bitmap_len
  BY <1>2, <1>5, <1>6, <1>7, <1>9 DEF Wrote
<1> QED BY <1>8, <1>9

(* A block is given back.                                                  *)
LEMMA FreeBlockFollows ==
  ASSUME NEW f, IsFs(f), NEW lba, NEW g, g = FreeBlock(f, lba)
  PROVE  /\ Follows(f, g) /\ g.open = f.open /\ g.ibits = f.ibits
         /\ g.bbits = f.bbits \ {lba - data_start_lba}
         /\ f.panic = "none" /\ lba # data_start_lba => g.panic \in {"none", "outside"}
<1>1. PICK holds \in BOOLEAN : holds <=> lba # data_start_lba
  <2>1. (lba # data_start_lba) \in BOOLEAN
    OBVIOUS
  <2> QED BY <2>1
<1>2. PICK h : h = ASSERT(f, holds)
  OBVIOUS
<1>3. PICK h2 : h2 = [h EXCEPT !.bbits = @ \ {lba - data_start_lba}]
  OBVIOUS
<1>4. g = SyncLba(h2, lba)
  <2>1. ASSERT(f, lba # data_start_lba) = h
    BY <1>1, <1>2 DEF ASSERT
  <2> QED BY <1>3, <2>1 DEF FreeBlock
<1>5. /\ Follows(f, h) /\ IsFs(h) /\ h.open = f.open /\ h.bbits = f.bbits /\ h.ibits = f.ibits
      /\ holds => h = f
  BY ONLY <1>2, IsFs(f), holds \in BOOLEAN, AssertFollows DEF SameDisk
<1>6. /\ Follows(h, h2) /\ IsFs(h2) /\ h2.open = f.open /\ h2.ibits = f.ibits
      /\ h2.bbits = f.bbits \ {lba - data_start_lba} /\ h2.panic = h.panic
  <2>1. h2 = [h EXCEPT !.bbits = f.bbits \ {lba - data_start_lba}]
    BY <1>3, <1>5
  <2> QED BY ONLY <1>5, <2>1, BlockBitsFollow DEF SameDisk
<1>7. Wrote(h2, g)
  BY ONLY <1>4, <1>6, SyncWrote
<1>8. Follows(f, g)
  BY <1>5, <1>6, <1>7, FollowsTwice DEF Wrote
<1> QED BY <1>1, <1>5, <1>6, <1>7, <1>8 DEF Wrote

(* A block is given back if there is one.                                  *)
LEMMA FreePresentFollows ==
  ASSUME NEW f, IsFs(f), NEW lba, NEW g, g = FreePresent(f, lba)
  PROVE  /\ Follows(f, g) /\ g.open = f.open /\ g.ibits = f.ibits
         /\ g.bbits = f.bbits \ (IF lba = 0 THEN {} ELSE {lba - data_start_lba})
         /\ f.panic = "none" /\ (lba = 0 \/ lba # data_start_lba) => g.panic \in {"none", "outside"}
<1>1. CASE lba = 0
  <2>1. g = f
    BY <1>1 DEF FreePresent
  <2> QED BY <1>1, <2>1, FollowsSame
<1>2. CASE lba # 0
  <2>1. g = FreeBlock(f, lba)
    BY <1>2 DEF FreePresent
  <2> QED BY <1>2, <2>1, FreeBlockFollows
<1> QED BY <1>1, <1>2

\* The loop of inode_release over the first n addresses.
Freed(h, f, lbas, n) ==
  h = [k \in 0..n |-> IF k = 0 THEN f ELSE FreePresent(h[k - 1], lbas[k])]

(* It has a result.                                                        *)
LEMMA FreedExist ==
  ASSUME NEW f, NEW lbas, NEW len \in Nat
  PROVE  \E h : Freed(h, f, lbas, len)
<1> DEFINE T == {n \in 0..len : \E h : Freed(h, f, lbas, n)}
<1>1. 0 \in T
  <2>1. PICK h : h = [k \in 0..0 |-> f]
    OBVIOUS
  <2>2. Freed(h, f, lbas, 0)
    BY <2>1 DEF Freed
  <2> QED BY <2>2
<1>2. ASSUME NEW n \in 0..len - 1, n \in T PROVE n + 1 \in T
  <2>1. PICK h : Freed(h, f, lbas, n)
    BY <1>2
  <2>2. PICK x : x = FreePresent(h[n], lbas[n + 1])
    OBVIOUS
  <2>3. PICK g : g = [k \in 0..n + 1 |-> IF k = n + 1 THEN x ELSE h[k]]
    OBVIOUS
  <2>4. \A k \in 0..n : g[k] = h[k]
    BY <2>3
  <2>5. ASSUME NEW k \in 0..n + 1
        PROVE  g[k] = IF k = 0 THEN f ELSE FreePresent(g[k - 1], lbas[k])
    <3>1. CASE k = n + 1
      <4>1. k - 1 = n /\ k # 0
        BY <3>1
      <4> QED BY <2>2, <2>3, <2>4, <3>1, <4>1
    <3>2. CASE k # n + 1
      <4>1. k \in 0..n /\ (k # 0 => k - 1 \in 0..n)
        BY <3>2
      <4> QED BY <2>1, <2>4, <4>1 DEF Freed
    <3> QED BY <3>1, <3>2
  <2>6. g = [k \in 0..n + 1 |-> g[k]]
    BY <2>3
  <2>7. Freed(g, f, lbas, n + 1)
    BY <2>5, <2>6 DEF Freed
  <2> QED BY <2>7
<1>3. \A n \in 0..len : n \in T
  <2> HIDE DEF T
  <2> QED BY <1>1, <1>2, Upto
<1> QED BY <1>3

\* The bits of the first n addresses.
BitsOfBlocks(lbas, n) == {lbas[k] - data_start_lba : k \in {i \in 1..n : lbas[i] # 0}}

(* All blocks of a list are given back.                                    *)
LEMMA FreeBlocksFollows ==
  ASSUME NEW f, IsFs(f), NEW lbas, NEW g, g = FreeBlocks(f, lbas)
  PROVE  /\ Follows(f, g) /\ g.open = f.open /\ g.ibits = f.ibits
         /\ g.bbits = f.bbits \ BitsOfBlocks(lbas, MaxBlocks)
         /\ f.panic = "none" /\ (\A k \in 1..MaxBlocks : lbas[k] = 0 \/ lbas[k] # data_start_lba)
              => g.panic \in {"none", "outside"}
<1>1. MaxBlocks \in Nat
  BY InodeAssumption DEF MaxBlocks
<1>2. PICK h : Freed(h, f, lbas, MaxBlocks) /\ g = h[MaxBlocks]
  <2>1. PICK h : h = CHOOSE x : Freed(x, f, lbas, MaxBlocks)
    OBVIOUS
  <2>2. Freed(h, f, lbas, MaxBlocks)
    BY <1>1, <2>1, FreedExist
  <2>3. g = (CHOOSE x : Freed(x, f, lbas, MaxBlocks))[MaxBlocks]
    BY DEF FreeBlocks, Freed
  <2> QED BY <2>1, <2>2, <2>3
<1> DEFINE fine == \A k \in 1..MaxBlocks : lbas[k] = 0 \/ lbas[k] # data_start_lba
           T == {n \in 0..MaxBlocks :
                   /\ Follows(f, h[n]) /\ h[n].open = f.open /\ h[n].ibits = f.ibits
                   /\ h[n].bbits = f.bbits \ BitsOfBlocks(lbas, n)
                   /\ f.panic = "none" /\ fine => h[n].panic \in {"none", "outside"}}
<1>3. \A n \in 0..MaxBlocks : h[n] = IF n = 0 THEN f ELSE FreePresent(h[n - 1], lbas[n])
  BY <1>2 DEF Freed
<1>4. 0 \in T
  <2>1. h[0] = f /\ 0 \in 0..MaxBlocks
    BY <1>1, <1>3
  <2>2. BitsOfBlocks(lbas, 0) = {}
    BY DEF BitsOfBlocks
  <2> QED BY <2>1, <2>2, FollowsSame
<1>5. ASSUME NEW n \in 0..MaxBlocks - 1, n \in T PROVE n + 1 \in T
  <2>1. n + 1 \in 1..MaxBlocks /\ n + 1 \in 0..MaxBlocks /\ n + 1 # 0 /\ (n + 1) - 1 = n
    BY <1>1
  <2>2. h[n + 1] = FreePresent(h[n], lbas[n + 1])
    BY <1>3, <2>1
  <2>3. IsFs(h[n])
    BY <1>5 DEF Follows
  <2>4. /\ Follows(h[n], h[n + 1]) /\ h[n + 1].open = h[n].open /\ h[n + 1].ibits = h[n].ibits
        /\ h[n + 1].bbits = h[n].bbits \ (IF lbas[n + 1] = 0 THEN {} ELSE {lbas[n + 1] - data_start_lba})
        /\ h[n].panic = "none" /\ (lbas[n + 1] = 0 \/ lbas[n + 1] # data_start_lba)
             => h[n + 1].panic \in {"none", "outside"}
    BY <2>2, <2>3, FreePresentFollows
  <2>5. BitsOfBlocks(lbas, n + 1)
          = BitsOfBlocks(lbas, n) \cup (IF lbas[n + 1] = 0 THEN {} ELSE {lbas[n + 1] - data_start_lba})
    <3>1. 1..n + 1 = 1..n \cup {n + 1}
      BY <1>1
    <3> QED BY <3>1 DEF BitsOfBlocks
  <2>6. h[n + 1].bbits = f.bbits \ BitsOfBlocks(lbas, n + 1)
    BY <1>5, <2>4, <2>5
  <2>7. Follows(f, h[n + 1])
    BY <1>5, <2>4, FollowsTwice
  <2>8. f.panic = "none" /\ fine => h[n + 1].panic \in {"none", "outside"}
    <3>1. CASE h[n].panic = "none"
      BY <2>1, <2>4, <3>1
    <3>2. CASE h[n].panic # "none"
      BY <1>5, <2>4, <3>2 DEF Follows
    <3> QED BY <3>1, <3>2
  <2> QED BY <1>5, <2>1, <2>4, <2>6, <2>7, <2>8
<1>6. MaxBlocks \in T
  <2> HIDE DEF T
  <2> QED BY <1>1, <1>4, <1>5, Upto
<1> QED BY <1>2, <1>6

(* An inode and its blocks are given back (fs/inode.c:217).                *)
LEMMA ReleaseFollows ==
  ASSUME NEW f, IsFs(f), NEW no, NEW g, g \in {ReleaseOpen(f, no), inode_release(f, no)}
  PROVE  Follows(f, g)
<1>1. ASSUME NEW x, IsFs(x) PROVE Follows(x, ReleaseOpen(x, no))
  <2>1. PICK holds \in BOOLEAN : holds <=> x.open[no].no = no
    <3>1. (x.open[no].no = no) \in BOOLEAN
      OBVIOUS
    <3> QED BY <3>1
  <2>2. PICK a : a = ASSERT(x, holds)
    OBVIOUS
  <2>3. PICK b : b = FreePresent(a, x.open[no].sec[Direct + 1])
    OBVIOUS
  <2>4. PICK lbas : lbas = all_blocks_lba(x, x.open[no])
    OBVIOUS
  <2>5. PICK c : c = FreeBlocks(b, lbas)
    OBVIOUS
  <2>6. PICK d : d = [c EXCEPT !.ibits = @ \ {no}]
    OBVIOUS
  <2>7. PICK e : e = SyncInodeBit(d, no)
    OBVIOUS
  <2>8. PICK h : h = inode_delete(e, no)
    OBVIOUS
  <2>9. ReleaseOpen(x, no) = inode_close(h, no)
    <3>1. ASSERT(x, x.open[no].no = no) = a
      BY <2>1, <2>2 DEF ASSERT
    <3> QED BY <2>3, <2>4, <2>5, <2>6, <2>7, <2>8, <3>1 DEF ReleaseOpen, FreeInode
  <2>10. Follows(x, a) /\ IsFs(a)
    BY ONLY <1>1, <2>2, holds \in BOOLEAN, AssertFollows DEF Follows
  <2>11. Follows(x, b) /\ IsFs(b)
    BY ONLY <2>3, <2>10, FreePresentFollows, FollowsTwice DEF Follows
  <2>12. Follows(x, c) /\ IsFs(c)
    BY ONLY <2>5, <2>11, FreeBlocksFollows, FollowsTwice DEF Follows
  <2>13. Follows(x, d) /\ IsFs(d)
    <3>1. PICK s : s = c.ibits \ {no}
      OBVIOUS
    <3>2. d = [c EXCEPT !.ibits = s]
      BY <2>6, <3>1
    <3>3. Follows(c, d)
      BY ONLY <2>12, <3>2, InodeBitsFollow
    <3> QED BY ONLY <2>12, <3>3, FollowsTwice DEF Follows
  <2>14. Follows(x, e) /\ IsFs(e)
    <3>1. Wrote(d, e)
      BY ONLY <2>7, <2>13, SyncWrote
    <3> QED BY ONLY <2>13, <3>1, FollowsTwice DEF Wrote
  <2>15. Follows(x, h) /\ IsFs(h)
    <3>1. Wrote(e, h)
      BY ONLY <2>8, <2>14, StoreWrote DEF inode_delete
    <3> QED BY ONLY <2>14, <3>1, FollowsTwice DEF Wrote
  <2>16. Follows(h, inode_close(h, no))
    BY <2>15, OpenCloseFollow
  <2> QED BY <2>9, <2>15, <2>16, FollowsTwice
<1>2. Follows(f, inode_open(f, no)) /\ IsFs(inode_open(f, no))
  BY OpenCloseFollow DEF Follows
<1>3. Follows(f, ReleaseOpen(inode_open(f, no), no))
  BY <1>1, <1>2, FollowsTwice
<1> QED BY <1>1, <1>3 DEF inode_release

-----------------------------------------------------------------------------
(* Directories: what every operator keeps *)

(* An inode of open_inodes is written to the table.                        *)
LEMMA InodeSyncWrote ==
  ASSUME NEW f, IsFs(f), NEW x
  PROVE  Wrote(f, inode_sync(f, x)) /\ Wrote(f, SyncOpen(f, x)) /\ Wrote(f, inode_delete(f, x))
BY StoreWrote DEF inode_sync, SyncOpen, inode_delete

(* A field of an inode in open_inodes is assigned.                         *)
LEMMA InodeFieldFollows ==
  ASSUME NEW f, IsFs(f), NEW no, NEW x, NEW k
  PROVE  /\ Follows(f, [f EXCEPT !.open[no].size = x])
         /\ Follows(f, [f EXCEPT !.open[no].sec = x])
         /\ Follows(f, [f EXCEPT !.open[no].deny = x])
         /\ Follows(f, [f EXCEPT !.open[no].sec[k] = x])
<1>1. Follows(f, [f EXCEPT !.open[no].size = x])
  BY OpenFollows
<1>2. Follows(f, [f EXCEPT !.open[no].sec = x])
  BY OpenFollows
<1>3. Follows(f, [f EXCEPT !.open[no].deny = x])
  BY OpenFollows
<1>4. Follows(f, [f EXCEPT !.open[no].sec[k] = x])
  BY OpenFollows
<1> QED BY <1>1, <1>2, <1>3, <1>4

\* The file system in a pair that an allocation returns.
IsAlloc(a) == a = [fs |-> a.fs, lba |-> a.lba] /\ IsFs(a.fs)

(* A new block is entered in an inode of open_inodes.                      *)
LEMMA EnterFollows ==
  ASSUME NEW a, IsAlloc(a), NEW no, NEW k, NEW b, b = Enter(a, no, k)
  PROVE  IsAlloc(b) /\ b.lba = a.lba /\ Follows(a.fs, b.fs)
         /\ b.fs = [a.fs EXCEPT !.open[no].sec[k] = a.lba]
<1>1. PICK f : f = [a.fs EXCEPT !.open[no].sec[k] = a.lba]
  OBVIOUS
<1>2. Follows(a.fs, f)
  BY ONLY <1>1, IsAlloc(a), InodeFieldFollows DEF IsAlloc
<1>3. b = [fs |-> f, lba |-> a.lba]
  BY <1>1 DEF Enter, IsAlloc
<1>4. b.fs = f /\ b.lba = a.lba /\ b = [fs |-> b.fs, lba |-> b.lba]
  BY ONLY <1>3
<1>5. IsFs(f)
  BY <1>2 DEF Follows
<1> QED BY ONLY <1>1, <1>2, <1>4, <1>5 DEF IsAlloc

(* The first block that an indirect block lists.                           *)
LEMMA BehindFollows ==
  ASSUME NEW a, IsAlloc(a), NEW b, b = Behind(a)
  PROVE  IsAlloc(b) /\ Follows(a.fs, b.fs)
<1>1. PICK c : c = AllocSynced(a.fs)
  OBVIOUS
<1>2. Follows(a.fs, c.fs) /\ c = [fs |-> c.fs, lba |-> c.lba] /\ IsFs(c.fs)
  BY ONLY <1>1, IsAlloc(a), AllocFollows DEF IsAlloc, Follows
<1>3. PICK s : s = <<c.lba>> \o Zeros(TableLen - 1)
  OBVIOUS
<1>4. PICK f : f = ide_write(c.fs, a.lba, s)
  OBVIOUS
<1>5. b = [fs |-> f, lba |-> c.lba]
  <2>1. b = [c EXCEPT !.fs = ide_write(@, a.lba, s)]
    BY <1>1, <1>3 DEF Behind, ListedIn
  <2> QED BY ONLY <1>2, <1>4, <2>1
<1>6. Wrote(c.fs, f)
  BY ONLY <1>2, <1>4, WriteWrote
<1> QED BY <1>2, <1>5, <1>6, FollowsTwice DEF Wrote, IsAlloc

(* A directory has one entry more.                                         *)
LEMMA BiggerFollows ==
  ASSUME NEW f, IsFs(f), NEW no, NEW g, g = Bigger(f, no)
  PROVE  Follows(f, g) /\ SameDisk(f, g) /\ g.panic = f.panic
         /\ g.bbits = f.bbits /\ g.ibits = f.ibits
         /\ g.open = [f.open EXCEPT ![no].size = @ + 1]
<1>1. PICK x : x = [f.open EXCEPT ![no].size = @ + 1]
  OBVIOUS
<1>2. g = [f EXCEPT !.open = x]
  BY <1>1 DEF Bigger
<1>3. /\ Follows(f, g) /\ SameDisk(f, g) /\ g.panic = f.panic
      /\ g.open = x /\ g.bbits = f.bbits /\ g.ibits = f.ibits
  BY ONLY <1>2, IsFs(f), OpenFollows
<1> QED BY <1>1, <1>3

(* An entry is added to a directory (fs/dir.c:312).                        *)
LEMMA AddFollows ==
  ASSUME NEW f, IsFs(f), NEW no, NEW de, NEW g, g = sync_dir_entry(f, no, de)
  PROVE  Follows(f, g)
<1>1. ASSUME NEW x, IsFs(x), NEW lba, NEW s PROVE Follows(x, Bigger(ide_write(x, lba, s), no))
  <2>1. PICK y : y = ide_write(x, lba, s)
    OBVIOUS
  <2>2. Follows(x, y) /\ IsFs(y)
    BY ONLY <1>1, <2>1, WriteWrote DEF Wrote
  <2> QED BY <2>1, <2>2, BiggerFollows, FollowsTwice
<1>2. ASSUME NEW lba PROVE Follows(f, AddEntry(f, no, lba, de))
  BY <1>1 DEF AddEntry
<1>3. ASSUME NEW k PROVE Follows(f, AddBlock(f, no, k, de))
  <2>1. PICK a : a = AllocSynced(f)
    OBVIOUS
  <2>2. IsAlloc(a) /\ Follows(f, a.fs)
    BY ONLY <2>1, IsFs(f), AllocFollows DEF IsAlloc, Follows
  <2>3. PICK b : b = Enter(a, no, k)
    OBVIOUS
  <2>4. IsAlloc(b) /\ Follows(f, b.fs)
    BY ONLY <2>2, <2>3, EnterFollows, FollowsTwice
  <2>5. PICK c : c = Behind(b)
    OBVIOUS
  <2>6. IsAlloc(c) /\ Follows(f, c.fs)
    BY ONLY <2>4, <2>5, BehindFollows, FollowsTwice
  <2>7. PICK s : s = EntrySector(<<de>>)
    OBVIOUS
  <2>8. AddBlock(f, no, k, de) = IF k <= Direct THEN Bigger(ide_write(b.fs, b.lba, s), no)
                                 ELSE Bigger(ide_write(c.fs, c.lba, s), no)
    BY <2>1, <2>3, <2>5, <2>7 DEF AddBlock
  <2>9. Follows(b.fs, Bigger(ide_write(b.fs, b.lba, s), no))
        /\ Follows(c.fs, Bigger(ide_write(c.fs, c.lba, s), no))
    BY <1>1, <2>4, <2>6 DEF IsAlloc
  <2> QED BY <2>4, <2>6, <2>8, <2>9, FollowsTwice
<1>4. ASSUME NEW k PROVE Follows(f, AddAt(f, no, k, de))
  BY <1>2, <1>3 DEF AddAt
<1> QED BY <1>4 DEF sync_dir_entry

(* An entry is deleted from a directory (fs/dir.c:82).                     *)
LEMMA DeleteFollows ==
  ASSUME NEW f, IsFs(f), NEW no, NEW child, NEW g, g = delete_dir_entry(f, no, child)
  PROVE  Follows(f, g)
<1>1. ASSUME NEW k, NEW lba PROVE Follows(f, DropBlock(f, no, k, lba))
  <2>1. PICK bit : bit = lba - block_bitmap_lba
    OBVIOUS
  <2>2. PICK a : a = [f EXCEPT !.bbits = @ \ {bit}]
    OBVIOUS
  <2>3. PICK b : b = SyncBlockBit(a, bit)
    OBVIOUS
  <2>4. DropBlock(f, no, k, lba) = IF k <= Direct THEN [b EXCEPT !.open[no].sec[k] = 0]
                                   ELSE Panic(b, "hang")
    BY <2>1, <2>2, <2>3 DEF DropBlock
  <2>5. Follows(f, a) /\ IsFs(a)
    <3>1. a = [f EXCEPT !.bbits = f.bbits \ {bit}]
      BY <2>2
    <3>2. Follows(f, a)
      BY ONLY <3>1, IsFs(f), BlockBitsFollow
    <3> QED BY <3>2 DEF Follows
  <2>6. Follows(f, b) /\ IsFs(b)
    <3>1. Wrote(a, b)
      BY ONLY <2>3, <2>5, SyncWrote
    <3> QED BY <2>5, <3>1, FollowsTwice DEF Wrote
  <2>7. Follows(b, [b EXCEPT !.open[no].sec[k] = 0])
    BY ONLY <2>6, InodeFieldFollows
  <2>8. Follows(b, Panic(b, "hang"))
    <3>1. "hang" # "none"
      OBVIOUS
    <3> QED BY ONLY <2>6, <3>1, PanicFollows
  <2> QED BY <2>4, <2>6, <2>7, <2>8, FollowsTwice
<1>2. ASSUME NEW lba, NEW e PROVE Follows(f, EraseEntry(f, lba, e))
  BY WriteWrote DEF EraseEntry, Wrote
<1>3. ASSUME NEW lbas, NEW h PROVE Follows(f, DeleteAt(f, no, lbas, h))
  BY <1>1, <1>2 DEF DeleteAt
<1>4. ASSUME NEW x, IsFs(x) PROVE Follows(x, SyncOpen(Smaller(x, no), no))
  <2>1. PICK holds \in BOOLEAN : holds <=> x.open[no].size >= 1
    <3>1. (x.open[no].size >= 1) \in BOOLEAN
      OBVIOUS
    <3> QED BY <3>1
  <2>2. PICK a : a = ASSERT(x, holds)
    OBVIOUS
  <2>3. Follows(x, a) /\ IsFs(a)
    BY ONLY <1>4, <2>2, holds \in BOOLEAN, AssertFollows DEF Follows
  <2>4. PICK b : b = [a EXCEPT !.open[no].size = @ - 1]
    OBVIOUS
  <2>5. Smaller(x, no) = b
    <3>1. ASSERT(x, x.open[no].size >= 1) = a
      BY <2>1, <2>2 DEF ASSERT
    <3> QED BY <2>4, <3>1 DEF Smaller
  <2>6. Follows(a, b)
    BY <2>3, <2>4, InodeFieldFollows
  <2>7. Follows(x, b) /\ IsFs(b)
    BY <2>3, <2>6, FollowsTwice DEF Follows
  <2>8. Follows(b, SyncOpen(b, no))
    BY <2>7, InodeSyncWrote DEF Wrote
  <2> QED BY <2>5, <2>7, <2>8, FollowsTwice
<1>5. ASSUME NEW lbas, NEW places PROVE Follows(f, DeleteFirst(f, no, lbas, places))
  <2>1. CASE places = {}
    BY <2>1, FollowsSame DEF DeleteFirst
  <2>2. CASE places # {}
    <3>1. PICK x : x = DeleteAt(f, no, lbas, FirstPlace(places))
      OBVIOUS
    <3>2. Follows(f, x) /\ IsFs(x)
      BY <1>3, <3>1 DEF Follows
    <3>3. DeleteFirst(f, no, lbas, places) = SyncOpen(Smaller(x, no), no)
      BY <2>2, <3>1 DEF DeleteFirst
    <3> QED BY <1>4, <3>2, <3>3, FollowsTwice
  <2> QED BY <2>1, <2>2
<1> QED BY <1>5 DEF delete_dir_entry, DeleteIn

(* A directory that is opened and closed for the time of a call.           *)
LEMMA ParentFollows ==
  ASSUME NEW f, IsFs(f), NEW rec
  PROVE  /\ Follows(f, OpenParent(f, rec)) /\ Follows(f, CloseParent(f, rec))
         /\ OpenParent(f, rec).panic = f.panic /\ CloseParent(f, rec).panic = f.panic
BY OpenCloseFollow, FollowsSame DEF OpenParent, CloseParent

-----------------------------------------------------------------------------
(* Files: what every operator keeps *)

\* The file system in a record with the addresses of a file's blocks.
IsBlocks(f) == f = [fs |-> f.fs, blk |-> f.blk] /\ IsFs(f.fs)

(* Addresses are entered in an inode of open_inodes.                       *)
LEMMA InInodeFollows ==
  ASSUME NEW f, IsBlocks(f), NEW no, NEW ks, NEW g, g = InInode(f, no, ks)
  PROVE  /\ IsBlocks(g) /\ g.blk = f.blk /\ Follows(f.fs, g.fs)
         /\ \E x : g.fs = [f.fs EXCEPT !.open[no].sec = x]
<1>1. PICK x : x = [k \in DOMAIN f.fs.open[no].sec |->
                      IF k \in ks THEN f.blk[k] ELSE f.fs.open[no].sec[k]]
  OBVIOUS
<1>2. PICK h : h = [f.fs EXCEPT !.open[no].sec = x]
  OBVIOUS
<1>3. Follows(f.fs, h)
  BY <1>2, InodeFieldFollows DEF IsBlocks
<1>4. g = [f EXCEPT !.fs = h]
  BY <1>1, <1>2 DEF InInode
<1>5. g = [fs |-> h, blk |-> f.blk]
  BY ONLY <1>4, IsBlocks(f) DEF IsBlocks
<1>6. g.fs = h /\ g.blk = f.blk /\ g = [fs |-> g.fs, blk |-> g.blk]
  BY ONLY <1>5
<1>7. IsFs(h)
  BY <1>3 DEF Follows
<1> QED BY ONLY <1>2, <1>3, <1>6, <1>7 DEF IsBlocks

(* A sector is written.                                                    *)
LEMMA BlocksWrote ==
  ASSUME NEW f, IsBlocks(f), NEW lba, NEW s, NEW g, g = [f EXCEPT !.fs = ide_write(@, lba, s)]
  PROVE  IsBlocks(g) /\ g.blk = f.blk /\ Wrote(f.fs, g.fs) /\ g.fs = ide_write(f.fs, lba, s)
<1>1. PICK h : h = ide_write(f.fs, lba, s)
  OBVIOUS
<1>2. Wrote(f.fs, h) /\ IsFs(h)
  BY <1>1, WriteWrote DEF IsBlocks, Wrote
<1>3. g = [fs |-> h, blk |-> f.blk]
  BY ONLY <1>1, g = [f EXCEPT !.fs = ide_write(@, lba, s)], IsBlocks(f) DEF IsBlocks
<1>4. g.fs = h /\ g.blk = f.blk /\ g = [fs |-> g.fs, blk |-> g.blk]
  BY ONLY <1>3
<1> QED BY ONLY <1>1, <1>2, <1>4 DEF IsBlocks

(* The table and the data.                                                 *)
LEMMA BlockWritesFollow ==
  ASSUME NEW f, IsBlocks(f), NEW no, NEW idx, NEW size, NEW count, NEW lba
  PROVE  /\ IsBlocks(WriteBlock(f, no, idx, size, count))
         /\ WriteBlock(f, no, idx, size, count).blk = f.blk
         /\ Wrote(f.fs, WriteBlock(f, no, idx, size, count).fs)
         /\ IsBlocks(WriteTable(f, lba)) /\ WriteTable(f, lba).blk = f.blk
         /\ Wrote(f.fs, WriteTable(f, lba).fs)
<1>1. PICK g : g = WriteBlock(f, no, idx, size, count)
  OBVIOUS
<1>2. PICK h : h = WriteTable(f, lba)
  OBVIOUS
<1>3. IsBlocks(g) /\ g.blk = f.blk /\ Wrote(f.fs, g.fs)
  <2>1. PICK s : s = [o \in 1..BlockSize |->
                        IF idx * BlockSize + o - 1 \in size..size + count - 1
                        THEN Byte(no, idx * BlockSize + o - 1)
                        ELSE IF idx = size \div BlockSize THEN f.fs.disk[f.blk[idx + 1]][o] ELSE 0]
    OBVIOUS
  <2>2. PICK l : l = f.blk[idx + 1]
    OBVIOUS
  <2>3. g = [f EXCEPT !.fs = ide_write(@, l, s)]
    BY <1>1, <2>1, <2>2 DEF WriteBlock
  <2> QED BY ONLY <2>3, IsBlocks(f), BlocksWrote
<1>4. IsBlocks(h) /\ h.blk = f.blk /\ Wrote(f.fs, h.fs)
  BY <1>2, BlocksWrote DEF WriteTable
<1> QED BY <1>1, <1>2, <1>3, <1>4

\* The loop of file_write over new blocks, and over the blocks with data.
Got(h, f, has, n) ==
  h = [k \in has..n |-> IF k = has THEN f ELSE Listed(h[k - 1], AllocSynced(h[k - 1].fs), k)]

WrittenTo(h, f, no, size, count, from, n) ==
  h = [k \in from..n |->
        IF k = from THEN f ELSE WriteBlock(h[k - 1], no, k - 1, size, count)]

(* The loops have results.                                                 *)
LEMMA GotExist ==
  ASSUME NEW f, NEW has \in Int, NEW will \in Int, has <= will
  PROVE  \E h : Got(h, f, has, will)
<1> DEFINE T == {n \in has..will : \E h : Got(h, f, has, n)}
<1>1. has \in T
  <2>1. PICK h : h = [k \in has..has |-> f]
    OBVIOUS
  <2>2. Got(h, f, has, has)
    BY <2>1 DEF Got
  <2> QED BY <2>2
<1>2. ASSUME NEW n \in has..will - 1, n \in T PROVE n + 1 \in T
  <2>1. PICK h : Got(h, f, has, n)
    BY <1>2
  <2>2. PICK x : x = Listed(h[n], AllocSynced(h[n].fs), n + 1)
    OBVIOUS
  <2>3. PICK g : g = [k \in has..n + 1 |-> IF k = n + 1 THEN x ELSE h[k]]
    OBVIOUS
  <2>4. \A k \in has..n : g[k] = h[k]
    BY <2>3
  <2>5. ASSUME NEW k \in has..n + 1
        PROVE  g[k] = IF k = has THEN f ELSE Listed(g[k - 1], AllocSynced(g[k - 1].fs), k)
    <3>1. CASE k = n + 1
      <4>1. k - 1 = n /\ k # has
        BY <3>1
      <4> QED BY <2>2, <2>3, <2>4, <3>1, <4>1
    <3>2. CASE k # n + 1
      <4>1. k \in has..n /\ (k # has => k - 1 \in has..n)
        BY <3>2
      <4> QED BY <2>1, <2>4, <4>1 DEF Got
    <3> QED BY <3>1, <3>2
  <2>6. g = [k \in has..n + 1 |-> g[k]]
    BY <2>3
  <2>7. Got(g, f, has, n + 1)
    BY <2>5, <2>6 DEF Got
  <2> QED BY <2>7
<1>3. \A n \in has..will : n \in T
  <2> HIDE DEF T
  <2> QED BY <1>1, <1>2, Upto
<1> QED BY <1>3

(* They exist.                                                             *)
LEMMA WrittenExist ==
  ASSUME NEW f, NEW no, NEW size, NEW count, NEW from \in Int, NEW to \in Int, from <= to
  PROVE  \E h : WrittenTo(h, f, no, size, count, from, to)
<1> DEFINE T == {n \in from..to : \E h : WrittenTo(h, f, no, size, count, from, n)}
<1>1. from \in T
  <2>1. PICK h : h = [k \in from..from |-> f]
    OBVIOUS
  <2>2. WrittenTo(h, f, no, size, count, from, from)
    BY <2>1 DEF WrittenTo
  <2> QED BY <2>2
<1>2. ASSUME NEW n \in from..to - 1, n \in T PROVE n + 1 \in T
  <2>1. PICK h : WrittenTo(h, f, no, size, count, from, n)
    BY <1>2
  <2>2. PICK x : x = WriteBlock(h[n], no, n, size, count)
    OBVIOUS
  <2>3. PICK g : g = [k \in from..n + 1 |-> IF k = n + 1 THEN x ELSE h[k]]
    OBVIOUS
  <2>4. \A k \in from..n : g[k] = h[k]
    BY <2>3
  <2>5. ASSUME NEW k \in from..n + 1
        PROVE  g[k] = IF k = from THEN f ELSE WriteBlock(g[k - 1], no, k - 1, size, count)
    <3>1. CASE k = n + 1
      <4>1. k - 1 = n /\ k # from
        BY <3>1
      <4> QED BY <2>2, <2>3, <2>4, <3>1, <4>1
    <3>2. CASE k # n + 1
      <4>1. k \in from..n /\ (k # from => k - 1 \in from..n)
        BY <3>2
      <4> QED BY <2>1, <2>4, <4>1 DEF WrittenTo
    <3> QED BY <3>1, <3>2
  <2>6. g = [k \in from..n + 1 |-> g[k]]
    BY <2>3
  <2>7. WrittenTo(g, f, no, size, count, from, n + 1)
    BY <2>5, <2>6 DEF WrittenTo
  <2> QED BY <2>7
<1>3. \A n \in from..to : n \in T
  <2> HIDE DEF T
  <2> QED BY <1>1, <1>2, Upto
<1> QED BY <1>3

-----------------------------------------------------------------------------
(* Bitmaps and slots *)

(* A bitmap has a first free bit, or it is full and the search returns its *)
(* length.                                                                 *)
LEMMA FirstFreeExists ==
  ASSUME NEW len \in Nat, NEW bits
  PROVE  /\ FirstFree(bits, len) \in 0..len
         /\ FirstFree(bits, len) = len \/ FirstFree(bits, len) \notin bits
         /\ \A c \in 0..FirstFree(bits, len) - 1 : c \in bits
<1>1. PICK S : S = {b \in 0..len : b = len \/ b \notin bits}
  OBVIOUS
<1>2. S \in SUBSET Nat /\ len \in S
  BY <1>1
<1>3. PICK b : b = Lowest(S)
  OBVIOUS
<1>4. b \in S /\ \A i \in S : b <= i
  BY ONLY <1>2, <1>3, LowestFacts
<1>5. \A c \in 0..b - 1 : c \in bits
  BY <1>1, <1>4
<1>6. b \in 0..len /\ (b = len \/ b \notin bits)
  BY <1>1, <1>4
<1> QED BY <1>5, <1>6 DEF FirstFree

(* What the search returns is not set.                                     *)
LEMMA FirstFreeFacts ==
  ASSUME NEW len \in Nat, NEW bits, bits \subseteq 0..len - 1
  PROVE  /\ FirstFree(bits, len) \in (0..len) \ bits
         /\ \A c \in 0..FirstFree(bits, len) - 1 : c \in bits
<1>1. PICK b : b = FirstFree(bits, len)
  OBVIOUS
<1>2. b \in 0..len /\ (b = len \/ b \notin bits) /\ \A c \in 0..b - 1 : c \in bits
  BY ONLY len \in Nat, <1>1, FirstFreeExists
<1>3. b \notin bits
  BY <1>2
<1> QED BY <1>1, <1>2, <1>3

(* The lengths of the bitmaps are numbers.                                 *)
LEMMA LengthsType ==
  /\ inode_bitmap_sects \in Nat /\ inode_bitmap_len \in Nat
  /\ inode_bitmap_sects >= 1 /\ inode_bitmap_len >= 1 /\ inode_bitmap_len >= InodeCnt
<1>1. InodeCnt \in Nat \ {0} /\ BitsPerSec \in Nat \ {0}
  BY InodeAssumption
<1>2. PICK s : s = (InodeCnt + BitsPerSec - 1) \div BitsPerSec
  OBVIOUS
<1>3. s \in Nat /\ s * BitsPerSec <= InodeCnt + BitsPerSec - 1
      /\ InodeCnt + BitsPerSec - 1 < s * BitsPerSec + BitsPerSec
  <2>1. PICK x \in Nat : x = InodeCnt + BitsPerSec - 1
    BY <1>1
  <2>2. x \div BitsPerSec \in Nat
    BY <1>1
  <2> QED BY <1>1, <1>2, <2>1, <2>2
<1>4. s * BitsPerSec \in Nat /\ s * BitsPerSec >= InodeCnt
  BY <1>1, <1>3
<1>5. s >= 1
  <2>1. s = 0 => s * BitsPerSec = 0
    BY <1>1
  <2> QED BY <1>1, <1>3, <1>4, <2>1
<1> QED BY <1>1, <1>2, <1>3, <1>4, <1>5 DEF inode_bitmap_sects, inode_bitmap_len, DIV_CEILING

(* A free slot of file_table.                                              *)
LEMMA FreeSlot ==
  ASSUME NEW slot, slot = get_free_slot_in_global
  PROVE  slot = -1 \/ (slot \in Slots /\ file_table[slot].inode = NULL)
<1>1. PICK S : S = {s \in Slots : file_table[s].inode = NULL}
  OBVIOUS
<1>2. S \in SUBSET Nat
  BY <1>1, FsAssumption DEF Slots
<1>3. CASE S = {}
  BY <1>1, <1>3 DEF get_free_slot_in_global
<1>4. CASE S # {}
  <2>1. Lowest(S) \in S
    BY ONLY <1>2, <1>4, LowestFacts
  <2> QED BY <1>1, <1>4, <2>1 DEF get_free_slot_in_global
<1> QED BY <1>3, <1>4

-----------------------------------------------------------------------------
(* The layout of the partition *)

(* A quotient that is rounded up.                                          *)
LEMMA CeilingFacts ==
  ASSUME NEW a \in Int, NEW b \in Nat \ {0}
  PROVE  /\ DIV_CEILING(a, b) \in Int
         /\ a >= 1 => DIV_CEILING(a, b) >= 1
         /\ DIV_CEILING(a, b) * b \in Int /\ DIV_CEILING(a, b) * b >= a
<1>1. PICK n \in Int : n = a + b - 1
  OBVIOUS
<1>2. PICK q : q = n \div b
  OBVIOUS
<1>3. q \in Int /\ b * q <= n /\ n < b * q + b
  BY <1>2
<1>4. q * b \in Int /\ q * b = b * q
  BY <1>3
<1>5. a >= 1 => q >= 1
  <2>1. q <= 0 => b * q <= 0
    BY <1>3
  <2> QED BY <1>1, <1>3, <2>1
<1>6. q * b >= a
  BY <1>1, <1>3, <1>4
<1> QED BY <1>1, <1>2, <1>3, <1>4, <1>5, <1>6 DEF DIV_CEILING

(* The bit of a bitmap lies in one of its sectors.                         *)
LEMMA BitInSector ==
  ASSUME NEW sects \in Nat, NEW bit \in 0..sects * BitsPerSec - 1
  PROVE  bit \div BitsPerSec \in 0..sects - 1
<1>1. BitsPerSec \in Nat \ {0}
  BY InodeAssumption
<1>2. PICK q : q = bit \div BitsPerSec
  OBVIOUS
<1>3. bit \in Nat /\ sects * BitsPerSec \in Nat /\ bit < sects * BitsPerSec
  BY <1>1
<1>4. q \in Nat /\ BitsPerSec * q <= bit
  BY <1>1, <1>2, <1>3
<1>5. q < sects
  <2>1. q >= sects => BitsPerSec * q >= sects * BitsPerSec
    BY <1>1, <1>4
  <2>2. BitsPerSec * q \in Nat
    BY <1>1, <1>4
  <2> QED BY <1>3, <1>4, <2>1, <2>2
<1> QED BY <1>2, <1>4, <1>5

(* Where the parts of the partition are.                                   *)
LEMMA Layout ==
  ASSUME WithinBounds
  PROVE  /\ SecCnt \in Nat /\ inode_bitmap_lba \in Nat /\ inode_table_lba \in Nat /\ data_start_lba \in Nat
         /\ inode_bitmap_lba >= 3 /\ inode_table_lba > inode_bitmap_lba
         /\ inode_table_lba + 1 <= data_start_lba /\ data_start_lba < SecCnt
         /\ block_bitmap_len \in Nat /\ block_bitmap_len >= 1
         /\ block_bitmap_bit_len \in Nat /\ block_bitmap_len >= block_bitmap_bit_len
         /\ inode_bitmap_len \in Nat /\ inode_bitmap_len >= 1
         /\ block_bitmap_sects \in Nat /\ block_bitmap_sects >= 1
         /\ inode_bitmap_lba = 2 + block_bitmap_sects
         /\ inode_table_lba = inode_bitmap_lba + inode_bitmap_sects
<1>1. /\ SecCnt \in Nat \ {0} /\ InodeCnt \in Nat \ {0} /\ BitsPerSec \in Nat \ {0}
      /\ SectorWords \in Nat \ {0} /\ Direct \in Nat \ {0}
  BY InodeAssumption
<1>2. InodeWords \in Nat /\ InodeWords >= 4
  BY <1>1 DEF InodeWords
<1>3. InodeWords * InodeCnt \in Nat /\ InodeWords * InodeCnt >= 1
  <2>1. PICK a \in Nat \ {0} : a = InodeWords
    BY <1>2
  <2>2. InodeCnt \in Nat \ {0}
    BY <1>1
  <2>3. a * InodeCnt >= 1 /\ a * InodeCnt \in Nat
    BY ONLY <2>2, a \in Nat \ {0}
  <2> QED BY <2>1, <2>3
<1>4. inode_table_sects \in Nat /\ inode_table_sects >= 1
  <2>1. PICK a \in Nat \ {0} : a = InodeWords * InodeCnt
    BY <1>3
  <2>2. a \in Int /\ a >= 1
    BY <2>1, a \in Nat \ {0}
  <2>3. DIV_CEILING(a, SectorWords) \in Int /\ DIV_CEILING(a, SectorWords) >= 1
    BY ONLY <1>1, <2>2, CeilingFacts
  <2> QED BY <2>1, <2>3 DEF inode_table_sects
<1>5. block_bitmap_bit_len \in Int
  <2>1. inode_bitmap_sects \in Nat
    BY LengthsType
  <2>2. free_sects \in Int
    BY <1>1, <1>4, <2>1 DEF free_sects
  <2>3. DIV_CEILING(free_sects, BitsPerSec) \in Int
    BY ONLY <1>1, <2>2, CeilingFacts
  <2> QED BY <2>2, <2>3 DEF block_bitmap_bit_len, WithoutBitmap
<1>6. block_bitmap_bit_len >= 1 /\ data_start_lba < SecCnt
  BY Zenon DEF WithinBounds
<1>7. /\ block_bitmap_sects \in Nat /\ block_bitmap_sects >= 1
      /\ block_bitmap_len \in Nat /\ block_bitmap_len >= block_bitmap_bit_len
  <2>1. PICK a \in Int : a = block_bitmap_bit_len
    BY <1>5
  <2>2. /\ DIV_CEILING(a, BitsPerSec) \in Int /\ DIV_CEILING(a, BitsPerSec) >= 1
        /\ DIV_CEILING(a, BitsPerSec) * BitsPerSec \in Int
        /\ DIV_CEILING(a, BitsPerSec) * BitsPerSec >= a
    BY ONLY <1>1, <1>6, <2>1, CeilingFacts
  <2> QED BY <1>6, <2>1, <2>2 DEF block_bitmap_sects, block_bitmap_len
<1>8. /\ inode_bitmap_sects \in Nat /\ inode_bitmap_sects >= 1
      /\ inode_bitmap_len \in Nat /\ inode_bitmap_len >= 1
  BY LengthsType
<1> QED BY <1>1, <1>4, <1>5, <1>6, <1>7, <1>8
        DEF inode_bitmap_lba, block_bitmap_lba, inode_table_lba, data_start_lba

(* A number in the first sector of the table: where its words are.         *)
LEMMA FewFacts ==
  ASSUME NEW no \in Few, NEW off, off = InodeWords * no
  PROVE  /\ no \in Nat /\ off \in Nat /\ off + InodeWords <= SectorWords
         /\ InodeWords \in Nat /\ InodeWords >= 4 /\ SectorWords \in Nat
         /\ off \div SectorWords = 0 /\ off % SectorWords = off
         /\ \A m \in Few \ {no} : InodeWords * m \in Nat
              /\ (off + InodeWords <= InodeWords * m \/ InodeWords * m + InodeWords <= off)
<1>1. SectorWords \in Nat \ {0} /\ Direct \in Nat \ {0}
  BY InodeAssumption
<1>2. PICK w \in Nat : w = InodeWords /\ w >= 4
  BY <1>1 DEF InodeWords
<1>3. \A m \in Few : m \in Nat /\ (m + 1) * w <= SectorWords
  BY <1>2 DEF Few
<1>4. \A m \in Nat : (m + 1) * w = w * m + w /\ w * m \in Nat
  BY <1>2
<1>5. no \in Nat /\ off \in Nat /\ off + w <= SectorWords
  BY <1>2, <1>3, <1>4
<1>6. off < SectorWords
  BY <1>1, <1>2, <1>5
<1>7. off \div SectorWords = 0 /\ off % SectorWords = off
  BY <1>1, <1>5, <1>6
<1>8. ASSUME NEW m \in Few \ {no} PROVE w * m \in Nat /\ (off + w <= w * m \/ w * m + w <= off)
  <2>1. m \in Nat /\ m # no
    BY <1>3
  <2>2. \A a, b \in Nat : a < b => w * a + w <= w * b
    <3>1. SUFFICES ASSUME NEW a \in Nat, NEW b \in Nat, a < b PROVE w * a + w <= w * b
      OBVIOUS
    <3>2. PICK c \in Nat : b = a + 1 + c
      <4>1. b - a - 1 \in Nat /\ b = a + 1 + (b - a - 1)
        BY <3>1
      <4> QED BY <4>1
    <3>3. w * (a + 1 + c) = w * a + w + w * c /\ w * c \in Nat /\ w * a \in Nat
      BY <1>2
    <3> QED BY <3>2, <3>3
  <2>3. no < m \/ m < no
    BY <1>5, <2>1
  <2> QED BY <1>2, <1>4, <1>5, <2>1, <2>2, <2>3
<1> QED BY <1>1, <1>2, <1>5, <1>7, <1>8

-----------------------------------------------------------------------------
(* Sectors of the right kind, and the inodes in the table *)

IsSector(s) == s = [w \in DOMAIN s |-> s[w]] /\ DOMAIN s \subseteq Nat \ {0}

\* What may be on the disk at an address.
TypedSector(lba, s) ==
  /\ lba \in 2..inode_bitmap_lba - 1 => s \subseteq 0..block_bitmap_len - 1
  /\ lba \in inode_bitmap_lba..inode_table_lba - 1 => s \subseteq 0..inode_bitmap_len - 1
  /\ lba \in inode_table_lba..SecCnt - 1 => IsSector(s)
  /\ lba = inode_table_lba => DOMAIN s = 1..SectorWords

DiskOK(d) ==
  /\ DOMAIN d = 0..SecCnt - 1
  /\ \A lba \in 0..SecCnt - 1 : TypedSector(lba, d[lba])

LogOK(l) == \A i \in 1..Len(l) : l[i][1] \in 0..SecCnt - 1 /\ TypedSector(l[i][1], l[i][2])

DiskShape(f) == IsFs(f) /\ DiskOK(f.disk) /\ LogOK(f.log)

\* A function with another value.
Changed(s, e, en) == [s EXCEPT ![e] = en]

\* One sector has been written.
Puts(f, g, lba, s) ==
  /\ DiskShape(g) /\ lba \in 0..SecCnt - 1 /\ g.disk[lba] = s
  /\ \A l \in 0..SecCnt - 1 : l # lba => g.disk[l] = f.disk[l]

\* Where data is; the inodes in the table, and the blocks of data.
Blocks == data_start_lba..SecCnt - 1
NodesOf(f) == [no \in Few |-> LoadInode(f.disk, no)]
DataOf(f) == [lba \in Blocks |-> f.disk[lba]]

(* A sector of the right kind is written, or is outside.                   *)
LEMMA WritePuts ==
  ASSUME WithinBounds, NEW f, DiskShape(f), f.panic = "none", NEW lba \in Nat, NEW s,
         TypedSector(lba, s), NEW g, g = ide_write(f, lba, s)
  PROVE  /\ g.panic \in {"none", "outside"}
         /\ g.panic = "none" => Puts(f, g, lba, s)
         /\ lba < SecCnt => g.panic = "none"
         /\ g.open = f.open /\ g.bbits = f.bbits /\ g.ibits = f.ibits
<1>1. IsFs(f) /\ DiskOK(f.disk) /\ LogOK(f.log) /\ SecCnt \in Nat
  BY InodeAssumption DEF DiskShape
<1>2. /\ Follows(f, g) /\ g.open = f.open /\ g.bbits = f.bbits /\ g.ibits = f.ibits
      /\ g.panic \in {"none", "outside"}
      /\ ~(lba >= SecCnt) => WroteAt(f, g, lba, s)
      /\ lba >= SecCnt => g.panic = "outside"
  BY <1>1, WriteFollows
<1>3. CASE lba >= SecCnt
  BY <1>1, <1>2, <1>3
<1>4. CASE ~(lba >= SecCnt)
  <2>1. lba \in 0..SecCnt - 1 /\ lba \in DOMAIN f.disk
    BY <1>1, <1>4 DEF DiskOK
  <2>2. g.panic = "none" /\ g.disk = [f.disk EXCEPT ![lba] = s] /\ g.log = Append(f.log, <<lba, s>>)
    BY <1>2, <1>4 DEF WroteAt
  <2>3. DOMAIN g.disk = 0..SecCnt - 1 /\ g.disk[lba] = s
        /\ \A l \in 0..SecCnt - 1 : l # lba => g.disk[l] = f.disk[l]
    BY <1>1, <2>1, <2>2 DEF DiskOK
  <2>4. DiskOK(g.disk)
    BY <1>1, <2>3 DEF DiskOK
  <2>5. LogOK(g.log)
    <3>1. f.log \in Seq(Range(f.log))
      BY <1>1 DEF IsFs
    <3>2. /\ Len(g.log) = Len(f.log) + 1 /\ Len(f.log) \in Nat
          /\ g.log[Len(f.log) + 1] = <<lba, s>>
          /\ \A i \in 1..Len(f.log) : g.log[i] = f.log[i]
      BY <2>2, <3>1
    <3>3. ASSUME NEW i \in 1..Len(g.log)
          PROVE  g.log[i][1] \in 0..SecCnt - 1 /\ TypedSector(g.log[i][1], g.log[i][2])
      <4>1. CASE i = Len(f.log) + 1
        BY <2>1, <3>2, <4>1
      <4>2. CASE i # Len(f.log) + 1
        <5>1. i \in 1..Len(f.log)
          BY <3>2, <4>2
        <5> QED BY <1>1, <3>2, <5>1 DEF LogOK
      <4> QED BY <4>1, <4>2
    <3> QED BY <3>3 DEF LogOK
  <2>6. IsFs(g)
    BY <1>2 DEF Follows
  <2> QED BY <1>2, <2>1, <2>2, <2>3, <2>4, <2>5, <2>6 DEF Puts, DiskShape
<1> QED BY <1>3, <1>4

(* The words of an inode in the first sector of the table.                 *)
LEMMA NodeWords ==
  ASSUME WithinBounds, NEW d, NEW no \in Few
  PROVE  LoadInode(d, no) = FromWords([j \in 1..InodeWords |-> d[inode_table_lba][InodeWords * no + j]])
<1>1. PICK off : off = InodeWords * no
  OBVIOUS
<1>2. /\ off \in Nat /\ off + InodeWords <= SectorWords /\ InodeWords \in Nat /\ SectorWords \in Nat
      /\ off \div SectorWords = 0 /\ off % SectorWords = off
  BY <1>1, FewFacts
<1>3. inode_table_lba \in Nat
  BY Layout
<1>4. PICK pos : pos = inode_locate(no)
  OBVIOUS
<1>5. pos = [multi_sec |-> SectorWords - off >= InodeWords, sec_lba |-> inode_table_lba, off_size |-> off]
  BY <1>1, <1>2, <1>3, <1>4 DEF inode_locate
<1>6. pos.multi_sec /\ pos.sec_lba = inode_table_lba /\ pos.off_size = off /\ SectorsOf(pos) = 2
  <2>1. SectorWords - off >= InodeWords
    BY <1>2
  <2> QED BY <1>5, <2>1 DEF SectorsOf
<1>7. ASSUME NEW j \in 1..InodeWords
      PROVE  /\ (off + j - 1) \div SectorWords = 0 /\ (off + j - 1) % SectorWords = off + j - 1
             /\ (off + j - 1) + 1 = off + j
  <2>1. PICK w \in Nat : w = off + j - 1
    BY <1>2
  <2>2. w < SectorWords
    BY <1>2, <2>1
  <2>3. w \div SectorWords = 0 /\ w % SectorWords = w
    BY <1>2, <2>2
  <2> QED BY <1>2, <2>1, <2>3
<1>8. LoadWords(d, pos) = [j \in 1..InodeWords |-> d[inode_table_lba][off + j]]
  BY <1>3, <1>6, <1>7 DEF LoadWords
<1> QED BY <1>1, <1>4, <1>8 DEF LoadInode

(* A write to the data blocks, to the bitmaps, and of an inode: what a     *)
(* reader of inodes and of data sees.                                      *)
LEMMA PutData ==
  ASSUME WithinBounds, NEW f, NEW lba \in Blocks, NEW s, NEW g, Puts(f, g, lba, s)
  PROVE  NodesOf(g) = NodesOf(f) /\ DataOf(g) = Changed(DataOf(f), lba, s)
<1>1. /\ inode_table_lba \in Nat /\ data_start_lba \in Nat /\ SecCnt \in Nat
      /\ inode_table_lba + 1 <= data_start_lba /\ data_start_lba < SecCnt
  BY Layout
<1>2. g.disk[inode_table_lba] = f.disk[inode_table_lba]
  BY <1>1 DEF Puts, Blocks
<1>3. ASSUME NEW no \in Few PROVE LoadInode(g.disk, no) = LoadInode(f.disk, no)
  BY <1>2, NodeWords
<1>4. \A l \in Blocks : g.disk[l] = IF l = lba THEN s ELSE f.disk[l]
  BY <1>1 DEF Puts, Blocks
<1> QED BY <1>3, <1>4 DEF NodesOf, DataOf, Changed

(* A sector of a bitmap holds neither inodes nor data.                     *)
LEMMA PutBits ==
  ASSUME WithinBounds, NEW f, NEW lba \in 2..inode_table_lba - 1, NEW s, NEW g, Puts(f, g, lba, s)
  PROVE  NodesOf(g) = NodesOf(f) /\ DataOf(g) = DataOf(f)
<1>1. /\ inode_table_lba \in Nat /\ data_start_lba \in Nat /\ SecCnt \in Nat
      /\ inode_table_lba + 1 <= data_start_lba /\ data_start_lba < SecCnt
  BY Layout
<1>2. g.disk[inode_table_lba] = f.disk[inode_table_lba]
  BY <1>1 DEF Puts
<1>3. ASSUME NEW no \in Few PROVE LoadInode(g.disk, no) = LoadInode(f.disk, no)
  BY <1>2, NodeWords
<1>4. \A l \in Blocks : g.disk[l] = f.disk[l]
  BY <1>1 DEF Puts, Blocks
<1> QED BY <1>3, <1>4 DEF NodesOf, DataOf

(* The words of an inode that lies in the first sector of the table are    *)
(* stored: it is the one they are for, and no other inode changes.         *)
LEMMA StoreEffect ==
  ASSUME WithinBounds, NEW f, DiskShape(f), f.panic = "none", NEW no \in Few,
         NEW words, DOMAIN words = 1..InodeWords, NEW g, g = StoreWords(f, inode_locate(no), words)
  PROVE  /\ g.panic = "none" /\ DiskShape(g)
         /\ g.open = f.open /\ g.bbits = f.bbits /\ g.ibits = f.ibits
         /\ NodesOf(g) = Changed(NodesOf(f), no, FromWords(words))
         /\ DataOf(g) = DataOf(f)
<1>1. PICK off : off = InodeWords * no
  OBVIOUS
<1>2. /\ off \in Nat /\ off + InodeWords <= SectorWords /\ InodeWords \in Nat /\ InodeWords >= 4
      /\ SectorWords \in Nat /\ off \div SectorWords = 0 /\ off % SectorWords = off
      /\ \A m \in Few \ {no} : InodeWords * m \in Nat
              /\ (off + InodeWords <= InodeWords * m \/ InodeWords * m + InodeWords <= off)
  BY <1>1, FewFacts
<1>3. PICK T : T = inode_table_lba
  OBVIOUS
<1>4. /\ T \in Nat /\ data_start_lba \in Nat /\ SecCnt \in Nat
      /\ T >= 3 /\ T + 1 <= data_start_lba /\ data_start_lba < SecCnt
      /\ inode_bitmap_lba \in Nat /\ inode_bitmap_lba < T
  BY <1>3, Layout
<1>5. PICK pos : pos = inode_locate(no)
  OBVIOUS
<1>6. pos.multi_sec /\ pos.sec_lba = T /\ pos.off_size = off
  <2>1. pos = [multi_sec |-> SectorWords - off >= InodeWords, sec_lba |-> T, off_size |-> off]
    BY <1>1, <1>2, <1>3, <1>4, <1>5 DEF inode_locate
  <2>2. SectorWords - off >= InodeWords
    BY <1>2
  <2> QED BY <2>1, <2>2
<1>7. PICK s0 : s0 = PatchSector(f, T, 0, off, words)
  OBVIOUS
<1>8. PICK s1 : s1 = PatchSector(f, T, 1, off, words)
  OBVIOUS
<1>9. PICK f1 : f1 = ide_write(f, T + 0, s0)
  OBVIOUS
<1>10. g = ide_write(f1, T + 1, s1)
  BY <1>5, <1>6, <1>7, <1>8, <1>9 DEF StoreWords
<1>11. /\ IsSector(f.disk[T]) /\ DOMAIN f.disk[T] = 1..SectorWords /\ IsSector(f.disk[T + 1])
  <2>1. T \in 0..SecCnt - 1 /\ T + 1 \in 0..SecCnt - 1 /\ T \in T..SecCnt - 1 /\ T + 1 \in T..SecCnt - 1
    BY <1>4
  <2> QED BY <1>3, <2>1 DEF DiskShape, DiskOK, TypedSector
<1>12. s0 = [w \in 1..SectorWords |-> IF w - off \in 1..InodeWords THEN words[w - off] ELSE f.disk[T][w]]
  <2>1. T + 0 = T
    BY <1>4
  <2>2. \A w \in 1..SectorWords : 0 * SectorWords + w - off = w - off
    BY <1>2
  <2> QED BY <1>7, <1>11, <2>1, <2>2 DEF PatchSector
<1>13. s1 = f.disk[T + 1]
  <2>1. ASSUME NEW w \in Nat \ {0} PROVE 1 * SectorWords + w - off \notin 1..InodeWords
    BY <1>2
  <2>2. s1 = [w \in DOMAIN f.disk[T + 1] |-> f.disk[T + 1][w]]
    BY <1>8, <1>11, <2>1 DEF PatchSector, IsSector
  <2> QED BY <1>11, <2>2 DEF IsSector
<1>14. TypedSector(T, s0) /\ TypedSector(T + 1, s1)
  <2>1. IsSector(s0) /\ DOMAIN s0 = 1..SectorWords
    BY <1>2, <1>12 DEF IsSector
  <2> QED BY <1>3, <1>4, <1>11, <1>13, <2>1 DEF TypedSector
<1>15. f1.panic = "none" /\ Puts(f, f1, T, s0) /\ f1.open = f.open /\ f1.bbits = f.bbits /\ f1.ibits = f.ibits
  <2>1. T + 0 = T /\ T < SecCnt
    BY <1>4
  <2> QED BY <1>4, <1>9, <1>14, <2>1, WritePuts
<1>16. g.panic = "none" /\ Puts(f1, g, T + 1, s1) /\ g.open = f1.open /\ g.bbits = f1.bbits /\ g.ibits = f1.ibits
  <2>1. T + 1 \in Nat /\ T + 1 < SecCnt
    BY <1>4
  <2>2. DiskShape(f1)
    BY <1>15 DEF Puts
  <2> QED BY <1>10, <1>14, <1>15, <2>1, <2>2, WritePuts
<1>17. g.disk[T] = s0 /\ \A l \in 0..SecCnt - 1 : l # T => g.disk[l] = f.disk[l]
  BY <1>4, <1>13, <1>15, <1>16 DEF Puts
<1>18. DataOf(g) = DataOf(f)
  BY <1>4, <1>17 DEF DataOf, Blocks
<1>19. LoadInode(g.disk, no) = FromWords(words)
  <2>1. \A j \in 1..InodeWords : s0[off + j] = words[j]
    BY <1>2, <1>12
  <2>2. FromWords([j \in 1..InodeWords |-> s0[off + j]]) = FromWords(words)
    <3>1. 1 \in 1..InodeWords /\ 2 \in 1..InodeWords /\ \A k \in 1..Direct + 1 : k + 2 \in 1..InodeWords
      BY InodeAssumption DEF InodeWords
    <3> QED BY <2>1, <3>1 DEF FromWords
  <2> QED BY <1>1, <1>3, <1>17, <2>2, NodeWords
<1>20. ASSUME NEW m \in Few \ {no} PROVE LoadInode(g.disk, m) = LoadInode(f.disk, m)
  <2>1. PICK o : o = InodeWords * m
    OBVIOUS
  <2>2. m \in Few /\ o \in Nat /\ (off + InodeWords <= o \/ o + InodeWords <= off)
    BY <1>2, <2>1
  <2>3. o + InodeWords <= SectorWords
    BY <2>1, <2>2, FewFacts
  <2>4. \A j \in 1..InodeWords : s0[o + j] = f.disk[T][o + j]
    BY <1>2, <1>12, <2>2, <2>3
  <2>5. [j \in 1..InodeWords |-> s0[o + j]] = [j \in 1..InodeWords |-> f.disk[T][o + j]]
    BY <2>4
  <2>6. LoadInode(g.disk, m) = FromWords([j \in 1..InodeWords |-> g.disk[T][o + j]])
    BY <1>3, <2>1, <2>2, NodeWords
  <2>7. LoadInode(f.disk, m) = FromWords([j \in 1..InodeWords |-> f.disk[T][o + j]])
    BY <1>3, <2>1, <2>2, NodeWords
  <2> QED BY <1>17, <2>5, <2>6, <2>7
<1>21. NodesOf(g) = Changed(NodesOf(f), no, FromWords(words))
  BY <1>19, <1>20 DEF NodesOf, Changed
<1> QED BY <1>15, <1>16, <1>18, <1>21 DEF Puts

\* What a reader of inodes and of data sees is the same.
Quiet(f, g) == DiskShape(g) /\ NodesOf(g) = NodesOf(f) /\ DataOf(g) = DataOf(f)

\* The bits of both bitmaps are in range.
BitsOK(f) == f.bbits \subseteq 0..block_bitmap_len - 1 /\ f.ibits \subseteq 0..inode_bitmap_len - 1

\* An inode as it is read back.
OnDisk(x) ==
  [no |-> x.no, size |-> x.size, sec |-> [k \in 1..Direct + 1 |-> x.sec[k]], cnt |-> 1, deny |-> FALSE]

(* What changes in memory only.                                            *)
LEMMA QuietMemory ==
  ASSUME NEW f, DiskShape(f), NEW g, SameDisk(f, g)
  PROVE  Quiet(f, g)
BY DEF SameDisk, DiskShape, Quiet, NodesOf, DataOf

(* One after the other.                                                    *)
LEMMA QuietTwice ==
  ASSUME NEW f, NEW g, NEW h, Quiet(f, g), Quiet(g, h)
  PROVE  Quiet(f, h)
BY DEF Quiet

(* inode_sync (inode.c:58) writes one inode of the table.                  *)
LEMMA InodeSyncEffect ==
  ASSUME WithinBounds, NEW f, DiskShape(f), f.panic = "none", NEW x, x.no \in Few,
         NEW g, g = inode_sync(f, x)
  PROVE  /\ g.panic = "none" /\ DiskShape(g)
         /\ g.open = f.open /\ g.bbits = f.bbits /\ g.ibits = f.ibits
         /\ NodesOf(g) = Changed(NodesOf(f), x.no, OnDisk(x))
         /\ DataOf(g) = DataOf(f)
<1>1. PICK no \in Few : no = x.no
  OBVIOUS
<1>2. no \in Nat /\ no < 256
  BY FewFacts, Zenon DEF WithinBounds
<1>3. no % 256 = no
  BY <1>2
<1>4. PICK words : words = Words(x)
  OBVIOUS
<1>5. DOMAIN words = 1..InodeWords /\ g = StoreWords(f, inode_locate(no), words)
  BY <1>1, <1>3, <1>4 DEF inode_sync, Words
<1>6. /\ InodeWords \in Nat /\ InodeWords = Direct + 3 /\ Direct \in Nat
      /\ 1 \in 1..InodeWords /\ 2 \in 1..InodeWords
  BY InodeAssumption DEF InodeWords
<1>7. words[1] = x.no /\ words[2] = x.size
  BY <1>4, <1>6 DEF Words
<1>8. ASSUME NEW k \in 1..Direct + 1 PROVE words[k + 2] = x.sec[k]
  <2>1. k + 2 \in 1..InodeWords /\ k + 2 # 1 /\ k + 2 # 2 /\ (k + 2) - 2 = k
    BY <1>6
  <2> QED BY <1>4, <2>1 DEF Words
<1>9. FromWords(words) = OnDisk(x)
  BY <1>7, <1>8 DEF FromWords, OnDisk
<1>10. /\ g.panic = "none" /\ DiskShape(g)
       /\ g.open = f.open /\ g.bbits = f.bbits /\ g.ibits = f.ibits
       /\ NodesOf(g) = Changed(NodesOf(f), no, FromWords(words))
       /\ DataOf(g) = DataOf(f)
  BY <1>5, StoreEffect
<1> QED BY <1>1, <1>9, <1>10

(* inode_delete (inode.c:181) clears the words of one inode.               *)
LEMMA InodeDeleteEffect ==
  ASSUME WithinBounds, NEW f, DiskShape(f), f.panic = "none", NEW no \in Few,
         NEW g, g = inode_delete(f, no)
  PROVE  /\ g.panic = "none" /\ DiskShape(g)
         /\ g.open = f.open /\ g.bbits = f.bbits /\ g.ibits = f.ibits
         /\ \A m \in Few \ {no} : NodesOf(g)[m] = NodesOf(f)[m]
         /\ DataOf(g) = DataOf(f)
<1>1. PICK words : words = Zeros(InodeWords)
  OBVIOUS
<1>2. DOMAIN words = 1..InodeWords /\ g = StoreWords(f, inode_locate(no), words)
  BY <1>1 DEF Zeros, inode_delete
<1>3. /\ g.panic = "none" /\ DiskShape(g)
      /\ g.open = f.open /\ g.bbits = f.bbits /\ g.ibits = f.ibits
      /\ NodesOf(g) = Changed(NodesOf(f), no, FromWords(words))
      /\ DataOf(g) = DataOf(f)
  BY <1>2, StoreEffect
<1> QED BY <1>3 DEF NodesOf, Changed

(* bitmap_sync (file.c:100) writes one of the sectors of a bitmap.         *)
LEMMA BlockBitQuiet ==
  ASSUME WithinBounds, NEW f, DiskShape(f), BitsOK(f), f.panic = "none",
         NEW bit \in 0..block_bitmap_len - 1, NEW g, g = SyncBlockBit(f, bit)
  PROVE  g.panic = "none" /\ Quiet(f, g) /\ g.open = f.open /\ g.bbits = f.bbits /\ g.ibits = f.ibits
<1>1. /\ block_bitmap_sects \in Nat /\ inode_bitmap_lba = 2 + block_bitmap_sects
      /\ inode_table_lba \in Nat /\ inode_table_lba > inode_bitmap_lba /\ data_start_lba \in Nat
      /\ inode_table_lba + 1 <= data_start_lba /\ data_start_lba < SecCnt /\ SecCnt \in Nat
  BY Layout
<1>2. PICK sec \in 0..block_bitmap_sects - 1 : sec = bit \div BitsPerSec
  BY <1>1, BitInSector DEF block_bitmap_len
<1>3. PICK s : s = BitsOfSector(f.bbits, sec)
  OBVIOUS
<1>4. PICK lba : lba = block_bitmap_lba + sec
  OBVIOUS
<1>5. lba \in Nat /\ lba \in 2..inode_bitmap_lba - 1 /\ lba \in 2..inode_table_lba - 1 /\ lba < SecCnt
  BY <1>1, <1>2, <1>4 DEF block_bitmap_lba
<1>6. TypedSector(lba, s)
  <2>1. s \subseteq 0..block_bitmap_len - 1
    BY <1>3 DEF BitsOfSector, BitsOK
  <2>2. lba \notin inode_bitmap_lba..inode_table_lba - 1 /\ lba \notin inode_table_lba..SecCnt - 1
        /\ lba # inode_table_lba
    BY <1>1, <1>5
  <2> QED BY <2>1, <2>2 DEF TypedSector
<1>7. g = ide_write(f, lba, s)
  BY <1>2, <1>3, <1>4 DEF SyncBlockBit
<1>8. g.panic = "none" /\ Puts(f, g, lba, s) /\ g.open = f.open /\ g.bbits = f.bbits /\ g.ibits = f.ibits
  BY <1>5, <1>6, <1>7, WritePuts
<1>9. NodesOf(g) = NodesOf(f) /\ DataOf(g) = DataOf(f)
  BY <1>5, <1>8, PutBits
<1> QED BY <1>8, <1>9 DEF Quiet, Puts

(* A bit of the inode bitmap is written to its sector.                     *)
LEMMA InodeBitQuiet ==
  ASSUME WithinBounds, NEW f, DiskShape(f), BitsOK(f), f.panic = "none",
         NEW bit \in 0..inode_bitmap_len - 1, NEW g, g = SyncInodeBit(f, bit)
  PROVE  g.panic = "none" /\ Quiet(f, g) /\ g.open = f.open /\ g.bbits = f.bbits /\ g.ibits = f.ibits
<1>1. /\ inode_bitmap_sects \in Nat /\ inode_bitmap_lba \in Nat /\ inode_bitmap_lba >= 3
      /\ inode_table_lba = inode_bitmap_lba + inode_bitmap_sects
      /\ inode_table_lba \in Nat /\ inode_table_lba > inode_bitmap_lba /\ data_start_lba \in Nat
      /\ inode_table_lba + 1 <= data_start_lba /\ data_start_lba < SecCnt /\ SecCnt \in Nat
  BY Layout, LengthsType
<1>2. PICK sec \in 0..inode_bitmap_sects - 1 : sec = bit \div BitsPerSec
  BY <1>1, BitInSector DEF inode_bitmap_len
<1>3. PICK s : s = BitsOfSector(f.ibits, sec)
  OBVIOUS
<1>4. PICK lba : lba = inode_bitmap_lba + sec
  OBVIOUS
<1>5. /\ lba \in Nat /\ lba \in inode_bitmap_lba..inode_table_lba - 1
      /\ lba \in 2..inode_table_lba - 1 /\ lba < SecCnt
  BY <1>1, <1>2, <1>4
<1>6. TypedSector(lba, s)
  <2>1. s \subseteq 0..inode_bitmap_len - 1
    BY <1>3 DEF BitsOfSector, BitsOK
  <2>2. lba \notin 2..inode_bitmap_lba - 1 /\ lba \notin inode_table_lba..SecCnt - 1
        /\ lba # inode_table_lba
    BY <1>1, <1>5
  <2> QED BY <2>1, <2>2 DEF TypedSector
<1>7. g = ide_write(f, lba, s)
  BY <1>2, <1>3, <1>4 DEF SyncInodeBit
<1>8. g.panic = "none" /\ Puts(f, g, lba, s) /\ g.open = f.open /\ g.bbits = f.bbits /\ g.ibits = f.ibits
  BY <1>5, <1>6, <1>7, WritePuts
<1>9. NodesOf(g) = NodesOf(f) /\ DataOf(g) = DataOf(f)
  BY <1>5, <1>8, PutBits
<1> QED BY <1>8, <1>9 DEF Quiet, Puts

(* A write of data.                                                        *)
LEMMA DataEffect ==
  ASSUME WithinBounds, NEW f, DiskShape(f), f.panic = "none", NEW lba \in Nat, lba >= data_start_lba,
         NEW s, IsSector(s), NEW g, g = ide_write(f, lba, s)
  PROVE  /\ g.panic \in {"none", "outside"}
         /\ g.open = f.open /\ g.bbits = f.bbits /\ g.ibits = f.ibits
         /\ g.panic = "none" => /\ lba \in Blocks /\ DiskShape(g) /\ NodesOf(g) = NodesOf(f)
                                /\ DataOf(g) = Changed(DataOf(f), lba, s)
         /\ lba < SecCnt => g.panic = "none"
<1>1. /\ inode_table_lba \in Nat /\ inode_table_lba > inode_bitmap_lba /\ data_start_lba \in Nat
      /\ inode_table_lba + 1 <= data_start_lba /\ SecCnt \in Nat /\ inode_bitmap_lba \in Nat
  BY Layout
<1>2. TypedSector(lba, s)
  <2>1. lba \notin 2..inode_bitmap_lba - 1 /\ lba \notin inode_bitmap_lba..inode_table_lba - 1
        /\ lba # inode_table_lba
    BY <1>1
  <2> QED BY <2>1 DEF TypedSector
<1>3. /\ g.panic \in {"none", "outside"} /\ (g.panic = "none" => Puts(f, g, lba, s))
      /\ (lba < SecCnt => g.panic = "none")
      /\ g.open = f.open /\ g.bbits = f.bbits /\ g.ibits = f.ibits
  BY <1>2, WritePuts
<1>4. ASSUME g.panic = "none"
      PROVE  /\ lba \in Blocks /\ DiskShape(g) /\ NodesOf(g) = NodesOf(f)
             /\ DataOf(g) = Changed(DataOf(f), lba, s)
  <2>1. Puts(f, g, lba, s)
    BY <1>3, <1>4
  <2>2. lba \in Blocks
    BY <1>1, <2>1 DEF Puts, Blocks
  <2> QED BY <2>1, <2>2, PutData DEF Puts
<1> QED BY <1>3, <1>4

(* A block is taken, with and without its bit on the disk (file.c:84).     *)
LEMMA TakeEffect ==
  ASSUME WithinBounds, NEW f, DiskShape(f), BitsOK(f), f.panic = "none",
         NEW a, a \in {block_bitmap_alloc(f), AllocSynced(f)}
  PROVE  /\ a.fs.panic \in {"none", "full"} /\ a = [fs |-> a.fs, lba |-> a.lba]
         /\ a.fs.open = f.open /\ a.fs.ibits = f.ibits /\ Follows(f, a.fs)
         /\ a.fs.panic = "none" =>
              /\ Quiet(f, a.fs) /\ BitsOK(a.fs)
              /\ a.lba \in Nat /\ a.lba >= data_start_lba
              /\ a.lba - data_start_lba \notin f.bbits
              /\ a.fs.bbits = f.bbits \cup {a.lba - data_start_lba}
<1>1. block_bitmap_len \in Nat /\ data_start_lba \in Nat
  BY Layout
<1>2. PICK bit : bit = FirstFree(f.bbits, block_bitmap_len)
  OBVIOUS
<1>3. bit \in 0..block_bitmap_len /\ bit \notin f.bbits
  BY <1>1, <1>2, FirstFreeFacts DEF BitsOK
<1>4. PICK b : b = TakeBlock(f, bit)
  OBVIOUS
<1>5. b = block_bitmap_alloc(f) /\ b = [fs |-> b.fs, lba |-> b.lba]
  BY <1>2, <1>4 DEF block_bitmap_alloc, TakeBlock
<1>6. /\ Follows(f, b.fs) /\ SameDisk(f, b.fs) /\ b.lba = data_start_lba + bit
      /\ b.fs.open = f.open /\ b.fs.ibits = f.ibits
      /\ bit = block_bitmap_len => b.fs.bbits = f.bbits /\ b.fs.panic = "full"
      /\ bit # block_bitmap_len => b.fs.bbits = f.bbits \cup {bit} /\ b.fs.panic = "none"
  BY <1>4, TakeBlockFollows DEF DiskShape
<1>7. b.lba \in Nat /\ b.lba >= data_start_lba /\ b.lba - data_start_lba = bit
  BY <1>1, <1>3, <1>6
<1>8. b.fs.panic = "none" =>
        /\ Quiet(f, b.fs) /\ BitsOK(b.fs) /\ bit \in 0..block_bitmap_len - 1
        /\ b.fs.bbits = f.bbits \cup {bit}
  <2>1. Quiet(f, b.fs)
    BY <1>6, QuietMemory
  <2> QED BY <1>1, <1>3, <1>6, <2>1 DEF BitsOK
<1>9. PICK g : g = SyncBlockBit(b.fs, bit)
  OBVIOUS
<1>10. AllocSynced(f) = [fs |-> g, lba |-> b.lba]
  <2>1. PICK x : x = b.fs
    OBVIOUS
  <2>2. PICK y : y = b.lba
    OBVIOUS
  <2>3. b = [fs |-> x, lba |-> y] /\ g = SyncLba(x, y)
    BY <1>5, <1>7, <1>9, <2>1, <2>2 DEF SyncLba
  <2>4. Synced(b) = [fs |-> g, lba |-> y]
    BY ONLY <2>3 DEF Synced
  <2> QED BY <1>5, <2>2, <2>4 DEF AllocSynced
<1>11. /\ g.panic \in {"none", "full"} /\ g.open = f.open /\ g.ibits = f.ibits /\ Follows(f, g)
       /\ g.panic = "none" => /\ Quiet(f, g) /\ BitsOK(g) /\ g.bbits = f.bbits \cup {bit}
  <2>1. Wrote(b.fs, g)
    BY <1>6, <1>9, SyncWrote DEF SameDisk
  <2>2. Follows(f, g) /\ g.open = f.open /\ g.ibits = f.ibits
    BY <1>6, <2>1, FollowsTwice DEF Wrote
  <2>3. CASE b.fs.panic = "none"
    <3>1. DiskShape(b.fs) /\ BitsOK(b.fs) /\ bit \in 0..block_bitmap_len - 1
      BY <1>8, <2>3 DEF Quiet
    <3>2. g.panic = "none" /\ Quiet(b.fs, g) /\ g.bbits = b.fs.bbits /\ g.ibits = b.fs.ibits
      BY <1>9, <2>3, <3>1, BlockBitQuiet
    <3>3. Quiet(f, g)
      BY <1>8, <2>3, <3>2, QuietTwice
    <3> QED BY <1>8, <2>2, <2>3, <3>2, <3>3 DEF BitsOK
  <2>4. CASE b.fs.panic # "none"
    BY <1>6, <2>1, <2>2, <2>4 DEF Wrote
  <2> QED BY <2>3, <2>4
<1>12. CASE a = block_bitmap_alloc(f)
  BY <1>3, <1>5, <1>6, <1>7, <1>8, <1>12
<1>13. CASE a = AllocSynced(f)
  <2>1. a = [fs |-> g, lba |-> b.lba]
    BY <1>10, <1>13
  <2>2. a.fs = g /\ a.lba = b.lba
    BY <2>1
  <2> QED BY <1>3, <1>7, <1>11, <2>1, <2>2
<1> QED BY <1>12, <1>13

\* There is no block at the address, or one that can be given back.
CanFree(lba) ==
  lba = 0 \/ (lba \in Int /\ lba > data_start_lba /\ lba - data_start_lba \in 0..block_bitmap_len - 1)

(* A block is given back (inode_release inode.c:217).                      *)
LEMMA FreeEffect ==
  ASSUME WithinBounds, NEW f, DiskShape(f), BitsOK(f), f.panic = "none", NEW lba, CanFree(lba),
         NEW g, g = FreePresent(f, lba)
  PROVE  g.panic = "none" /\ Quiet(f, g) /\ BitsOK(g)
<1>1. CASE lba = 0
  BY <1>1 DEF FreePresent, Quiet
<1>2. CASE lba # 0
  <2>1. g = FreeBlock(f, lba) /\ lba > data_start_lba /\ lba - data_start_lba \in 0..block_bitmap_len - 1
    BY <1>2 DEF FreePresent, CanFree
  <2>2. PICK bit : bit = lba - data_start_lba
    OBVIOUS
  <2>3. PICK b : b = f.bbits \ {bit}
    OBVIOUS
  <2>4. PICK h : h = [f EXCEPT !.bbits = b]
    OBVIOUS
  <2>5. g = SyncBlockBit(h, bit)
    <3>1. lba # data_start_lba
      <4>1. data_start_lba \in Nat
        BY Layout
      <4>2. lba \in Int /\ lba > data_start_lba
        BY <1>2 DEF CanFree
      <4> QED BY ONLY <4>1, <4>2
    <3> QED BY <2>1, <2>2, <2>3, <2>4, <3>1 DEF FreeBlock, SyncLba, ASSERT
  <2>6. SameDisk(f, h) /\ h.panic = f.panic /\ h.bbits = b /\ h.ibits = f.ibits
    BY <2>4, BlockBitsFollow DEF DiskShape
  <2>7. Quiet(f, h) /\ BitsOK(h) /\ DiskShape(h)
    BY <2>3, <2>6, QuietMemory DEF BitsOK, Quiet
  <2>8. g.panic = "none" /\ Quiet(h, g) /\ g.bbits = h.bbits /\ g.ibits = h.ibits
    BY <2>1, <2>2, <2>5, <2>6, <2>7, BlockBitQuiet
  <2> QED BY <2>7, <2>8, QuietTwice DEF BitsOK
<1> QED BY <1>1, <1>2

(* All blocks of a list are given back.                                    *)
LEMMA FreeBlocksEffect ==
  ASSUME WithinBounds, NEW f, DiskShape(f), BitsOK(f), f.panic = "none", NEW lbas,
         \A k \in 1..MaxBlocks : CanFree(lbas[k]), NEW g, g = FreeBlocks(f, lbas)
  PROVE  g.panic = "none" /\ Quiet(f, g) /\ BitsOK(g)
<1>1. MaxBlocks \in Nat
  BY InodeAssumption DEF MaxBlocks
<1>2. PICK h : Freed(h, f, lbas, MaxBlocks) /\ g = h[MaxBlocks]
  <2>1. PICK h : h = CHOOSE x : Freed(x, f, lbas, MaxBlocks)
    OBVIOUS
  <2>2. Freed(h, f, lbas, MaxBlocks)
    BY <1>1, <2>1, FreedExist
  <2>3. g = (CHOOSE x : Freed(x, f, lbas, MaxBlocks))[MaxBlocks]
    BY DEF FreeBlocks, Freed
  <2> QED BY <2>1, <2>2, <2>3
<1> DEFINE T == {n \in 0..MaxBlocks : h[n].panic = "none" /\ Quiet(f, h[n]) /\ BitsOK(h[n])}
<1>3. \A n \in 0..MaxBlocks : h[n] = IF n = 0 THEN f ELSE FreePresent(h[n - 1], lbas[n])
  BY <1>2 DEF Freed
<1>4. 0 \in T
  <2>1. h[0] = f /\ 0 \in 0..MaxBlocks
    BY <1>1, <1>3
  <2> QED BY <2>1 DEF Quiet
<1>5. ASSUME NEW n \in 0..MaxBlocks - 1, n \in T PROVE n + 1 \in T
  <2>1. n + 1 \in 1..MaxBlocks /\ n + 1 \in 0..MaxBlocks /\ n + 1 # 0 /\ (n + 1) - 1 = n
    BY <1>1
  <2>2. h[n + 1] = FreePresent(h[n], lbas[n + 1]) /\ CanFree(lbas[n + 1])
    BY <1>3, <2>1
  <2>3. DiskShape(h[n]) /\ BitsOK(h[n]) /\ h[n].panic = "none"
    BY <1>5 DEF Quiet
  <2>4. h[n + 1].panic = "none" /\ Quiet(h[n], h[n + 1]) /\ BitsOK(h[n + 1])
    BY <2>2, <2>3, FreeEffect
  <2> QED BY <1>5, <2>1, <2>4, QuietTwice
<1>6. MaxBlocks \in T
  <2> HIDE DEF T
  <2> QED BY <1>1, <1>4, <1>5, Upto
<1> QED BY <1>2, <1>6

\* The blocks with the addresses a reader of the disk finds, with the block that lists them.
BitsOwned(f, x) == {lba - data_start_lba : lba \in AllBlocks(f.disk, x)}

\* open_inodes when one user of an inode has come, and when one has gone.
Linked(open, no, node) ==
  IF no \in DOMAIN open THEN [open EXCEPT ![no].cnt = @ + 1] ELSE Link(open, no, node)

Unlinked(open, no) ==
  IF open[no].cnt = 1 THEN [i \in DOMAIN open \ {no} |-> open[i]] ELSE [open EXCEPT ![no].cnt = @ - 1]

(* inode_open and inode_close (inode.c:100, inode.c:157).                  *)
LEMMA OpenCloseEffect ==
  ASSUME NEW f, DiskShape(f), NEW no
  PROVE  /\ Quiet(f, inode_open(f, no)) /\ Quiet(f, inode_close(f, no))
         /\ no \in Few => inode_open(f, no).open = Linked(f.open, no, NodesOf(f)[no])
         /\ inode_close(f, no).open = Unlinked(f.open, no)
         /\ inode_open(f, no).panic = f.panic /\ inode_close(f, no).panic = f.panic
         /\ inode_open(f, no).bbits = f.bbits /\ inode_close(f, no).bbits = f.bbits
         /\ inode_open(f, no).ibits = f.ibits /\ inode_close(f, no).ibits = f.ibits
<1>1. IsFs(f)
  BY DEF DiskShape
<1>2. \A g \in {inode_open(f, no), inode_close(f, no)} :
        SameDisk(f, g) /\ g.panic = f.panic /\ g.bbits = f.bbits /\ g.ibits = f.ibits
  BY <1>1, OpenCloseFollow
<1>3. \A g \in {inode_open(f, no), inode_close(f, no)} : Quiet(f, g)
  BY <1>2, QuietMemory
<1>4. inode_close(f, no).open = Unlinked(f.open, no)
  BY <1>1 DEF inode_close, Unlinked, IsFs
<1>5. no \in Few => inode_open(f, no).open = Linked(f.open, no, NodesOf(f)[no])
  BY <1>1 DEF inode_open, Linked, IsFs, NodesOf
<1> QED BY <1>2, <1>3, <1>4, <1>5

(* An inode in open_inodes and its blocks are given back (inode.c:217).    *)
LEMMA ReleaseEffect ==
  ASSUME WithinBounds, NEW f, DiskShape(f), BitsOK(f), f.panic = "none", NEW no \in Few,
         no \in 0..inode_bitmap_len - 1, f.open[no].no = no,
         \A k \in 1..MaxBlocks : CanFree(Address(f.disk, f.open[no], k)),
         CanFree(f.open[no].sec[Direct + 1]),
         NEW g, g = ReleaseOpen(f, no)
  PROVE  /\ g.panic = "none" /\ DiskShape(g) /\ BitsOK(g)
         /\ g.open = Unlinked(f.open, no)
         /\ g.ibits = f.ibits \ {no} /\ g.bbits = f.bbits \ BitsOwned(f, f.open[no])
         /\ \A m \in Few \ {no} : NodesOf(g)[m] = NodesOf(f)[m]
         /\ DataOf(g) = DataOf(f)
<1>1. PICK x : x = f.open[no]
  OBVIOUS
<1>2. PICK lbas : lbas = all_blocks_lba(f, x)
  OBVIOUS
<1>3. PICK b : b = FreePresent(f, x.sec[Direct + 1])
  OBVIOUS
<1>4. PICK c : c = FreeBlocks(b, lbas)
  OBVIOUS
<1>5. PICK d : d = [c EXCEPT !.ibits = @ \ {no}]
  OBVIOUS
<1>6. PICK e : e = SyncInodeBit(d, no)
  OBVIOUS
<1>7. PICK h : h = inode_delete(e, no)
  OBVIOUS
<1>8. g = inode_close(h, no)
  BY <1>1, <1>2, <1>3, <1>4, <1>5, <1>6, <1>7 DEF ReleaseOpen, FreeInode, ASSERT
<1>9. \A k \in 1..MaxBlocks : lbas[k] = Address(f.disk, x, k) /\ CanFree(lbas[k])
  BY <1>1, <1>2 DEF all_blocks_lba, Address
<1>10. b.panic = "none" /\ Quiet(f, b) /\ BitsOK(b) /\ DiskShape(b)
  BY <1>1, <1>3, FreeEffect DEF Quiet
<1>11. c.panic = "none" /\ Quiet(b, c) /\ BitsOK(c) /\ DiskShape(c)
  BY <1>4, <1>9, <1>10, FreeBlocksEffect DEF Quiet
<1>12. /\ b.open = f.open /\ b.ibits = f.ibits
       /\ b.bbits = f.bbits \ (IF x.sec[Direct + 1] = 0 THEN {} ELSE {x.sec[Direct + 1] - data_start_lba})
  BY <1>3, FreePresentFollows DEF DiskShape
<1>13. c.open = b.open /\ c.ibits = b.ibits /\ c.bbits = b.bbits \ BitsOfBlocks(lbas, MaxBlocks)
  BY <1>4, <1>10, FreeBlocksFollows DEF DiskShape
<1>14. /\ SameDisk(c, d) /\ d.panic = "none" /\ d.open = f.open /\ d.ibits = f.ibits \ {no}
       /\ d.bbits = c.bbits
  <2>1. PICK s : s = c.ibits \ {no}
    OBVIOUS
  <2>2. d = [c EXCEPT !.ibits = s]
    BY <1>5, <2>1
  <2>3. SameDisk(c, d) /\ d.panic = c.panic /\ d.open = c.open /\ d.bbits = c.bbits /\ d.ibits = s
    BY <1>11, <2>2, InodeBitsFollow DEF DiskShape
  <2> QED BY <1>11, <1>12, <1>13, <2>1, <2>3
<1>15. Quiet(c, d) /\ BitsOK(d) /\ DiskShape(d)
  BY <1>11, <1>12, <1>13, <1>14, QuietMemory DEF BitsOK, Quiet
<1>16. e.panic = "none" /\ Quiet(d, e) /\ e.open = d.open /\ e.bbits = d.bbits /\ e.ibits = d.ibits
  BY <1>6, <1>14, <1>15, InodeBitQuiet
<1>17. Quiet(f, e) /\ DiskShape(e)
  BY <1>10, <1>11, <1>15, <1>16, QuietTwice DEF Quiet
<1>18. /\ h.panic = "none" /\ DiskShape(h)
       /\ h.open = e.open /\ h.bbits = e.bbits /\ h.ibits = e.ibits
       /\ \A m \in Few \ {no} : NodesOf(h)[m] = NodesOf(e)[m]
       /\ DataOf(h) = DataOf(e)
  BY <1>7, <1>16, <1>17, InodeDeleteEffect
<1>19. SameDisk(h, g) /\ g.panic = h.panic /\ g.bbits = h.bbits /\ g.ibits = h.ibits
  BY <1>8, <1>18, OpenCloseFollow DEF DiskShape
<1>20. Quiet(h, g) /\ DiskShape(g)
  BY <1>18, <1>19, QuietMemory DEF Quiet
<1>21. g.open = Unlinked(f.open, no)
  <2>1. h.open = f.open
    BY <1>14, <1>16, <1>18
  <2>2. g.open = Unlinked(h.open, no)
    BY <1>8, <1>18, OpenCloseEffect
  <2> QED BY <2>1, <2>2
<1>22. g.bbits = f.bbits \ BitsOwned(f, x)
  <2>1. BitsOwned(f, x) = BitsOfBlocks(lbas, MaxBlocks)
          \cup (IF x.sec[Direct + 1] = 0 THEN {} ELSE {x.sec[Direct + 1] - data_start_lba})
    BY <1>9 DEF BitsOwned, BitsOfBlocks, AllBlocks, BlocksIn
  <2> QED BY <1>12, <1>13, <1>14, <1>16, <1>18, <1>19, <2>1
<1>23. g.ibits = f.ibits \ {no} /\ BitsOK(g)
  BY <1>14, <1>15, <1>16, <1>18, <1>19 DEF BitsOK
<1> QED BY <1>1, <1>17, <1>18, <1>19, <1>20, <1>21, <1>22, <1>23 DEF Quiet

-----------------------------------------------------------------------------
(* A tree of directories and files: V are the inodes of the table and A    *)
(* the blocks of data; N are the numbers in use, D those of directories    *)

IsNode(x, no) ==
  /\ x = [no |-> no, size |-> x.size, sec |-> x.sec, cnt |-> 1, deny |-> FALSE]
  /\ x.sec = [k \in 1..Direct + 1 |-> x.sec[k]]
  /\ x.size \in Nat /\ \A k \in 1..Direct + 1 : x.sec[k] \in Nat

\* A name of a path that has been cleaned.
IsClean(name) == name # "" /\ name # "." /\ name # ".."

\* The places of a directory behind "." and "..".
Rest == 3..EntriesPerSec

Used(s) == {e \in 1..EntriesPerSec : s[e].type # "unknown"}

IsNamed(en) ==
  /\ en = Entry(en.name, en.no, en.type) /\ en.type \in {"regular", "directory"}
  /\ IsClean(en.name)

\* The entries of the directory itself and of the one above it.
Dots(s, d) ==
  s[1] = Entry(".", d, "directory") /\ s[2].name = ".." /\ s[2].type = "directory"

IsEntries(s, d) ==
  /\ s = [e \in 1..EntriesPerSec |-> s[e]]
  /\ Dots(s, d)
  /\ \A e \in Rest : s[e] = NoEntry \/ IsNamed(s[e])

IsDirectory(A, x, d) ==
  /\ x.sec[1] \in Blocks /\ \A k \in 2..Direct + 1 : x.sec[k] = 0
  /\ IsEntries(A[x.sec[1]], d)
  /\ x.size = Cardinality(Used(A[x.sec[1]]))

FileBlocks(size) == IF size = 0 THEN 0 ELSE size \div BlockSize + 1

\* No block of a file comes twice.
Distinct(A, x) ==
  \A k, j \in 1..MaxBlocks :
    Address(A, x, k) = Address(A, x, j) => k = j \/ Address(A, x, k) = 0

\* The byte that file no has at a position is in the block for it.
HasByte(A, x, no, pos) ==
  LET k == pos \div BlockSize + 1
  IN  /\ k \in 1..MaxBlocks /\ Address(A, x, k) \in Blocks
      /\ A[Address(A, x, k)][(pos % BlockSize) + 1] = Byte(no, pos)

Holds(A, x, no, positions) == \A pos \in positions : HasByte(A, x, no, pos)

IsRegular(A, x) ==
  /\ x.size <= MaxSize
  /\ Distinct(A, x) /\ Holds(A, x, x.no, 0..x.size - 1)
  /\ \A k \in 1..MaxBlocks : /\ Address(A, x, k) \in Nat
                             /\ Address(A, x, k) # 0 <=> k <= FileBlocks(x.size)
                             /\ Address(A, x, k) = x.sec[Direct + 1] => Address(A, x, k) = 0
  /\ x.sec[Direct + 1] # 0 <=> FileBlocks(x.size) > Direct
  /\ x.sec[Direct + 1] # 0 => /\ x.sec[Direct + 1] \in Blocks
                              /\ A[x.sec[Direct + 1]] = [k \in 1..TableLen |-> A[x.sec[Direct + 1]][k]]

\* The entries of a directory.
Sheet(V, A, d) == A[V[d].sec[1]]

IsKid(en, N, D) ==
  en.type # "unknown" =>
    en.no \in N \ {0} /\ (en.type = "directory" <=> en.no \in D) /\ en.name \in EntryNames

\* Two entries are for the same inode, or have the same name.
SameNo(en, en2) == en.type # "unknown" /\ en2.type # "unknown" /\ en.no = en2.no

SameName(en, en2) == en.type # "unknown" /\ en2.type # "unknown" /\ en.name = en2.name

ChildrenOK(V, A, N, D) ==
  /\ \A d \in D, e \in Rest : IsKid(Sheet(V, A, d)[e], N, D)
  /\ \A d, c \in D : \A e, i \in Rest :
       SameNo(Sheet(V, A, d)[e], Sheet(V, A, c)[i]) => d = c /\ e = i
  /\ \A d \in D : \A e, i \in Rest : SameName(Sheet(V, A, d)[e], Sheet(V, A, d)[i]) => e = i

\* A block whose bit is set.
IsTaken(lba, bits) == lba \in Nat /\ lba >= data_start_lba /\ lba - data_start_lba \in bits

BlocksOK(V, A, N, bits) ==
  /\ \A no \in N : \A lba \in AllBlocks(A, V[no]) : IsTaken(lba, bits)
  /\ \A no, m \in N : \A lba \in AllBlocks(A, V[no]) : lba \in AllBlocks(A, V[m]) => no = m

IsTree(V, A, N, D, bits) ==
  /\ N \subseteq Few /\ D \subseteq N /\ 0 \in D /\ V[0].sec[1] = data_start_lba
  /\ \A no \in N : IsNode(V[no], no)
  /\ \A d \in D : IsDirectory(A, V[d], d)
  /\ \A r \in N \ D : IsRegular(A, V[r])
  /\ ChildrenOK(V, A, N, D)
  /\ BlocksOK(V, A, N, bits)

\* An inode in open_inodes, and the one in the table.
IsOpen(x, y) ==
  /\ x = [no |-> y.no, size |-> y.size, sec |-> y.sec, cnt |-> x.cnt, deny |-> x.deny]
  /\ x.cnt \in Nat \ {0} /\ x.deny \in BOOLEAN

OpenOK(V, N, open) ==
  /\ open = [no \in DOMAIN open |-> open[no]] /\ DOMAIN open \subseteq N
  /\ \A no \in DOMAIN open : IsOpen(open[no], V[no])

Good(f, D) ==
  /\ DiskShape(f) /\ BitsOK(f)
  /\ IsTree(NodesOf(f), DataOf(f), f.ibits, D, f.bbits)
  /\ OpenOK(NodesOf(f), f.ibits, f.open)

(* Numbers that the lemmas below need.                                     *)
LEMMA Sizes ==
  ASSUME WithinBounds
  PROVE  /\ Direct \in Nat /\ Direct >= 1 /\ TableLen \in Nat /\ TableLen >= 1 /\ BlockSize \in Nat /\ BlockSize >= 1
         /\ MaxBlocks \in Nat /\ MaxBlocks = Direct + TableLen /\ EntriesPerSec \in Nat /\ EntriesPerSec >= 2
         /\ SecCnt \in Nat /\ data_start_lba \in Nat /\ data_start_lba >= 1 /\ data_start_lba < SecCnt
         /\ Blocks \subseteq Nat \ {0}
<1>1. /\ Direct \in Nat /\ Direct >= 1 /\ TableLen \in Nat /\ TableLen >= 1 /\ BlockSize \in Nat /\ BlockSize >= 1
      /\ EntriesPerSec \in Nat /\ EntriesPerSec >= 2
  BY InodeAssumption
<1>2. /\ SecCnt \in Nat /\ data_start_lba \in Nat /\ data_start_lba >= 1 /\ data_start_lba < SecCnt
  BY Layout
<1> QED BY <1>1, <1>2 DEF MaxBlocks, Blocks

(* What an entry holds.                                                    *)
LEMMA EntryFields ==
  ASSUME NEW nm, NEW no, NEW type
  PROVE  Entry(nm, no, type).name = nm /\ Entry(nm, no, type).no = no /\ Entry(nm, no, type).type = type
BY DEF Entry

(* Names that are not clean, and what follows for entries.                  *)
LEMMA NotClean == ~IsClean("") /\ ~IsClean(".") /\ ~IsClean("..")
BY Zenon DEF IsClean

(* The names of free entries and of "." are not those of a clean path.     *)
LEMMA DotFields ==
  /\ NoEntry.type = "unknown" /\ ~IsClean(NoEntry.name)
  /\ \A d : Entry(".", d, "directory").type = "directory" /\ ~IsClean(Entry(".", d, "directory").name)
<1>1. PICK nm : nm = ""
  BY Zenon
<1>2. PICK dot : dot = "."
  OBVIOUS
<1>3. ~IsClean(nm) /\ ~IsClean(dot)
  BY ONLY <1>1, <1>2, NotClean, Zenon
<1>4. NoEntry = Entry(nm, 0, "unknown")
  BY <1>1, Zenon DEF NoEntry, Entry
<1>5. ASSUME NEW d PROVE Entry(".", d, "directory") = Entry(dot, d, "directory")
  BY <1>2, Zenon
<1>6. NoEntry.type = "unknown" /\ ~IsClean(NoEntry.name)
  BY ONLY <1>3, <1>4, EntryFields
<1>7. ASSUME NEW d, NEW x, x = Entry(dot, d, "directory")
      PROVE  x.type = "directory" /\ ~IsClean(x.name)
  BY ONLY <1>3, <1>7, EntryFields
<1> QED BY <1>5, <1>6, <1>7, Zenon

(* The first two entries of a directory.                                   *)
LEMMA DotsFacts ==
  ASSUME NEW s, NEW d, Dots(s, d)
  PROVE  /\ ~IsClean(s[1].name) /\ ~IsClean(s[2].name) /\ s[1].name = "."
         /\ s[1].type = "directory" /\ s[2].type = "directory" /\ IsDot(s[1]) /\ IsDot(s[2])
<1>1. s[1] = Entry(".", d, "directory") /\ s[2].name = ".." /\ s[2].type = "directory"
  BY Zenon DEF Dots
<1>2. PICK dot : dot = "."
  OBVIOUS
<1>3. s[1].name = dot
  <2>1. s[1] = Entry(dot, d, "directory")
    BY ONLY <1>1, <1>2, Zenon
  <2> QED BY ONLY <2>1, EntryFields
<1>4. s[1].type = "directory" /\ ~IsClean(s[1].name)
  BY ONLY <1>1, DotFields, Zenon
<1>5. ~IsClean(s[2].name)
  BY ONLY <1>1, NotClean, Zenon
<1>6. IsDot(s[1]) /\ IsDot(s[2])
  BY ONLY <1>1, <1>2, <1>3, Zenon DEF IsDot
<1> QED BY <1>1, <1>2, <1>3, <1>4, <1>5, <1>6, Zenon

(* An entry with a clean name is neither free nor one of the first two.    *)
LEMMA CleanFacts ==
  ASSUME NEW x, IsClean(x.name)
  PROVE  ~IsDot(x) /\ x # NoEntry
<1>1. ~IsDot(x)
  BY Zenon DEF IsDot, IsClean
<1> QED BY <1>1, DotFields, Zenon

(* The first of some places in the first block.                            *)
LEMMA FirstPlaceFacts ==
  ASSUME NEW n \in Nat, NEW S \in SUBSET (1..n), S # {}, NEW P, P = {<<1, e>> : e \in S}
  PROVE  \E e \in S : FirstPlace(P) = <<1, e>> /\ \A i \in S : e <= i
<1>1. PICK e \in S : \A i \in S : e <= i
  <2>1. S \in SUBSET Nat
    OBVIOUS
  <2> QED BY <2>1, LowestFacts
<1>2. PICK h : h = FirstPlace(P)
  OBVIOUS
<1>3. <<1, e>> \in P /\ \A g \in P : 1 < g[1] \/ (1 = g[1] /\ e <= g[2])
  BY <1>1
<1>4. \E y \in P : \A g \in P : y[1] < g[1] \/ (y[1] = g[1] /\ y[2] <= g[2])
  <2>1. PICK y : y = <<1, e>>
    OBVIOUS
  <2>2. y \in P /\ y[1] = 1 /\ y[2] = e
    BY <1>3, <2>1
  <2> QED BY <1>3, <2>2
<1>5. h \in P /\ \A g \in P : h[1] < g[1] \/ (h[1] = g[1] /\ h[2] <= g[2])
  BY <1>2, <1>4 DEF FirstPlace
<1>6. PICK i \in S : h = <<1, i>>
  BY <1>5
<1>7. i <= e /\ e <= i
  <2>1. h[1] = 1 /\ h[2] = i
    BY <1>6
  <2>2. PICK g : g = <<1, e>>
    OBVIOUS
  <2>3. g \in P /\ g[1] = 1 /\ g[2] = e
    BY <1>3, <2>2
  <2>4. i <= e
    BY <1>5, <2>1, <2>3
  <2> QED BY <1>1, <2>4
<1> QED BY <1>1, <1>2, <1>6, <1>7

(* The blocks of a directory, and the places in them.                      *)
LEMMA DirectoryPlaces ==
  ASSUME WithinBounds, NEW f, NEW y, NEW d, IsDirectory(DataOf(f), y, d),
         NEW lbas, lbas = all_blocks_lba(f, y)
  PROVE  /\ lbas = [k \in 1..MaxBlocks |-> IF k = 1 THEN y.sec[1] ELSE 0]
         /\ AllBlocks(DataOf(f), y) = {y.sec[1]}
         /\ Places(lbas) = {<<1, e>> : e \in 1..EntriesPerSec}
         /\ \A e : EntryAt(f, lbas, <<1, e>>) = DataOf(f)[y.sec[1]][e]
<1>1. Direct \in Nat /\ Direct >= 1 /\ TableLen \in Nat /\ MaxBlocks = Direct + TableLen
  BY Sizes
<1>2. y.sec[1] \in Blocks /\ y.sec[1] # 0 /\ \A k \in 2..Direct + 1 : y.sec[k] = 0
  BY Sizes DEF IsDirectory
<1>3. y.sec[Direct + 1] = 0
  BY <1>1, <1>2
<1>4. \A k \in 1..MaxBlocks : lbas[k] = (IF k = 1 THEN y.sec[1] ELSE 0)
                               /\ Address(DataOf(f), y, k) = (IF k = 1 THEN y.sec[1] ELSE 0)
  BY <1>1, <1>2, <1>3 DEF all_blocks_lba, Address
<1>5. lbas = [k \in 1..MaxBlocks |-> IF k = 1 THEN y.sec[1] ELSE 0] /\ DOMAIN lbas = 1..MaxBlocks
  BY <1>4 DEF all_blocks_lba
<1>6. {k \in DOMAIN lbas : lbas[k] # 0} = {1} /\ 1 \in 1..MaxBlocks
  BY <1>1, <1>2, <1>5
<1>7. AllBlocks(DataOf(f), y) = {y.sec[1]}
  BY <1>2, <1>3, <1>4, <1>6 DEF AllBlocks, BlocksIn
<1>8. Places(lbas) = {<<1, e>> : e \in 1..EntriesPerSec}
  BY <1>6 DEF Places
<1>9. \A e : EntryAt(f, lbas, <<1, e>>) = DataOf(f)[y.sec[1]][e]
  BY <1>2, <1>5, <1>6 DEF EntryAt, DataOf
<1> QED BY <1>5, <1>7, <1>8, <1>9

(* search_dir_entry (dir.c:226) of a name that is not "." or "..".          *)
LEMMA SearchEntry ==
  ASSUME WithinBounds, NEW f, NEW y, NEW d, IsDirectory(DataOf(f), y, d),
         NEW nm, IsClean(nm), NEW en, en = search_dir_entry(f, y, nm),
         NEW s, s = DataOf(f)[y.sec[1]]
  PROVE  \/ en = NoEntry /\ \A e \in Rest : s[e].name # nm
         \/ \E e \in Rest : en = s[e] /\ IsNamed(s[e]) /\ s[e].name = nm
<1>1. PICK lbas : lbas = all_blocks_lba(f, y)
  OBVIOUS
<1>2. /\ Places(lbas) = {<<1, e>> : e \in 1..EntriesPerSec}
      /\ \A e : EntryAt(f, lbas, <<1, e>>) = s[e]
  BY <1>1, DirectoryPlaces
<1>3. PICK S : S = {e \in 1..EntriesPerSec : s[e].name = nm}
  OBVIOUS
<1>4. PICK P : P = {<<1, e>> : e \in S}
  OBVIOUS
<1>5. {h \in Places(lbas) : EntryAt(f, lbas, h).name = nm} = P
  BY <1>2, <1>3, <1>4
<1>6. en = IF P = {} THEN NoEntry ELSE EntryAt(f, lbas, FirstPlace(P))
  BY <1>1, <1>5 DEF search_dir_entry, SearchName, EntryAtFirst
<1>7. IsEntries(s, d) /\ EntriesPerSec \in Nat /\ EntriesPerSec >= 2
  BY Sizes DEF IsDirectory
<1>8. CASE S = {}
  <2>1. \A e \in Rest : s[e].name # nm
    BY <1>3, <1>8, <1>7 DEF Rest
  <2> QED BY <1>4, <1>6, <1>8, <2>1
<1>9. CASE S # {}
  <2>1. PICK e \in S : FirstPlace(P) = <<1, e>>
    <3>1. S \in SUBSET (1..EntriesPerSec)
      BY <1>3
    <3> QED BY <1>4, <1>7, <1>9, <3>1, FirstPlaceFacts
  <2>2. en = s[e] /\ s[e].name = nm /\ e \in 1..EntriesPerSec
    BY <1>2, <1>3, <1>4, <1>6, <1>9, <2>1
  <2>3. e # 1 /\ e # 2
    BY <1>7, <2>2, DotsFacts DEF IsEntries
  <2>4. e \in Rest
    BY <1>7, <2>2, <2>3 DEF Rest
  <2>5. IsNamed(s[e])
    <3>1. s[e] # NoEntry
      BY <2>2, DotFields, Zenon
    <3> QED BY <1>7, <2>4, <3>1, Zenon DEF IsEntries
  <2> QED BY <2>2, <2>4, <2>5
<1> QED BY <1>8, <1>9

(* What InodeAt finds of an inode of the tree.                             *)
LEMMA InodeAtFacts ==
  ASSUME WithinBounds, NEW f, NEW D, Good(f, D), NEW d \in f.ibits, NEW y, y = InodeAt(f, d)
  PROVE  /\ y.sec = NodesOf(f)[d].sec /\ y.size = NodesOf(f)[d].size
         /\ d \in D => IsDirectory(DataOf(f), y, d)
<1>1. d \in Few
  BY DEF Good, IsTree
<1>2. y.sec = NodesOf(f)[d].sec /\ y.size = NodesOf(f)[d].size
  <2>1. CASE d \in DOMAIN f.open
    <3>1. y = f.open[d] /\ IsOpen(y, NodesOf(f)[d])
      BY <2>1 DEF InodeAt, Good, OpenOK
    <3>2. PICK no, size, sec, cnt, deny : y = [no |-> no, size |-> size, sec |-> sec, cnt |-> cnt, deny |-> deny]
                                          /\ size = NodesOf(f)[d].size /\ sec = NodesOf(f)[d].sec
      BY <3>1 DEF IsOpen
    <3> QED BY <3>2
  <2>2. CASE d \notin DOMAIN f.open
    BY <1>1, <2>2 DEF InodeAt, NodesOf
  <2> QED BY <2>1, <2>2
<1>3. d \in D => IsDirectory(DataOf(f), NodesOf(f)[d], d)
  BY DEF Good, IsTree
<1> QED BY <1>2, <1>3 DEF IsDirectory

\* One step of the search.
IsAt(at) == at = [no |-> at.no, parent |-> at.parent, type |-> at.type, depth |-> at.depth,
                  held |-> at.held, done |-> at.done]

NextAt(no, parent, type, depth, held, done) ==
  [no |-> no, parent |-> parent, type |-> type, depth |-> depth, held |-> held, done |-> done]

Ended(at, no2, parent2, type2, depth2, done2) ==
  [at EXCEPT !.done = done2, !.parent = parent2, !.no = no2, !.type = type2, !.depth = depth2]

Deeper(at, no2, parent2, type2, depth2, held2) ==
  [at EXCEPT !.parent = parent2, !.no = no2, !.type = type2, !.depth = depth2, !.held = held2]

(* The fields of a record of the walk.                                     *)
LEMMA AtFields ==
  ASSUME NEW no, NEW parent, NEW type, NEW depth, NEW held, NEW done,
         NEW at, at = NextAt(no, parent, type, depth, held, done)
  PROVE  /\ IsAt(at) /\ at.no = no /\ at.parent = parent /\ at.type = type /\ at.depth = depth
         /\ at.held = held /\ at.done = done
BY DEF NextAt, IsAt

(* The walk goes on or ends.                                               *)
LEMMA AtChanges ==
  ASSUME NEW no, NEW parent, NEW type, NEW depth, NEW held, NEW done,
         NEW at, at = NextAt(no, parent, type, depth, held, done),
         NEW no2, NEW parent2, NEW type2, NEW depth2, NEW held2, NEW done2
  PROVE  /\ Ended(at, no2, parent2, type2, depth2, done2) = NextAt(no2, parent2, type2, depth2, held, done2)
         /\ Deeper(at, no2, parent2, type2, depth2, held2) = NextAt(no2, parent2, type2, depth2, held2, done)
<1>1. PICK a : a = [at EXCEPT !.done = done2]
  OBVIOUS
<1>2. PICK b : b = [a EXCEPT !.parent = parent2]
  OBVIOUS
<1>3. PICK c : c = [b EXCEPT !.no = no2]
  OBVIOUS
<1>4. PICK d : d = [c EXCEPT !.type = type2]
  OBVIOUS
<1>5. a = NextAt(no, parent, type, depth, held, done2)
  BY ONLY <1>1, at = NextAt(no, parent, type, depth, held, done) DEF NextAt
<1>6. b = NextAt(no, parent2, type, depth, held, done2)
  BY ONLY <1>2, <1>5 DEF NextAt
<1>7. c = NextAt(no2, parent2, type, depth, held, done2)
  BY ONLY <1>3, <1>6 DEF NextAt
<1>8. d = NextAt(no2, parent2, type2, depth, held, done2)
  BY ONLY <1>4, <1>7 DEF NextAt
<1>9. [d EXCEPT !.depth = depth2] = NextAt(no2, parent2, type2, depth2, held, done2)
  BY ONLY <1>8 DEF NextAt
<1>10. PICK e : e = [at EXCEPT !.parent = parent2]
  OBVIOUS
<1>11. PICK g : g = [e EXCEPT !.no = no2]
  OBVIOUS
<1>12. PICK h : h = [g EXCEPT !.type = type2]
  OBVIOUS
<1>13. PICK i : i = [h EXCEPT !.depth = depth2]
  OBVIOUS
<1>14. e = NextAt(no, parent2, type, depth, held, done)
  BY ONLY <1>10, at = NextAt(no, parent, type, depth, held, done) DEF NextAt
<1>15. g = NextAt(no2, parent2, type, depth, held, done)
  BY ONLY <1>11, <1>14 DEF NextAt
<1>16. h = NextAt(no2, parent2, type2, depth, held, done)
  BY ONLY <1>12, <1>15 DEF NextAt
<1>17. i = NextAt(no2, parent2, type2, depth2, held, done)
  BY ONLY <1>13, <1>16 DEF NextAt
<1>18. [i EXCEPT !.held = held2] = NextAt(no2, parent2, type2, depth2, held2, done)
  BY ONLY <1>17 DEF NextAt
<1>19. Ended(at, no2, parent2, type2, depth2, done2)       = [d EXCEPT !.depth = depth2]
  BY ONLY <1>1, <1>2, <1>3, <1>4, Zenon DEF Ended
<1>20. Deeper(at, no2, parent2, type2, depth2, held2)       = [i EXCEPT !.held = held2]
  BY ONLY <1>10, <1>11, <1>12, <1>13, Zenon DEF Deeper
<1> QED BY ONLY <1>9, <1>18, <1>19, <1>20, Zenon

(* A step of the search, by what the name has been found to be.            *)
LEMMA SearchStepFacts ==
  ASSUME NEW at, IsAt(at), at.done \in BOOLEAN, NEW en, NEW k
  PROVE  /\ at.done => SearchStep(at, en, k) = at
         /\ ~at.done /\ en = NoEntry =>
              SearchStep(at, en, k) = NextAt(-1, at.no, "unknown", k, at.held, TRUE)
         /\ ~at.done /\ IsNamed(en) /\ en.type = "regular" =>
              SearchStep(at, en, k) = NextAt(en.no, at.no, "regular", k, at.held, TRUE)
         /\ ~at.done /\ IsNamed(en) /\ en.type = "directory" =>
              SearchStep(at, en, k) = NextAt(en.no, at.no, "directory", k, TRUE, FALSE)
<1>1. PICK nm : nm = ""
  BY Zenon
<1>2. PICK x : x = SearchStep(at, en, k)
  OBVIOUS
<1>3. x = IF at.done THEN at
          ELSE IF en.name = nm
          THEN [at EXCEPT !.done = TRUE, !.parent = at.no, !.no = -1, !.type = "unknown", !.depth = k]
          ELSE IF en.type = "regular"
          THEN [at EXCEPT !.done = TRUE, !.parent = at.no, !.no = en.no, !.type = "regular", !.depth = k]
          ELSE [at EXCEPT !.parent = at.no, !.no = en.no, !.type = "directory", !.depth = k, !.held = TRUE]
  BY ONLY <1>1, <1>2, Zenon DEF SearchStep
<1>4. en = NoEntry => en.name = nm
  <2>1. NoEntry = Entry(nm, 0, "unknown")
    BY ONLY <1>1, Zenon DEF NoEntry, Entry
  <2> QED BY ONLY <2>1, EntryFields
<1>5. IsNamed(en) => en.name # nm
  BY ONLY <1>1, NotClean, Zenon DEF IsNamed
<1>6. PICK no, parent, type, depth, held, done : at = NextAt(no, parent, type, depth, held, done)
  BY DEF IsAt, NextAt
<1>7. /\ no = at.no /\ parent = at.parent /\ held = at.held /\ done = at.done
      /\ [at EXCEPT !.done = TRUE, !.parent = at.no, !.no = -1, !.type = "unknown", !.depth = k]
           = NextAt(-1, no, "unknown", k, held, TRUE)
      /\ [at EXCEPT !.done = TRUE, !.parent = at.no, !.no = en.no, !.type = "regular", !.depth = k]
           = NextAt(en.no, no, "regular", k, held, TRUE)
      /\ [at EXCEPT !.parent = at.no, !.no = en.no, !.type = "directory", !.depth = k, !.held = TRUE]
           = NextAt(en.no, no, "directory", k, TRUE, done)
  <2>1. no = at.no /\ parent = at.parent /\ held = at.held /\ done = at.done
    BY ONLY <1>6 DEF NextAt
  <2>2. PICK e1 : e1 = en.no
    OBVIOUS
  <2>6. PICK t : t = TRUE
    OBVIOUS
  <2>7. PICK m : m = -1
    OBVIOUS
  <2>8. PICK ty1, ty2, ty3 : ty1 = "unknown" /\ ty2 = "regular" /\ ty3 = "directory"
    OBVIOUS
  <2>3. [at EXCEPT !.done = TRUE, !.parent = no, !.no = -1, !.type = "unknown", !.depth = k]
           = NextAt(-1, no, "unknown", k, held, TRUE)
    <3>1. Ended(at, m, no, ty1, k, t)= NextAt(m, no, ty1, k, held, t)
      BY ONLY <1>6, AtChanges
    <3> QED BY ONLY <2>6, <2>7, <2>8, <3>1, Zenon DEF Ended, Deeper
  <2>4. [at EXCEPT !.done = TRUE, !.parent = no, !.no = e1, !.type = "regular", !.depth = k]
           = NextAt(e1, no, "regular", k, held, TRUE)
    <3>1. Ended(at, e1, no, ty2, k, t)= NextAt(e1, no, ty2, k, held, t)
      BY ONLY <1>6, AtChanges
    <3> QED BY ONLY <2>6, <2>8, <3>1, Zenon DEF Ended, Deeper
  <2>5. [at EXCEPT !.parent = no, !.no = e1, !.type = "directory", !.depth = k, !.held = TRUE]
           = NextAt(e1, no, "directory", k, TRUE, done)
    <3>1. Deeper(at, e1, no, ty3, k, t)= NextAt(e1, no, ty3, k, t, done)
      BY ONLY <1>6, AtChanges
    <3> QED BY ONLY <2>6, <2>8, <3>1, Zenon DEF Ended, Deeper
  <2> QED BY ONLY <2>1, <2>2, <2>3, <2>4, <2>5, Zenon
<1>8. at.done => x = at
  BY ONLY <1>3
<1>9. ~at.done /\ en = NoEntry => x = NextAt(-1, at.no, "unknown", k, at.held, TRUE)
  BY ONLY <1>3, <1>4, <1>7
<1>10. ~at.done /\ IsNamed(en) /\ en.type = "regular" => x = NextAt(en.no, at.no, "regular", k, at.held, TRUE)
  BY ONLY <1>3, <1>5, <1>7
<1>11. ~at.done /\ IsNamed(en) /\ en.type = "directory" =>
         x = NextAt(en.no, at.no, "directory", k, TRUE, FALSE)
  <2>1. "directory" # "regular"
    OBVIOUS
  <2>2. ~at.done => at.done = FALSE
    BY at.done \in BOOLEAN, Zenon
  <2>3. ~at.done /\ IsNamed(en) /\ en.type = "directory" =>
          x = NextAt(en.no, at.no, "directory", k, TRUE, at.done)
    BY ONLY <1>3, <1>5, <1>7, <2>1
  <2> QED BY ONLY <2>2, <2>3, Zenon
<1> QED BY ONLY <1>2, <1>8, <1>9, <1>10, <1>11

\* What search_file says of a path, when it has gone k names far.
RecOK(f, D, path, rec, k) ==
  /\ rec.depth \in 1..k /\ rec.parent \in D /\ rec.held \in BOOLEAN
  /\ rec.no = -1 => /\ rec.type = "unknown"
                    /\ \A e \in Rest : Sheet(NodesOf(f), DataOf(f), rec.parent)[e].name # path[rec.depth]
  /\ rec.no # -1 => \E e \in Rest : LET en == Sheet(NodesOf(f), DataOf(f), rec.parent)[e]
                                    IN  IsNamed(en) /\ en.no = rec.no /\ en.type = rec.type
  /\ ~rec.held => rec.parent = 0
  /\ rec.type = "directory" => rec.held
  /\ rec.depth = 1 /\ rec.type # "directory" => ~rec.held

AtOK(f, D, path, at, k) ==
  /\ IsAt(at) /\ at.done \in BOOLEAN /\ at.held \in BOOLEAN
  /\ ~at.done => at.no \in D
  /\ k = 0 => ~at.done /\ at.no = 0 /\ ~at.held
  /\ k # 0 => RecOK(f, D, path, at, k)
  /\ k # 0 /\ ~at.done => at.held

(* One more name.                                                          *)
LEMMA SearchOnce ==
  ASSUME WithinBounds, NEW f, NEW D, Good(f, D), NEW path, NEW k \in Nat, NEW at, AtOK(f, D, path, at, k),
         IsClean(path[k + 1]),
         NEW x, x = SearchStep(at, search_dir_entry(f, InodeAt(f, at.no), path[k + 1]), k + 1)
  PROVE  AtOK(f, D, path, x, k + 1)
<1>1. IsAt(at) /\ at.done \in BOOLEAN /\ at.held \in BOOLEAN /\ k + 1 # 0
  BY DEF AtOK
<1>2. CASE at.done
  <2>1. x = at
    BY <1>1, <1>2, SearchStepFacts
  <2>2. RecOK(f, D, path, at, k)
    BY <1>2 DEF AtOK
  <2>3. RecOK(f, D, path, at, k + 1)
    BY <2>2 DEF RecOK
  <2> QED BY <1>1, <1>2, <2>1, <2>3 DEF AtOK
<1>3. CASE ~at.done
  <2>1. at.no \in D /\ at.no \in f.ibits /\ at.held \in BOOLEAN /\ (~at.held => at.no = 0) /\ (k = 0 => ~at.held)
    BY <1>3 DEF AtOK, RecOK, Good, IsTree
  <2>2. PICK y : y = InodeAt(f, at.no)
    OBVIOUS
  <2>3. y.sec = NodesOf(f)[at.no].sec /\ IsDirectory(DataOf(f), y, at.no)
    BY <2>1, <2>2, InodeAtFacts
  <2>4. PICK s : s = Sheet(NodesOf(f), DataOf(f), at.no)
    OBVIOUS
  <2>5. PICK nm : nm = path[k + 1]
    OBVIOUS
  <2>6. PICK en : en = search_dir_entry(f, y, nm)
    OBVIOUS
  <2>7. \/ en = NoEntry /\ \A e \in Rest : s[e].name # nm
        \/ \E e \in Rest : en = s[e] /\ IsNamed(s[e]) /\ s[e].name = nm
    <3>1. s = DataOf(f)[y.sec[1]]
      BY <2>3, <2>4 DEF Sheet
    <3> QED BY <2>3, <2>5, <2>6, <3>1, SearchEntry
  <2>8. x = SearchStep(at, en, k + 1)
    BY <2>2, <2>5, <2>6
  <2>9. CASE en = NoEntry /\ \A e \in Rest : s[e].name # nm
    <3>1. x = NextAt(-1, at.no, "unknown", k + 1, at.held, TRUE)
      BY <1>1, <1>3, <2>8, <2>9, SearchStepFacts
    <3>2. /\ IsAt(x) /\ x.no = -1 /\ x.parent = at.no /\ x.type = "unknown" /\ x.depth = k + 1
          /\ x.held = at.held /\ x.done /\ x.done \in BOOLEAN
      <4>1. PICK t, u : t = TRUE /\ u = FALSE
        OBVIOUS
      <4>2. x = NextAt(-1, at.no, "unknown", k + 1, at.held, t)
        BY <3>1, <4>1, Zenon
      <4>3. /\ IsAt(x) /\ x.no = -1 /\ x.parent = at.no /\ x.type = "unknown" /\ x.depth = k + 1
            /\ x.held = at.held /\ x.done = t
        BY ONLY <4>2, AtFields
      <4> QED BY ONLY <4>1, <4>3, Zenon
    <3>3. RecOK(f, D, path, x, k + 1)
      BY <2>1, <2>4, <2>5, <2>9, <3>2 DEF RecOK
    <3> QED BY <1>1, <3>2, <3>3 DEF AtOK
  <2>10. ASSUME NEW e \in Rest, en = s[e], IsNamed(s[e]), s[e].name = nm
         PROVE  AtOK(f, D, path, x, k + 1)
    <3>1. en.type \in {"regular", "directory"} /\ en.type # "unknown"
      BY <2>10 DEF IsNamed
    <3>2. en.no \in Nat /\ en.no # -1 /\ (en.type = "directory" <=> en.no \in D)
      <4>1. IsKid(en, f.ibits, D) /\ f.ibits \subseteq Few
        BY <2>1, <2>4, <2>10 DEF Good, IsTree, ChildrenOK
      <4>2. en.no \in Few
        BY <3>1, <4>1 DEF IsKid
      <4> QED BY <3>1, <4>1, <4>2, FewFacts DEF IsKid
    <3>3. CASE en.type = "regular"
      <4>1. x = NextAt(en.no, at.no, "regular", k + 1, at.held, TRUE)
        BY <1>1, <1>3, <2>8, <2>10, <3>3, SearchStepFacts
      <4>2. /\ IsAt(x) /\ x.no = en.no /\ x.parent = at.no /\ x.type = "regular" /\ x.depth = k + 1
            /\ x.held = at.held /\ x.done /\ x.done \in BOOLEAN
        <5>1. PICK t, u : t = TRUE /\ u = FALSE
          OBVIOUS
        <5>2. x = NextAt(en.no, at.no, "regular", k + 1, at.held, t)
          BY <4>1, <5>1, Zenon
        <5>3. /\ IsAt(x) /\ x.no = en.no /\ x.parent = at.no /\ x.type = "regular" /\ x.depth = k + 1
              /\ x.held = at.held /\ x.done = t
          BY ONLY <5>2, AtFields
        <5> QED BY ONLY <5>1, <5>3, Zenon
      <4>3. RecOK(f, D, path, x, k + 1)
        BY <2>1, <2>4, <2>5, <2>10, <3>2, <3>3, <4>2 DEF RecOK
      <4> QED BY <1>1, <4>2, <4>3 DEF AtOK
    <3>4. CASE en.type = "directory"
      <4>1. x = NextAt(en.no, at.no, "directory", k + 1, TRUE, FALSE)
        BY <1>1, <1>3, <2>8, <2>10, <3>4, SearchStepFacts
      <4>2. /\ IsAt(x) /\ x.no = en.no /\ x.parent = at.no /\ x.type = "directory" /\ x.depth = k + 1
            /\ x.held /\ x.held \in BOOLEAN /\ ~x.done /\ x.done \in BOOLEAN
        <5>1. PICK t, u : t = TRUE /\ u = FALSE
          OBVIOUS
        <5>2. x = NextAt(en.no, at.no, "directory", k + 1, t, u)
          BY <4>1, <5>1, Zenon
        <5>3. /\ IsAt(x) /\ x.no = en.no /\ x.parent = at.no /\ x.type = "directory" /\ x.depth = k + 1
              /\ x.held = t /\ x.done = u
          BY ONLY <5>2, AtFields
        <5> QED BY ONLY <5>1, <5>3, Zenon
      <4>3. RecOK(f, D, path, x, k + 1)
        BY <2>1, <2>4, <2>5, <2>10, <3>2, <3>4, <4>2 DEF RecOK
      <4> QED BY <1>1, <3>2, <3>4, <4>2, <4>3 DEF AtOK
    <3> QED BY <3>1, <3>3, <3>4
  <2> QED BY <2>7, <2>9, <2>10
<1> QED BY <1>2, <1>3

\* The search of a path.
Searched(h, f, path, n) ==
  h = [k \in 0..n |->
         IF k = 0 THEN SearchStart
         ELSE SearchStep(h[k - 1], search_dir_entry(f, InodeAt(f, h[k - 1].no), path[k]), k)]

(* It has a result.                                                        *)
LEMMA SearchedExist ==
  ASSUME NEW f, NEW path, NEW len \in Nat
  PROVE  \E h : Searched(h, f, path, len)
<1> DEFINE T == {n \in 0..len : \E h : Searched(h, f, path, n)}
<1>1. 0 \in T
  <2>1. PICK h : h = [k \in 0..0 |-> SearchStart]
    OBVIOUS
  <2>2. Searched(h, f, path, 0)
    BY <2>1 DEF Searched
  <2> QED BY <2>2
<1>2. ASSUME NEW n \in 0..len - 1, n \in T PROVE n + 1 \in T
  <2>1. PICK h : Searched(h, f, path, n)
    BY <1>2
  <2>2. PICK x : x = SearchStep(h[n], search_dir_entry(f, InodeAt(f, h[n].no), path[n + 1]), n + 1)
    OBVIOUS
  <2>3. PICK g : g = [k \in 0..n + 1 |-> IF k = n + 1 THEN x ELSE h[k]]
    OBVIOUS
  <2>4. \A k \in 0..n : g[k] = h[k]
    BY <2>3
  <2>5. ASSUME NEW k \in 0..n + 1
        PROVE  g[k] = IF k = 0 THEN SearchStart
                      ELSE SearchStep(g[k - 1], search_dir_entry(f, InodeAt(f, g[k - 1].no), path[k]), k)
    <3>1. CASE k = n + 1
      <4>1. k - 1 = n /\ k # 0 /\ g[k - 1] = h[n]
        BY <2>4, <3>1
      <4>2. g[k] = x
        BY <2>3, <3>1
      <4> QED BY <2>2, <3>1, <4>1, <4>2
    <3>2. CASE k # n + 1
      <4>1. k \in 0..n /\ (k # 0 => k - 1 \in 0..n)
        BY <3>2
      <4> QED BY <2>1, <2>4, <4>1 DEF Searched
    <3> QED BY <3>1, <3>2
  <2>6. g = [k \in 0..n + 1 |-> g[k]]
    BY <2>3
  <2>7. Searched(g, f, path, n + 1)
    BY <2>5, <2>6 DEF Searched
  <2> QED BY <2>7
<1>3. \A n \in 0..len : n \in T
  <2> HIDE DEF T
  <2> QED BY <1>1, <1>2, Upto
<1> QED BY <1>3

(* search_file (fs.c:414) of a path.                                       *)
LEMMA SearchFile ==
  ASSUME WithinBounds, NEW f, NEW D, Good(f, D), NEW path \in Paths, NEW rec, rec = search_file(f, path)
  PROVE  RecOK(f, D, path, rec, Len(path)) /\ Len(path) \in Nat \ {0}
         /\ \A k \in 1..Len(path) : IsClean(path[k])
<1>1. path # <<>> /\ path \in Seq(Range(path)) /\ Range(path) \cap {"", ".", ".."} = {}
  BY FsAssumption, Zenon DEF WithinBounds
<1>2. PICK S : path \in Seq(S) /\ S = Range(path)
  BY <1>1, Zenon
<1>3. Len(path) \in Nat \ {0} /\ \A k \in 1..Len(path) : path[k] \in S
  <2>1. path # <<>> /\ path \in Seq(S)
    BY <1>1, <1>2, Zenon
  <2>2. Len(path) \in Nat /\ \A k \in 1..Len(path) : path[k] \in S
    BY ONLY <2>1
  <2>3. Len(path) # 0
    BY ONLY <2>1, EmptySeq
  <2> QED BY <2>2, <2>3
<1>4. \A x \in S : IsClean(x)
  BY <1>1, <1>2, Zenon DEF IsClean
<1>5. PICK n \in Nat \ {0} : n = Len(path)
  BY <1>3
<1>6. PICK h : Searched(h, f, path, n) /\ rec = h[n]
  <2>1. PICK h : h = CHOOSE x : Searched(x, f, path, n)
    OBVIOUS
  <2>2. Searched(h, f, path, n)
    BY <1>5, <2>1, SearchedExist
  <2>3. rec = (CHOOSE x : Searched(x, f, path, n))[n]
    BY <1>5 DEF search_file, Searched
  <2> QED BY <2>1, <2>2, <2>3
<1>7. \A k \in 0..n : h[k] = IF k = 0 THEN SearchStart
         ELSE SearchStep(h[k - 1], search_dir_entry(f, InodeAt(f, h[k - 1].no), path[k]), k)
  BY <1>6 DEF Searched
<1> DEFINE T == {k \in 0..n : AtOK(f, D, path, h[k], k)}
<1>8. 0 \in T
  <2>1. PICK u : u = FALSE
    OBVIOUS
  <2>2. SearchStart = NextAt(0, 0, "directory", 0, u, u)
    BY <2>1, Zenon DEF SearchStart, NextAt
  <2>3. IsAt(SearchStart) /\ SearchStart.no = 0 /\ SearchStart.held = u /\ SearchStart.done = u
    BY ONLY <2>2, AtFields
  <2>4. 0 \in D
    BY DEF Good, IsTree
  <2>5. AtOK(f, D, path, SearchStart, 0)
    BY <2>1, <2>3, <2>4, Zenon DEF AtOK
  <2>6. h[0] = SearchStart /\ 0 \in 0..n
    BY <1>7
  <2> QED BY <2>5, <2>6
<1>9. ASSUME NEW k \in 0..n - 1, k \in T PROVE k + 1 \in T
  <2>1. k \in Nat /\ k + 1 \in 0..n /\ k + 1 \in 1..n /\ k + 1 # 0 /\ (k + 1) - 1 = k
    OBVIOUS
  <2>2. IsClean(path[k + 1])
    BY <1>3, <1>4, <1>5, <2>1
  <2>3. h[k + 1] = SearchStep(h[k], search_dir_entry(f, InodeAt(f, h[k].no), path[k + 1]), k + 1)
    BY <1>7, <2>1
  <2>4. AtOK(f, D, path, h[k], k)
    BY <1>9
  <2>5. AtOK(f, D, path, h[k + 1], k + 1)
    BY <2>1, <2>2, <2>3, <2>4, SearchOnce
  <2> QED BY <2>1, <2>5
<1>10. \A k \in 0..n : k \in T
  <2> HIDE DEF T
  <2> QED BY <1>8, <1>9, Upto
<1>11. AtOK(f, D, path, rec, n) /\ n # 0
  BY <1>6, <1>10
<1> QED BY <1>3, <1>4, <1>5, <1>11 DEF AtOK

-----------------------------------------------------------------------------
(* Entries of a directory that is open *)

IsInode(x) == x = [no |-> x.no, size |-> x.size, sec |-> x.sec, cnt |-> x.cnt, deny |-> x.deny]

\* An open directory with another size, and its sector with another entry.
Resized(open, no, n) == [open EXCEPT ![no].size = n]

Edited(A, lba, e, en) == Changed(A, lba, Changed(A[lba], e, en))

\* The directory no is open, and what it holds is on the disk.
IsOpenDirectory(f, no) ==
  /\ no \in DOMAIN f.open /\ f.open = [i \in DOMAIN f.open |-> f.open[i]]
  /\ IsInode(f.open[no]) /\ f.open[no].no = no /\ f.open[no].size \in Nat
  /\ IsDirectory(DataOf(f), f.open[no], no)

(* A directory's sector with another entry may be on the disk.             *)
LEMMA EditedSector ==
  ASSUME WithinBounds, NEW f, NEW y, NEW d, IsDirectory(DataOf(f), y, d), NEW e \in Rest, NEW en,
         NEW lba, lba = y.sec[1], NEW t, t = Changed(f.disk[lba], e, en)
  PROVE  /\ lba \in Blocks /\ lba \in Nat /\ lba >= data_start_lba /\ lba < SecCnt /\ f.disk[lba] = DataOf(f)[lba]
         /\ IsSector(t) /\ Edited(DataOf(f), lba, e, en) = Changed(DataOf(f), lba, t)
<1>1. lba \in Blocks /\ data_start_lba \in Nat /\ SecCnt \in Nat /\ IsEntries(DataOf(f)[lba], d)
  BY Sizes DEF IsDirectory
<1>2. lba \in Nat /\ lba >= data_start_lba /\ lba < SecCnt
  BY <1>1 DEF Blocks
<1>3. f.disk[lba] = DataOf(f)[lba]
  BY <1>1 DEF DataOf
<1>4. PICK s : s = f.disk[lba]
  OBVIOUS
<1>5. s = [i \in 1..EntriesPerSec |-> s[i]]
  BY <1>1, <1>3, <1>4 DEF IsEntries
<1>6. t = [s EXCEPT ![e] = en]
  BY <1>4 DEF Changed
<1>7. IsSector(t)
  <2>1. DOMAIN t = 1..EntriesPerSec /\ t = [w \in DOMAIN t |-> t[w]]
    BY ONLY <1>5, <1>6
  <2>2. 1..EntriesPerSec \subseteq Nat \ {0}
    BY Sizes
  <2> QED BY <2>1, <2>2 DEF IsSector
<1> QED BY <1>1, <1>2, <1>3, <1>4, <1>6, <1>7 DEF Edited

(* sync_dir_entry (dir.c:312) where there is room.                         *)
LEMMA AddEffect ==
  ASSUME WithinBounds, NEW f, DiskShape(f), f.panic = "none", NEW no, IsOpenDirectory(f, no),
         NEW A, A = DataOf(f), NEW lba, lba = f.open[no].sec[1],
         \E e \in Rest : A[lba][e].type = "unknown",
         NEW de, NEW g, g = sync_dir_entry(f, no, de)
  PROVE  /\ g.panic = "none" /\ DiskShape(g) /\ NodesOf(g) = NodesOf(f)
         /\ g.bbits = f.bbits /\ g.ibits = f.ibits
         /\ g.open = Resized(f.open, no, f.open[no].size + 1)
         /\ \E e \in Rest : A[lba][e].type = "unknown" /\ DataOf(g) = Edited(A, lba, e, de)
<1>1. PICK y : y = f.open[no] /\ IsDirectory(A, y, no)
  BY DEF IsOpenDirectory
<1>2. /\ lba \in Blocks /\ lba \in Nat /\ lba >= data_start_lba /\ lba < SecCnt /\ lba # 0
      /\ f.disk[lba] = A[lba] /\ IsEntries(A[lba], no)
      /\ Direct \in Nat /\ Direct >= 1 /\ TableLen \in Nat /\ MaxBlocks = Direct + TableLen
      /\ EntriesPerSec \in Nat /\ EntriesPerSec >= 2
  <2>1. lba \in Blocks /\ IsEntries(A[lba], no)
    BY <1>1 DEF IsDirectory
  <2>2. f.disk[lba] = A[lba]
    BY <2>1 DEF DataOf
  <2>3. lba \in Nat \ {0}
    BY <2>1, Sizes
  <2>4. lba >= data_start_lba /\ lba < SecCnt
    BY <2>1, <2>3, Layout DEF Blocks
  <2> QED BY <2>1, <2>2, <2>3, <2>4, Sizes
<1>3. PICK s : s = A[lba]
  OBVIOUS
<1>4. PICK S : S = {e \in 1..EntriesPerSec : s[e].type = "unknown"}
  OBVIOUS
<1>5. S # {} /\ S \in SUBSET Nat
  <2>1. PICK i \in Rest : s[i].type = "unknown"
    BY <1>3
  <2>2. i \in 1..EntriesPerSec
    BY <1>2, <2>1 DEF Rest
  <2> QED BY <1>4, <2>1, <2>2
<1>6. PICK e : e = Lowest(S) /\ e \in S
  BY <1>5, LowestFacts
<1>7. e \in Rest /\ s[e].type = "unknown"
  <2>1. s[1].type = "directory" /\ s[2].type = "directory"
    BY <1>2, <1>3, DotsFacts, Zenon DEF IsEntries
  <2>2. e # 1 /\ e # 2
    BY <1>4, <1>6, <2>1
  <2> QED BY <1>2, <1>4, <1>6, <2>2 DEF Rest
<1>8. PICK K : K = {k \in 1..Direct + 1 :
                      SyncBlocks(y)[k] = 0
                        \/ \E i \in 1..EntriesPerSec : f.disk[SyncBlocks(y)[k]][i].type = "unknown"}
  OBVIOUS
<1>9. SyncBlocks(y)[1] = lba
  BY <1>1, <1>2 DEF SyncBlocks
<1>10. 1 \in K /\ K \in SUBSET Nat /\ \A k \in K : 1 <= k
  <2>1. e \in 1..EntriesPerSec /\ f.disk[SyncBlocks(y)[1]][e].type = "unknown"
    BY <1>2, <1>3, <1>4, <1>6, <1>7, <1>9, Zenon
  <2> QED BY <1>2, <1>8, <2>1
<1>11. Lowest(K) = 1
  <2>1. Lowest(K) \in K /\ Lowest(K) <= 1 /\ Lowest(K) \in Nat
    BY <1>10, LowestFacts
  <2> QED BY <1>10, <2>1
<1>12. BlockForEntry(f, SyncBlocks(y)) = 1
  BY <1>8, <1>11 DEF BlockForEntry
<1>13. g = AddEntry(f, no, lba, de)
  BY <1>1, <1>2, <1>12 DEF sync_dir_entry, AddAt
<1>14. PICK h : h = ide_write(f, lba, [f.disk[lba] EXCEPT ![e] = de])
  OBVIOUS
<1>15. g = Bigger(h, no)
  BY <1>2, <1>3, <1>4, <1>6, <1>13, <1>14, Zenon DEF AddEntry
<1>16. PICK t : t = Changed(f.disk[lba], e, de)
  OBVIOUS
<1>17. /\ h.panic = "none" /\ h.open = f.open /\ h.bbits = f.bbits /\ h.ibits = f.ibits
       /\ DiskShape(h) /\ NodesOf(h) = NodesOf(f) /\ DataOf(h) = Edited(A, lba, e, de)
  <2>1. f.open[no].sec[1] = lba /\ IsDirectory(DataOf(f), y, no) /\ y.sec[1] = lba
    BY <1>1
  <2>2. IsSector(t) /\ Edited(A, lba, e, de) = Changed(A, lba, t)
    BY <1>7, <1>16, <2>1, EditedSector
  <2>3. h = ide_write(f, lba, t)
    BY <1>14, <1>16 DEF Changed
  <2> QED BY <1>2, <2>2, <2>3, DataEffect
<1>18. /\ SameDisk(h, g) /\ g.panic = h.panic /\ g.bbits = h.bbits /\ g.ibits = h.ibits
       /\ g.open = Resized(h.open, no, h.open[no].size + 1)
  <2>1. IsFs(h)
    BY <1>17 DEF DiskShape
  <2> QED BY <1>15, <2>1, BiggerFollows DEF Resized
<1>19. Quiet(h, g)
  BY <1>17, <1>18, QuietMemory
<1>20. g.open = Resized(f.open, no, f.open[no].size + 1)
  BY <1>17, <1>18
<1> QED BY <1>3, <1>7, <1>17, <1>18, <1>19, <1>20 DEF Quiet

(* An inode with another size is written back.                             *)
LEMMA ResizedFields ==
  ASSUME NEW open, NEW no \in DOMAIN open, open = [i \in DOMAIN open |-> open[i]], IsInode(open[no]), NEW n,
         NEW op2, op2 = Resized(open, no, n)
  PROVE  /\ op2 = [i \in DOMAIN open |-> IF i = no THEN op2[no] ELSE open[i]] /\ DOMAIN op2 = DOMAIN open
         /\ op2[no] = [no |-> open[no].no, size |-> n, sec |-> open[no].sec, cnt |-> open[no].cnt,
                       deny |-> open[no].deny]
         /\ \A i \in DOMAIN open : i # no => op2[i] = open[i]
<1>1. PICK x : x = [open[no] EXCEPT !.size = n]
  OBVIOUS
<1>2. op2 = [open EXCEPT ![no] = x]
  BY <1>1 DEF Resized
<1>3. PICK y : y = open[no]
  OBVIOUS
<1>4. x = [no |-> y.no, size |-> n, sec |-> y.sec, cnt |-> y.cnt, deny |-> y.deny]
  <2>1. IsInode(y) /\ x = [y EXCEPT !.size = n]
    BY <1>1, <1>3
  <2> QED BY ONLY <2>1 DEF IsInode
<1> QED BY <1>2, <1>3, <1>4

\* The one entry of a child.
OnlyChild(s, e, child) ==
  /\ IsNamed(s[e]) /\ s[e].no = child
  /\ \A i \in Rest : s[i].type # "unknown" /\ s[i].no = child => i = e

(* delete_dir_entry (dir.c:82) of the one entry of a child.               *)
LEMMA DeleteEffect ==
  ASSUME WithinBounds, NEW f, DiskShape(f), f.panic = "none", NEW no \in Few, IsOpenDirectory(f, no),
         NEW A, A = DataOf(f), NEW lba, lba = f.open[no].sec[1], NEW child,
         NEW e \in Rest, OnlyChild(A[lba], e, child), f.open[no].size >= 1,
         NEW g, g = delete_dir_entry(f, no, child)
  PROVE  /\ g.panic = "none" /\ DiskShape(g)
         /\ g.bbits = f.bbits /\ g.ibits = f.ibits
         /\ g.open = Resized(f.open, no, f.open[no].size - 1)
         /\ NodesOf(g) = Changed(NodesOf(f), no, OnDisk(g.open[no]))
         /\ DataOf(g) = Edited(A, lba, e, NoEntry)
<1>0. /\ IsNamed(A[lba][e]) /\ A[lba][e].no = child
      /\ \A i \in Rest : A[lba][i].type # "unknown" /\ A[lba][i].no = child => i = e
  BY Zenon DEF OnlyChild
<1>1. PICK y : y = f.open[no] /\ IsDirectory(DataOf(f), y, no) /\ y.sec[1] = lba
  BY DEF IsOpenDirectory
<1>2. PICK lbas : lbas = all_blocks_lba(f, y)
  OBVIOUS
<1>3. /\ Places(lbas) = {<<1, i>> : i \in 1..EntriesPerSec}
      /\ \A i : EntryAt(f, lbas, <<1, i>>) = A[lba][i]
      /\ lbas = [k \in 1..MaxBlocks |-> IF k = 1 THEN y.sec[1] ELSE 0]
  <2>1. IsDirectory(DataOf(f), y, no)
    BY <1>1
  <2>2. /\ Places(lbas) = {<<1, i>> : i \in 1..EntriesPerSec}
        /\ \A i : EntryAt(f, lbas, <<1, i>>) = DataOf(f)[y.sec[1]][i]
        /\ lbas = [k \in 1..MaxBlocks |-> IF k = 1 THEN y.sec[1] ELSE 0]
    BY ONLY WithinBounds, <1>2, <2>1, DirectoryPlaces
  <2> QED BY <1>1, <2>2
<1>4. PICK s : s = A[lba]
  OBVIOUS
<1>5. IsEntries(s, no) /\ Dots(s, no) /\ lba \in Blocks /\ EntriesPerSec \in Nat /\ EntriesPerSec >= 2
      /\ MaxBlocks \in Nat /\ MaxBlocks >= 1
  <2>1. IsEntries(s, no) /\ lba \in Blocks
    BY <1>1, <1>4 DEF IsDirectory
  <2>2. Dots(s, no)
    BY <2>1 DEF IsEntries
  <2>3. EntriesPerSec \in Nat /\ EntriesPerSec >= 2 /\ MaxBlocks \in Nat /\ MaxBlocks >= 1
    BY Sizes
  <2> QED BY <2>1, <2>2, <2>3
<1>6. e \in 1..EntriesPerSec /\ e >= 3 /\ e \in Nat /\ 1 \in 1..e
  BY <1>5 DEF Rest
<1>7. ASSUME NEW i \in 1..EntriesPerSec PROVE IsChild(s[i], child) <=> i = e
  <2>1. CASE i \in {1, 2}
    <3>1. IsDot(s[i])
      BY <1>5, <2>1, DotsFacts
    <3> QED BY <1>6, <2>1, <3>1 DEF IsChild
  <2>2. CASE i \notin {1, 2}
    <3>1. i \in Rest
      BY <1>5, <2>2 DEF Rest
    <3>2. IsChild(s[i], child) => i = e
      BY <1>0, <1>4, <3>1, Zenon DEF IsChild
    <3>3. IsChild(s[e], child)
      <4>1. s[e].type # "unknown" /\ IsClean(s[e].name) /\ s[e].no = child
        BY <1>0, <1>4, Zenon DEF IsNamed
      <4>2. ~IsDot(s[e])
        BY <4>1, CleanFacts
      <4> QED BY <4>1, <4>2 DEF IsChild
    <3> QED BY <3>2, <3>3
  <2> QED BY <2>1, <2>2
<1>8. PICK S : S = {e}
  OBVIOUS
<1>9. PICK P : P = {<<1, i>> : i \in S}
  OBVIOUS
<1>10. {h \in Places(lbas) : IsChild(EntryAt(f, lbas, h), child)} = P
  <2>1. \A i \in 1..EntriesPerSec : IsChild(EntryAt(f, lbas, <<1, i>>), child) <=> i = e
    BY <1>3, <1>4, <1>7, Zenon
  <2>2. Places(lbas) = {<<1, i>> : i \in 1..EntriesPerSec} /\ e \in 1..EntriesPerSec
    BY <1>3, <1>6
  <2> QED BY ONLY <1>8, <1>9, <2>1, <2>2
<1>11. FirstPlace(P) = <<1, e>>
  <2>1. S \in SUBSET (1..EntriesPerSec) /\ S # {}
    BY <1>6, <1>8
  <2>2. \E i \in S : FirstPlace(P) = <<1, i>> /\ \A j \in S : i <= j
    BY <1>5, <1>9, <2>1, FirstPlaceFacts
  <2> QED BY <1>8, <2>2
<1>12. PICK h : h = <<1, e>>
  OBVIOUS
<1>13. h[1] = 1 /\ h[2] = e /\ lbas[1] = lba
  <2>1. lbas = [k \in 1..MaxBlocks |-> IF k = 1 THEN lba ELSE 0]
    BY <1>1, <1>3
  <2>2. lbas[1] = lba
    BY ONLY <1>5, <2>1
  <2> QED BY ONLY <1>12, <2>2
<1>14. DeleteAt(f, no, lbas, h) = EraseEntry(f, lba, e)
  <2>1. PICK upto : upto = {EntryAt(f, lbas, <<h[1], i>>) : i \in 1..h[2]}
    OBVIOUS
  <2>2. s[1] \in upto /\ s[1].name = "."
    <3>1. s[1] \in upto
      BY <1>3, <1>4, <1>6, <1>13, <2>1
    <3>2. s[1].name = "."
      BY <1>5, DotsFacts
    <3> QED BY <3>1, <3>2
  <2>3. \E x \in upto : x.name = "."
    BY ONLY <2>2, Zenon
  <2> QED BY <1>13, <2>1, <2>3 DEF DeleteAt
<1>15. PICK a : a = EraseEntry(f, lba, e)
  OBVIOUS
<1>16. g = SyncOpen(Smaller(a, no), no)
  <2>1. P # {}
    BY <1>8, <1>9
  <2>2. g = DeleteFirst(f, no, lbas, P)
    BY <1>1, <1>2, <1>10 DEF delete_dir_entry, DeleteIn
  <2> QED BY <1>11, <1>12, <1>14, <1>15, <2>1, <2>2 DEF DeleteFirst
<1>17. PICK t : t = Changed(f.disk[lba], e, NoEntry)
  OBVIOUS
<1>18. /\ a.panic = "none" /\ a.open = f.open /\ a.bbits = f.bbits /\ a.ibits = f.ibits
       /\ DiskShape(a) /\ NodesOf(a) = NodesOf(f) /\ DataOf(a) = Edited(A, lba, e, NoEntry)
  <2>1. PICK en : en = NoEntry
    OBVIOUS
  <2>2. t = Changed(f.disk[lba], e, en) /\ IsDirectory(DataOf(f), y, no) /\ lba = y.sec[1]
    BY <1>1, <1>17, <2>1
  <2>3. /\ IsSector(t) /\ Edited(DataOf(f), lba, e, en) = Changed(DataOf(f), lba, t)
        /\ lba \in Nat /\ lba >= data_start_lba /\ lba < SecCnt
    BY ONLY WithinBounds, e \in Rest, <2>2, EditedSector
  <2>4. a = ide_write(f, lba, t)
    BY <1>15, <1>17 DEF EraseEntry, Changed
  <2>5. a.panic \in {"none", "outside"}
    BY ONLY WithinBounds, DiskShape(f), f.panic = "none", <2>3, <2>4, DataEffect
  <2>6. /\ a.panic = "none" /\ a.open = f.open /\ a.bbits = f.bbits /\ a.ibits = f.ibits
        /\ DiskShape(a) /\ NodesOf(a) = NodesOf(f) /\ DataOf(a) = Changed(DataOf(f), lba, t)
    BY ONLY WithinBounds, DiskShape(f), f.panic = "none", <2>3, <2>4, DataEffect
  <2> QED BY <2>1, <2>3, <2>6
<1>19. PICK b : b = Smaller(a, no)
  OBVIOUS
<1>20. /\ SameDisk(a, b) /\ b.panic = a.panic /\ b.bbits = a.bbits /\ b.ibits = a.ibits
       /\ b.open = Resized(a.open, no, a.open[no].size - 1)
  <2>1. b = [a EXCEPT !.open[no].size = @ - 1]
    BY <1>18, <1>19 DEF Smaller, ASSERT
  <2>2. PICK x : x = Resized(a.open, no, a.open[no].size - 1)
    OBVIOUS
  <2>3. b = [a EXCEPT !.open = x]
    BY <2>1, <2>2 DEF Resized
  <2>4. IsFs(a)
    BY <1>18 DEF DiskShape
  <2> QED BY <2>2, <2>3, <2>4, OpenFollows
<1>21. Quiet(a, b)
  BY <1>18, <1>20, QuietMemory
<1>22. b.open[no].no = no
  <2>1. PICK op : op = f.open
    OBVIOUS
  <2>2. no \in DOMAIN op /\ op = [i \in DOMAIN op |-> op[i]] /\ IsInode(op[no]) /\ op[no].no = no
    BY <2>1 DEF IsOpenDirectory
  <2>3. b.open = Resized(op, no, op[no].size - 1)
    BY <1>18, <1>20, <2>1
  <2>4. b.open[no] = [no |-> op[no].no, size |-> op[no].size - 1, sec |-> op[no].sec, cnt |-> op[no].cnt,
                      deny |-> op[no].deny]
    BY <2>2, <2>3, ResizedFields
  <2> QED BY <2>2, <2>4
<1>23. /\ g.panic = "none" /\ DiskShape(g)
       /\ g.open = b.open /\ g.bbits = b.bbits /\ g.ibits = b.ibits
       /\ NodesOf(g) = Changed(NodesOf(b), no, OnDisk(b.open[no]))
       /\ DataOf(g) = DataOf(b)
  <2>1. PICK x : x = b.open[no]
    OBVIOUS
  <2>2. g = inode_sync(b, x) /\ x.no \in Few /\ x.no = no
    BY <1>16, <1>19, <1>22, <2>1 DEF SyncOpen
  <2>3. DiskShape(b) /\ b.panic = "none"
    BY <1>18, <1>20, <1>21 DEF Quiet
  <2> QED BY <2>1, <2>2, <2>3, InodeSyncEffect
<1>24. g.open = Resized(f.open, no, f.open[no].size - 1)
  BY <1>18, <1>20, <1>23
<1> QED BY <1>18, <1>20, <1>21, <1>23, <1>24 DEF Quiet

-----------------------------------------------------------------------------
(* open_inodes *)

\* How many users an inode has.
Cnt(open, no) == IF no \in DOMAIN open THEN open[no].cnt ELSE 0

Node(no, size, sec, cnt, deny) == [no |-> no, size |-> size, sec |-> sec, cnt |-> cnt, deny |-> deny]

(* An inode with another count, or that has been denied to writers.        *)
LEMMA NodeChanges ==
  ASSUME NEW no, NEW size, NEW sec, NEW cnt, NEW deny, NEW x, x = Node(no, size, sec, cnt, deny), NEW v
  PROVE  /\ x.no = no /\ x.size = size /\ x.sec = sec /\ x.cnt = cnt /\ x.deny = deny
         /\ [x EXCEPT !.cnt = v] = Node(no, size, sec, v, deny)
         /\ [x EXCEPT !.deny = v] = Node(no, size, sec, cnt, v)
         /\ [x EXCEPT !.sec = v] = Node(no, size, v, cnt, deny)
         /\ [x EXCEPT !.size = v] = Node(no, v, sec, cnt, deny)
BY DEF Node

(* An open inode, by its fields.                                           *)
LEMMA IsOpenFacts ==
  ASSUME NEW x, NEW y
  PROVE  /\ IsOpen(x, y) => /\ x.no = y.no /\ x.size = y.size /\ x.sec = y.sec /\ x.cnt \in Nat \ {0}
                            /\ x.deny \in BOOLEAN /\ x = Node(y.no, y.size, y.sec, x.cnt, x.deny)
         /\ \A cnt \in Nat \ {0}, deny \in BOOLEAN : IsOpen(Node(y.no, y.size, y.sec, cnt, deny), y)
<1>1. ASSUME IsOpen(x, y)
      PROVE  /\ x.no = y.no /\ x.size = y.size /\ x.sec = y.sec /\ x.cnt \in Nat \ {0}
             /\ x.deny \in BOOLEAN /\ x = Node(y.no, y.size, y.sec, x.cnt, x.deny)
  <2>1. x = Node(y.no, y.size, y.sec, x.cnt, x.deny)
    BY <1>1 DEF IsOpen, Node
  <2>2. PICK no, size, sec, cnt, deny : x = Node(no, size, sec, cnt, deny) /\ no = y.no /\ size = y.size /\ sec = y.sec
    BY <2>1
  <2>3. x.no = no /\ x.size = size /\ x.sec = sec
    BY ONLY <2>2, NodeChanges
  <2> QED BY <1>1, <2>1, <2>2, <2>3 DEF IsOpen
<1>2. ASSUME NEW cnt \in Nat \ {0}, NEW deny \in BOOLEAN, NEW z, z = Node(y.no, y.size, y.sec, cnt, deny)
      PROVE  IsOpen(z, y)
  <2>1. z.cnt = cnt /\ z.deny = deny
    BY ONLY <1>2, NodeChanges
  <2> QED BY <1>2, <2>1 DEF IsOpen, Node
<1> QED BY <1>1, <1>2

\* An inode has one user more, or one less.
OneUser(m, no) == IF m = no THEN 1 ELSE 0

UserMore(open, op2, no) ==
  DOMAIN op2 = DOMAIN open \cup {no} /\ \A m : Cnt(op2, m) = Cnt(open, m) + OneUser(m, no)
UserLess(open, op2, no) == \A m : Cnt(op2, m) = Cnt(open, m) - OneUser(m, no)
SameCnt(open, op2) == DOMAIN op2 = DOMAIN open /\ \A m : Cnt(op2, m) = Cnt(open, m)

\* write_deny of an open inode.
Denied(open, no, deny) == [open EXCEPT ![no].deny = deny]

(* One user more.                                                          *)
LEMMA LinkedOK ==
  ASSUME NEW V, NEW N, NEW open, OpenOK(V, N, open), NEW no \in N, IsNode(V[no], no),
         NEW op2, op2 = Linked(open, no, V[no])
  PROVE  OpenOK(V, N, op2) /\ UserMore(open, op2, no)
<1>1. /\ open = [i \in DOMAIN open |-> open[i]] /\ DOMAIN open \subseteq N
      /\ \A i \in DOMAIN open : IsOpen(open[i], V[i]) /\ open[i].cnt \in Nat \ {0}
  BY IsOpenFacts DEF OpenOK
<1>2. \E x : /\ op2 = [i \in DOMAIN open \cup {no} |-> IF i = no THEN x ELSE open[i]]
             /\ IsOpen(x, V[no]) /\ x.cnt = Cnt(open, no) + 1
  <2>1. CASE no \in DOMAIN open
    <3>1. PICK y : y = open[no] /\ IsOpen(y, V[no])
      BY <1>1, <2>1
    <3>2. PICK n : n = y.cnt + 1
      OBVIOUS
    <3>3. PICK x : x = [y EXCEPT !.cnt = n]
      OBVIOUS
    <3>4. op2 = [open EXCEPT ![no] = x]
      BY <2>1, <3>1, <3>2, <3>3 DEF Linked
    <3>5. y.cnt \in Nat \ {0} /\ y.deny \in BOOLEAN
      BY <3>1 DEF IsOpen
    <3>6. n \in Nat \ {0}
      BY <3>2, <3>5
    <3>7. x = Node(V[no].no, V[no].size, V[no].sec, n, y.deny)
      <4>1. PICK a, b, c, d, e : y = Node(a, b, c, d, e) /\ a = V[no].no /\ b = V[no].size /\ c = V[no].sec /\ e = y.deny
        BY <3>1, IsOpenFacts
      <4>2. x = Node(a, b, c, n, e)
        BY ONLY <3>3, <4>1, NodeChanges
      <4> QED BY ONLY <4>1, <4>2
    <3>8. IsOpen(x, V[no])
      BY <3>5, <3>6, <3>7, IsOpenFacts
    <3>9. x.cnt = n
      BY <3>7, NodeChanges
    <3>10. op2 = [i \in DOMAIN open \cup {no} |-> IF i = no THEN x ELSE open[i]]
      BY <1>1, <2>1, <3>4
    <3> QED BY <2>1, <3>1, <3>2, <3>8, <3>9, <3>10 DEF Cnt
  <2>2. CASE no \notin DOMAIN open
    <3>1. PICK x : x = V[no]
      OBVIOUS
    <3>2. op2 = [i \in DOMAIN open \cup {no} |-> IF i = no THEN x ELSE open[i]]
      BY <2>2, <3>1 DEF Linked, Link
    <3>3. x = Node(no, x.size, x.sec, 1, FALSE)
      BY <3>1 DEF IsNode, Node
    <3>4. PICK f : f = FALSE
      OBVIOUS
    <3>5. x.no = no /\ x.cnt = 1 /\ x.deny = f
      <4>1. x = Node(no, x.size, x.sec, 1, f)
        BY ONLY <3>3, <3>4, Zenon
      <4> QED BY ONLY <4>1, NodeChanges
    <3>6. IsOpen(x, V[no])
      <4>1. x = Node(x.no, x.size, x.sec, x.cnt, x.deny)
        BY ONLY <3>3, <3>4, <3>5, Zenon
      <4>2. x.cnt \in Nat \ {0} /\ x.deny \in BOOLEAN
        <5>1. f \in BOOLEAN
          BY <3>4
        <5>2. x.deny \in BOOLEAN
          BY ONLY <3>5, <5>1, Zenon
        <5>3. x.cnt \in Nat \ {0}
          BY ONLY <3>5
        <5> QED BY <5>2, <5>3
      <4> QED BY <3>1, <4>1, <4>2 DEF IsOpen, Node
    <3> QED BY <2>2, <3>2, <3>5, <3>6 DEF Cnt
  <2> QED BY <2>1, <2>2
<1>3. PICK x : /\ op2 = [i \in DOMAIN open \cup {no} |-> IF i = no THEN x ELSE open[i]]
               /\ IsOpen(x, V[no]) /\ x.cnt = Cnt(open, no) + 1
  BY <1>2
<1>4. DOMAIN op2 = DOMAIN open \cup {no} /\ op2[no] = x /\ \A i \in DOMAIN open : i # no => op2[i] = open[i]
  BY <1>3
<1>5. op2 = [i \in DOMAIN op2 |-> op2[i]]
  BY <1>3
<1>6. \A i \in DOMAIN op2 : IsOpen(op2[i], V[i])
  BY <1>1, <1>3, <1>4
<1>7. ASSUME NEW m PROVE Cnt(op2, m) = Cnt(open, m) + (IF m = no THEN 1 ELSE 0)
  <2>1. CASE m = no
    BY <1>3, <1>4, <2>1 DEF Cnt
  <2>2. CASE m # no
    BY <1>1, <1>4, <2>2 DEF Cnt
  <2> QED BY <2>1, <2>2
<1>8. UserMore(open, op2, no)
  BY <1>4, <1>7 DEF UserMore, OneUser
<1> QED BY <1>1, <1>4, <1>5, <1>6, <1>8 DEF OpenOK

(* One user less.                                                          *)
LEMMA UnlinkedOK ==
  ASSUME NEW V, NEW N, NEW open, OpenOK(V, N, open), NEW no \in DOMAIN open,
         NEW op2, op2 = Unlinked(open, no)
  PROVE  OpenOK(V, N, op2) /\ UserLess(open, op2, no)
<1>1. /\ open = [i \in DOMAIN open |-> open[i]] /\ DOMAIN open \subseteq N
      /\ \A i \in DOMAIN open : IsOpen(open[i], V[i]) /\ open[i].cnt \in Nat \ {0}
  BY IsOpenFacts DEF OpenOK
<1>2. CASE open[no].cnt = 1
  <2>1. op2 = [i \in DOMAIN open \ {no} |-> open[i]]
    BY <1>2 DEF Unlinked
  <2>2. DOMAIN op2 = DOMAIN open \ {no} /\ \A i \in DOMAIN op2 : op2[i] = open[i]
    BY <2>1
  <2>3. OpenOK(V, N, op2)
    BY <1>1, <2>1, <2>2 DEF OpenOK
  <2> QED BY <1>1, <1>2, <2>2, <2>3 DEF Cnt, UserLess, OneUser
<1>3. CASE open[no].cnt # 1
  <2>1. PICK y : y = open[no] /\ IsOpen(y, V[no])
    BY <1>1
  <2>2. PICK n : n = y.cnt - 1
    OBVIOUS
  <2>3. PICK x : x = [y EXCEPT !.cnt = n]
    OBVIOUS
  <2>4. op2 = [open EXCEPT ![no] = x]
    BY <1>3, <2>1, <2>2, <2>3 DEF Unlinked
  <2>5. y.cnt \in Nat \ {0} /\ y.deny \in BOOLEAN
    BY <2>1 DEF IsOpen
  <2>6. n \in Nat \ {0}
    BY <1>3, <2>1, <2>2, <2>5
  <2>7. x = Node(V[no].no, V[no].size, V[no].sec, n, y.deny)
    <3>1. PICK a, b, c, d, e : y = Node(a, b, c, d, e) /\ a = V[no].no /\ b = V[no].size /\ c = V[no].sec /\ e = y.deny
      BY <2>1, IsOpenFacts
    <3>2. x = Node(a, b, c, n, e)
      BY ONLY <2>3, <3>1, NodeChanges
    <3> QED BY ONLY <3>1, <3>2
  <2>8. IsOpen(x, V[no]) /\ x.cnt = n
    <3>1. IsOpen(x, V[no])
      BY <2>5, <2>6, <2>7, IsOpenFacts
    <3>2. x.cnt = n
      BY ONLY <2>7, NodeChanges
    <3> QED BY <3>1, <3>2
  <2>9. DOMAIN op2 = DOMAIN open /\ op2[no] = x /\ \A i \in DOMAIN open : i # no => op2[i] = open[i]
    BY <1>1, <2>4
  <2>10. op2 = [i \in DOMAIN op2 |-> op2[i]]
    BY <1>1, <2>4
  <2>11. OpenOK(V, N, op2)
    BY <1>1, <2>8, <2>9, <2>10 DEF OpenOK
  <2> QED BY <1>1, <2>1, <2>2, <2>5, <2>8, <2>9, <2>11 DEF Cnt, UserLess, OneUser
<1> QED BY <1>2, <1>3

(* write_deny.                                                             *)
LEMMA DeniedOK ==
  ASSUME NEW V, NEW N, NEW open, OpenOK(V, N, open), NEW no \in DOMAIN open, NEW deny \in BOOLEAN,
         NEW op2, op2 = Denied(open, no, deny)
  PROVE  OpenOK(V, N, op2) /\ SameCnt(open, op2)
<1>1. /\ open = [i \in DOMAIN open |-> open[i]] /\ DOMAIN open \subseteq N
      /\ \A i \in DOMAIN open : IsOpen(open[i], V[i]) /\ open[i].cnt \in Nat \ {0}
  BY IsOpenFacts DEF OpenOK
<1>2. PICK y : y = open[no] /\ IsOpen(y, V[no])
  BY <1>1
<1>3. PICK x : x = [y EXCEPT !.deny = deny]
  OBVIOUS
<1>4. op2 = [open EXCEPT ![no] = x]
  BY <1>2, <1>3 DEF Denied
<1>5. y.cnt \in Nat \ {0}
  BY <1>2 DEF IsOpen
<1>6. x = Node(V[no].no, V[no].size, V[no].sec, y.cnt, deny)
  <2>1. PICK a, b, c, d, e : y = Node(a, b, c, d, e) /\ a = V[no].no /\ b = V[no].size /\ c = V[no].sec /\ d = y.cnt
    BY <1>2, IsOpenFacts
  <2>2. x = Node(a, b, c, d, deny)
    BY ONLY <1>3, <2>1, NodeChanges
  <2> QED BY ONLY <2>1, <2>2
<1>7. IsOpen(x, V[no]) /\ x.cnt = y.cnt
  BY <1>5, <1>6, IsOpenFacts, NodeChanges
<1>8. DOMAIN op2 = DOMAIN open /\ op2[no] = x /\ \A i \in DOMAIN open : i # no => op2[i] = open[i]
  BY <1>1, <1>4
<1>9. op2 = [i \in DOMAIN op2 |-> op2[i]]
  BY <1>1, <1>4
<1> QED BY <1>1, <1>2, <1>7, <1>8, <1>9 DEF OpenOK, Cnt, SameCnt

-----------------------------------------------------------------------------
(* The tree after a call *)

(* What is not written stays what it is.                                   *)
LEMMA NodeFrame ==
  ASSUME WithinBounds, NEW A, NEW A2, NEW x,
         x.sec[Direct + 1] = 0 \/ x.sec[Direct + 1] \in Blocks,
         \A lba \in AllBlocks(A, x) \cap Blocks : A2[lba] = A[lba]
  PROVE  /\ AllBlocks(A2, x) = AllBlocks(A, x)
         /\ \A d : IsDirectory(A, x, d) => IsDirectory(A2, x, d) /\ A2[x.sec[1]] = A[x.sec[1]]
         /\ IsRegular(A, x) => IsRegular(A2, x)
<1>1. x.sec[Direct + 1] # 0 => A2[x.sec[Direct + 1]] = A[x.sec[Direct + 1]]
  BY DEF AllBlocks
<1>2. \A k : Address(A2, x, k) = Address(A, x, k)
  BY <1>1 DEF Address
<1>3. AllBlocks(A2, x) = AllBlocks(A, x)
  BY <1>2 DEF AllBlocks, BlocksIn
<1>4. ASSUME NEW d, IsDirectory(A, x, d) PROVE IsDirectory(A2, x, d) /\ A2[x.sec[1]] = A[x.sec[1]]
  <2>1. x.sec[1] # 0 /\ x.sec[1] \in Blocks
    <3>1. x.sec[1] \in Blocks
      BY <1>4 DEF IsDirectory
    <3> QED BY <3>1, Sizes
  <2>2. Address(A, x, 1) = x.sec[1] /\ 1 \in 1..MaxBlocks
    BY Sizes DEF Address
  <2>3. x.sec[1] \in AllBlocks(A, x)
    BY <2>1, <2>2 DEF AllBlocks, BlocksIn
  <2>4. A2[x.sec[1]] = A[x.sec[1]]
    BY <2>1, <2>3
  <2> QED BY <1>4, <2>4 DEF IsDirectory
<1>5. ASSUME IsRegular(A, x) PROVE IsRegular(A2, x)
  <2>1. Distinct(A2, x)
    BY <1>2, <1>5 DEF IsRegular, Distinct
  <2>2. ASSUME NEW pos \in 0..x.size - 1 PROVE HasByte(A2, x, x.no, pos)
    <3>1. PICK k, lba : k = pos \div BlockSize + 1 /\ lba = Address(A, x, k)
      OBVIOUS
    <3>2. k \in 1..MaxBlocks /\ lba \in Blocks /\ A[lba][(pos % BlockSize) + 1] = Byte(x.no, pos)
      BY <1>5, <3>1 DEF IsRegular, Holds, HasByte
    <3>3. lba \in AllBlocks(A, x)
      BY <3>1, <3>2, Sizes DEF AllBlocks, BlocksIn
    <3>4. A2[lba] = A[lba] /\ Address(A2, x, k) = lba
      BY <1>2, <3>1, <3>2, <3>3
    <3> QED BY ONLY <3>1, <3>2, <3>4 DEF HasByte
  <2>3. Holds(A2, x, x.no, 0..x.size - 1)
    BY <2>2 DEF Holds
  <2> QED BY <1>1, <1>2, <1>5, <2>1, <2>3 DEF IsRegular
<1> QED BY <1>3, <1>4, <1>5

(* The block of a directory is its only one, and no other inode has it.    *)
LEMMA DirectoryBlock ==
  ASSUME WithinBounds, NEW A, NEW x, NEW d, IsDirectory(A, x, d)
  PROVE  AllBlocks(A, x) = {x.sec[1]} /\ x.sec[1] \in Blocks /\ x.sec[1] \in Nat /\ x.sec[1] # 0
<1>1. Direct \in Nat /\ Direct >= 1 /\ TableLen \in Nat /\ MaxBlocks = Direct + TableLen
  BY Sizes
<1>2. x.sec[1] \in Blocks /\ \A k \in 2..Direct + 1 : x.sec[k] = 0
  BY DEF IsDirectory
<1>3. x.sec[1] \in Nat /\ x.sec[1] # 0
  BY <1>2, Sizes
<1>4. x.sec[Direct + 1] = 0
  BY <1>1, <1>2
<1>5. \A k \in 1..MaxBlocks : Address(A, x, k) = (IF k = 1 THEN x.sec[1] ELSE 0)
  BY <1>1, <1>2, <1>4 DEF Address
<1>6. 1 \in 1..MaxBlocks
  BY <1>1
<1> QED BY <1>2, <1>3, <1>4, <1>5, <1>6 DEF AllBlocks, BlocksIn

\* The entries of two sectors differ at the place e only.
OnlyAt(s, t, e) == \A i \in Rest : i # e => t[i] = s[i]

(* Entries that come and go.                                               *)
LEMMA EntriesChange ==
  ASSUME WithinBounds, NEW s, NEW d, IsEntries(s, d), NEW e \in Rest, NEW en, NEW t, t = Changed(s, e, en)
  PROVE  /\ en = NoEntry \/ IsNamed(en) => IsEntries(t, d)
         /\ t[e] = en /\ OnlyAt(s, t, e)
         /\ s[e].type = "unknown" /\ en.type # "unknown" => Cardinality(Used(t)) = Cardinality(Used(s)) + 1
         /\ s[e].type # "unknown" /\ en.type = "unknown" =>
              Cardinality(Used(t)) = Cardinality(Used(s)) - 1 /\ Cardinality(Used(s)) >= 1
         /\ IsFiniteSet(Used(s)) /\ Cardinality(Used(s)) \in Nat
<1>1. EntriesPerSec \in Nat /\ EntriesPerSec >= 2 /\ e \in 1..EntriesPerSec /\ e # 1 /\ e # 2
  BY Sizes DEF Rest
<1>2. s = [i \in 1..EntriesPerSec |-> s[i]] /\ Dots(s, d) /\ \A i \in Rest : s[i] = NoEntry \/ IsNamed(s[i])
  BY DEF IsEntries
<1>3. t = [i \in 1..EntriesPerSec |-> t[i]] /\ t[e] = en /\ \A i \in 1..EntriesPerSec : i # e => t[i] = s[i]
  BY <1>1, <1>2 DEF Changed
<1>4. \A i \in Rest : i \in 1..EntriesPerSec
  BY <1>1 DEF Rest
<1>5. t[1] = s[1] /\ t[2] = s[2]
  BY <1>1, <1>3
<1>6. Dots(t, d)
  BY <1>2, <1>5, Zenon DEF Dots
<1>7. en = NoEntry \/ IsNamed(en) => IsEntries(t, d)
  <2>1. ASSUME en = NoEntry \/ IsNamed(en), NEW i \in Rest PROVE t[i] = NoEntry \/ IsNamed(t[i])
    BY <1>2, <1>3, <1>4, <2>1
  <2> QED BY <1>3, <1>6, <2>1 DEF IsEntries
<1>8. IsFiniteSet(Used(s)) /\ IsFiniteSet(Used(t)) /\ Cardinality(Used(s)) \in Nat
  <2>1. IsFiniteSet(1..EntriesPerSec)
    BY <1>1, FS_Interval
  <2>2. Used(s) \subseteq 1..EntriesPerSec /\ Used(t) \subseteq 1..EntriesPerSec
    BY DEF Used
  <2>3. IsFiniteSet(Used(s)) /\ IsFiniteSet(Used(t))
    BY <2>1, <2>2, FS_Subset
  <2> QED BY <2>3, FS_CardinalityType
<1>9. s[e].type = "unknown" /\ en.type # "unknown" => Cardinality(Used(t)) = Cardinality(Used(s)) + 1
  <2>1. ASSUME s[e].type = "unknown", en.type # "unknown" PROVE Used(t) = Used(s) \cup {e} /\ e \notin Used(s)
    BY <1>1, <1>3, <2>1 DEF Used
  <2> QED BY <1>8, <2>1, FS_AddElement
<1>10. s[e].type # "unknown" /\ en.type = "unknown" =>
         Cardinality(Used(t)) = Cardinality(Used(s)) - 1 /\ Cardinality(Used(s)) >= 1
  <2>1. ASSUME s[e].type # "unknown", en.type = "unknown" PROVE Used(t) = Used(s) \ {e} /\ e \in Used(s)
    BY <1>1, <1>3, <2>1 DEF Used
  <2>2. ASSUME e \in Used(s) PROVE Cardinality(Used(s) \ {e}) = Cardinality(Used(s)) - 1 /\ Cardinality(Used(s)) >= 1
    <3>1. Cardinality(Used(s) \ {e}) = Cardinality(Used(s)) - 1
      BY <1>8, <2>2, FS_RemoveElement
    <3>2. IsFiniteSet(Used(s) \ {e})
      BY <1>8, FS_RemoveElement
    <3>3. Cardinality(Used(s) \ {e}) \in Nat
      BY <3>2, FS_CardinalityType
    <3> QED BY <1>8, <3>1, <3>3
  <2> QED BY <2>1, <2>2
<1> QED BY <1>3, <1>4, <1>7, <1>8, <1>9, <1>10 DEF OnlyAt

\* The table of inodes and the blocks of data without the inodes in S.
SameBut(V, A, V2, A2, N, S) ==
  \A m \in N \ S : V2[m] = V[m] /\ \A l \in AllBlocks(A, V[m]) \cap Blocks : A2[l] = A[l]

\* No inode of N has the block.
NotOf(lba, V, A, N) == \A m \in N : lba \notin AllBlocks(A, V[m])

\* An entry is entered, or erased, and the size of the directory follows.
Counted(old, en, size, size2) ==
  \/ old.type = "unknown" /\ IsNamed(en) /\ size2 = size + 1
  \/ old.type # "unknown" /\ en = NoEntry /\ size2 = size - 1

\* Entry e of the directory parent becomes en.
Enters(V, A, V2, A2, parent, e, en) ==
  /\ A2[V[parent].sec[1]] = Changed(A[V[parent].sec[1]], e, en)
  /\ IsNode(V2[parent], parent) /\ V2[parent].sec = V[parent].sec
  /\ Counted(A[V[parent].sec[1]][e], en, V[parent].size, V2[parent].size)

\* The directory stays one, with that entry and in the block lba.
Entered(V, A, V2, A2, N, parent, e, en, lba) ==
  /\ IsDirectory(A2, V2[parent], parent) /\ AllBlocks(A2, V2[parent]) = {lba}
  /\ AllBlocks(A, V[parent]) = {lba} /\ lba \in Nat
  /\ Sheet(V2, A2, parent)[e] = en /\ OnlyAt(Sheet(V, A, parent), Sheet(V2, A2, parent), e)
  /\ NotOf(lba, V, A, N \ {parent})

(* The directory in whose sector one entry has changed.                    *)
LEMMA ParentChanged ==
  ASSUME WithinBounds, NEW V, NEW A, NEW N, NEW D, NEW bits, IsTree(V, A, N, D, bits),
         NEW parent \in D, NEW e \in Rest, NEW en,
         NEW V2, NEW A2, Enters(V, A, V2, A2, parent, e, en)
  PROVE  Entered(V, A, V2, A2, N, parent, e, en, V[parent].sec[1])
<1>. DEFINE lba == V[parent].sec[1]
<1>0. /\ A2[lba] = Changed(A[lba], e, en)
      /\ IsNode(V2[parent], parent) /\ V2[parent].sec = V[parent].sec
      /\ Counted(A[lba][e], en, V[parent].size, V2[parent].size)
  BY DEF Enters
<1>1. IsDirectory(A, V[parent], parent) /\ parent \in N
  BY DEF IsTree
<1>2. /\ lba \in Blocks /\ lba \in Nat /\ IsEntries(A[lba], parent) /\ V[parent].size = Cardinality(Used(A[lba]))
      /\ AllBlocks(A, V[parent]) = {lba}
  BY <1>1, DirectoryBlock DEF IsDirectory
<1>3. PICK s, t : s = A[lba] /\ t = Changed(s, e, en)
  OBVIOUS
<1>4. IsNamed(en) => en.type # "unknown"
  BY DEF IsNamed
<1>5. en = NoEntry => en.type = "unknown"
  BY DotFields
<1>6. en = NoEntry \/ IsNamed(en)
  BY <1>0 DEF Counted
<1>7. /\ IsEntries(t, parent) /\ t[e] = en /\ \A i \in Rest : i # e => t[i] = s[i]
      /\ s[e].type = "unknown" /\ en.type # "unknown" => Cardinality(Used(t)) = Cardinality(Used(s)) + 1
      /\ s[e].type # "unknown" /\ en.type = "unknown" => Cardinality(Used(t)) = Cardinality(Used(s)) - 1
  <2>1. IsEntries(s, parent) /\ t = Changed(s, e, en)
    BY <1>2, <1>3
  <2>2. /\ en = NoEntry \/ IsNamed(en) => IsEntries(t, parent)
        /\ t[e] = en /\ \A i \in Rest : i # e => t[i] = s[i]
        /\ s[e].type = "unknown" /\ en.type # "unknown" => Cardinality(Used(t)) = Cardinality(Used(s)) + 1
        /\ s[e].type # "unknown" /\ en.type = "unknown" =>
              Cardinality(Used(t)) = Cardinality(Used(s)) - 1 /\ Cardinality(Used(s)) >= 1
    <3>1. IsEntries(s, parent)
      BY <2>1
    <3>2. t = Changed(s, e, en)
      BY <2>1
    <3>3. en = NoEntry \/ IsNamed(en) => IsEntries(t, parent)
      BY ONLY WithinBounds, e \in Rest, <3>1, <3>2, EntriesChange
    <3>4. t[e] = en /\ OnlyAt(s, t, e)
      BY ONLY WithinBounds, e \in Rest, <3>1, <3>2, EntriesChange
    <3>7. \A i \in Rest : i # e => t[i] = s[i]
      BY <3>4 DEF OnlyAt
    <3>5. s[e].type = "unknown" /\ en.type # "unknown" => Cardinality(Used(t)) = Cardinality(Used(s)) + 1
      BY ONLY WithinBounds, e \in Rest, <3>1, <3>2, EntriesChange
    <3>6. s[e].type # "unknown" /\ en.type = "unknown" =>
              Cardinality(Used(t)) = Cardinality(Used(s)) - 1 /\ Cardinality(Used(s)) >= 1
      BY ONLY WithinBounds, e \in Rest, <3>1, <3>2, EntriesChange
    <3> QED BY ONLY <3>3, <3>4, <3>5, <3>6, <3>7
  <2> QED BY <1>6, <2>2
<1>8. V2[parent].size = Cardinality(Used(t))
  BY <1>0, <1>2, <1>3, <1>4, <1>5, <1>7 DEF Counted
<1>9. \A k \in 2..Direct + 1 : V[parent].sec[k] = 0
  BY <1>1 DEF IsDirectory
<1>10. IsDirectory(A2, V2[parent], parent)
  BY <1>0, <1>2, <1>3, <1>7, <1>8, <1>9 DEF IsDirectory
<1>11. AllBlocks(A2, V2[parent]) = {lba}
  BY <1>0, <1>10, DirectoryBlock
<1>12. Sheet(V2, A2, parent) = t /\ Sheet(V, A, parent) = s
  BY <1>0, <1>3 DEF Sheet
<1>13. ASSUME NEW m \in N \ {parent} PROVE lba \notin AllBlocks(A, V[m])
  <2>1. lba \in AllBlocks(A, V[parent])
    BY <1>2
  <2> QED BY <1>1, <2>1 DEF IsTree, BlocksOK
<1> QED BY <1>2, <1>7, <1>10, <1>11, <1>12, <1>13 DEF OnlyAt, NotOf, Entered

(* What is not changed, in a tree.                                         *)
LEMMA RestSame ==
  ASSUME WithinBounds, NEW V, NEW A, NEW N, NEW D, NEW bits, IsTree(V, A, N, D, bits),
         NEW V2, NEW A2, NEW S, SameBut(V, A, V2, A2, N, S), NEW m \in N \ S
  PROVE  /\ IsNode(V2[m], m) /\ AllBlocks(A2, V2[m]) = AllBlocks(A, V[m]) /\ V2[m] = V[m]
         /\ m \in D => IsDirectory(A2, V2[m], m) /\ Sheet(V2, A2, m) = Sheet(V, A, m)
         /\ m \notin D => IsRegular(A2, V2[m])
<1>1. V2[m] = V[m] /\ \A l \in AllBlocks(A, V[m]) \cap Blocks : A2[l] = A[l]
  BY DEF SameBut
<1>2. PICK x : x = V[m]
  OBVIOUS
<1>4. IsNode(x, m) /\ (m \in D => IsDirectory(A, x, m)) /\ (m \notin D => IsRegular(A, x))
  BY <1>2 DEF IsTree
<1>5. x.sec[Direct + 1] = 0 \/ x.sec[Direct + 1] \in Blocks
  <2>1. Direct + 1 \in 2..Direct + 1
    BY Sizes
  <2> QED BY <1>4, <2>1 DEF IsDirectory, IsRegular
<1>3. /\ AllBlocks(A2, x) = AllBlocks(A, x) /\ (IsRegular(A, x) => IsRegular(A2, x))
      /\ \A d : IsDirectory(A, x, d) => IsDirectory(A2, x, d) /\ A2[x.sec[1]] = A[x.sec[1]]
  BY <1>1, <1>2, <1>5, NodeFrame
<1> QED BY <1>1, <1>2, <1>3, <1>4 DEF Sheet

\* An inode for an entry: of an empty directory, or of a file.
ObjectFor(en, A2, x) ==
  /\ IsNode(x, en.no)
  /\ en.type = "directory" => /\ IsDirectory(A2, x, en.no)
                              /\ \A i \in Rest : A2[x.sec[1]][i].type = "unknown"
  /\ en.type = "regular" => IsRegular(A2, x)

\* The blocks are new.
Apart(blocks, V, A, N, bits2) == \A l \in blocks : IsTaken(l, bits2) /\ NotOf(l, V, A, N)

\* No entry has the name.
NewName(s, name) == \A i \in Rest : s[i].name # name

(* A new object has a name in a directory (file_create file.c:146,         *)
(* sys_mkdir fs.c:815).                                                    *)
LEMMA TreeAdd ==
  ASSUME WithinBounds, NEW V, NEW A, NEW N, NEW D, NEW bits, IsTree(V, A, N, D, bits),
         NEW parent \in D, NEW e \in Rest, NEW en, IsNamed(en), en.no \in Few \ N, en.name \in EntryNames,
         NewName(Sheet(V, A, parent), en.name),
         NEW V2, NEW A2, Enters(V, A, V2, A2, parent, e, en), SameBut(V, A, V2, A2, N, {parent}),
         ObjectFor(en, A2, V2[en.no]),
         NEW D2, D2 = (IF en.type = "directory" THEN D \cup {en.no} ELSE D),
         NEW bits2, bits \subseteq bits2, Apart(AllBlocks(A2, V2[en.no]), V, A, N, bits2)
  PROVE  IsTree(V2, A2, N \cup {en.no}, D2, bits2)
<1>. DEFINE no == en.no
            lba == V[parent].sec[1]
<1>. HIDE DEF lba
<1>21. /\ IsNode(V2[no], no) /\ (en.type = "regular" => IsRegular(A2, V2[no]))
       /\ en.type = "directory" => /\ IsDirectory(A2, V2[no], no)
                                   /\ \A i \in Rest : Sheet(V2, A2, no)[i].type = "unknown"
  BY DEF ObjectFor, Sheet
<1>22. \A l \in AllBlocks(A2, V2[no]) : IsTaken(l, bits2) /\ NotOf(l, V, A, N)
  BY DEF Apart
<1>23. \A i \in Rest : Sheet(V, A, parent)[i].name # en.name
  BY DEF NewName
<1>24. no \in Few \ N
  OBVIOUS
<1>25. D2 = IF en.type = "directory" THEN D \cup {no} ELSE D
  OBVIOUS
<1>. HIDE DEF no
<1>1. /\ IsDirectory(A2, V2[parent], parent) /\ AllBlocks(A2, V2[parent]) = {lba}
      /\ AllBlocks(A, V[parent]) = {lba} /\ lba \in Nat
      /\ Sheet(V2, A2, parent)[e] = en /\ OnlyAt(Sheet(V, A, parent), Sheet(V2, A2, parent), e)
      /\ NotOf(lba, V, A, N \ {parent})
  <2>1. Entered(V, A, V2, A2, N, parent, e, en, V[parent].sec[1])
    BY ParentChanged
  <2> QED BY <2>1 DEF Entered, lba
<1>2. ASSUME NEW m \in N \ {parent}
      PROVE  /\ IsNode(V2[m], m) /\ AllBlocks(A2, V2[m]) = AllBlocks(A, V[m]) /\ V2[m] = V[m]
             /\ m \in D => IsDirectory(A2, V2[m], m) /\ Sheet(V2, A2, m) = Sheet(V, A, m)
             /\ m \notin D => IsRegular(A2, V2[m])
  BY RestSame
<1>3. /\ N \subseteq Few /\ D \subseteq N /\ 0 \in D /\ V[0].sec[1] = data_start_lba
      /\ ChildrenOK(V, A, N, D) /\ BlocksOK(V, A, N, bits)
  BY DEF IsTree
<1>20. IsNode(V2[parent], parent) /\ V2[parent].sec = V[parent].sec
  BY DEF Enters
<1>4. \A m \in N : AllBlocks(A2, V2[m]) = AllBlocks(A, V[m]) /\ IsNode(V2[m], m)
  BY <1>1, <1>2, <1>20
<1>5. N \cup {no} \subseteq Few /\ D2 \subseteq N \cup {no} /\ 0 \in D2 /\ V2[0].sec[1] = data_start_lba
  <2>1. V2[0].sec[1] = data_start_lba
    BY <1>2, <1>3, <1>20
  <2> QED BY <1>3, <1>24, <1>25, <2>1
<1>6. \A m \in N \cup {no} : IsNode(V2[m], m)
  BY <1>4, <1>21
<1>7. \A d \in D2 : IsDirectory(A2, V2[d], d)
  BY <1>1, <1>2, <1>3, <1>21, <1>25
<1>8. \A r \in (N \cup {no}) \ D2 : IsRegular(A2, V2[r])
  <2>1. en.type \in {"regular", "directory"}
    BY DEF IsNamed
  <2> QED BY <1>2, <1>3, <1>21, <1>25, <2>1
<1>9. BlocksOK(V2, A2, N \cup {no}, bits2)
  <2>1. \A m \in N : \A l \in AllBlocks(A2, V2[m]) : IsTaken(l, bits2)
    BY <1>3, <1>4 DEF BlocksOK, IsTaken
  <2>2. \A m, k \in N : \A l \in AllBlocks(A2, V2[m]) : l \in AllBlocks(A2, V2[k]) => m = k
    BY <1>3, <1>4 DEF BlocksOK
  <2>3. \A m \in N : \A l \in AllBlocks(A2, V2[no]) : l \notin AllBlocks(A2, V2[m])
    BY <1>4, <1>22 DEF NotOf
  <2> QED BY <1>22, <2>1, <2>2, <2>3 DEF BlocksOK
<1>10. \A d \in D : \A i \in Rest :
         \/ d = parent /\ i = e /\ Sheet(V2, A2, d)[i] = en
         \/ ~(d = parent /\ i = e) /\ Sheet(V2, A2, d)[i] = Sheet(V, A, d)[i]
  BY <1>1, <1>2, <1>3 DEF OnlyAt
<1>11. \A d \in D2 \ D : \A i \in Rest : Sheet(V2, A2, d)[i].type = "unknown"
  BY <1>21, <1>25
<1>13. en.type \in {"regular", "directory"} /\ en.type # "unknown"
  BY DEF IsNamed
<1>14. \A d \in D, i \in Rest : IsKid(Sheet(V, A, d)[i], N, D)
  BY <1>3 DEF ChildrenOK
<1>15. ASSUME NEW d \in D2, NEW i \in Rest PROVE IsKid(Sheet(V2, A2, d)[i], N \cup {no}, D2)
  <2>1. CASE d \notin D
    BY <1>11, <2>1 DEF IsKid
  <2>2. CASE d \in D /\ Sheet(V2, A2, d)[i] = en
    <3>1. no # 0 /\ no \notin D
      BY <1>3, <1>24
    <3> QED BY <1>13, <2>2, <3>1 DEF IsKid, no
  <2>3. CASE d \in D /\ Sheet(V2, A2, d)[i] = Sheet(V, A, d)[i]
    <3>1. PICK x : x = Sheet(V, A, d)[i] /\ IsKid(x, N, D)
      BY <1>14, <2>3
    <3>2. IsKid(x, N \cup {no}, D2)
      BY <1>13, <3>1 DEF IsKid
    <3> QED BY <2>3, <3>1, <3>2
  <2> QED BY <1>10, <2>1, <2>2, <2>3
<1>16. ASSUME NEW d \in D, NEW i \in Rest, NEW x, x = Sheet(V, A, d)[i], x.type # "unknown"
       PROVE  x.no # no
  BY <1>14, <1>16, <1>24 DEF IsKid
<1>17. ASSUME NEW d \in D2, NEW c \in D2, NEW i \in Rest, NEW j \in Rest,
              SameNo(Sheet(V2, A2, d)[i], Sheet(V2, A2, c)[j])
       PROVE  d = c /\ i = j
  <2>1. PICK x, y : x = Sheet(V2, A2, d)[i] /\ y = Sheet(V2, A2, c)[j]
    OBVIOUS
  <2>2. x.type # "unknown" /\ y.type # "unknown" /\ x.no = y.no
    BY <1>17, <2>1 DEF SameNo
  <2>3. d \in D /\ c \in D
    BY <1>11, <2>1, <2>2
  <2>4. CASE d = parent /\ i = e
    <3>1. y.no = no
      BY <1>1, <2>1, <2>2, <2>4 DEF no
    <3> QED BY <1>10, <1>16, <2>1, <2>2, <2>3, <2>4, <3>1
  <2>5. CASE c = parent /\ j = e
    <3>1. x.no = no
      BY <1>1, <2>1, <2>2, <2>5 DEF no
    <3> QED BY <1>10, <1>16, <2>1, <2>2, <2>3, <2>5, <3>1
  <2>6. CASE ~(d = parent /\ i = e) /\ ~(c = parent /\ j = e)
    <3>1. x = Sheet(V, A, d)[i] /\ y = Sheet(V, A, c)[j]
      BY <1>10, <2>1, <2>3, <2>6
    <3>2. SameNo(Sheet(V, A, d)[i], Sheet(V, A, c)[j])
      BY <2>2, <3>1 DEF SameNo
    <3> QED BY <1>3, <2>3, <3>2 DEF ChildrenOK
  <2> QED BY <2>4, <2>5, <2>6
<1>18. ASSUME NEW d \in D2, NEW i \in Rest, NEW j \in Rest,
              SameName(Sheet(V2, A2, d)[i], Sheet(V2, A2, d)[j])
       PROVE  i = j
  <2>1. PICK x, y : x = Sheet(V2, A2, d)[i] /\ y = Sheet(V2, A2, d)[j]
    OBVIOUS
  <2>2. x.type # "unknown" /\ y.type # "unknown" /\ x.name = y.name
    BY <1>18, <2>1 DEF SameName
  <2>3. d \in D
    BY <1>11, <2>1, <2>2
  <2>4. CASE d = parent /\ i = e
    <3>1. y.name = en.name
      BY <1>1, <2>1, <2>2, <2>4
    <3> QED BY <1>10, <1>23, <2>1, <2>3, <2>4, <3>1
  <2>5. CASE d = parent /\ j = e
    <3>1. x.name = en.name
      BY <1>1, <2>1, <2>2, <2>5
    <3> QED BY <1>10, <1>23, <2>1, <2>3, <2>5, <3>1
  <2>6. CASE ~(d = parent /\ i = e) /\ ~(d = parent /\ j = e)
    <3>1. x = Sheet(V, A, d)[i] /\ y = Sheet(V, A, d)[j]
      BY <1>10, <2>1, <2>3, <2>6
    <3>2. SameName(Sheet(V, A, d)[i], Sheet(V, A, d)[j])
      BY <2>2, <3>1 DEF SameName
    <3> QED BY <1>3, <2>3, <3>2 DEF ChildrenOK
  <2> QED BY <2>4, <2>5, <2>6
<1>19. ChildrenOK(V2, A2, N \cup {no}, D2)
  BY <1>15, <1>17, <1>18 DEF ChildrenOK
<1> QED BY <1>5, <1>6, <1>7, <1>8, <1>9, <1>19 DEF IsTree, no

\* Of a directory nothing but "." and ".." is left.
EmptyIf(s, isDir) == isDir => \A i \in Rest : s[i].type = "unknown"

\* The numbers of blocks in the bitmap.
BitsAt(blocks) == {lba - data_start_lba : lba \in blocks}

(* An entry is for an inode of the tree, and says what it is.              *)
LEMMA KidFacts ==
  ASSUME NEW V, NEW A, NEW N, NEW D, NEW bits, IsTree(V, A, N, D, bits), NEW parent \in D, NEW e \in Rest,
         NEW en, en = Sheet(V, A, parent)[e], en.type # "unknown"
  PROVE  /\ en.no \in N /\ en.no # 0 /\ (en.no \in D <=> en.type = "directory") /\ en.name \in EntryNames
         /\ IsNamed(en)
<1>1. IsKid(en, N, D)
  BY DEF IsTree, ChildrenOK
<1>2. IsEntries(Sheet(V, A, parent), parent)
  BY DEF IsTree, IsDirectory, Sheet
<1>3. en = NoEntry \/ IsNamed(en)
  BY <1>2 DEF IsEntries
<1> QED BY <1>1, <1>3, DotFields DEF IsKid

(* An object leaves a directory and the tree (sys_unlink fs.c:745,         *)
(* sys_rmdir fs.c:1013).                                                   *)
LEMMA TreeRemove ==
  ASSUME WithinBounds, NEW V, NEW A, NEW N, NEW D, NEW bits, IsTree(V, A, N, D, bits),
         NEW parent \in D, NEW e \in Rest, NEW no, no = Sheet(V, A, parent)[e].no,
         EmptyIf(Sheet(V, A, no), no \in D),
         NEW V2, NEW A2, Enters(V, A, V2, A2, parent, e, NoEntry), SameBut(V, A, V2, A2, N, {parent, no}),
         Sheet(V, A, parent)[e].type # "unknown",
         NEW bits2, bits2 = bits \ BitsAt(AllBlocks(A, V[no]))
  PROVE  IsTree(V2, A2, N \ {no}, D \ {no}, bits2) /\ no # parent /\ no \in N \ {0}
<1>0. PICK en : en = Sheet(V, A, parent)[e]
  OBVIOUS
<1>1. no \in N /\ no # 0 /\ en.no = no /\ en.type # "unknown" /\ no # parent
  BY <1>0, KidFacts DEF EmptyIf
<1>2. PICK lba : lba = V[parent].sec[1]
  OBVIOUS
<1>3. PICK none : none = NoEntry /\ none.type = "unknown"
  BY DotFields
<1>4. /\ IsDirectory(A2, V2[parent], parent) /\ AllBlocks(A2, V2[parent]) = {lba}
      /\ AllBlocks(A, V[parent]) = {lba} /\ lba \in Nat
      /\ Sheet(V2, A2, parent)[e] = none /\ OnlyAt(Sheet(V, A, parent), Sheet(V2, A2, parent), e)
  <2>1. Enters(V, A, V2, A2, parent, e, none)
    BY <1>3
  <2>2. Entered(V, A, V2, A2, N, parent, e, none, V[parent].sec[1])
    BY <2>1, ParentChanged
  <2> QED BY <1>2, <2>2 DEF Entered
<1>5. IsNode(V2[parent], parent) /\ V2[parent].sec = V[parent].sec
  BY DEF Enters
<1>6. ASSUME NEW m \in N \ {parent, no}
      PROVE  /\ IsNode(V2[m], m) /\ AllBlocks(A2, V2[m]) = AllBlocks(A, V[m]) /\ V2[m] = V[m]
             /\ m \in D => IsDirectory(A2, V2[m], m) /\ Sheet(V2, A2, m) = Sheet(V, A, m)
             /\ m \notin D => IsRegular(A2, V2[m])
  BY RestSame
<1>7. /\ N \subseteq Few /\ D \subseteq N /\ 0 \in D /\ V[0].sec[1] = data_start_lba
      /\ ChildrenOK(V, A, N, D) /\ BlocksOK(V, A, N, bits)
  BY DEF IsTree
<1>8. V2[0].sec[1] = data_start_lba
  BY <1>1, <1>5, <1>6, <1>7
<1>9. \A m \in N \ {no} : AllBlocks(A2, V2[m]) = AllBlocks(A, V[m]) /\ IsNode(V2[m], m)
  BY <1>4, <1>5, <1>6
<1>10. \A d \in D \ {no} : IsDirectory(A2, V2[d], d)
  BY <1>4, <1>6, <1>7
<1>11. \A r \in (N \ {no}) \ (D \ {no}) : IsRegular(A2, V2[r])
  BY <1>6, <1>7
<1>12. BlocksOK(V2, A2, N \ {no}, bits2)
  <2>1. ASSUME NEW m \in N \ {no}, NEW l \in AllBlocks(A2, V2[m]) PROVE IsTaken(l, bits2)
    <3>1. l \in AllBlocks(A, V[m]) /\ IsTaken(l, bits) /\ \A k \in AllBlocks(A, V[no]) : k # l /\ k \in Nat
      BY <1>1, <1>7, <1>9, <2>1 DEF BlocksOK, IsTaken
    <3>2. data_start_lba \in Nat
      BY Sizes
    <3>3. l - data_start_lba \notin BitsAt(AllBlocks(A, V[no]))
      BY <3>1, <3>2 DEF BitsAt, IsTaken
    <3> QED BY <3>1, <3>3 DEF IsTaken
  <2>2. \A m, k \in N \ {no} : \A l \in AllBlocks(A2, V2[m]) : l \in AllBlocks(A2, V2[k]) => m = k
    BY <1>7, <1>9 DEF BlocksOK
  <2> QED BY <2>1, <2>2 DEF BlocksOK
<1>13. \A d \in D \ {no} : \A i \in Rest :
         \/ d = parent /\ i = e /\ Sheet(V2, A2, d)[i] = none
         \/ ~(d = parent /\ i = e) /\ Sheet(V2, A2, d)[i] = Sheet(V, A, d)[i]
  BY <1>4, <1>6, <1>7 DEF OnlyAt
<1>14. ASSUME NEW d \in D \ {no}, NEW i \in Rest, NEW x, x = Sheet(V2, A2, d)[i], x.type # "unknown"
       PROVE  x = Sheet(V, A, d)[i] /\ ~(d = parent /\ i = e)
  BY <1>3, <1>13, <1>14
<1>15. ASSUME NEW d \in D \ {no}, NEW i \in Rest PROVE IsKid(Sheet(V2, A2, d)[i], N \ {no}, D \ {no})
  <2>1. PICK x : x = Sheet(V2, A2, d)[i]
    OBVIOUS
  <2>2. CASE x.type = "unknown"
    BY <2>1, <2>2 DEF IsKid
  <2>3. CASE x.type # "unknown"
    <3>1. x = Sheet(V, A, d)[i] /\ ~(d = parent /\ i = e)
      BY <1>14, <2>1, <2>3
    <3>2. IsKid(x, N, D)
      BY <1>7, <3>1 DEF ChildrenOK
    <3>3. x.no # no
      <4>1. SUFFICES ASSUME x.no = no PROVE FALSE
        OBVIOUS
      <4>2. SameNo(Sheet(V, A, d)[i], Sheet(V, A, parent)[e])
        BY <1>0, <1>1, <2>3, <3>1, <4>1 DEF SameNo
      <4> QED BY <1>7, <3>1, <4>2 DEF ChildrenOK
    <3> QED BY <2>1, <3>2, <3>3 DEF IsKid
  <2> QED BY <2>2, <2>3
<1>16. ASSUME NEW d \in D \ {no}, NEW c \in D \ {no}, NEW i \in Rest, NEW j \in Rest,
              SameNo(Sheet(V2, A2, d)[i], Sheet(V2, A2, c)[j])
       PROVE  d = c /\ i = j
  <2>1. Sheet(V2, A2, d)[i] = Sheet(V, A, d)[i] /\ Sheet(V2, A2, c)[j] = Sheet(V, A, c)[j]
    BY <1>14, <1>16 DEF SameNo
  <2> QED BY <1>7, <1>16, <2>1 DEF ChildrenOK
<1>17. ASSUME NEW d \in D \ {no}, NEW i \in Rest, NEW j \in Rest,
              SameName(Sheet(V2, A2, d)[i], Sheet(V2, A2, d)[j])
       PROVE  i = j
  <2>1. Sheet(V2, A2, d)[i] = Sheet(V, A, d)[i] /\ Sheet(V2, A2, d)[j] = Sheet(V, A, d)[j]
    BY <1>14, <1>17 DEF SameName
  <2> QED BY <1>7, <1>17, <2>1 DEF ChildrenOK
<1>18. ChildrenOK(V2, A2, N \ {no}, D \ {no})
  BY <1>15, <1>16, <1>17 DEF ChildrenOK
<1> QED BY <1>1, <1>7, <1>8, <1>9, <1>10, <1>11, <1>12, <1>18 DEF IsTree

(* A file has other blocks (file_write file.c:323).                        *)
LEMMA TreeWrite ==
  ASSUME WithinBounds, NEW V, NEW A, NEW N, NEW D, NEW bits, IsTree(V, A, N, D, bits),
         NEW no \in N \ D, NEW V2, NEW A2, SameBut(V, A, V2, A2, N, {no}),
         IsNode(V2[no], no), IsRegular(A2, V2[no]),
         NEW bits2, bits \subseteq bits2, Apart(AllBlocks(A2, V2[no]), V, A, N \ {no}, bits2)
  PROVE  IsTree(V2, A2, N, D, bits2)
<1>1. ASSUME NEW m \in N \ {no}
      PROVE  /\ IsNode(V2[m], m) /\ AllBlocks(A2, V2[m]) = AllBlocks(A, V[m]) /\ V2[m] = V[m]
             /\ m \in D => IsDirectory(A2, V2[m], m) /\ Sheet(V2, A2, m) = Sheet(V, A, m)
             /\ m \notin D => IsRegular(A2, V2[m])
  BY RestSame
<1>2. /\ N \subseteq Few /\ D \subseteq N /\ 0 \in D /\ V[0].sec[1] = data_start_lba
      /\ ChildrenOK(V, A, N, D) /\ BlocksOK(V, A, N, bits)
  BY DEF IsTree
<1>3. V2[0].sec[1] = data_start_lba /\ \A d \in D : Sheet(V2, A2, d) = Sheet(V, A, d)
  BY <1>1, <1>2
<1>4. ChildrenOK(V2, A2, N, D)
  <2>1. \A d \in D, e \in Rest : IsKid(Sheet(V2, A2, d)[e], N, D)
    BY <1>2, <1>3 DEF ChildrenOK
  <2>2. \A d, c \in D : \A e, i \in Rest :
          SameNo(Sheet(V2, A2, d)[e], Sheet(V2, A2, c)[i]) => d = c /\ e = i
    BY <1>2, <1>3 DEF ChildrenOK
  <2>3. \A d \in D : \A e, i \in Rest : SameName(Sheet(V2, A2, d)[e], Sheet(V2, A2, d)[i]) => e = i
    BY <1>2, <1>3 DEF ChildrenOK
  <2> QED BY <2>1, <2>2, <2>3 DEF ChildrenOK
<1>5. BlocksOK(V2, A2, N, bits2)
  <2>1. \A m \in N : \A l \in AllBlocks(A2, V2[m]) : IsTaken(l, bits2)
    BY <1>1, <1>2 DEF BlocksOK, IsTaken, Apart
  <2>2. \A m, k \in N \ {no} : \A l \in AllBlocks(A2, V2[m]) : l \in AllBlocks(A2, V2[k]) => m = k
    BY <1>1, <1>2 DEF BlocksOK
  <2>3. \A m \in N \ {no} : \A l \in AllBlocks(A2, V2[no]) : l \notin AllBlocks(A2, V2[m])
    BY <1>1 DEF NotOf, Apart
  <2> QED BY <2>1, <2>2, <2>3 DEF BlocksOK
<1> QED BY <1>1, <1>2, <1>3, <1>4, <1>5 DEF IsTree

-----------------------------------------------------------------------------
(* Good states under the operations on directories *)

\* Other inodes are the same.
OnlyNode(V, V2, no) == \A m \in Few : m # no => V2[m] = V[m]

(* The directory that has been changed, after inode_sync.                  *)
LEMMA ParentSynced ==
  ASSUME WithinBounds, NEW V, V = [no \in Few |-> V[no]], NEW N, N \subseteq Few, NEW open, OpenOK(V, N, open),
         NEW parent \in DOMAIN open, IsNode(V[parent], parent), NEW n \in Nat,
         NEW op2, op2 = Resized(open, parent, n), NEW V2, V2 = Changed(V, parent, OnDisk(op2[parent]))
  PROVE  /\ IsNode(V2[parent], parent) /\ V2[parent].sec = V[parent].sec /\ V2[parent].size = n
         /\ OnlyNode(V, V2, parent) /\ OpenOK(V2, N, op2) /\ SameCnt(open, op2)
<1>1. /\ open = [no \in DOMAIN open |-> open[no]] /\ DOMAIN open \subseteq N
      /\ \A no \in DOMAIN open : IsOpen(open[no], V[no])
  BY DEF OpenOK
<1>2. PICK x, y : x = open[parent] /\ y = V[parent]
  OBVIOUS
<1>3. /\ IsInode(x) /\ x.no = y.no /\ x.size = y.size /\ x.sec = y.sec
      /\ x.cnt \in Nat \ {0} /\ x.deny \in BOOLEAN
  <2>1. IsOpen(x, y)
    BY <1>1, <1>2
  <2> QED BY <2>1 DEF IsOpen, IsInode
<1>4. IsInode(open[parent])
  BY <1>2, <1>3
<1>5. /\ op2 = [i \in DOMAIN open |-> IF i = parent THEN op2[parent] ELSE open[i]] /\ DOMAIN op2 = DOMAIN open
      /\ op2[parent] = [no |-> x.no, size |-> n, sec |-> x.sec, cnt |-> x.cnt, deny |-> x.deny]
      /\ \A i \in DOMAIN open : i # parent => op2[i] = open[i]
  BY <1>1, <1>2, <1>4, ResizedFields
<1>6. PICK z : z = op2[parent]
  OBVIOUS
<1>7. z.no = x.no /\ z.size = n /\ z.sec = x.sec /\ z.cnt = x.cnt /\ z.deny = x.deny
  BY <1>5, <1>6
<1>8. /\ y = [no |-> parent, size |-> y.size, sec |-> y.sec, cnt |-> 1, deny |-> FALSE]
      /\ y.sec = [k \in 1..Direct + 1 |-> y.sec[k]] /\ \A k \in 1..Direct + 1 : y.sec[k] \in Nat
  BY <1>2 DEF IsNode
<1>9. OnDisk(z) = [no |-> parent, size |-> n, sec |-> y.sec, cnt |-> 1, deny |-> FALSE]
  <2>1. z.no = parent /\ z.sec = [k \in 1..Direct + 1 |-> z.sec[k]]
    BY <1>3, <1>7, <1>8
  <2> QED BY <1>3, <1>7, <2>1 DEF OnDisk
<1>10. V2[parent] = OnDisk(z) /\ OnlyNode(V, V2, parent)
  <2>1. parent \in Few
    BY <1>1
  <2> QED BY <1>6, <2>1 DEF Changed, OnlyNode
<1>11. PICK w : w = V2[parent] /\ w = [no |-> parent, size |-> n, sec |-> y.sec, cnt |-> 1, deny |-> FALSE]
  BY <1>9, <1>10
<1>12. w.no = parent /\ w.size = n /\ w.sec = y.sec
  BY <1>11
<1>13. IsNode(w, parent)
  BY <1>8, <1>11, <1>12 DEF IsNode
<1>14. IsOpen(z, w)
  <2>1. z = [no |-> x.no, size |-> n, sec |-> x.sec, cnt |-> x.cnt, deny |-> x.deny]
    BY <1>5, <1>6
  <2>2. y.no = parent
    BY <1>8
  <2>3. w.no = x.no /\ w.sec = x.sec /\ w.size = n
    BY <1>3, <1>12, <2>2
  <2>4. z = [no |-> w.no, size |-> w.size, sec |-> w.sec, cnt |-> z.cnt, deny |-> z.deny]
    BY <1>7, <2>1, <2>3
  <2>5. z.cnt \in Nat \ {0}
    BY <1>3, <1>7
  <2>6. z.deny \in BOOLEAN
    BY <1>3, <1>7
  <2> QED BY <2>4, <2>5, <2>6 DEF IsOpen
<1>15. OpenOK(V2, N, op2)
  <2>1. ASSUME NEW no \in DOMAIN op2 PROVE IsOpen(op2[no], V2[no])
    BY <1>1, <1>5, <1>6, <1>10, <1>11, <1>14, <2>1 DEF OnlyNode
  <2>2. op2 = [no \in DOMAIN op2 |-> op2[no]]
    BY <1>5
  <2> QED BY <1>1, <1>5, <2>1, <2>2 DEF OpenOK
<1>16. SameCnt(open, op2)
  BY <1>2, <1>5, <1>6, <1>7 DEF SameCnt, Cnt
<1> QED BY <1>2, <1>10, <1>11, <1>12, <1>13, <1>15, <1>16

(* The sector of the directory with the new entry, and the others.         *)
LEMMA EditedAt ==
  ASSUME NEW A, A = [lba \in Blocks |-> A[lba]], NEW lba \in Blocks, NEW e, NEW en,
         NEW A2, A2 = Edited(A, lba, e, en)
  PROVE  A2[lba] = Changed(A[lba], e, en) /\ \A l \in Blocks : l # lba => A2[l] = A[l]
BY DEF Edited, Changed

(* The change of a directory in a tree, as TreeAdd and TreeRemove take it. *)
LEMMA EditedTree ==
  ASSUME WithinBounds, NEW V, NEW A, NEW N, NEW D, NEW bits, IsTree(V, A, N, D, bits),
         A = [lba \in Blocks |-> A[lba]], NEW parent \in D, NEW e \in Rest, NEW en,
         NEW lba, lba = V[parent].sec[1], NEW A2, A2 = Edited(A, lba, e, en),
         NEW V2, IsNode(V2[parent], parent), V2[parent].sec = V[parent].sec,
         OnlyNode(V, V2, parent), Counted(A[lba][e], en, V[parent].size, V2[parent].size)
  PROVE  Enters(V, A, V2, A2, parent, e, en) /\ SameBut(V, A, V2, A2, N, {parent})
<1>1. IsDirectory(A, V[parent], parent) /\ N \subseteq Few /\ parent \in N
  BY DEF IsTree
<1>2. lba \in Blocks /\ AllBlocks(A, V[parent]) = {lba}
  BY <1>1, DirectoryBlock
<1>3. A2[lba] = Changed(A[lba], e, en) /\ \A l \in Blocks : l # lba => A2[l] = A[l]
  BY <1>2, EditedAt
<1>4. Enters(V, A, V2, A2, parent, e, en)
  BY <1>3 DEF Enters
<1>5. ASSUME NEW m \in N \ {parent} PROVE lba \notin AllBlocks(A, V[m])
  BY <1>1, <1>2 DEF IsTree, BlocksOK
<1>6. SameBut(V, A, V2, A2, N, {parent})
  BY <1>1, <1>3, <1>5 DEF SameBut, OnlyNode
<1> QED BY <1>4, <1>6

(* A directory that lacks one of the names has room for it: the names fit  *)
(* in its block (sync_dir_entry dir.c:312).                                *)
LEMMA Room ==
  ASSUME WithinBounds, NEW V, NEW A, NEW N, NEW D, NEW bits, IsTree(V, A, N, D, bits),
         NEW parent \in D, NEW name \in EntryNames, NewName(Sheet(V, A, parent), name)
  PROVE  \E e \in Rest : Sheet(V, A, parent)[e].type = "unknown"
<1>1. SUFFICES ASSUME \A e \in Rest : Sheet(V, A, parent)[e].type # "unknown" PROVE FALSE
  OBVIOUS
<1>2. PICK s : s = Sheet(V, A, parent)
  OBVIOUS
<1>3. IsFiniteSet(EntryNames) /\ Cardinality(EntryNames) + 2 <= EntriesPerSec /\ EntriesPerSec \in Nat
  BY Sizes, Zenon DEF WithinBounds
<1>4. /\ IsFiniteSet(EntryNames \ {name})
      /\ Cardinality(EntryNames \ {name}) = Cardinality(EntryNames) - 1
      /\ Cardinality(EntryNames) \in Nat
  BY <1>3, FS_RemoveElement, FS_CardinalityType
<1>5. IsFiniteSet(Rest) /\ Cardinality(Rest) = IF 3 > EntriesPerSec THEN 0 ELSE EntriesPerSec - 3 + 1
  BY <1>3, FS_Interval DEF Rest
<1>6. Cardinality(EntryNames \ {name}) < Cardinality(Rest)
  <2>1. Cardinality(EntryNames) # 0
    BY <1>3, FS_EmptySet
  <2> QED BY <1>3, <1>4, <1>5, <2>1
<1>7. \A e \in Rest : s[e].name \in EntryNames \ {name} /\ s[e].type # "unknown"
  <2>1. ASSUME NEW e \in Rest PROVE s[e].name \in EntryNames
    BY <1>1, <1>2, KidFacts
  <2> QED BY <1>1, <1>2, <2>1 DEF NewName
<1>8. PICK h : h = [e \in Rest |-> s[e].name]
  OBVIOUS
<1>9. h \in [Rest -> EntryNames \ {name}]
  BY <1>7, <1>8
<1>10. PICK e \in Rest, i \in Rest : e # i /\ h[e] = h[i]
  BY <1>4, <1>5, <1>6, <1>9, FS_PigeonHole
<1>11. SameName(s[e], s[i])
  BY <1>7, <1>8, <1>10 DEF SameName
<1> QED BY <1>2, <1>10, <1>11 DEF IsTree, ChildrenOK

(* An inode that is loaded has a user (i_open_cnt).                        *)
LEMMA CntFacts ==
  ASSUME NEW V, NEW N, NEW open, OpenOK(V, N, open)
  PROVE  \A m : Cnt(open, m) \in Nat /\ (Cnt(open, m) = 0 <=> m \notin DOMAIN open)
<1>1. \A m \in DOMAIN open : open[m].cnt \in Nat \ {0}
  BY DEF OpenOK, IsOpen
<1> QED BY <1>1 DEF Cnt

\* dir_close is for a directory that search_file has opened.
Held(rec, m) == IF rec.held /\ m = rec.parent THEN 1 ELSE 0

(* parent_dir is opened and closed (search_file fs.c:414, dir_close        *)
(* dir.c:42).                                                              *)
LEMMA OpenParentEffect ==
  ASSUME WithinBounds, NEW f, NEW D, Good(f, D), 0 \in DOMAIN f.open, NEW rec, rec.held \in BOOLEAN,
         rec.parent \in D, ~rec.held => rec.parent = 0, NEW g, g = OpenParent(f, rec)
  PROVE  /\ Good(g, D) /\ Quiet(f, g) /\ Follows(f, g) /\ g.panic = f.panic
         /\ g.bbits = f.bbits /\ g.ibits = f.ibits /\ rec.parent \in DOMAIN g.open
         /\ \A m : Cnt(g.open, m) = Cnt(f.open, m) + Held(rec, m)
<1>1. Follows(f, g) /\ DiskShape(f) /\ BitsOK(f) /\ OpenOK(NodesOf(f), f.ibits, f.open)
  BY ParentFollows DEF Good, DiskShape
<1>2. rec.parent \in f.ibits /\ rec.parent \in Few /\ IsNode(NodesOf(f)[rec.parent], rec.parent)
  BY DEF Good, IsTree
<1>3. CASE ~rec.held
  <2>1. g = f /\ rec.parent = 0
    BY <1>3 DEF OpenParent
  <2>2. \A m : Held(rec, m) = 0
    BY <1>3 DEF Held
  <2>3. Quiet(f, g)
    BY <1>1, <2>1 DEF Quiet
  <2>4. \A m : Cnt(f.open, m) \in Int
    BY <1>1, CntFacts
  <2> QED BY <1>1, <2>1, <2>2, <2>3, <2>4
<1>4. CASE rec.held
  <2>1. g = inode_open(f, rec.parent)
    BY <1>4 DEF OpenParent
  <2>2. /\ Quiet(f, g) /\ g.open = Linked(f.open, rec.parent, NodesOf(f)[rec.parent])
        /\ g.panic = f.panic /\ g.bbits = f.bbits /\ g.ibits = f.ibits
    BY <1>1, <1>2, <2>1, OpenCloseEffect
  <2>3. OpenOK(NodesOf(f), f.ibits, g.open) /\ UserMore(f.open, g.open, rec.parent)
    <3>1. PICK V, N, open, no : V = NodesOf(f) /\ N = f.ibits /\ open = f.open /\ no = rec.parent
      OBVIOUS
    <3>4. PICK op2 : op2 = g.open
      OBVIOUS
    <3>2. OpenOK(V, N, open) /\ no \in N /\ IsNode(V[no], no) /\ op2 = Linked(open, no, V[no])
      BY <1>1, <1>2, <2>2, <3>1, <3>4
    <3>3. OpenOK(V, N, op2) /\ UserMore(open, op2, no)
      <4>1. OpenOK(V, N, open)
        BY <3>2
      <4>2. no \in N
        BY <3>2
      <4>3. IsNode(V[no], no)
        BY <3>2
      <4>4. op2 = Linked(open, no, V[no])
        BY <3>2
      <4> QED BY ONLY <4>1, <4>2, <4>3, <4>4, LinkedOK
    <3> QED BY <3>1, <3>3, <3>4
  <2>4. \A m : Held(rec, m) = OneUser(m, rec.parent)
    BY <1>4 DEF Held, OneUser
  <2>5. Good(g, D)
    BY <2>2, <2>3 DEF Good, Quiet, BitsOK
  <2> QED BY <1>1, <2>2, <2>3, <2>4, <2>5 DEF UserMore
<1> QED BY <1>3, <1>4

\* The open inodes when the parent of rec is closed.
ParentClosed(f, g, rec, V, N) ==
  /\ OpenOK(V, N, g.open) /\ Quiet(f, g) /\ g.panic = f.panic
  /\ g.bbits = f.bbits /\ g.ibits = f.ibits
  /\ \A m : Cnt(g.open, m) = Cnt(f.open, m) - Held(rec, m)

(* dir_close of the parent at the end of a call.                           *)
LEMMA CloseParentEffect ==
  ASSUME WithinBounds, NEW f, DiskShape(f), NEW V, NEW N, OpenOK(V, N, f.open), NEW rec, rec.held \in BOOLEAN,
         rec.parent \in DOMAIN f.open, NEW g, g = CloseParent(f, rec)
  PROVE  ParentClosed(f, g, rec, V, N)
<1>3. CASE ~rec.held
  <2>1. g = f
    BY <1>3 DEF CloseParent
  <2>2. \A m : Held(rec, m) = 0
    BY <1>3 DEF Held
  <2>3. Quiet(f, g)
    BY <2>1 DEF Quiet
  <2>4. \A m : Cnt(f.open, m) \in Int
    BY CntFacts
  <2> QED BY <2>1, <2>2, <2>3, <2>4 DEF ParentClosed
<1>4. CASE rec.held
  <2>1. g = inode_close(f, rec.parent)
    BY <1>4 DEF CloseParent
  <2>2. /\ Quiet(f, g) /\ g.open = Unlinked(f.open, rec.parent)
        /\ g.panic = f.panic /\ g.bbits = f.bbits /\ g.ibits = f.ibits
    BY <2>1, OpenCloseEffect
  <2>3. /\ OpenOK(V, N, g.open)
        /\ UserLess(f.open, g.open, rec.parent)
    BY <2>2, UnlinkedOK
  <2>4. \A m : Held(rec, m) = OneUser(m, rec.parent)
    BY <1>4 DEF Held, OneUser
  <2> QED BY <2>2, <2>3, <2>4 DEF UserLess, ParentClosed
<1> QED BY <1>3, <1>4

(* A directory of the tree that is open.                                   *)
LEMMA OpenDirectory ==
  ASSUME NEW f, NEW N, NEW D, NEW bits, IsTree(NodesOf(f), DataOf(f), N, D, bits),
         OpenOK(NodesOf(f), N, f.open), NEW parent \in D, parent \in DOMAIN f.open,
         NEW x, x = f.open[parent], NEW y, y = NodesOf(f)[parent]
  PROVE  IsOpenDirectory(f, parent) /\ x.sec = y.sec /\ x.size = y.size /\ y.size \in Nat
<1>1. IsOpen(x, y) /\ f.open = [i \in DOMAIN f.open |-> f.open[i]]
  BY DEF OpenOK
<1>2. IsNode(y, parent) /\ IsDirectory(DataOf(f), y, parent)
  BY DEF IsTree
<1>3. x.no = y.no /\ x.size = y.size /\ x.sec = y.sec /\ IsInode(x)
  BY <1>1 DEF IsOpen, IsInode
<1>4. y.no = parent /\ y.size \in Nat
  BY <1>2 DEF IsNode
<1>5. IsDirectory(DataOf(f), x, parent)
  BY <1>2, <1>3 DEF IsDirectory
<1> QED BY <1>1, <1>3, <1>4, <1>5 DEF IsOpenDirectory

\* What a change of one entry and inode_sync of its directory leave.
ParentWritten(f, g, N, parent, e, en) ==
  /\ g.panic = "none" /\ DiskShape(g) /\ g.bbits = f.bbits /\ g.ibits = f.ibits
  /\ Enters(NodesOf(f), DataOf(f), NodesOf(g), DataOf(g), parent, e, en)
  /\ SameBut(NodesOf(f), DataOf(f), NodesOf(g), DataOf(g), N, {parent})
  /\ OnlyNode(NodesOf(f), NodesOf(g), parent)
  /\ \A l \in Blocks : l # NodesOf(f)[parent].sec[1] => DataOf(g)[l] = DataOf(f)[l]
  /\ OpenOK(NodesOf(g), N, g.open) /\ SameCnt(f.open, g.open)

(* A name is entered and the directory's inode written                     *)
(* (sync_dir_entry dir.c:312, inode_sync inode.c:58).                      *)
LEMMA NameEntered ==
  ASSUME WithinBounds, NEW f, DiskShape(f), f.panic = "none", NEW N, NEW D, NEW bits,
         IsTree(NodesOf(f), DataOf(f), N, D, bits), OpenOK(NodesOf(f), N, f.open),
         NEW parent \in D, parent \in DOMAIN f.open, NEW de, IsNamed(de), de.name \in EntryNames,
         NewName(Sheet(NodesOf(f), DataOf(f), parent), de.name),
         NEW g, g = SyncOpen(sync_dir_entry(f, parent, de), parent)
  PROVE  \E e \in Rest : ParentWritten(f, g, N, parent, e, de)
<1>1. PICK V, A, x, lba, f1 : /\ V = NodesOf(f) /\ A = DataOf(f) /\ x = f.open[parent] /\ lba = V[parent].sec[1]
                              /\ f1 = sync_dir_entry(f, parent, de)
  OBVIOUS
<1>2. IsOpenDirectory(f, parent) /\ x.sec = V[parent].sec /\ x.size = V[parent].size /\ x.size \in Nat
  BY <1>1, OpenDirectory
<1>3. lba = f.open[parent].sec[1]
  BY <1>1, <1>2
<1>4. \E e \in Rest : A[lba][e].type = "unknown"
  <2>1. \E e \in Rest : Sheet(V, A, parent)[e].type = "unknown"
    <3>1. IsTree(V, A, N, D, bits) /\ NewName(Sheet(V, A, parent), de.name)
      BY <1>1
    <3> QED BY <3>1, Room
  <2> QED BY <1>1, <2>1 DEF Sheet
<1>5. /\ f1.panic = "none" /\ DiskShape(f1) /\ NodesOf(f1) = V
      /\ f1.bbits = f.bbits /\ f1.ibits = f.ibits
      /\ f1.open = Resized(f.open, parent, x.size + 1)
      /\ \E e \in Rest : A[lba][e].type = "unknown" /\ DataOf(f1) = Edited(A, lba, e, de)
  <2>1. A = DataOf(f) /\ lba = f.open[parent].sec[1] /\ f1 = sync_dir_entry(f, parent, de)
    BY <1>1, <1>3
  <2>2. /\ f1.panic = "none" /\ DiskShape(f1) /\ NodesOf(f1) = NodesOf(f)
        /\ f1.bbits = f.bbits /\ f1.ibits = f.ibits
        /\ f1.open = Resized(f.open, parent, f.open[parent].size + 1)
        /\ \E e \in Rest : A[lba][e].type = "unknown" /\ DataOf(f1) = Edited(A, lba, e, de)
    BY <1>2, <1>4, <2>1, AddEffect
  <2> QED BY <1>1, <2>2
<1>6. PICK e \in Rest : A[lba][e].type = "unknown" /\ DataOf(f1) = Edited(A, lba, e, de)
  BY <1>5
<1>7. PICK n : n = x.size + 1
  OBVIOUS
<1>8. n \in Nat /\ f1.open = Resized(f.open, parent, n)
  BY <1>2, <1>5, <1>7
<1>9. V = [no \in Few |-> V[no]] /\ A = [l \in Blocks |-> A[l]] /\ N \subseteq Few /\ parent \in Few
      /\ IsNode(V[parent], parent)
  BY <1>1 DEF IsTree, NodesOf, DataOf
<1>10. PICK op2 : op2 = f1.open
  OBVIOUS
<1>11. op2[parent].no = parent
  <2>1. /\ IsInode(f.open[parent]) /\ f.open = [i \in DOMAIN f.open |-> f.open[i]] /\ f.open[parent].no = parent
    BY <1>2 DEF IsOpenDirectory
  <2>2. op2 = Resized(f.open, parent, n)
    BY <1>8, <1>10
  <2>3. op2[parent] = [no |-> f.open[parent].no, size |-> n, sec |-> f.open[parent].sec, cnt |-> f.open[parent].cnt,
                       deny |-> f.open[parent].deny]
    BY <2>1, <2>2, ResizedFields
  <2> QED BY <2>1, <2>3
<1>12. /\ g.panic = "none" /\ DiskShape(g)
       /\ g.open = op2 /\ g.bbits = f.bbits /\ g.ibits = f.ibits
       /\ NodesOf(g) = Changed(V, parent, OnDisk(op2[parent]))
       /\ DataOf(g) = DataOf(f1)
  <2>1. PICK y : y = op2[parent] /\ y.no = parent /\ y.no \in Few
    BY <1>9, <1>11
  <2>2. g = inode_sync(f1, y)
    BY <1>1, <1>10, <2>1 DEF SyncOpen
  <2>3. /\ g.panic = "none" /\ DiskShape(g)
        /\ g.open = f1.open /\ g.bbits = f1.bbits /\ g.ibits = f1.ibits
        /\ NodesOf(g) = Changed(NodesOf(f1), y.no, OnDisk(y))
        /\ DataOf(g) = DataOf(f1)
    BY <1>5, <2>1, <2>2, InodeSyncEffect
  <2> QED BY <1>5, <1>10, <2>1, <2>3
<1>13. PICK V2, A2 : V2 = NodesOf(g) /\ A2 = DataOf(g)
  OBVIOUS
<1>14. /\ IsNode(V2[parent], parent) /\ V2[parent].sec = V[parent].sec /\ V2[parent].size = n
       /\ OnlyNode(V, V2, parent) /\ OpenOK(V2, N, op2) /\ SameCnt(f.open, op2)
  <2>1. OpenOK(V, N, f.open) /\ op2 = Resized(f.open, parent, n) /\ V2 = Changed(V, parent, OnDisk(op2[parent]))
    BY <1>1, <1>8, <1>10, <1>12, <1>13
  <2> QED BY <1>8, <1>9, <2>1, ParentSynced
<1>15. lba \in Blocks
  BY <1>1, DirectoryBlock DEF IsTree
<1>16. A2 = Edited(A, lba, e, de)
  BY <1>6, <1>12, <1>13
<1>17. Counted(A[lba][e], de, V[parent].size, V2[parent].size)
  BY <1>2, <1>6, <1>7, <1>14 DEF Counted
<1>18. Enters(V, A, V2, A2, parent, e, de) /\ SameBut(V, A, V2, A2, N, {parent})
  <2>1. IsTree(V, A, N, D, bits) /\ lba = V[parent].sec[1]
    BY <1>1
  <2> QED BY <1>9, <1>14, <1>16, <1>17, <2>1, EditedTree
<1>19. \A l \in Blocks : l # lba => A2[l] = A[l]
  BY <1>9, <1>15, <1>16, EditedAt
<1> QED BY <1>1, <1>10, <1>12, <1>13, <1>14, <1>18, <1>19 DEF ParentWritten

(* An entry is erased (delete_dir_entry dir.c:82).                        *)
LEMMA NameErased ==
  ASSUME WithinBounds, NEW f, DiskShape(f), f.panic = "none", NEW N, NEW D, NEW bits,
         IsTree(NodesOf(f), DataOf(f), N, D, bits), OpenOK(NodesOf(f), N, f.open),
         NEW parent \in D, parent \in DOMAIN f.open, NEW e \in Rest, NEW en,
         en = Sheet(NodesOf(f), DataOf(f), parent)[e], en.type # "unknown",
         NEW g, g = delete_dir_entry(f, parent, en.no)
  PROVE  ParentWritten(f, g, N, parent, e, NoEntry)
<1>1. PICK V, A, x, lba, child : /\ V = NodesOf(f) /\ A = DataOf(f) /\ x = f.open[parent] /\ lba = V[parent].sec[1]
                                 /\ child = en.no
  OBVIOUS
<1>2. IsOpenDirectory(f, parent) /\ x.sec = V[parent].sec /\ x.size = V[parent].size /\ x.size \in Nat
  BY <1>1, OpenDirectory
<1>3. lba = f.open[parent].sec[1]
  BY <1>1, <1>2
<1>4. IsTree(V, A, N, D, bits) /\ en = A[lba][e] /\ Sheet(V, A, parent) = A[lba]
  BY <1>1 DEF Sheet
<1>5. IsNamed(A[lba][e])
  BY <1>4, KidFacts
<1>6. \A i \in Rest : A[lba][i].type # "unknown" /\ A[lba][i].no = child => i = e
  <2>1. SUFFICES ASSUME NEW i \in Rest, A[lba][i].type # "unknown", A[lba][i].no = child PROVE i = e
    OBVIOUS
  <2>2. SameNo(Sheet(V, A, parent)[i], Sheet(V, A, parent)[e])
    BY <1>1, <1>4, <2>1 DEF SameNo
  <2> QED BY <1>4, <2>2 DEF IsTree, ChildrenOK
<1>9. V = [no \in Few |-> V[no]] /\ A = [l \in Blocks |-> A[l]] /\ N \subseteq Few /\ parent \in Few
      /\ IsNode(V[parent], parent) /\ IsDirectory(A, V[parent], parent)
  BY <1>1 DEF IsTree, NodesOf, DataOf
<1>7. x.size >= 1
  <2>1. IsEntries(A[lba], parent) /\ V[parent].size = Cardinality(Used(A[lba]))
    BY <1>1, <1>9 DEF IsDirectory
  <2>2. PICK s, t, none : s = A[lba] /\ none = NoEntry /\ t = Changed(s, e, none)
    OBVIOUS
  <2>3. none.type = "unknown"
    BY <2>2, DotFields
  <2>4. IsEntries(s, parent)
    BY <2>1, <2>2
  <2>5. s[e].type # "unknown" /\ none.type = "unknown" =>
              Cardinality(Used(t)) = Cardinality(Used(s)) - 1 /\ Cardinality(Used(s)) >= 1
    <3>1. t = Changed(s, e, none)
      BY <2>2
    <3> QED BY ONLY WithinBounds, e \in Rest, <2>4, <3>1, EntriesChange
  <2> QED BY <1>2, <1>4, <2>1, <2>2, <2>3, <2>5
<1>8. /\ g.panic = "none" /\ DiskShape(g)
      /\ g.bbits = f.bbits /\ g.ibits = f.ibits
      /\ g.open = Resized(f.open, parent, x.size - 1)
      /\ NodesOf(g) = Changed(NodesOf(f), parent, OnDisk(g.open[parent]))
      /\ DataOf(g) = Edited(A, lba, e, NoEntry)
  <2>1. A = DataOf(f) /\ lba = f.open[parent].sec[1] /\ g = delete_dir_entry(f, parent, child)
    BY <1>1, <1>3
  <2>2. A[lba][e].no = child /\ f.open[parent].size >= 1
    BY <1>1, <1>4, <1>7
  <2>3. /\ g.panic = "none" /\ DiskShape(g)
        /\ g.bbits = f.bbits /\ g.ibits = f.ibits
        /\ g.open = Resized(f.open, parent, f.open[parent].size - 1)
        /\ NodesOf(g) = Changed(NodesOf(f), parent, OnDisk(g.open[parent]))
        /\ DataOf(g) = Edited(A, lba, e, NoEntry)
    <3>1. OnlyChild(A[lba], e, child) /\ f.open[parent].size >= 1
      BY <1>5, <1>6, <2>2 DEF OnlyChild
    <3> QED BY <1>2, <1>9, <2>1, <3>1, DeleteEffect
  <2> QED BY <1>1, <2>3
<1>10. PICK n, op2, V2, A2 : n = x.size - 1 /\ op2 = g.open /\ V2 = NodesOf(g) /\ A2 = DataOf(g)
  OBVIOUS
<1>11. n \in Nat
  BY <1>2, <1>7, <1>10
<1>14. /\ IsNode(V2[parent], parent) /\ V2[parent].sec = V[parent].sec /\ V2[parent].size = n
       /\ OnlyNode(V, V2, parent) /\ OpenOK(V2, N, op2) /\ SameCnt(f.open, op2)
  <2>1. OpenOK(V, N, f.open) /\ op2 = Resized(f.open, parent, n) /\ V2 = Changed(V, parent, OnDisk(op2[parent]))
    BY <1>1, <1>8, <1>10
  <2> QED BY <1>9, <1>11, <2>1, ParentSynced
<1>15. lba \in Blocks
  BY <1>1, <1>9, DirectoryBlock
<1>16. PICK none : none = NoEntry
  OBVIOUS
<1>17. A2 = Edited(A, lba, e, none)
  BY <1>8, <1>10, <1>16
<1>18. Counted(A[lba][e], none, V[parent].size, V2[parent].size)
  BY <1>2, <1>4, <1>10, <1>14, <1>16 DEF Counted
<1>19. Enters(V, A, V2, A2, parent, e, none) /\ SameBut(V, A, V2, A2, N, {parent})
  <2>1. IsTree(V, A, N, D, bits) /\ lba = V[parent].sec[1]
    BY <1>1
  <2> QED BY <1>9, <1>14, <1>17, <1>18, <2>1, EditedTree
<1>20. \A l \in Blocks : l # lba => A2[l] = A[l]
  BY <1>9, <1>15, <1>17, EditedAt
<1> QED BY <1>1, <1>8, <1>10, <1>14, <1>16, <1>19, <1>20, Zenon DEF ParentWritten

-----------------------------------------------------------------------------
(* Good states after unlink and rmdir *)

(* The blocks of an inode, on the disk and among the data.                 *)
LEMMA BlocksOfData ==
  ASSUME WithinBounds, NEW f, NEW x, x.sec[Direct + 1] = 0 \/ x.sec[Direct + 1] \in Blocks
  PROVE  /\ \A k \in 1..MaxBlocks : Address(f.disk, x, k) = Address(DataOf(f), x, k)
         /\ AllBlocks(f.disk, x) = AllBlocks(DataOf(f), x)
<1>1. x.sec[Direct + 1] # 0 => f.disk[x.sec[Direct + 1]] = DataOf(f)[x.sec[Direct + 1]]
  BY DEF DataOf
<1>2. \A k : Address(f.disk, x, k) = Address(DataOf(f), x, k)
  BY <1>1 DEF Address
<1> QED BY <1>2 DEF AllBlocks, BlocksIn

(* The blocks of an object can be freed: none is that of the root          *)
(* (inode_release inode.c:217).                                            *)
LEMMA BlocksFree ==
  ASSUME WithinBounds, NEW V, NEW A, NEW N, NEW D, NEW bits, IsTree(V, A, N, D, bits),
         bits \subseteq 0..block_bitmap_len - 1, NEW no \in N, no # 0
  PROVE  /\ \A l \in AllBlocks(A, V[no]) : CanFree(l)
         /\ V[no].sec[Direct + 1] = 0 \/ V[no].sec[Direct + 1] \in Blocks
<1>1. 0 \in N /\ IsDirectory(A, V[0], 0) /\ V[0].sec[1] = data_start_lba
  BY DEF IsTree
<1>2. data_start_lba \in AllBlocks(A, V[0])
  BY <1>1, DirectoryBlock
<1>3. ASSUME NEW l \in AllBlocks(A, V[no]) PROVE CanFree(l)
  <2>1. IsTaken(l, bits) /\ l # data_start_lba
    BY <1>1, <1>2 DEF IsTree, BlocksOK
  <2> QED BY <2>1, Sizes DEF CanFree, IsTaken
<1>4. V[no].sec[Direct + 1] = 0 \/ V[no].sec[Direct + 1] \in Blocks
  <2>1. Direct + 1 \in 2..Direct + 1
    BY Sizes
  <2> QED BY <2>1 DEF IsTree, IsDirectory, IsRegular
<1> QED BY <1>3, <1>4

\* What inode_release leaves of an inode: nothing, and its blocks are free.
Gone(f, g, no, blocks) ==
  /\ g.panic = "none" /\ DiskShape(g) /\ BitsOK(g)
  /\ g.open = Unlinked(f.open, no)
  /\ g.ibits = f.ibits \ {no} /\ g.bbits = f.bbits \ BitsAt(blocks)
  /\ OnlyNode(NodesOf(f), NodesOf(g), no)
  /\ DataOf(g) = DataOf(f)

(* An inode goes with its blocks, after its name (inode_release            *)
(* inode.c:217).                                                           *)
LEMMA Released ==
  ASSUME WithinBounds, NEW V, NEW A, NEW N, NEW D, NEW bits, IsTree(V, A, N, D, bits),
         NEW f, DiskShape(f), BitsOK(f), f.panic = "none", f.bbits = bits, f.ibits = N,
         NEW no \in N, no # 0, NodesOf(f)[no] = V[no], NEW parent,
         SameBut(V, A, NodesOf(f), DataOf(f), N, {parent}), no # parent,
         no \in DOMAIN f.open, IsOpen(f.open[no], V[no]),
         NEW g, g = ReleaseOpen(f, no)
  PROVE  Gone(f, g, no, AllBlocks(A, V[no]))
<1>1. PICK x, y : x = f.open[no] /\ y = V[no]
  OBVIOUS
<1>2. x.no = no /\ x.sec = y.sec
  <2>1. IsNode(y, no)
    BY <1>1 DEF IsTree
  <2>2. y.no = no
    BY <2>1 DEF IsNode
  <2>3. x.no = y.no /\ x.sec = y.sec
    BY <1>1, IsOpenFacts
  <2> QED BY <2>2, <2>3
<1>3. /\ \A l \in AllBlocks(A, y) : CanFree(l)
      /\ y.sec[Direct + 1] = 0 \/ y.sec[Direct + 1] \in Blocks
  BY <1>1, BlocksFree DEF BitsOK
<1>4. AllBlocks(DataOf(f), y) = AllBlocks(A, y)
  <2>1. \A l \in AllBlocks(A, y) \cap Blocks : DataOf(f)[l] = A[l]
    BY <1>1 DEF SameBut
  <2> QED BY <1>3, <2>1, NodeFrame
<1>5. /\ \A k \in 1..MaxBlocks : Address(f.disk, x, k) = Address(DataOf(f), y, k)
      /\ AllBlocks(f.disk, x) = AllBlocks(A, y)
  <2>1. x.sec[Direct + 1] = 0 \/ x.sec[Direct + 1] \in Blocks
    BY <1>2, <1>3
  <2>2. /\ \A k \in 1..MaxBlocks : Address(f.disk, x, k) = Address(DataOf(f), x, k)
        /\ AllBlocks(f.disk, x) = AllBlocks(DataOf(f), x)
    BY <2>1, BlocksOfData
  <2>3. \A k : Address(DataOf(f), x, k) = Address(DataOf(f), y, k)
    BY <1>2 DEF Address
  <2>4. AllBlocks(DataOf(f), x) = AllBlocks(DataOf(f), y)
    BY <1>2, <2>3 DEF AllBlocks, BlocksIn
  <2> QED BY <1>4, <2>2, <2>3, <2>4
<1>6. \A k \in 1..MaxBlocks : CanFree(Address(f.disk, f.open[no], k))
  <2>1. ASSUME NEW k \in 1..MaxBlocks PROVE CanFree(Address(f.disk, x, k))
    <3>1. Address(f.disk, x, k) = 0 \/ Address(f.disk, x, k) \in AllBlocks(f.disk, x)
      BY DEF AllBlocks, BlocksIn
    <3> QED BY <1>3, <1>5, <3>1 DEF CanFree
  <2> QED BY <1>1, <2>1
<1>7. CanFree(f.open[no].sec[Direct + 1])
  <2>1. y.sec[Direct + 1] = 0 \/ y.sec[Direct + 1] \in AllBlocks(A, y)
    BY DEF AllBlocks
  <2> QED BY <1>1, <1>2, <1>3, <2>1 DEF CanFree
<1>8. no \in Few /\ no \in 0..inode_bitmap_len - 1 /\ f.open[no].no = no
  BY <1>1, <1>2 DEF IsTree, BitsOK
<1>9. /\ g.panic = "none" /\ DiskShape(g) /\ BitsOK(g)
      /\ g.open = Unlinked(f.open, no)
      /\ g.ibits = f.ibits \ {no} /\ g.bbits = f.bbits \ BitsOwned(f, f.open[no])
      /\ \A m \in Few \ {no} : NodesOf(g)[m] = NodesOf(f)[m]
      /\ DataOf(g) = DataOf(f)
  BY <1>6, <1>7, <1>8, ReleaseEffect
<1>10. BitsOwned(f, f.open[no]) = BitsAt(AllBlocks(A, V[no]))
  BY <1>1, <1>5 DEF BitsOwned, BitsAt
<1> QED BY <1>9, <1>10 DEF OnlyNode, Gone

\* What is left of the tree without an object.
Removed(f, g, D, no) ==
  /\ g.panic = "none" /\ DiskShape(g) /\ BitsOK(g) /\ g.ibits = f.ibits \ {no}
  /\ IsTree(NodesOf(g), DataOf(g), f.ibits \ {no}, D \ {no}, g.bbits)

\* The open inodes are as in the table, but for the one that is gone.
OpenBut(g, N, no) == \E V : OpenOK(V, N, g.open) /\ OnlyNode(V, NodesOf(g), no)

(* A name and its object go (delete_dir_entry dir.c:82, inode_release      *)
(* inode.c:217).                                                           *)
LEMMA ObjectRemoved ==
  ASSUME WithinBounds, NEW f, NEW D, Good(f, D), f.panic = "none",
         NEW parent \in D, parent \in DOMAIN f.open, NEW e \in Rest, NEW en,
         en = Sheet(NodesOf(f), DataOf(f), parent)[e], en.type # "unknown",
         EmptyIf(Sheet(NodesOf(f), DataOf(f), en.no), en.no \in D),
         NEW g, g = inode_release(delete_dir_entry(f, parent, en.no), en.no)
  PROVE  /\ Removed(f, g, D, en.no) /\ OpenBut(g, f.ibits, en.no)
         /\ \A m : Cnt(g.open, m) = Cnt(f.open, m)
<1>1. PICK V, A, N, bits, no, f2, f3 :
        /\ V = NodesOf(f) /\ A = DataOf(f) /\ N = f.ibits /\ bits = f.bbits /\ no = en.no
        /\ f2 = delete_dir_entry(f, parent, no) /\ f3 = inode_open(f2, no)
  OBVIOUS
<1>2. IsTree(V, A, N, D, bits) /\ OpenOK(V, N, f.open) /\ DiskShape(f) /\ BitsOK(f)
  BY <1>1 DEF Good
<1>3. no \in N /\ no # 0 /\ N \subseteq Few /\ IsNode(V[no], no) /\ parent \in N
  <2>1. en = Sheet(V, A, parent)[e]
    BY <1>1
  <2>2. no \in N /\ no # 0
    BY <1>1, <1>2, <2>1, KidFacts
  <2> QED BY <1>2, <2>2 DEF IsTree
<1>4. no # parent
  BY <1>1 DEF EmptyIf
<1>5. ParentWritten(f, f2, N, parent, e, NoEntry)
  <2>1. f2 = delete_dir_entry(f, parent, en.no)
    BY <1>1
  <2>2. IsTree(NodesOf(f), DataOf(f), N, D, bits) /\ OpenOK(NodesOf(f), N, f.open)
    BY <1>1, <1>2
  <2> QED BY <1>2, <2>1, <2>2, NameErased
<1>6. PICK V2, A2 : V2 = NodesOf(f2) /\ A2 = DataOf(f2)
  OBVIOUS
<1>7. /\ f2.panic = "none" /\ DiskShape(f2) /\ f2.bbits = bits /\ f2.ibits = N
      /\ Enters(V, A, V2, A2, parent, e, NoEntry) /\ SameBut(V, A, V2, A2, N, {parent})
      /\ OnlyNode(V, V2, parent) /\ OpenOK(V2, N, f2.open) /\ SameCnt(f.open, f2.open)
  BY <1>1, <1>5, <1>6 DEF ParentWritten
<1>8. V2[no] = V[no] /\ no \in Few
  BY <1>3, <1>4, <1>7 DEF OnlyNode
<1>9. /\ Quiet(f2, f3) /\ f3.open = Linked(f2.open, no, V2[no])
      /\ f3.panic = "none" /\ f3.bbits = bits /\ f3.ibits = N
  BY <1>1, <1>6, <1>7, <1>8, OpenCloseEffect
<1>10. /\ DiskShape(f3) /\ NodesOf(f3) = V2 /\ DataOf(f3) = A2 /\ BitsOK(f3)
  BY <1>1, <1>2, <1>6, <1>9 DEF Quiet, BitsOK
<1>11. PICK o2, o3 : o2 = f2.open /\ o3 = f3.open
  OBVIOUS
<1>12. OpenOK(V2, N, o3) /\ UserMore(o2, o3, no)
  <2>1. OpenOK(V2, N, o2) /\ o3 = Linked(o2, no, V2[no]) /\ IsNode(V2[no], no)
    BY <1>3, <1>7, <1>8, <1>9, <1>11
  <2> QED BY <1>3, <2>1, LinkedOK
<1>13. no \in DOMAIN o3 /\ IsOpen(o3[no], V[no])
  <2>1. no \in DOMAIN o3
    BY <1>12 DEF UserMore
  <2> QED BY <1>8, <1>12, <2>1 DEF OpenOK
<1>14. g = ReleaseOpen(f3, no)
  BY <1>1 DEF inode_release
<1>15. /\ g.panic = "none" /\ DiskShape(g) /\ BitsOK(g)
       /\ g.open = Unlinked(f3.open, no)
       /\ g.ibits = f3.ibits \ {no} /\ g.bbits = f3.bbits \ BitsAt(AllBlocks(A, V[no]))
       /\ OnlyNode(NodesOf(f3), NodesOf(g), no)
       /\ DataOf(g) = DataOf(f3)
  <2>. SUFFICES Gone(f3, g, no, AllBlocks(A, V[no]))
    BY DEF Gone
  <2>1. SameBut(V, A, NodesOf(f3), DataOf(f3), N, {parent}) /\ NodesOf(f3)[no] = V[no]
    BY <1>7, <1>8, <1>10
  <2>2. no \in DOMAIN f3.open /\ IsOpen(f3.open[no], V[no])
    BY <1>11, <1>13
  <2> QED BY <1>2, <1>3, <1>4, <1>9, <1>10, <1>14, <2>1, <2>2, Released
<1>16. PICK V4, o4 : V4 = NodesOf(g) /\ o4 = g.open
  OBVIOUS
<1>17. OnlyNode(V2, V4, no) /\ DataOf(g) = A2 /\ o4 = Unlinked(o3, no)
  BY <1>10, <1>11, <1>15, <1>16
<1>18. OpenOK(V2, N, o4) /\ UserLess(o3, o4, no)
  BY <1>12, <1>13, <1>17, UnlinkedOK
<1>19. \A m : Cnt(g.open, m) = Cnt(f.open, m)
  <2>1. \A m : Cnt(f.open, m) \in Nat
    BY <1>2, CntFacts
  <2>2. \A m : OneUser(m, no) \in Nat
    BY DEF OneUser
  <2>3. \A m : Cnt(o2, m) = Cnt(f.open, m)
    BY <1>7, <1>11 DEF SameCnt
  <2>4. \A m : Cnt(o3, m) = Cnt(o2, m) + OneUser(m, no)
    BY <1>12 DEF UserMore
  <2>5. \A m : Cnt(o4, m) = Cnt(o3, m) - OneUser(m, no)
    BY <1>18 DEF UserLess
  <2> QED BY <1>16, <2>1, <2>2, <2>3, <2>4, <2>5
<1>20. Enters(V, A, V4, A2, parent, e, NoEntry) /\ SameBut(V, A, V4, A2, N, {parent, no})
  <2>1. V4[parent] = V2[parent]
    BY <1>3, <1>4, <1>17 DEF OnlyNode
  <2>2. Enters(V, A, V4, A2, parent, e, NoEntry)
    BY <1>7, <2>1 DEF Enters
  <2> QED BY <1>3, <1>7, <1>17, <2>2 DEF SameBut, OnlyNode
<1>21. IsTree(V4, A2, N \ {no}, D \ {no}, g.bbits)
  <2>1. no = Sheet(V, A, parent)[e].no /\ Sheet(V, A, parent)[e].type # "unknown"
    BY <1>1
  <2>2. EmptyIf(Sheet(V, A, no), no \in D)
    BY <1>1
  <2>3. g.bbits = bits \ BitsAt(AllBlocks(A, V[no]))
    BY <1>9, <1>15
  <2> QED BY <1>2, <1>20, <2>1, <2>2, <2>3, TreeRemove
<1>22. Removed(f, g, D, en.no)
  BY <1>1, <1>9, <1>15, <1>16, <1>17, <1>21 DEF Removed
<1>23. OpenBut(g, f.ibits, en.no)
  BY <1>1, <1>16, <1>17, <1>18 DEF OpenBut
<1> QED BY <1>19, <1>22, <1>23

(* Of a directory with two entries nothing but "." and ".." is left        *)
(* (dir_is_empty dir.c:517).                                               *)
LEMMA EmptyDirectory ==
  ASSUME WithinBounds, NEW A, NEW x, NEW d, IsDirectory(A, x, d), x.size = 2
  PROVE  \A i \in Rest : A[x.sec[1]][i].type = "unknown"
<1>1. PICK s : s = A[x.sec[1]]
  OBVIOUS
<1>2. IsEntries(s, d) /\ Cardinality(Used(s)) = 2 /\ EntriesPerSec \in Nat /\ EntriesPerSec >= 2
  BY <1>1, Sizes DEF IsDirectory
<1>3. s[1].type = "directory" /\ s[2].type = "directory"
  BY <1>2, DotsFacts DEF IsEntries
<1>4. {1, 2} \subseteq Used(s) /\ Used(s) \subseteq 1..EntriesPerSec
  BY <1>2, <1>3 DEF Used
<1>5. IsFiniteSet(Used(s))
  <2>1. IsFiniteSet(1..EntriesPerSec)
    BY <1>2, FS_Interval
  <2> QED BY <1>4, <2>1, FS_Subset
<1>6. Cardinality({1, 2}) = 2
  <2>1. IsFiniteSet({1}) /\ Cardinality({1}) = 1
    BY FS_Singleton
  <2>2. Cardinality({1} \cup {2}) = 2
    BY <2>1, FS_AddElement
  <2>3. {1, 2} = {1} \cup {2}
    OBVIOUS
  <2> QED BY <2>2, <2>3
<1>7. {1, 2} = Used(s)
  BY <1>2, <1>4, <1>5, <1>6, FS_Subset
<1>8. ASSUME NEW i \in Rest PROVE s[i].type = "unknown"
  BY <1>2, <1>7 DEF Used, Rest
<1> QED BY <1>1, <1>8

(* After the last user of the object has gone.                             *)
LEMMA OpenAfter ==
  ASSUME NEW V, NEW V2, NEW N, N \subseteq Few, NEW no, OnlyNode(V, V2, no), NEW open, OpenOK(V, N, open),
         Cnt(open, no) = 0
  PROVE  OpenOK(V2, N \ {no}, open)
<1>1. no \notin DOMAIN open
  BY CntFacts
<1> QED BY <1>1 DEF OpenOK, OnlyNode

(* The entry that search_file has found.                                   *)
LEMMA FoundEntry ==
  ASSUME WithinBounds, NEW f, NEW D, Good(f, D), NEW path \in Paths, NEW rec, rec = search_file(f, path),
         rec.no # -1
  PROVE  /\ rec.parent \in D /\ rec.held \in BOOLEAN /\ (~rec.held => rec.parent = 0)
         /\ rec.no \in f.ibits /\ rec.no # 0 /\ (rec.no \in D <=> rec.type = "directory")
         /\ \E e \in Rest : LET en == Sheet(NodesOf(f), DataOf(f), rec.parent)[e]
                            IN  en.type # "unknown" /\ en.no = rec.no
<1>1. RecOK(f, D, path, rec, Len(path))
  BY SearchFile
<1>2. rec.parent \in D /\ rec.held \in BOOLEAN /\ (~rec.held => rec.parent = 0)
  BY <1>1 DEF RecOK
<1>3. PICK e \in Rest : LET en == Sheet(NodesOf(f), DataOf(f), rec.parent)[e]
                        IN  IsNamed(en) /\ en.no = rec.no /\ en.type = rec.type
  BY <1>1 DEF RecOK
<1>4. PICK en : en = Sheet(NodesOf(f), DataOf(f), rec.parent)[e]
  OBVIOUS
<1>5. en.type # "unknown" /\ en.no = rec.no /\ en.type = rec.type
  BY <1>3, <1>4 DEF IsNamed
<1>6. en.no \in f.ibits /\ en.no # 0 /\ (en.no \in D <=> en.type = "directory")
  BY <1>2, <1>4, <1>5, KidFacts DEF Good
<1> QED BY <1>2, <1>4, <1>5, <1>6

\* The parent of rec has been opened; every inode has the users it had.
HeldMore(f, g, rec) == \A m : Cnt(g.open, m) = Cnt(f.open, m) + Held(rec, m)

SameUsers(f, g) == \A m : Cnt(g.open, m) = Cnt(f.open, m)

\* An inode and its name have been removed.
ObjectGone(f, g, D, no) ==
  /\ Good(g, D \ {no}) /\ g.panic = "none" /\ g.ibits = f.ibits \ {no}
  /\ SameUsers(f, g)

(* A call that removes an inode ends with dir_close of the parent.         *)
LEMMA RemovedGood ==
  ASSUME WithinBounds, NEW f, NEW D, Good(f, D), NEW no, Cnt(f.open, no) = 0,
         NEW rec, rec.held \in BOOLEAN, NEW f3, Removed(f, f3, D, no), OpenBut(f3, f.ibits, no),
         HeldMore(f, f3, rec), rec.parent \in DOMAIN f3.open, NEW g, g = CloseParent(f3, rec)
  PROVE  ObjectGone(f, g, D, no) /\ Follows(f3, g)
<1>1. PICK V : OpenOK(V, f.ibits, f3.open) /\ OnlyNode(V, NodesOf(f3), no)
  BY DEF OpenBut
<1>2. /\ f3.panic = "none" /\ DiskShape(f3) /\ BitsOK(f3) /\ f3.ibits = f.ibits \ {no}
      /\ IsTree(NodesOf(f3), DataOf(f3), f.ibits \ {no}, D \ {no}, f3.bbits)
  BY DEF Removed
<1>3. /\ OpenOK(V, f.ibits, g.open) /\ Quiet(f3, g) /\ g.panic = f3.panic
      /\ g.bbits = f3.bbits /\ g.ibits = f3.ibits
      /\ \A m : Cnt(g.open, m) = Cnt(f3.open, m) - Held(rec, m)
  <2>1. PICK N : N = f.ibits
    OBVIOUS
  <2>2. OpenOK(V, N, f3.open)
    BY <1>1, <2>1
  <2>3. DiskShape(f3)
    BY <1>2
  <2>4. ParentClosed(f3, g, rec, V, N)
    BY ONLY WithinBounds, g = CloseParent(f3, rec), rec.held \in BOOLEAN, rec.parent \in DOMAIN f3.open,
            <2>2, <2>3, CloseParentEffect
  <2> QED BY <2>1, <2>4 DEF ParentClosed
<1>4. \A m : Cnt(g.open, m) = Cnt(f.open, m)
  <2>1. \A m : Cnt(f.open, m) \in Nat /\ Held(rec, m) \in Nat
    BY CntFacts DEF Good, Held
  <2> QED BY <1>3, <2>1 DEF HeldMore
<1>5. OpenOK(NodesOf(g), g.ibits, g.open)
  <2>1. PICK V2, N, op : V2 = NodesOf(f3) /\ N = f.ibits /\ op = g.open
    OBVIOUS
  <2>2. N \subseteq Few
    BY <2>1 DEF Good, IsTree
  <2>3. OpenOK(V2, N \ {no}, op)
    BY <1>1, <1>3, <1>4, <2>1, <2>2, OpenAfter
  <2> QED BY <1>2, <1>3, <2>1, <2>3 DEF Quiet
<1>6. Good(g, D \ {no})
  BY <1>2, <1>3, <1>5 DEF Good, Quiet, BitsOK
<1>7. Follows(f3, g)
  BY <1>2, ParentFollows DEF DiskShape
<1> QED BY <1>2, <1>3, <1>4, <1>6, <1>7 DEF SameUsers, ObjectGone

(* sys_unlink (fs.c:745) of a file that no slot has open.                  *)
LEMMA UnlinkGood ==
  ASSUME WithinBounds, NEW f, NEW D, Good(f, D), f.panic = "none", 0 \in DOMAIN f.open,
         NEW path \in Paths, NEW rec, rec = search_file(f, path), rec.type = "regular",
         NEW no, no = rec.no, no # -1, Cnt(f.open, no) = 0,
         NEW g, g = CloseParent(inode_release(delete_dir_entry(OpenParent(f, rec), rec.parent, no), no), rec)
  PROVE  /\ ObjectGone(f, g, D, no) /\ Follows(f, g)
         /\ no \in f.ibits \ D
<1>1. /\ rec.parent \in D /\ rec.held \in BOOLEAN /\ (~rec.held => rec.parent = 0)
      /\ no \in f.ibits /\ no # 0 /\ (no \in D <=> rec.type = "directory")
      /\ \E e \in Rest : LET en == Sheet(NodesOf(f), DataOf(f), rec.parent)[e]
                         IN  en.type # "unknown" /\ en.no = no
  BY FoundEntry
<1>2. PICK f1, f2, f3, parent : /\ f1 = OpenParent(f, rec) /\ f2 = delete_dir_entry(f1, parent, no)
                                /\ f3 = inode_release(f2, no) /\ parent = rec.parent
  OBVIOUS
<1>3. g = CloseParent(f3, rec)
  BY <1>2
<1>4. /\ Good(f1, D) /\ Quiet(f, f1) /\ Follows(f, f1) /\ f1.panic = "none"
      /\ f1.bbits = f.bbits /\ f1.ibits = f.ibits /\ parent \in DOMAIN f1.open
      /\ \A m : Cnt(f1.open, m) = Cnt(f.open, m) + Held(rec, m)
  BY <1>1, <1>2, OpenParentEffect
<1>5. PICK e, en : e \in Rest /\ en = Sheet(NodesOf(f1), DataOf(f1), parent)[e] /\ en.type # "unknown" /\ en.no = no
  BY <1>1, <1>2, <1>4 DEF Quiet
<1>6. no \notin D
  BY <1>1
<1>7. /\ Removed(f1, f3, D, no) /\ OpenBut(f3, f1.ibits, no)
      /\ \A m : Cnt(f3.open, m) = Cnt(f1.open, m)
  <2>1. EmptyIf(Sheet(NodesOf(f1), DataOf(f1), en.no), en.no \in D)
    BY <1>5, <1>6 DEF EmptyIf
  <2>2. f3 = inode_release(delete_dir_entry(f1, parent, en.no), en.no)
    BY <1>2, <1>5
  <2>3. parent \in D
    BY <1>1, <1>2
  <2>4. /\ Removed(f1, f3, D, en.no) /\ OpenBut(f3, f1.ibits, en.no)
        /\ \A m : Cnt(f3.open, m) = Cnt(f1.open, m)
    BY <1>4, <1>5, <2>1, <2>2, <2>3, ObjectRemoved
  <2> QED BY <1>5, <2>4
<1>8. Removed(f, f3, D, no) /\ OpenBut(f3, f.ibits, no) /\ D \ {no} = D
  BY <1>4, <1>6, <1>7 DEF Removed
<1>9. HeldMore(f, f3, rec)
  BY <1>4, <1>7 DEF HeldMore
<1>10. parent \in DOMAIN f3.open
  BY <1>4, <1>7, <1>8, CntFacts DEF Good, OpenBut
<1>11. ObjectGone(f, g, D, no) /\ Follows(f3, g)
  <2>1. rec.parent \in DOMAIN f3.open
    BY <1>2, <1>10
  <2>2. rec.held \in BOOLEAN
    BY <1>1
  <2>3. Removed(f, f3, D, no)
    BY <1>8
  <2>4. OpenBut(f3, f.ibits, no)
    BY <1>8
  <2> QED BY ONLY WithinBounds, Good(f, D), Cnt(f.open, no) = 0, <1>3, <1>9, <2>1, <2>2, <2>3, <2>4, RemovedGood
<1>12. Follows(f, g)
  <2>1. IsFs(f1)
    BY <1>4 DEF Good, DiskShape
  <2>2. Follows(f1, f2)
    BY <1>2, <2>1, DeleteFollows
  <2>3. IsFs(f2)
    BY <2>2 DEF Follows
  <2>4. Follows(f2, f3)
    BY <1>2, <2>3, ReleaseFollows
  <2> QED BY <1>4, <1>11, <2>2, <2>4, FollowsTwice
<1> QED BY <1>1, <1>6, <1>11, <1>12

(* inode_open (inode.c:100) of an inode of the tree.                       *)
LEMMA OpenGood ==
  ASSUME WithinBounds, NEW f, NEW D, Good(f, D), NEW no \in f.ibits, NEW g, g = inode_open(f, no)
  PROVE  /\ Good(g, D) /\ Quiet(f, g) /\ Follows(f, g) /\ g.panic = f.panic /\ g.ibits = f.ibits
         /\ g.bbits = f.bbits /\ no \in DOMAIN g.open /\ UserMore(f.open, g.open, no)
<1>1. DiskShape(f) /\ BitsOK(f) /\ OpenOK(NodesOf(f), f.ibits, f.open) /\ IsFs(f)
  BY DEF Good, DiskShape
<1>2. no \in Few /\ IsNode(NodesOf(f)[no], no)
  BY DEF Good, IsTree
<1>3. /\ Quiet(f, g) /\ g.open = Linked(f.open, no, NodesOf(f)[no])
      /\ g.panic = f.panic /\ g.bbits = f.bbits /\ g.ibits = f.ibits
  BY <1>1, <1>2, OpenCloseEffect
<1>4. PICK V, N, open, op2 : V = NodesOf(f) /\ N = f.ibits /\ open = f.open /\ op2 = g.open
  OBVIOUS
<1>5. OpenOK(V, N, op2) /\ UserMore(open, op2, no)
  <2>1. OpenOK(V, N, open)
    BY <1>1, <1>4
  <2>2. no \in N
    BY <1>4
  <2>3. IsNode(V[no], no)
    BY <1>2, <1>4
  <2>4. op2 = Linked(open, no, V[no])
    BY <1>3, <1>4
  <2> QED BY ONLY <2>1, <2>2, <2>3, <2>4, LinkedOK
<1>6. OpenOK(NodesOf(f), f.ibits, g.open) /\ UserMore(f.open, g.open, no)
  BY <1>4, <1>5
<1>7. Good(g, D)
  BY <1>1, <1>3, <1>6 DEF Good, Quiet, BitsOK
<1>8. Follows(f, g)
  BY <1>1, OpenCloseFollow
<1>9. no \in DOMAIN g.open
  BY <1>6 DEF UserMore
<1> QED BY <1>3, <1>6, <1>7, <1>8, <1>9

(* sys_rmdir (fs.c:1013) of an empty directory.                            *)
LEMMA RmdirGood ==
  ASSUME WithinBounds, NEW f, NEW D, Good(f, D), f.panic = "none", 0 \in DOMAIN f.open,
         NEW path \in Paths, NEW rec, rec = search_file(f, path), rec.type = "directory",
         NEW no, no = rec.no, dir_is_empty(InodeAt(f, no)), Cnt(f.open, no) = 0,
         NEW g, g = CloseParent(inode_close(dir_remove(inode_open(OpenParent(f, rec), no), rec.parent, no), no), rec)
  PROVE  /\ ObjectGone(f, g, D, no) /\ Follows(f, g)
         /\ no \in D \ {0}
<1>0. no # -1
  BY SearchFile DEF RecOK
<1>1. /\ rec.parent \in D /\ rec.held \in BOOLEAN /\ (~rec.held => rec.parent = 0)
      /\ no \in f.ibits /\ no # 0 /\ no \in D
      /\ \E e \in Rest : LET en == Sheet(NodesOf(f), DataOf(f), rec.parent)[e]
                         IN  en.type # "unknown" /\ en.no = no
  BY <1>0, FoundEntry
<1>2. PICK f1, f2, f3, f4, parent :
         /\ f1 = OpenParent(f, rec) /\ f2 = inode_open(f1, no) /\ f3 = dir_remove(f2, parent, no)
         /\ f4 = inode_close(f3, no) /\ parent = rec.parent
  OBVIOUS
<1>3. g = CloseParent(f4, rec) /\ parent \in D
  BY <1>1, <1>2
<1>4. /\ Good(f1, D) /\ Quiet(f, f1) /\ Follows(f, f1) /\ f1.panic = "none"
      /\ f1.bbits = f.bbits /\ f1.ibits = f.ibits /\ parent \in DOMAIN f1.open
      /\ \A m : Cnt(f1.open, m) = Cnt(f.open, m) + Held(rec, m)
  BY <1>1, <1>2, OpenParentEffect
<1>5. /\ Good(f2, D) /\ Quiet(f1, f2) /\ Follows(f1, f2) /\ f2.panic = "none" /\ f2.ibits = f.ibits
      /\ no \in DOMAIN f2.open /\ UserMore(f1.open, f2.open, no)
  BY <1>1, <1>2, <1>4, OpenGood
<1>6. parent \in DOMAIN f2.open
  BY <1>4, <1>5 DEF UserMore
<1>7. PICK V, A : V = NodesOf(f2) /\ A = DataOf(f2) /\ V = NodesOf(f) /\ A = DataOf(f)
  BY <1>4, <1>5 DEF Quiet
<1>8. IsDirectory(A, V[no], no) /\ IsOpen(f2.open[no], V[no])
  BY <1>1, <1>5, <1>7 DEF Good, IsTree, OpenOK
<1>9. f3 = inode_release(delete_dir_entry(f2, parent, no), no)
  <2>1. f2.open[no].sec = V[no].sec
    BY <1>8, IsOpenFacts
  <2>2. \A k \in 2..Direct : f2.open[no].sec[k] = 0
    BY <1>8, <2>1, Sizes DEF IsDirectory
  <2> QED BY <1>2, <2>2, Zenon DEF dir_remove, ASSERT
<1>10. \A i \in Rest : Sheet(V, A, no)[i].type = "unknown"
  <2>1. V[no].size = 2
    BY <1>1, <1>7, InodeAtFacts DEF dir_is_empty
  <2> QED BY <1>8, <2>1, EmptyDirectory DEF Sheet
<1>11. PICK e, en : e \in Rest /\ en = Sheet(NodesOf(f2), DataOf(f2), parent)[e] /\ en.type # "unknown" /\ en.no = no
  BY <1>1, <1>2, <1>7
<1>12. /\ Removed(f2, f3, D, no) /\ OpenBut(f3, f2.ibits, no)
       /\ \A m : Cnt(f3.open, m) = Cnt(f2.open, m)
  <2>1. EmptyIf(Sheet(NodesOf(f2), DataOf(f2), en.no), en.no \in D)
    BY <1>7, <1>10, <1>11 DEF EmptyIf
  <2>2. f3 = inode_release(delete_dir_entry(f2, parent, en.no), en.no)
    BY <1>9, <1>11
  <2>3. /\ Removed(f2, f3, D, en.no) /\ OpenBut(f3, f2.ibits, en.no)
        /\ \A m : Cnt(f3.open, m) = Cnt(f2.open, m)
    BY <1>3, <1>5, <1>6, <1>11, <2>1, <2>2, ObjectRemoved
  <2> QED BY <1>11, <2>3
<1>13. PICK W : OpenOK(W, f.ibits, f3.open) /\ OnlyNode(W, NodesOf(f3), no)
  BY <1>5, <1>12 DEF OpenBut
<1>14. /\ f3.panic = "none" /\ DiskShape(f3) /\ BitsOK(f3) /\ f3.ibits = f.ibits \ {no}
       /\ IsTree(NodesOf(f3), DataOf(f3), f.ibits \ {no}, D \ {no}, f3.bbits)
  BY <1>5, <1>12 DEF Removed
<1>15. /\ Quiet(f3, f4) /\ f4.open = Unlinked(f3.open, no)
       /\ f4.panic = "none" /\ f4.bbits = f3.bbits /\ f4.ibits = f3.ibits
  BY <1>2, <1>14, OpenCloseEffect
<1>16. no \in DOMAIN f3.open /\ parent \in DOMAIN f3.open
  BY <1>5, <1>6, <1>12, <1>13, CntFacts DEF Good
<1>17. OpenOK(W, f.ibits, f4.open) /\ UserLess(f3.open, f4.open, no)
  <2>1. PICK N, open, op2 : N = f.ibits /\ open = f3.open /\ op2 = f4.open
    OBVIOUS
  <2>2. OpenOK(W, N, open)
    BY <1>13, <2>1
  <2>3. no \in DOMAIN open /\ op2 = Unlinked(open, no)
    BY <1>15, <1>16, <2>1
  <2>4. OpenOK(W, N, op2) /\ UserLess(open, op2, no)
    BY ONLY <2>2, <2>3, UnlinkedOK
  <2> QED BY <2>1, <2>4
<1>18. HeldMore(f, f4, rec) /\ parent \in DOMAIN f4.open
  <2>1. \A m : Cnt(f.open, m) \in Nat /\ Held(rec, m) \in Nat /\ OneUser(m, no) \in Nat
    BY CntFacts DEF Good, Held, OneUser
  <2>2. \A m : Cnt(f4.open, m) = Cnt(f.open, m) + Held(rec, m)
    BY <1>4, <1>5, <1>12, <1>17, <2>1 DEF UserMore, UserLess
  <2>3. Cnt(f4.open, parent) # 0
    <3>1. Cnt(f1.open, parent) # 0
      BY <1>4, CntFacts DEF Good
    <3> QED BY <1>4, <2>2, <3>1
  <2> QED BY <1>17, <2>2, <2>3, CntFacts DEF HeldMore
<1>19. Removed(f, f4, D, no) /\ OpenBut(f4, f.ibits, no)
  BY <1>13, <1>14, <1>15, <1>17 DEF Removed, OpenBut, Quiet, BitsOK
<1>20. ObjectGone(f, g, D, no) /\ Follows(f4, g)
  <2>1. rec.parent \in DOMAIN f4.open
    BY <1>2, <1>18
  <2>2. rec.held \in BOOLEAN
    BY <1>1
  <2>3. Removed(f, f4, D, no)
    BY <1>19
  <2>4. OpenBut(f4, f.ibits, no)
    BY <1>19
  <2>5. HeldMore(f, f4, rec)
    BY <1>18
  <2>6. g = CloseParent(f4, rec)
    BY <1>3
  <2> QED BY ONLY WithinBounds, Good(f, D), Cnt(f.open, no) = 0, <2>1, <2>2, <2>3, <2>4, <2>5, <2>6, RemovedGood
<1>21. Follows(f, g)
  <2>1. PICK d : d = delete_dir_entry(f2, parent, no)
    OBVIOUS
  <2>2. Follows(f2, d)
    BY <1>5, <2>1, DeleteFollows DEF Good, DiskShape
  <2>3. IsFs(d)
    BY <2>2 DEF Follows
  <2>4. Follows(d, f3)
    BY <1>9, <2>1, <2>3, ReleaseFollows
  <2>5. Follows(f3, f4)
    BY <1>2, <1>14, OpenCloseFollow DEF DiskShape
  <2> QED BY <1>4, <1>5, <1>20, <2>2, <2>4, <2>5, FollowsTwice
<1> QED BY <1>1, <1>20, <1>21

\* The new inode is in the table, with the object of its entry.
Added(h1, h2, N, D, bits, en, x) ==
  /\ h2.panic = "none" /\ DiskShape(h2)
  /\ h2.open = h1.open /\ h2.bbits = h1.bbits /\ h2.ibits = h1.ibits
  /\ NodesOf(h2)[en.no] = x /\ DataOf(h2) = DataOf(h1)
  /\ IsTree(NodesOf(h2), DataOf(h2), N \cup {en.no},
            IF en.type = "directory" THEN D \cup {en.no} ELSE D, bits)
  /\ OpenOK(NodesOf(h2), N \cup {en.no}, h2.open)

(* A new name is in its directory; inode_sync (inode.c:58) writes the new  *)
(* inode.                                                                  *)
LEMMA ObjectAdded ==
  ASSUME WithinBounds, NEW h, NEW N, NEW D, NEW bits, IsTree(NodesOf(h), DataOf(h), N, D, bits),
         NEW parent \in D, NEW e \in Rest, NEW en, IsNamed(en), en.no \in Few \ N, en.name \in EntryNames,
         NewName(Sheet(NodesOf(h), DataOf(h), parent), en.name),
         NEW h1, ParentWritten(h, h1, N, parent, e, en), NEW y, y.no = en.no, NEW x, x = OnDisk(y),
         ObjectFor(en, DataOf(h1), x), Apart(AllBlocks(DataOf(h1), x), NodesOf(h), DataOf(h), N, bits),
         NEW h2, h2 = inode_sync(h1, y)
  PROVE  Added(h1, h2, N, D, bits, en, x)
<1>1. PICK V, A, V1, A1, V2, A2, no :
         /\ V = NodesOf(h) /\ A = DataOf(h) /\ V1 = NodesOf(h1) /\ A1 = DataOf(h1)
         /\ V2 = NodesOf(h2) /\ A2 = DataOf(h2) /\ no = en.no
  OBVIOUS
<1>2. /\ h1.panic = "none" /\ DiskShape(h1)
      /\ Enters(V, A, V1, A1, parent, e, en) /\ SameBut(V, A, V1, A1, N, {parent})
      /\ OpenOK(V1, N, h1.open)
  BY <1>1 DEF ParentWritten
<1>3. no \in Few /\ no \notin N /\ parent \in N /\ N \subseteq Few /\ parent # no
  BY <1>1 DEF IsTree
<1>4. /\ h2.panic = "none" /\ DiskShape(h2)
      /\ h2.open = h1.open /\ h2.bbits = h1.bbits /\ h2.ibits = h1.ibits
      /\ V2 = Changed(V1, no, x) /\ A2 = A1
  BY <1>1, <1>2, <1>3, InodeSyncEffect
<1>5. V1 = [m \in Few |-> V1[m]]
  BY <1>1 DEF NodesOf
<1>6. V2[no] = x /\ \A m \in N : V2[m] = V1[m]
  BY <1>3, <1>4, <1>5 DEF Changed
<1>7. Enters(V, A, V2, A2, parent, e, en)
  BY <1>2, <1>3, <1>4, <1>6 DEF Enters
<1>8. SameBut(V, A, V2, A2, N, {parent})
  BY <1>2, <1>4, <1>6 DEF SameBut
<1>9. OpenOK(V2, N \cup {no}, h2.open)
  BY <1>2, <1>4, <1>6 DEF OpenOK
<1>10. PICK D2 : D2 = (IF en.type = "directory" THEN D \cup {en.no} ELSE D)
  OBVIOUS
<1>11. IsTree(V2, A2, N \cup {en.no}, D2, bits)
  <2>1. ObjectFor(en, A2, V2[en.no])
    BY <1>1, <1>4, <1>6
  <2>2. Apart(AllBlocks(A2, V2[en.no]), V, A, N, bits)
    BY <1>1, <1>4, <1>6
  <2>3. IsTree(V, A, N, D, bits) /\ NewName(Sheet(V, A, parent), en.name)
    BY <1>1
  <2>4. bits \subseteq bits
    OBVIOUS
  <2> QED BY ONLY WithinBounds, parent \in D, e \in Rest, IsNamed(en), en.no \in Few \ N, en.name \in EntryNames,
                  <1>7, <1>8, <1>10, <2>1, <2>2, <2>3, <2>4, TreeAdd
<1>12. NodesOf(h2)[en.no] = x
  BY <1>1, <1>6
<1>13. IsTree(NodesOf(h2), DataOf(h2), N \cup {en.no}, D2, bits) /\ OpenOK(NodesOf(h2), N \cup {en.no}, h2.open)
  BY <1>1, <1>9, <1>11
<1> QED BY <1>1, <1>4, <1>10, <1>12, <1>13 DEF Added

(* The inode of a new file.                                                *)
LEMMA NewFile ==
  ASSUME WithinBounds, NEW no \in Nat, NEW A, NEW x, x = OnDisk(inode_init(no))
  PROVE  /\ IsNode(x, no) /\ IsRegular(A, x) /\ AllBlocks(A, x) = {}
         /\ [inode_init(no) EXCEPT !.cnt = 1] = x
<1>1. PICK S, n, y : S = [k \in 1..Direct + 1 |-> 0] /\ n = Direct + 1 /\ y = inode_init(no)
  OBVIOUS
<1>2. y = [no |-> no, size |-> 0, sec |-> S, cnt |-> 0, deny |-> FALSE]
  BY <1>1 DEF inode_init, Zeros
<1>10. PICK no2, z, f : no2 = no /\ z = 0 /\ f = FALSE
  OBVIOUS
<1>11. y = Node(no2, z, S, z, f)
  BY ONLY <1>2, <1>10, Zenon DEF Node
<1>12. y.no = no2 /\ y.size = z /\ y.sec = S /\ [y EXCEPT !.cnt = 1] = Node(no2, z, S, 1, f)
  BY <1>11, NodeChanges
<1>13. S = [k \in 1..Direct + 1 |-> S[k]]
  BY <1>1
<1>14. x = [no |-> y.no, size |-> y.size, sec |-> S, cnt |-> 1, deny |-> f]
  BY ONLY <1>1, <1>10, <1>12, <1>13, x = OnDisk(inode_init(no)), Zenon DEF OnDisk
<1>3. x = [no |-> no, size |-> 0, sec |-> S, cnt |-> 1, deny |-> FALSE]
  BY ONLY <1>10, <1>12, <1>14, Zenon
<1>4. [y EXCEPT !.cnt = 1] = x
  BY ONLY <1>12, <1>14, Zenon DEF Node
<1>5. IsNode(x, no)
  <2>1. x.size = 0 /\ x.sec = S
    BY <1>3
  <2>2. S = [k \in 1..Direct + 1 |-> S[k]] /\ \A k \in 1..Direct + 1 : S[k] \in Nat
    BY <1>1
  <2> QED BY <1>3, <2>1, <2>2 DEF IsNode
<1>6. x.size = 0 /\ \A k \in 1..Direct + 1 : x.sec[k] = 0
  BY <1>1, <1>3
<1>7. x.sec[Direct + 1] = 0 /\ \A k \in 1..MaxBlocks : Address(A, x, k) = 0
  BY <1>6, Sizes DEF Address
<1>8. IsRegular(A, x)
  <2>1. FileBlocks(x.size) = 0
    BY <1>6 DEF FileBlocks
  <2>2. x.size <= MaxSize
    BY <1>6, FsAssumption
  <2>3. \A k \in 1..MaxBlocks : /\ Address(A, x, k) \in Nat
                                /\ (Address(A, x, k) # 0 <=> k <= FileBlocks(x.size))
                                /\ (Address(A, x, k) = x.sec[Direct + 1] => Address(A, x, k) = 0)
    BY <1>7, <2>1
  <2>4. ~(x.sec[Direct + 1] # 0) /\ ~(FileBlocks(x.size) > Direct)
    BY <1>7, <2>1, Sizes
  <2>5. Distinct(A, x)
    BY <1>7 DEF Distinct
  <2>6. Holds(A, x, x.no, 0..x.size - 1)
    BY <1>6 DEF Holds
  <2> QED BY <2>2, <2>3, <2>4, <2>5, <2>6 DEF IsRegular
<1>9. AllBlocks(A, x) = {}
  BY <1>7 DEF AllBlocks, BlocksIn
<1> QED BY <1>1, <1>4, <1>5, <1>8, <1>9

(* A name that search_file (fs.c:414) has not found may be entered.        *)
LEMMA NameIsNew ==
  ASSUME WithinBounds, NEW f, NEW D, Good(f, D), NEW path \in Paths, path \in FilePaths \cup DirPaths,
         NEW rec, rec = search_file(f, path), rec.no = -1, rec.depth = Len(path), NEW name, name = Last(path),
         NEW no, NEW type \in {"regular", "directory"}, NEW en, en = Entry(name, no, type)
  PROVE  /\ rec.parent \in D /\ rec.held \in BOOLEAN /\ (~rec.held => rec.parent = 0)
         /\ name \in EntryNames /\ NewName(Sheet(NodesOf(f), DataOf(f), rec.parent), name)
         /\ IsNamed(en)
<1>1. /\ RecOK(f, D, path, rec, Len(path)) /\ Len(path) \in Nat \ {0}
      /\ \A k \in 1..Len(path) : IsClean(path[k])
  BY SearchFile
<1>2. name = path[Len(path)] /\ IsClean(name)
  BY <1>1 DEF Last
<1>3. NewName(Sheet(NodesOf(f), DataOf(f), rec.parent), name)
  BY <1>1, <1>2 DEF RecOK, NewName
<1>4. name \in EntryNames
  BY DEF EntryNames
<1>5. IsNamed(en)
  <2>1. en.name = name /\ en.no = no /\ en.type = type
    BY EntryFields
  <2>2. en = Entry(en.name, en.no, en.type)
    BY <2>1
  <2> QED BY <1>2, <2>1, <2>2 DEF IsNamed
<1> QED BY <1>1, <1>3, <1>4, <1>5 DEF RecOK

\* A new object with one user more or none.
ObjectMade(f, g, D2, no, users) ==
  /\ Good(g, D2) /\ g.panic = "none" /\ g.ibits = f.ibits \cup {no} /\ no \notin f.ibits
  /\ \A m : Cnt(g.open, m) = Cnt(f.open, m) + (IF m = no THEN users ELSE 0)

\* inode_bitmap_alloc has given the number a.no.
Allocated(f, a) ==
  /\ Quiet(f, a.fs) /\ BitsOK(a.fs) /\ a.fs.panic = "none" /\ a.fs.open = f.open /\ a.fs.bbits = f.bbits
  /\ a.no \in Nat /\ a.no \notin f.ibits /\ a.fs.ibits = f.ibits \cup {a.no}
  /\ a.no \in 0..inode_bitmap_len - 1

(* inode_bitmap_alloc (file.c:70) takes an inode or stops.                 *)
LEMMA AllocInode ==
  ASSUME NEW f, DiskShape(f), BitsOK(f), f.panic = "none", NEW a, a = inode_bitmap_alloc(f)
  PROVE  /\ Follows(f, a.fs) /\ IsFs(a.fs)
         /\ a.fs.panic = "full" \/ Allocated(f, a)
<1>1. PICK bit : bit = FirstFree(f.ibits, inode_bitmap_len) /\ a = TakeInode(f, bit)
  BY DEF inode_bitmap_alloc
<1>2. bit \in (0..inode_bitmap_len) \ f.ibits /\ inode_bitmap_len \in Nat
  BY <1>1, FirstFreeFacts, LengthsType DEF BitsOK
<1>3. /\ Follows(f, a.fs) /\ SameDisk(f, a.fs) /\ a.no = bit
      /\ a.fs.open = f.open /\ a.fs.bbits = f.bbits
      /\ (bit = inode_bitmap_len => a.fs.panic = "full")
      /\ (bit # inode_bitmap_len => a.fs.ibits = f.ibits \cup {bit} /\ a.fs.panic = "none")
  BY <1>1, TakeInodeFollows DEF DiskShape
<1>4. CASE bit = inode_bitmap_len
  BY <1>3, <1>4 DEF SameDisk
<1>5. CASE bit # inode_bitmap_len
  <2>1. Quiet(f, a.fs)
    BY <1>3, QuietMemory
  <2>2. bit \in 0..inode_bitmap_len - 1 /\ bit \in Nat
    BY <1>2, <1>5
  <2>3. BitsOK(a.fs)
    BY <1>3, <1>5, <2>2 DEF BitsOK
  <2> QED BY <1>2, <1>3, <1>5, <2>1, <2>2, <2>3 DEF Allocated, SameDisk
<1> QED BY <1>4, <1>5

(* inode_bitmap_alloc keeps the tree, without the new number.              *)
LEMMA AllocatedTree ==
  ASSUME NEW f, NEW D, Good(f, D), NEW a, Allocated(f, a)
  PROVE  /\ DiskShape(a.fs) /\ a.fs.panic = "none" /\ BitsOK(a.fs)
         /\ IsTree(NodesOf(a.fs), DataOf(a.fs), f.ibits, D, a.fs.bbits)
         /\ OpenOK(NodesOf(a.fs), f.ibits, a.fs.open)
         /\ a.fs.bbits = f.bbits /\ a.fs.ibits = f.ibits \cup {a.no}
  BY DEF Allocated, Good, Quiet

\* The steps of file_create with the new inode number no, up to its end.
CreateSteps(h0, h1, h2, h3, parent, de, no) ==
  /\ h1 = SyncOpen(sync_dir_entry(h0, parent, de), parent)
  /\ h2 = inode_sync(h1, inode_init(no))
  /\ h3 = SyncInodeBit(h2, no)

(* What file_create (file.c:146) writes keeps the bitmaps in memory.       *)
LEMMA CreateFollows ==
  ASSUME NEW h0, IsFs(h0), NEW h1, NEW h2, NEW h3, NEW parent, NEW de, NEW no,
         CreateSteps(h0, h1, h2, h3, parent, de, no)
  PROVE  Follows(h0, h1) /\ Follows(h1, h3) /\ IsFs(h1) /\ IsFs(h3) /\ h3.ibits = h1.ibits
<1>1. PICK d : d = sync_dir_entry(h0, parent, de)
  OBVIOUS
<1>2. Follows(h0, d) /\ IsFs(d)
  BY <1>1, AddFollows DEF Follows
<1>3. Wrote(d, h1)
  BY <1>1, <1>2, InodeSyncWrote DEF CreateSteps
<1>4. IsFs(h1)
  BY <1>3 DEF Wrote
<1>5. Wrote(h1, h2)
  BY <1>4, InodeSyncWrote DEF CreateSteps
<1>6. IsFs(h2)
  BY <1>5 DEF Wrote
<1>7. Wrote(h2, h3)
  BY <1>6, SyncWrote DEF CreateSteps
<1>8. Wrote(h1, h3)
  BY <1>5, <1>7, WroteTwice
<1> QED BY <1>2, <1>3, <1>8, FollowsTwice DEF Wrote

\* A file without a user is in the tree.
FileMade(h0, h3, N, D, bits, no) ==
  /\ h3.panic = "none" /\ DiskShape(h3) /\ h3.bbits = h0.bbits /\ h3.ibits = h0.ibits
  /\ IsTree(NodesOf(h3), DataOf(h3), N \cup {no}, D, bits)
  /\ OpenOK(NodesOf(h3), N \cup {no}, h3.open) /\ SameCnt(h0.open, h3.open)
  /\ NodesOf(h3)[no] = OnDisk(inode_init(no))

(* file_create (file.c:146) without the end.                               *)
LEMMA FileCreated ==
  ASSUME WithinBounds, NEW h0, DiskShape(h0), BitsOK(h0), h0.panic = "none", NEW N, NEW D, NEW bits,
         IsTree(NodesOf(h0), DataOf(h0), N, D, bits), OpenOK(NodesOf(h0), N, h0.open),
         NEW parent \in D, parent \in DOMAIN h0.open, NEW no \in Few \ N, no \in 0..inode_bitmap_len - 1,
         NEW name \in EntryNames, NEW de, de = Entry(name, no, "regular"), IsNamed(de),
         NewName(Sheet(NodesOf(h0), DataOf(h0), parent), name),
         NEW h1, NEW h2, NEW h3, CreateSteps(h0, h1, h2, h3, parent, de, no)
  PROVE  FileMade(h0, h3, N, D, bits, no)
<1>1. de.name = name /\ de.no = no /\ de.type = "regular" /\ de.type # "directory"
  BY EntryFields
<1>2. PICK e \in Rest : ParentWritten(h0, h1, N, parent, e, de)
  <2>1. h1 = SyncOpen(sync_dir_entry(h0, parent, de), parent)
    BY DEF CreateSteps
  <2>2. de.name \in EntryNames /\ NewName(Sheet(NodesOf(h0), DataOf(h0), parent), de.name)
    BY <1>1
  <2> QED BY <2>1, <2>2, NameEntered
<1>3. PICK x : x = OnDisk(inode_init(no))
  OBVIOUS
<1>4. /\ IsNode(x, no) /\ IsRegular(DataOf(h1), x) /\ AllBlocks(DataOf(h1), x) = {}
  BY <1>3, FewFacts, NewFile
<1>5. PICK y : y = inode_init(no)
  OBVIOUS
<1>6. Added(h1, h2, N, D, bits, de, x)
  <2>1. ObjectFor(de, DataOf(h1), x)
    BY <1>1, <1>4 DEF ObjectFor
  <2>2. Apart(AllBlocks(DataOf(h1), x), NodesOf(h0), DataOf(h0), N, bits)
    BY <1>4 DEF Apart
  <2>3. y.no = de.no /\ x = OnDisk(y)
    BY <1>1, <1>3, <1>5 DEF inode_init
  <2>4. h2 = inode_sync(h1, y)
    BY <1>5 DEF CreateSteps
  <2>5. de.no \in Few \ N
    BY <1>1
  <2>6. de.name \in EntryNames /\ NewName(Sheet(NodesOf(h0), DataOf(h0), parent), de.name)
    BY <1>1
  <2> QED BY <1>2, <2>1, <2>2, <2>3, <2>4, <2>5, <2>6, ObjectAdded
<1>7. /\ h2.panic = "none" /\ DiskShape(h2)
      /\ h2.open = h1.open /\ h2.bbits = h0.bbits /\ h2.ibits = h0.ibits
      /\ NodesOf(h2)[no] = x
      /\ IsTree(NodesOf(h2), DataOf(h2), N \cup {no}, D, bits)
      /\ OpenOK(NodesOf(h2), N \cup {no}, h2.open)
  BY <1>1, <1>2, <1>6 DEF Added, ParentWritten
<1>8. /\ h3.panic = "none" /\ Quiet(h2, h3) /\ h3.open = h2.open /\ h3.bbits = h2.bbits /\ h3.ibits = h2.ibits
  <2>1. BitsOK(h2)
    BY <1>7 DEF BitsOK
  <2> QED BY <1>7, <2>1, InodeBitQuiet DEF CreateSteps
<1>9. SameCnt(h0.open, h3.open)
  BY <1>2, <1>7, <1>8 DEF ParentWritten
<1> QED BY <1>3, <1>7, <1>8, <1>9 DEF FileMade, Quiet

\* open_inodes with the new inode no, which file_create links.
WithNew(open, no) == Link(open, no, [inode_init(no) EXCEPT !.cnt = 1])

(* The name of a new file goes into its directory (file_create             *)
(* file.c:146).                                                            *)
LEMMA CreateGood ==
  ASSUME WithinBounds, NEW f, NEW D, Good(f, D), f.panic = "none", 0 \in DOMAIN f.open,
         NEW path \in Paths, path \in FilePaths \cup DirPaths,
         NEW rec, rec = search_file(f, path), rec.no = -1, rec.depth = Len(path),
         NEW a, a = inode_bitmap_alloc(OpenParent(f, rec)),
         NEW g, g = Created(a, rec, Last(path)), g.ibits \subseteq Few
  PROVE  /\ Follows(f, g)
         /\ g.panic = "full" \/ ObjectMade(f, g, D, a.no, 1)
<1>1. PICK name, parent, no, de : /\ name = Last(path) /\ parent = rec.parent /\ no = a.no
                                  /\ de = Entry(name, no, "regular")
  OBVIOUS
<1>2. /\ parent \in D /\ rec.held \in BOOLEAN /\ (~rec.held => rec.parent = 0)
      /\ name \in EntryNames /\ NewName(Sheet(NodesOf(f), DataOf(f), parent), name)
      /\ IsNamed(de)
  <2>1. de = Entry(name, no, "regular") /\ "regular" \in {"regular", "directory"}
    BY <1>1
  <2>2. name = Last(path)
    BY <1>1
  <2>3. /\ rec.parent \in D /\ rec.held \in BOOLEAN /\ (~rec.held => rec.parent = 0)
        /\ name \in EntryNames /\ NewName(Sheet(NodesOf(f), DataOf(f), rec.parent), name)
        /\ IsNamed(de)
    BY <2>1, <2>2, NameIsNew
  <2> QED BY <1>1, <2>3
<1>3. PICK f1, h0, h1, h2, h3, h4 :
         /\ f1 = OpenParent(f, rec) /\ h0 = a.fs
         /\ h1 = SyncOpen(sync_dir_entry(h0, parent, de), parent)
         /\ h2 = inode_sync(h1, inode_init(no)) /\ h3 = SyncInodeBit(h2, no)
         /\ h4 = [h3 EXCEPT !.open = Link(@, no, [inode_init(no) EXCEPT !.cnt = 1])]
  OBVIOUS
<1>4. CreateSteps(h0, h1, h2, h3, parent, de, no)
  BY <1>3 DEF CreateSteps
<1>5. g = CloseParent(h4, rec)
  BY <1>1, <1>3 DEF Created
<1>6. /\ Good(f1, D) /\ Quiet(f, f1) /\ Follows(f, f1) /\ f1.panic = "none"
      /\ f1.bbits = f.bbits /\ f1.ibits = f.ibits /\ parent \in DOMAIN f1.open
      /\ \A m : Cnt(f1.open, m) = Cnt(f.open, m) + Held(rec, m)
  BY <1>1, <1>2, <1>3, OpenParentEffect
<1>7. /\ Follows(f1, h0) /\ IsFs(h0)
      /\ h0.panic = "full" \/ Allocated(f1, a)
  <2>1. a = inode_bitmap_alloc(f1) /\ DiskShape(f1) /\ BitsOK(f1)
    BY <1>3, <1>6 DEF Good
  <2> QED BY <1>3, <1>6, <2>1, AllocInode
<1>8. Follows(h0, h1) /\ Follows(h1, h3) /\ IsFs(h1) /\ IsFs(h3)
  BY <1>4, <1>7, CreateFollows
<1>9. /\ Follows(h3, h4) /\ SameDisk(h3, h4) /\ h4.panic = h3.panic
      /\ h4.open = WithNew(h3.open, no) /\ h4.bbits = h3.bbits /\ h4.ibits = h3.ibits
  <2>1. PICK x : x = WithNew(h3.open, no)
    OBVIOUS
  <2>2. h4 = [h3 EXCEPT !.open = x]
    BY <1>3, <2>1 DEF WithNew
  <2> QED BY <1>8, <2>1, <2>2, OpenFollows
<1>10. Follows(h4, g) /\ g.panic = h4.panic
  BY <1>5, <1>9, ParentFollows DEF SameDisk
<1>11. Follows(h0, h3) /\ Follows(h3, g)
  BY <1>8, <1>9, <1>10, FollowsTwice
<1>12. Follows(f, g)
  BY <1>6, <1>7, <1>11, FollowsTwice
<1>13. CASE h0.panic = "full"
  <2>1. Follows(h0, g)
    BY <1>11, FollowsTwice
  <2> QED BY <1>12, <1>13, <2>1 DEF Follows
<1>14. CASE h0.panic # "full"
  <2>1. Allocated(f1, a)
    BY <1>7, <1>14
  <2>2. /\ DiskShape(h0) /\ h0.panic = "none" /\ BitsOK(h0)
        /\ IsTree(NodesOf(h0), DataOf(h0), f.ibits, D, h0.bbits)
        /\ OpenOK(NodesOf(h0), f.ibits, h0.open)
        /\ h0.bbits = f.bbits /\ h0.ibits = f.ibits \cup {no} /\ h0.open = f1.open
        /\ NodesOf(h0) = NodesOf(f) /\ DataOf(h0) = DataOf(f)
        /\ no \notin f.ibits /\ no \in 0..inode_bitmap_len - 1
    BY <1>1, <1>3, <1>6, <2>1, AllocatedTree DEF Allocated, Quiet
  <2>3. parent \in DOMAIN h0.open
    BY <1>6, <2>2
  <2>4. NewName(Sheet(NodesOf(h0), DataOf(h0), parent), name)
    BY <1>2, <2>2
  <2>5. no \in Few
    <3>1. de.name = name
      BY <1>1, EntryFields
    <3>2. de.name \in EntryNames /\ NewName(Sheet(NodesOf(h0), DataOf(h0), parent), de.name)
      BY <1>2, <2>4, <3>1
    <3>3. \E e \in Rest : ParentWritten(h0, h1, f.ibits, parent, e, de)
      BY <1>2, <1>3, <2>2, <2>3, <3>2, NameEntered
    <3>4. no \in h3.ibits
      BY <1>4, <1>7, <2>2, <3>3, CreateFollows DEF ParentWritten
    <3>5. g.ibits = h4.ibits
      BY <1>5, <1>9, OpenCloseFollow DEF CloseParent, SameDisk
    <3> QED BY <1>9, <3>4, <3>5
  <2>6. FileMade(h0, h3, f.ibits, D, f.bbits, no)
    <3>1. PICK N, bits : N = f.ibits /\ bits = f.bbits
      OBVIOUS
    <3>2. no \in Few \ N /\ no \in 0..inode_bitmap_len - 1
      BY <2>2, <2>5, <3>1
    <3>3. IsTree(NodesOf(h0), DataOf(h0), N, D, bits) /\ OpenOK(NodesOf(h0), N, h0.open)
      BY <2>2, <3>1
    <3>4. DiskShape(h0) /\ BitsOK(h0) /\ h0.panic = "none"
      BY <2>2
    <3>5. de = Entry(name, no, "regular") /\ IsNamed(de)
      BY <1>1, <1>2
    <3>6. FileMade(h0, h3, N, D, bits, no)
      BY <1>2, <1>4, <2>3, <2>4, <3>2, <3>3, <3>4, <3>5, FileCreated
    <3> QED BY <3>1, <3>6
  <2>7. /\ h3.panic = "none" /\ DiskShape(h3) /\ h3.bbits = f.bbits /\ h3.ibits = f.ibits \cup {no}
        /\ IsTree(NodesOf(h3), DataOf(h3), f.ibits \cup {no}, D, f.bbits)
        /\ OpenOK(NodesOf(h3), f.ibits \cup {no}, h3.open) /\ SameCnt(f1.open, h3.open)
        /\ NodesOf(h3)[no] = OnDisk(inode_init(no))
    BY <2>2, <2>6 DEF FileMade
  <2>8. PICK V, N2, o3, o4 : V = NodesOf(h3) /\ N2 = f.ibits \cup {no} /\ o3 = h3.open /\ o4 = h4.open
    OBVIOUS
  <2>9. /\ [inode_init(no) EXCEPT !.cnt = 1] = V[no] /\ IsNode(V[no], no)
    BY <2>5, <2>7, <2>8, FewFacts, NewFile
  <2>10. no \notin DOMAIN o3
    <3>1. no \notin DOMAIN f1.open
      BY <1>6, <2>2 DEF Good, OpenOK
    <3> QED BY <2>7, <2>8, <3>1 DEF SameCnt
  <2>11. OpenOK(V, N2, o4) /\ UserMore(o3, o4, no)
    <3>1. o4 = Linked(o3, no, V[no])
      BY <1>9, <2>8, <2>9, <2>10 DEF Linked, WithNew
    <3>2. OpenOK(V, N2, o3) /\ no \in N2
      BY <2>7, <2>8
    <3> QED BY <2>9, <3>1, <3>2, LinkedOK
  <2>12. /\ DiskShape(h4) /\ NodesOf(h4) = V /\ DataOf(h4) = DataOf(h3)
    BY <1>9, <2>7, <2>8, QuietMemory DEF Quiet
  <2>13. ParentClosed(h4, g, rec, V, N2)
    <3>1. rec.parent \in DOMAIN h4.open
      BY <1>1, <1>6, <2>7, <2>8, <2>11 DEF UserMore, SameCnt
    <3>2. OpenOK(V, N2, h4.open)
      BY <2>8, <2>11
    <3>3. rec.held \in BOOLEAN
      BY <1>2
    <3>4. DiskShape(h4)
      BY <2>12
    <3> QED BY ONLY WithinBounds, <1>5, <3>1, <3>2, <3>3, <3>4, CloseParentEffect
  <2>14. \A m : Cnt(g.open, m) = Cnt(f.open, m) + (IF m = no THEN 1 ELSE 0)
    <3>1. \A m : Cnt(f.open, m) \in Nat /\ Held(rec, m) \in Nat
      BY CntFacts DEF Good, Held
    <3>2. \A m : Cnt(h4.open, m) = Cnt(f.open, m) + Held(rec, m) + OneUser(m, no)
      BY <1>6, <2>7, <2>8, <2>11 DEF UserMore, SameCnt
    <3> QED BY <2>13, <3>1, <3>2 DEF ParentClosed, OneUser
  <2>15. Good(g, D)
    <3>1. /\ DiskShape(g) /\ NodesOf(g) = V /\ DataOf(g) = DataOf(h3)
          /\ OpenOK(NodesOf(g), N2, g.open) /\ g.bbits = f.bbits /\ g.ibits = N2
      BY <1>9, <2>7, <2>8, <2>12, <2>13 DEF ParentClosed, Quiet
    <3>2. BitsOK(g)
      BY <2>2, <2>8, <3>1 DEF BitsOK, Good
    <3> QED BY <2>7, <2>8, <3>1, <3>2 DEF Good
  <2>16. g.panic = "none" /\ g.ibits = f.ibits \cup {no}
    BY <1>9, <1>10, <2>7, <2>13 DEF ParentClosed
  <2> QED BY <1>1, <1>12, <2>2, <2>14, <2>15, <2>16 DEF ObjectMade
<1> QED BY <1>12, <1>13, <1>14

(* Writes to free blocks change nothing in the tree.                       *)
LEMMA TreeSame ==
  ASSUME WithinBounds, NEW V, NEW A, NEW N, NEW D, NEW bits, IsTree(V, A, N, D, bits),
         NEW A2, SameBut(V, A, V, A2, N, {}), NEW bits2, bits \subseteq bits2
  PROVE  /\ IsTree(V, A2, N, D, bits2)
         /\ \A d \in D : Sheet(V, A2, d) = Sheet(V, A, d)
         /\ \A m \in N : AllBlocks(A2, V[m]) = AllBlocks(A, V[m])
<1>1. PICK S : S = {}
  OBVIOUS
<1>2. SameBut(V, A, V, A2, N, S) /\ \A m \in N : m \in N \ S
  BY <1>1
<1>3. \A m \in N :
        /\ IsNode(V[m], m) /\ AllBlocks(A2, V[m]) = AllBlocks(A, V[m])
        /\ m \in D => IsDirectory(A2, V[m], m) /\ Sheet(V, A2, m) = Sheet(V, A, m)
        /\ m \notin D => IsRegular(A2, V[m])
  BY <1>2, RestSame
<1>4. N \subseteq Few /\ D \subseteq N /\ 0 \in D /\ V[0].sec[1] = data_start_lba
  BY DEF IsTree
<1>5. ChildrenOK(V, A2, N, D)
  <2>1. ChildrenOK(V, A, N, D) /\ \A d \in D : Sheet(V, A2, d) = Sheet(V, A, d)
    BY <1>3, <1>4 DEF IsTree
  <2> HIDE DEF Sheet
  <2> QED BY <2>1 DEF ChildrenOK
<1>6. BlocksOK(V, A2, N, bits2)
  <2>1. BlocksOK(V, A, N, bits)
    BY DEF IsTree
  <2> QED BY <1>3, <2>1 DEF BlocksOK, IsTaken
<1> QED BY <1>3, <1>4, <1>5, <1>6 DEF IsTree

(* The inode and the first sector of a new directory (sys_mkdir            *)
(* fs.c:815).                                                              *)
LEMMA NewDirectoryFacts ==
  ASSUME WithinBounds, NEW no \in Nat, NEW parent, NEW lba \in Blocks, NEW x, x = OnDisk(NewDirectory(no, lba)),
         NEW s, s = EntrySector(<<Entry(".", no, "directory"), Entry("..", parent, "directory")>>),
         NEW A, A[lba] = s
  PROVE  /\ IsNode(x, no) /\ IsDirectory(A, x, no) /\ AllBlocks(A, x) = {lba} /\ NewDirectory(no, lba).no = no
         /\ x.sec[1] = lba /\ \A i \in Rest : s[i].type = "unknown"
<1>1. PICK e1, e2, free : /\ e1 = Entry(".", no, "directory") /\ e2 = Entry("..", parent, "directory")
                          /\ free = NoEntry
  OBVIOUS
<1>2. s = [k \in 1..EntriesPerSec |-> IF k <= 2 THEN <<e1, e2>>[k] ELSE free]
  BY <1>1, Zenon DEF EntrySector
<1>3. EntriesPerSec \in Nat /\ EntriesPerSec >= 2 /\ Direct \in Nat /\ Direct >= 1 /\ TableLen \in Nat
      /\ MaxBlocks = Direct + TableLen /\ lba \in Nat /\ lba # 0
  BY Sizes
<1>4. s[1] = e1 /\ s[2] = e2 /\ \A i \in Rest : s[i] = free
  <2>1. PICK w : w = <<e1, e2>>
    OBVIOUS
  <2>2. w[1] = e1 /\ w[2] = e2
    BY <2>1
  <2>3. s = [k \in 1..EntriesPerSec |-> IF k <= 2 THEN w[k] ELSE free]
    BY <1>2, <2>1
  <2> QED BY ONLY <1>3, <2>2, <2>3 DEF Rest
<1>5. Dots(s, no)
  BY <1>1, <1>4, EntryFields DEF Dots
<1>6. free.type = "unknown"
  BY <1>1, DotFields
<1>7. \A i \in Rest : s[i].type = "unknown"
  BY <1>4, <1>6
<1>8. IsEntries(s, no)
  <2>1. s = [e \in 1..EntriesPerSec |-> s[e]]
    BY <1>2
  <2>2. \A i \in Rest : s[i] = NoEntry
    BY <1>1, <1>4
  <2> QED BY <1>5, <2>1, <2>2 DEF IsEntries
<1>9. Cardinality(Used(s)) = 2
  <2>1. s[1].type # "unknown" /\ s[2].type # "unknown"
    BY <1>5, DotsFacts
  <2>2. Used(s) = {1, 2}
    BY <1>3, <1>7, <2>1 DEF Used, Rest
  <2>3. IsFiniteSet({1}) /\ Cardinality({1}) = 1
    BY FS_Singleton
  <2>4. Cardinality({1} \cup {2}) = 2
    BY <2>3, FS_AddElement
  <2>5. {1} \cup {2} = {1, 2}
    OBVIOUS
  <2> QED BY <2>2, <2>4, <2>5
<1>10. PICK Z, y, no2, z, two, fl :
          /\ Z = [k \in 1..Direct + 1 |-> 0] /\ y = NewDirectory(no, lba) /\ no2 = no /\ z = 0 /\ two = 2 /\ fl = FALSE
  OBVIOUS
<1>11. PICK S, y1 : S = [Z EXCEPT ![1] = lba] /\ y1 = inode_init(no)
  OBVIOUS
<1>12. y1 = Node(no2, z, Z, z, fl)
  BY ONLY <1>10, <1>11, Zenon DEF Node, inode_init, Zeros
<1>13. y = [[y1 EXCEPT !.size = two] EXCEPT !.sec = [@ EXCEPT ![1] = lba]]
  BY ONLY <1>10, <1>11 DEF NewDirectory
<1>14. [y1 EXCEPT !.size = two] = Node(no2, two, Z, z, fl)
  BY ONLY <1>12, NodeChanges
<1>15. PICK y2 : y2 = [y1 EXCEPT !.size = two]
  OBVIOUS
<1>16. y2.sec = Z /\ [y2 EXCEPT !.sec = S] = Node(no2, two, S, z, fl)
  <2>1. y2 = Node(no2, two, Z, z, fl)
    BY ONLY <1>14, <1>15
  <2> QED BY ONLY <2>1, NodeChanges
<1>17. y = Node(no2, two, S, z, fl)
  BY ONLY <1>11, <1>13, <1>15, <1>16
<1>18. y.no = no2 /\ y.size = two /\ y.sec = S
  BY ONLY <1>17, NodeChanges
<1>19. S = [k \in 1..Direct + 1 |-> S[k]] /\ S[1] = lba /\ \A k \in 2..Direct + 1 : S[k] = 0
  <2>1. Z = [k \in 1..Direct + 1 |-> 0] /\ S = [Z EXCEPT ![1] = lba]
    BY <1>10, <1>11
  <2>2. DOMAIN S = 1..Direct + 1 /\ 1 \in 1..Direct + 1
    BY ONLY <1>3, <2>1
  <2>3. S[1] = lba
    BY ONLY <2>1, <2>2
  <2>4. \A k \in 2..Direct + 1 : S[k] = 0
    BY ONLY <1>3, <2>1
  <2>5. S = [k \in 1..Direct + 1 |-> S[k]]
    BY ONLY <2>1
  <2> QED BY <2>3, <2>4, <2>5
<1>20. x = [no |-> y.no, size |-> y.size, sec |-> S, cnt |-> 1, deny |-> fl]
  BY ONLY <1>10, <1>18, <1>19, x = OnDisk(NewDirectory(no, lba)), Zenon DEF OnDisk
<1>21. x.sec = S /\ x.size = 2 /\ x = [no |-> no, size |-> x.size, sec |-> x.sec, cnt |-> 1, deny |-> FALSE]
  <2>1. x.sec = S /\ x.size = y.size
    BY <1>20
  <2>2. x = [no |-> no, size |-> x.size, sec |-> x.sec, cnt |-> 1, deny |-> FALSE]
    BY ONLY <1>10, <1>18, <1>20, <2>1, Zenon
  <2> QED BY <1>10, <1>18, <2>1, <2>2
<1>22. IsNode(x, no)
  <2>1. x.sec = [k \in 1..Direct + 1 |-> x.sec[k]]
    BY <1>19, <1>21
  <2>2. x.size \in Nat
    BY <1>21
  <2>3. \A k \in 1..Direct + 1 : x.sec[k] \in Nat
    <3> SUFFICES ASSUME NEW k \in 1..Direct + 1 PROVE S[k] \in Nat
      BY <1>21
    <3>1. k = 1 \/ k \in 2..Direct + 1
      BY <1>3
    <3>2. S[1] = lba /\ \A i \in 2..Direct + 1 : S[i] = 0
      BY <1>19
    <3>3. lba \in Nat
      BY <1>3
    <3> QED BY ONLY <3>1, <3>2, <3>3
  <2> QED BY <1>21, <2>1, <2>2, <2>3 DEF IsNode
<1>23. IsDirectory(A, x, no)
  <2>1. x.sec[1] = lba /\ A[x.sec[1]] = s
    BY <1>19, <1>21
  <2>2. x.size = Cardinality(Used(s)) /\ \A k \in 2..Direct + 1 : x.sec[k] = 0
    BY <1>9, <1>19, <1>21
  <2> QED BY <1>8, <2>1, <2>2 DEF IsDirectory
<1>24. AllBlocks(A, x) = {lba} /\ x.sec[1] = lba
  <2>1. x.sec[1] = lba
    BY <1>19, <1>21
  <2>2. AllBlocks(A, x) = {x.sec[1]}
    BY ONLY WithinBounds, <1>23, DirectoryBlock
  <2> QED BY <2>1, <2>2
<1>25. NewDirectory(no, lba).no = no
  BY <1>10, <1>18
<1> QED BY <1>7, <1>22, <1>23, <1>24, <1>25

\* The steps of sys_mkdir for the inode no with its block b.
MkdirSteps(b, k0, k1, k2, parent, de, no) ==
  /\ k0 = FirstEntries(b, no, parent)
  /\ k1 = SyncOpen(sync_dir_entry(k0, parent, de), parent)
  /\ k2 = inode_sync(k1, NewDirectory(no, b.lba))

(* What sys_mkdir (fs.c:815) writes keeps the bitmaps in memory.           *)
LEMMA MkdirFollows ==
  ASSUME NEW b, IsFs(b.fs), NEW k0, NEW k1, NEW k2, NEW parent, NEW de, NEW no,
         MkdirSteps(b, k0, k1, k2, parent, de, no)
  PROVE  /\ Follows(b.fs, k0) /\ Follows(k0, k2) /\ IsFs(k0) /\ IsFs(k2) /\ k2.ibits = k1.ibits
<1>1. PICK d, c, lba, s : d = sync_dir_entry(k0, parent, de) /\ c = ASSERT(b.fs, b.lba # data_start_lba)
                            /\ lba = b.lba /\ s = EntrySector(<<Entry(".", no, "directory"), Entry("..", parent, "directory")>>)
  OBVIOUS
<1>2. Follows(b.fs, c) /\ IsFs(c)
  BY <1>1, AssertFollows DEF SameDisk
<1>3. k0 = ide_write(c, lba, s)
  BY <1>1, Zenon DEF MkdirSteps, FirstEntries
<1>4. Wrote(c, k0)
  BY <1>2, <1>3, WriteWrote
<1>5. IsFs(k0) /\ Follows(c, k0)
  BY <1>4 DEF Wrote
<1>6. Follows(k0, d) /\ IsFs(d)
  BY <1>1, <1>5, AddFollows DEF Follows
<1>7. Wrote(d, k1)
  BY <1>1, <1>6, InodeSyncWrote DEF MkdirSteps
<1>8. IsFs(k1)
  BY <1>7 DEF Wrote
<1>9. Wrote(k1, k2)
  BY <1>8, InodeSyncWrote DEF MkdirSteps
<1>10. Follows(d, k1) /\ Follows(k1, k2) /\ IsFs(k2) /\ k2.ibits = k1.ibits
  BY <1>7, <1>9 DEF Wrote
<1> QED BY <1>2, <1>5, <1>6, <1>10, FollowsTwice

\* A directory without a user is in the tree, with the block lba.
DirectoryMade(h0, b, k2, N, D, no) ==
  /\ k2.panic = "none" /\ DiskShape(k2) /\ k2.bbits = b.fs.bbits /\ k2.ibits = h0.ibits
  /\ IsTree(NodesOf(k2), DataOf(k2), N \cup {no}, D \cup {no}, b.fs.bbits)
  /\ OpenOK(NodesOf(k2), N \cup {no}, k2.open) /\ SameCnt(h0.open, k2.open)

\* The block b is new and its bit is on the disk.
BlockTaken(h0, b) ==
  /\ b.fs.panic = "none" /\ Quiet(h0, b.fs) /\ BitsOK(b.fs) /\ b.fs.open = h0.open /\ b.fs.ibits = h0.ibits
  /\ b.lba \in Nat /\ b.lba >= data_start_lba /\ b.lba - data_start_lba \notin h0.bbits
  /\ b.fs.bbits = h0.bbits \cup {b.lba - data_start_lba}

(* A new block belongs to no inode; it is not that of the root.            *)
LEMMA BlockApart ==
  ASSUME WithinBounds, NEW V, NEW A, NEW N, NEW D, NEW bits, IsTree(V, A, N, D, bits),
         NEW lba \in Nat, lba >= data_start_lba, lba - data_start_lba \notin bits
  PROVE  NotOf(lba, V, A, N) /\ lba # data_start_lba
<1>1. NotOf(lba, V, A, N)
  BY DEF IsTree, BlocksOK, NotOf, IsTaken
<1>2. data_start_lba \in AllBlocks(A, V[0]) /\ 0 \in N
  BY DirectoryBlock DEF IsTree
<1> QED BY <1>1, <1>2 DEF NotOf

\* The entries "." and ".." of a new directory, and their write.
FirstSector(no, parent) == EntrySector(<<Entry(".", no, "directory"), Entry("..", parent, "directory")>>)

EntriesWritten(h0, b, k0, s) ==
  /\ k0.panic \in {"none", "outside"}
  /\ k0.open = h0.open /\ k0.bbits = b.fs.bbits /\ k0.ibits = h0.ibits
  /\ k0.panic = "none" =>
       /\ b.lba \in Blocks /\ DiskShape(k0) /\ NodesOf(k0) = NodesOf(h0)
       /\ DataOf(k0) = Changed(DataOf(h0), b.lba, s)

(* The first sector of the new directory goes to a free block.             *)
LEMMA FirstEntriesEffect ==
  ASSUME WithinBounds, NEW h0, DiskShape(h0), NEW N, NEW D,
         IsTree(NodesOf(h0), DataOf(h0), N, D, h0.bbits), NEW b, BlockTaken(h0, b), NEW no, NEW parent,
         NEW k0, k0 = FirstEntries(b, no, parent), NEW s, s = FirstSector(no, parent)
  PROVE  EntriesWritten(h0, b, k0, s)
<1>1. b.lba # data_start_lba
  BY BlockApart DEF BlockTaken
<1>2. PICK f, lba : f = b.fs /\ lba = b.lba
  OBVIOUS
<1>3. k0 = ide_write(f, lba, s)
  BY <1>1, <1>2, Zenon DEF FirstEntries, ASSERT, FirstSector
<1>4. IsSector(s)
  <2>1. s = [w \in DOMAIN s |-> s[w]] /\ DOMAIN s = 1..EntriesPerSec
    BY Zenon DEF EntrySector, FirstSector
  <2>2. DOMAIN s \subseteq Nat \ {0}
    BY <2>1, Sizes
  <2> QED BY <2>1, <2>2 DEF IsSector
<1>5. /\ f.panic = "none" /\ DiskShape(f) /\ f.open = h0.open /\ f.ibits = h0.ibits
      /\ NodesOf(f) = NodesOf(h0) /\ DataOf(f) = DataOf(h0)
      /\ lba \in Nat /\ lba >= data_start_lba
  BY <1>2 DEF BlockTaken, Quiet
<1>6. /\ k0.panic \in {"none", "outside"}
      /\ k0.open = f.open /\ k0.bbits = f.bbits /\ k0.ibits = f.ibits
      /\ k0.panic = "none" => /\ lba \in Blocks /\ DiskShape(k0) /\ NodesOf(k0) = NodesOf(f)
                              /\ DataOf(k0) = Changed(DataOf(f), lba, s)
  BY <1>3, <1>4, <1>5, DataEffect
<1> QED BY <1>2, <1>5, <1>6 DEF EntriesWritten

(* sys_mkdir (fs.c:815) without the end.                                   *)
LEMMA DirectoryCreated ==
  ASSUME WithinBounds, NEW h0, DiskShape(h0), NEW N, NEW D,
         IsTree(NodesOf(h0), DataOf(h0), N, D, h0.bbits), OpenOK(NodesOf(h0), N, h0.open),
         NEW parent \in D, parent \in DOMAIN h0.open, NEW b, BlockTaken(h0, b),
         NEW no \in h0.ibits \ N, NEW name \in EntryNames, NEW de, de = Entry(name, no, "directory"), IsNamed(de),
         NewName(Sheet(NodesOf(h0), DataOf(h0), parent), name),
         NEW k0, NEW k1, NEW k2, MkdirSteps(b, k0, k1, k2, parent, de, no), k0.panic = "none",
         k2.ibits \subseteq Few
  PROVE  DirectoryMade(h0, b, k2, N, D, no)
<1>1. PICK V, A, bits, bits2, lba, s :
         /\ V = NodesOf(h0) /\ A = DataOf(h0) /\ bits = h0.bbits /\ bits2 = b.fs.bbits /\ lba = b.lba
         /\ s = FirstSector(no, parent)
  OBVIOUS
<1>2. /\ k0.open = h0.open /\ k0.bbits = b.fs.bbits /\ k0.ibits = h0.ibits
      /\ lba \in Blocks /\ DiskShape(k0) /\ NodesOf(k0) = V
      /\ DataOf(k0) = Changed(A, lba, s)
  <2>1. k0 = FirstEntries(b, no, parent)
    BY DEF MkdirSteps
  <2>2. s = FirstSector(no, parent)
    BY <1>1
  <2>3. EntriesWritten(h0, b, k0, s)
    BY <2>1, <2>2, FirstEntriesEffect
  <2> QED BY <1>1, <2>3 DEF EntriesWritten
<1>3. /\ lba \in Nat /\ lba >= data_start_lba /\ lba - data_start_lba \notin bits
      /\ bits2 = bits \cup {lba - data_start_lba}
  BY <1>1 DEF BlockTaken
<1>4. IsTree(V, A, N, D, bits) /\ NotOf(lba, V, A, N)
  BY <1>1, <1>3, BlockApart
<1>5. PICK A0 : A0 = DataOf(k0)
  OBVIOUS
<1>6. A0[lba] = s /\ \A l \in Blocks : l # lba => A0[l] = A[l]
  <2>1. A = [l \in Blocks |-> A[l]]
    BY <1>1 DEF DataOf
  <2> QED BY <1>2, <1>5, <2>1 DEF Changed
<1>7. SameBut(V, A, V, A0, N, {})
  BY <1>4, <1>6 DEF SameBut, NotOf
<1>8. /\ IsTree(V, A0, N, D, bits2)
      /\ \A d \in D : Sheet(V, A0, d) = Sheet(V, A, d)
      /\ \A m \in N : AllBlocks(A0, V[m]) = AllBlocks(A, V[m])
  <2>1. bits \subseteq bits2
    BY <1>3
  <2> QED BY <1>4, <1>7, <2>1, TreeSame
<1>9. NotOf(lba, V, A0, N)
  BY <1>4, <1>8 DEF NotOf
<1>10. de.name = name /\ de.no = no /\ de.type = "directory" /\ de.type # "regular"
  BY EntryFields
<1>11. NewName(Sheet(NodesOf(k0), DataOf(k0), parent), de.name)
  BY <1>1, <1>2, <1>5, <1>8, <1>10
<1>12. IsTree(NodesOf(k0), DataOf(k0), N, D, bits2) /\ OpenOK(NodesOf(k0), N, k0.open)
  BY <1>1, <1>2, <1>5, <1>8
<1>13. PICK e \in Rest : ParentWritten(k0, k1, N, parent, e, de)
  <2>1. k1 = SyncOpen(sync_dir_entry(k0, parent, de), parent)
    BY DEF MkdirSteps
  <2>2. de.name \in EntryNames
    BY <1>10
  <2>3. parent \in DOMAIN k0.open
    BY <1>2
  <2> QED BY <1>2, <1>11, <1>12, <2>1, <2>2, <2>3, NameEntered
<1>14. PICK A1 : A1 = DataOf(k1)
  OBVIOUS
<1>20. no \in Few
  <2>1. IsFs(b.fs)
    BY DEF BlockTaken, Quiet, DiskShape
  <2>2. k2.ibits = k1.ibits
    BY <2>1, MkdirFollows
  <2> QED BY <1>2, <1>13, <2>2 DEF ParentWritten
<1>15. A1[lba] = s
  <2>1. V[parent].sec[1] \in AllBlocks(A0, V[parent]) /\ parent \in N
    BY <1>8, DirectoryBlock DEF IsTree
  <2>2. lba # V[parent].sec[1]
    BY <1>9, <2>1 DEF NotOf
  <2> QED BY <1>2, <1>5, <1>6, <1>13, <1>14, <2>2 DEF ParentWritten
<1>16. PICK y, x : y = NewDirectory(no, lba) /\ x = OnDisk(y)
  OBVIOUS
<1>17. /\ IsNode(x, no) /\ IsDirectory(A1, x, no) /\ AllBlocks(A1, x) = {lba} /\ y.no = no
       /\ x.sec[1] = lba /\ \A i \in Rest : s[i].type = "unknown"
  <2>1. no \in Nat
    BY <1>20, FewFacts
  <2>2. s = EntrySector(<<Entry(".", no, "directory"), Entry("..", parent, "directory")>>)
    BY <1>1 DEF FirstSector
  <2> QED BY ONLY WithinBounds, <1>2, <1>15, <1>16, <2>1, <2>2, NewDirectoryFacts
<1>18. Added(k1, k2, N, D, bits2, de, x)
  <2>1. ObjectFor(de, DataOf(k1), x)
    BY <1>10, <1>14, <1>15, <1>17 DEF ObjectFor
  <2>2. Apart(AllBlocks(DataOf(k1), x), NodesOf(k0), DataOf(k0), N, bits2)
    BY <1>2, <1>3, <1>5, <1>9, <1>14, <1>17 DEF Apart, IsTaken
  <2>3. y.no = de.no /\ x = OnDisk(y)
    BY <1>10, <1>16, <1>17
  <2>4. k2 = inode_sync(k1, y)
    BY <1>1, <1>16 DEF MkdirSteps
  <2>5. de.no \in Few \ N
    BY <1>10, <1>20
  <2>6. de.name \in EntryNames
    BY <1>10
  <2> QED BY <1>11, <1>12, <1>13, <2>1, <2>2, <2>3, <2>4, <2>5, <2>6, ObjectAdded
<1>19. /\ k2.panic = "none" /\ DiskShape(k2) /\ k2.bbits = bits2 /\ k2.ibits = h0.ibits
       /\ IsTree(NodesOf(k2), DataOf(k2), N \cup {no}, D \cup {no}, bits2)
       /\ OpenOK(NodesOf(k2), N \cup {no}, k2.open) /\ SameCnt(h0.open, k2.open)
  BY <1>1, <1>2, <1>10, <1>13, <1>18 DEF Added, ParentWritten
<1> QED BY <1>1, <1>19 DEF DirectoryMade

(* sys_mkdir (fs.c:815).                                                   *)
LEMMA MkdirGood ==
  ASSUME WithinBounds, NEW f, NEW D, Good(f, D), f.panic = "none", 0 \in DOMAIN f.open,
         NEW path \in Paths, path \in FilePaths \cup DirPaths,
         NEW rec, rec = search_file(f, path), rec.no = -1, rec.depth = Len(path),
         NEW a, a = inode_bitmap_alloc(OpenParent(f, rec)),
         NEW g, g = MakeDirectory(a, rec, Last(path)), g.ibits \subseteq Few
  PROVE  /\ Follows(f, g)
         /\ g.panic \in {"full", "outside"} \/ ObjectMade(f, g, D \cup {a.no}, a.no, 0)
<1>1. PICK name, parent, no, de : /\ name = Last(path) /\ parent = rec.parent /\ no = a.no
                                  /\ de = Entry(name, no, "directory")
  OBVIOUS
<1>2. /\ parent \in D /\ rec.held \in BOOLEAN /\ (~rec.held => rec.parent = 0)
      /\ name \in EntryNames /\ NewName(Sheet(NodesOf(f), DataOf(f), parent), name)
      /\ IsNamed(de)
  <2>1. de = Entry(name, no, "directory") /\ "directory" \in {"regular", "directory"}
    BY <1>1
  <2>2. name = Last(path)
    BY <1>1
  <2>3. /\ rec.parent \in D /\ rec.held \in BOOLEAN /\ (~rec.held => rec.parent = 0)
        /\ name \in EntryNames /\ NewName(Sheet(NodesOf(f), DataOf(f), rec.parent), name)
        /\ IsNamed(de)
    BY <2>1, <2>2, NameIsNew
  <2> QED BY <1>1, <2>3
<1>3. PICK f1, h0, b, k0, k1, k2 :
         /\ f1 = OpenParent(f, rec) /\ h0 = a.fs /\ b = AllocSynced(h0)
         /\ k0 = FirstEntries(b, no, parent)
         /\ k1 = SyncOpen(sync_dir_entry(k0, parent, de), parent)
         /\ k2 = inode_sync(k1, NewDirectory(no, b.lba))
  OBVIOUS
<1>4. MkdirSteps(b, k0, k1, k2, parent, de, no)
  BY <1>3 DEF MkdirSteps
<1>5. g = CloseParent(k2, rec)
  BY <1>1, <1>3 DEF MakeDirectory, EnterDirectory
<1>6. /\ Good(f1, D) /\ Quiet(f, f1) /\ Follows(f, f1) /\ f1.panic = "none"
      /\ f1.bbits = f.bbits /\ f1.ibits = f.ibits /\ parent \in DOMAIN f1.open
      /\ \A m : Cnt(f1.open, m) = Cnt(f.open, m) + Held(rec, m)
  BY <1>1, <1>2, <1>3, OpenParentEffect
<1>7. /\ Follows(f1, h0) /\ IsFs(h0)
      /\ h0.panic = "full" \/ Allocated(f1, a)
  <2>1. a = inode_bitmap_alloc(f1) /\ DiskShape(f1) /\ BitsOK(f1)
    BY <1>3, <1>6 DEF Good
  <2> QED BY <1>3, <1>6, <2>1, AllocInode
<1>8. Follows(h0, b.fs) /\ IsFs(b.fs)
  BY <1>3, <1>7, AllocFollows DEF Follows
<1>9. Follows(b.fs, k0) /\ Follows(k0, k2) /\ IsFs(k2) /\ k2.ibits = k1.ibits
  BY <1>4, <1>8, MkdirFollows
<1>10. Follows(k2, g) /\ g.panic = k2.panic /\ g.ibits = k2.ibits
  <2>1. Follows(k2, g) /\ g.panic = k2.panic
    BY <1>5, <1>9, ParentFollows
  <2>2. g.ibits = k2.ibits
    BY <1>5, <1>9, OpenCloseFollow DEF CloseParent
  <2> QED BY <2>1, <2>2
<1>11. Follows(b.fs, g) /\ Follows(k0, g) /\ Follows(h0, g)
  BY <1>8, <1>9, <1>10, FollowsTwice
<1>12. Follows(f, g)
  BY <1>6, <1>7, <1>11, FollowsTwice
<1>13. CASE h0.panic = "full"
  BY <1>11, <1>12, <1>13 DEF Follows
<1>14. CASE b.fs.panic = "full"
  BY <1>11, <1>12, <1>14 DEF Follows
<1>15. CASE k0.panic = "outside"
  BY <1>11, <1>12, <1>15 DEF Follows
<1>16. CASE h0.panic # "full" /\ b.fs.panic # "full" /\ k0.panic # "outside"
  <2>1. Allocated(f1, a)
    BY <1>7, <1>16
  <2>2. /\ DiskShape(h0) /\ h0.panic = "none" /\ BitsOK(h0)
        /\ IsTree(NodesOf(h0), DataOf(h0), f.ibits, D, h0.bbits)
        /\ OpenOK(NodesOf(h0), f.ibits, h0.open)
        /\ h0.bbits = f.bbits /\ h0.ibits = f.ibits \cup {no} /\ h0.open = f1.open
        /\ NodesOf(h0) = NodesOf(f) /\ DataOf(h0) = DataOf(f)
        /\ no \notin f.ibits /\ no \in 0..inode_bitmap_len - 1
    BY <1>1, <1>3, <1>6, <2>1, AllocatedTree DEF Allocated, Quiet
  <2>3. parent \in DOMAIN h0.open
    BY <1>6, <2>2
  <2>4. NewName(Sheet(NodesOf(h0), DataOf(h0), parent), name)
    BY <1>2, <2>2
  <2>5. BlockTaken(h0, b)
    <3>1. /\ b.fs.panic \in {"none", "full"} /\ b.fs.open = h0.open /\ b.fs.ibits = h0.ibits
          /\ b.fs.panic = "none" =>
               /\ Quiet(h0, b.fs) /\ BitsOK(b.fs)
               /\ b.lba \in Nat /\ b.lba >= data_start_lba
               /\ b.lba - data_start_lba \notin h0.bbits
               /\ b.fs.bbits = h0.bbits \cup {b.lba - data_start_lba}
      <4>1. b \in {block_bitmap_alloc(h0), AllocSynced(h0)}
        BY <1>3
      <4> QED BY <2>2, <4>1, TakeEffect
    <3> QED BY <1>16, <3>1 DEF BlockTaken
  <2>6. PICK N : N = f.ibits
    OBVIOUS
  <2>7. IsTree(NodesOf(h0), DataOf(h0), N, D, h0.bbits) /\ OpenOK(NodesOf(h0), N, h0.open)
    BY <2>2, <2>6
  <2>8. k0.panic = "none" /\ k0.ibits = h0.ibits /\ k0.open = h0.open
    <3>1. PICK s : s = FirstSector(no, parent)
      OBVIOUS
    <3>2. EntriesWritten(h0, b, k0, s)
      BY <1>3, <2>2, <2>5, <2>7, <3>1, FirstEntriesEffect
    <3> QED BY <1>16, <3>2 DEF EntriesWritten
  <2>9. DirectoryMade(h0, b, k2, N, D, no)
    <3>1. no \in h0.ibits \ N /\ k2.ibits \subseteq Few
      BY <1>10, <2>2, <2>6
    <3>2. de = Entry(name, no, "directory")
      BY <1>1
    <3> QED BY <1>2, <1>4, <2>2, <2>3, <2>4, <2>5, <2>7, <2>8, <3>1, <3>2, DirectoryCreated
  <2>10. /\ k2.panic = "none" /\ DiskShape(k2) /\ k2.bbits = b.fs.bbits /\ k2.ibits = N \cup {no}
         /\ IsTree(NodesOf(k2), DataOf(k2), N \cup {no}, D \cup {no}, b.fs.bbits)
         /\ OpenOK(NodesOf(k2), N \cup {no}, k2.open) /\ SameCnt(f1.open, k2.open)
    BY <2>2, <2>6, <2>9 DEF DirectoryMade
  <2>11. PICK V, N2 : V = NodesOf(k2) /\ N2 = N \cup {no}
    OBVIOUS
  <2>12. ParentClosed(k2, g, rec, V, N2)
    <3>1. rec.parent \in DOMAIN k2.open
      BY <1>1, <1>6, <2>10 DEF SameCnt
    <3>2. OpenOK(V, N2, k2.open)
      BY <2>10, <2>11
    <3>3. rec.held \in BOOLEAN
      BY <1>2
    <3>4. DiskShape(k2)
      BY <2>10
    <3> QED BY ONLY WithinBounds, <1>5, <3>1, <3>2, <3>3, <3>4, CloseParentEffect
  <2>13. \A m : Cnt(g.open, m) = Cnt(f.open, m) + (IF m = no THEN 0 ELSE 0)
    <3>1. \A m : Cnt(f.open, m) \in Nat /\ Held(rec, m) \in Nat
      BY CntFacts DEF Good, Held
    <3>2. \A m : Cnt(k2.open, m) = Cnt(f.open, m) + Held(rec, m)
      BY <1>6, <2>10 DEF SameCnt
    <3> QED BY <2>12, <3>1, <3>2 DEF ParentClosed
  <2>14. Good(g, D \cup {no})
    <3>1. /\ DiskShape(g) /\ NodesOf(g) = V /\ DataOf(g) = DataOf(k2)
          /\ OpenOK(NodesOf(g), N2, g.open) /\ g.bbits = b.fs.bbits /\ g.ibits = N2
      BY <2>10, <2>11, <2>12 DEF ParentClosed, Quiet
    <3>2. BitsOK(g)
      BY <2>2, <2>5, <2>6, <2>11, <3>1 DEF BitsOK, BlockTaken
    <3> QED BY <2>10, <2>11, <3>1, <3>2 DEF Good
  <2>15. g.panic = "none" /\ g.ibits = f.ibits \cup {no}
    BY <1>10, <2>6, <2>10, <2>12 DEF ParentClosed
  <2> QED BY <1>1, <1>12, <2>2, <2>13, <2>14, <2>15 DEF ObjectMade
<1> QED BY <1>7, <1>12, <1>13, <1>14, <1>15, <1>16

=============================================================================
