------------------------------- MODULE Inode --------------------------------
(***************************************************************************)
(* The partition of fs/fs.c, its inodes (fs/inode.c) and its two bitmaps   *)
(* (fs/file.c): operators from one state of the file system to the next.   *)
(*                                                                         *)
(* The state fs is a record: disk, the sectors of the partition by lba     *)
(* (counted from the start of the partition) as they will be when all      *)
(* writes are done; log, the sectors written since the call began, in      *)
(* order; bbits and ibits, the block and inode bitmaps in memory, as the   *)
(* sets of their bits that are 1; open, the list open_inodes, by number;   *)
(* panic, why the kernel stopped.  A block address is 0 when there is no   *)
(* block.  A sector is a set of bits, or a sequence of words (the inode    *)
(* table), of addresses (an indirect block), of directory entries or of    *)
(* bytes.  Words that only a loaded inode uses (i_open_cnt, write_deny,    *)
(* inode_tag) are left out of the table.                                   *)
(***************************************************************************)
EXTENDS Integers, Sequences, SequencesExt

CONSTANTS
  SecCnt,         \* sectors of the partition
  InodeCnt,       \* MAX_FILE_PER_PARTITION: 4096
  BitsPerSec,     \* BITS_PER_SECTOR: 4096
  SectorWords,    \* words of a sector of the inode table: 128
  Direct,         \* direct blocks of an inode: 12
  TableLen,       \* addresses of an indirect block: 128
  BlockSize,      \* bytes of a block: 512.  A block that held entries or addresses
                  \* is read as bytes before its first write: TLC can evaluate
                  \* that if there are not more bytes than of these.
  EntriesPerSec,  \* directory entries of a sector: 21
  Junk            \* a word read from memory nobody has written

ASSUME InodeAssumption ==
  /\ {SecCnt, InodeCnt, BitsPerSec, SectorWords, Direct, TableLen, BlockSize}
       \subseteq Nat \ {0}
  /\ EntriesPerSec \in Nat /\ EntriesPerSec >= 2
  /\ Junk \notin Int

DIV_CEILING(a, b) == (a + b - 1) \div b

\* i_no, i_size and i_sectors.
InodeWords == 2 + Direct + 1

\* The blocks a file can have.
MaxBlocks == Direct + TableLen

Zeros(n) == [k \in 1..n |-> 0]

-----------------------------------------------------------------------------
(* partition_format: the layout *)
inode_bitmap_sects == DIV_CEILING(InodeCnt, BitsPerSec)
inode_table_sects == DIV_CEILING(InodeWords * InodeCnt, SectorWords)
free_sects == SecCnt - (2 + inode_bitmap_sects + inode_table_sects)
WithoutBitmap(sects) == sects - DIV_CEILING(sects, BitsPerSec)
block_bitmap_bit_len == WithoutBitmap(free_sects)
block_bitmap_sects == DIV_CEILING(block_bitmap_bit_len, BitsPerSec)

block_bitmap_lba == 2
inode_bitmap_lba == block_bitmap_lba + block_bitmap_sects
inode_table_lba == inode_bitmap_lba + inode_bitmap_sects
data_start_lba == inode_table_lba + inode_table_sects

\* Bits of the block bitmap without a block are set, except the first of them.
FormatBits == {0} \cup (block_bitmap_bit_len + 1)..(block_bitmap_sects * BitsPerSec - 1)

NoEntry == [name |-> "", no |-> 0, type |-> "unknown"]
Entry(name, no, type) == [name |-> name, no |-> no, type |-> type]

\* A sector of directory entries that begins with these.
EntrySector(es) == [k \in 1..EntriesPerSec |-> IF k <= Len(es) THEN es[k] ELSE NoEntry]

\* The part of a bitmap that sector number sec holds.
BitsOfSector(bits, sec) == {b \in bits : b \div BitsPerSec = sec}

RootWords == <<0, 2, data_start_lba>> \o Zeros(Direct)

FormattedDisk ==
  [lba \in 0..SecCnt - 1 |->
     CASE lba < block_bitmap_lba -> [o \in 1..BlockSize |-> Junk]
       [] lba \in block_bitmap_lba..inode_bitmap_lba - 1 ->
            BitsOfSector(FormatBits, lba - block_bitmap_lba)
       [] lba \in inode_bitmap_lba..inode_table_lba - 1 ->
            BitsOfSector({0}, lba - inode_bitmap_lba)
       [] lba \in inode_table_lba..data_start_lba - 1 ->
            [w \in 1..SectorWords |->
               IF lba = inode_table_lba /\ w <= InodeWords THEN RootWords[w] ELSE 0]
       [] lba = data_start_lba ->
            EntrySector(<<Entry(".", 0, "directory"), Entry("..", 0, "directory")>>)
       [] OTHER -> Zeros(BlockSize)]

-----------------------------------------------------------------------------
Panic(fs, why) == IF fs.panic = "none" THEN [fs EXCEPT !.panic = why] ELSE fs

ASSERT(fs, holds) == IF holds THEN fs ELSE Panic(fs, "assert")

\* A panic ends the call: what it would have written later is not written.
ide_write(fs, lba, sector) ==
  IF fs.panic # "none" THEN fs
  ELSE IF lba >= SecCnt THEN Panic(fs, "outside")
  ELSE [fs EXCEPT !.disk[lba] = sector, !.log = Append(@, <<lba, sector>>)]

-----------------------------------------------------------------------------
(* inode.c *)

\* multi_sec is TRUE for an inode that lies in one sector, and FALSE for one
\* that crosses into the next.
inode_locate(no) ==
  LET off == (InodeWords * no) % SectorWords
  IN  [multi_sec |-> SectorWords - off >= InodeWords,
       sec_lba |-> inode_table_lba + (InodeWords * no) \div SectorWords,
       off_size |-> off]

SectorsOf(pos) == IF pos.multi_sec THEN 2 ELSE 1

\* Sector number k of those from lba on, with the words entered behind off.
PatchSector(fs, lba, k, off, words) ==
  [w \in DOMAIN fs.disk[lba + k] |->
     LET j == k * SectorWords + w - off
     IN  IF j \in DOMAIN words THEN words[j] ELSE fs.disk[lba + k][w]]

\* The read-modify-write of inode_sync and inode_delete: words behind the
\* sectors that are read are not written back.
StoreWords(fs, pos, words) ==
  LET Store(f, k) == ide_write(f, pos.sec_lba + k,
                               PatchSector(fs, pos.sec_lba, k, pos.off_size, words))
  IN  IF pos.multi_sec THEN Store(Store(fs, 0), 1) ELSE Store(fs, 0)

\* The words of an inode in the table.
Words(inode) ==
  [j \in 1..InodeWords |-> CASE j = 1 -> inode.no [] j = 2 -> inode.size [] OTHER -> inode.sec[j - 2]]

\* uint8_t inode_no
inode_sync(fs, inode) == StoreWords(fs, inode_locate(inode.no % 256), Words(inode))

\* inode_sync of an inode in open_inodes.
SyncOpen(fs, no) == inode_sync(fs, fs.open[no])

inode_delete(fs, no) == StoreWords(fs, inode_locate(no), Zeros(InodeWords))

\* What inode_open reads: a word behind the sectors that are read is Junk.
LoadWords(disk, pos) ==
  LET Word(w) == IF w \div SectorWords < SectorsOf(pos)
                 THEN disk[pos.sec_lba + w \div SectorWords][(w % SectorWords) + 1]
                 ELSE Junk
  IN  [j \in 1..InodeWords |-> Word(pos.off_size + j - 1)]

FromWords(words) ==
  [no |-> words[1], size |-> words[2], sec |-> [k \in 1..Direct + 1 |-> words[k + 2]],
   cnt |-> 1, deny |-> FALSE]

LoadInode(disk, no) == FromWords(LoadWords(disk, inode_locate(no)))

inode_init(no) ==
  [no |-> no, size |-> 0, sec |-> Zeros(Direct + 1), cnt |-> 0, deny |-> FALSE]

Link(open, no, inode) == [i \in DOMAIN open \cup {no} |-> IF i = no THEN inode ELSE open[i]]

inode_open(fs, no) ==
  IF no \in DOMAIN fs.open THEN [fs EXCEPT !.open[no].cnt = @ + 1]
  ELSE [fs EXCEPT !.open = Link(@, no, LoadInode(fs.disk, no))]

\* Fault: the inode is freed while others have it open.
inode_close_Always(fs, no) ==
  [fs EXCEPT !.open = [i \in DOMAIN @ \ {no} |-> @[i]]]

inode_close(fs, no) ==
  IF fs.open[no].cnt = 1
  THEN [fs EXCEPT !.open = [i \in DOMAIN @ \ {no} |-> @[i]]]
  ELSE [fs EXCEPT !.open[no].cnt = @ - 1]

\* What inode_open returns, when the inode is closed again before the end.
InodeAt(fs, no) == IF no \in DOMAIN fs.open THEN fs.open[no] ELSE LoadInode(fs.disk, no)

-----------------------------------------------------------------------------
(* file.c: the bitmaps *)
\* The number of bits when all of them are set.
FirstFree(bits, len) ==
  CHOOSE b \in 0..len : (b = len \/ b \notin bits) /\ \A c \in 0..b - 1 : c \in bits

inode_bitmap_len == inode_bitmap_sects * BitsPerSec
block_bitmap_len == block_bitmap_sects * BitsPerSec

\* bitmap_scan of a full bitmap stops at its ASSERT.
TakeInode(fs, bit) ==
  [fs |-> IF bit = inode_bitmap_len THEN Panic(fs, "full")
          ELSE [fs EXCEPT !.ibits = @ \cup {bit}],
   no |-> bit]

inode_bitmap_alloc(fs) == TakeInode(fs, FirstFree(fs.ibits, inode_bitmap_len))

TakeBlock(fs, bit) ==
  [fs |-> IF bit = block_bitmap_len THEN Panic(fs, "full")
          ELSE [fs EXCEPT !.bbits = @ \cup {bit}],
   lba |-> data_start_lba + bit]

block_bitmap_alloc(fs) == TakeBlock(fs, FirstFree(fs.bbits, block_bitmap_len))

\* bitmap_sync writes the one sector that holds the bit.
SyncBlockBit(fs, bit) ==
  LET sec == bit \div BitsPerSec
  IN  ide_write(fs, block_bitmap_lba + sec, BitsOfSector(fs.bbits, sec))

SyncInodeBit(fs, no) ==
  LET sec == no \div BitsPerSec
  IN  ide_write(fs, inode_bitmap_lba + sec, BitsOfSector(fs.ibits, sec))

SyncLba(fs, lba) == SyncBlockBit(fs, lba - data_start_lba)

\* A new block whose bit goes to the disk at once.
Synced(a) == [a EXCEPT !.fs = SyncLba(@, a.lba)]
AllocSynced(fs) == Synced(block_bitmap_alloc(fs))

FreeBlock(fs, lba) ==
  SyncLba([ASSERT(fs, lba # data_start_lba) EXCEPT !.bbits = @ \ {lba - data_start_lba}], lba)

\* all_blocks_lba with the indirect block read in.
all_blocks_lba(fs, inode) ==
  [k \in 1..MaxBlocks |->
     IF k <= Direct THEN inode.sec[k]
     ELSE IF inode.sec[Direct + 1] = 0 THEN 0
     ELSE fs.disk[inode.sec[Direct + 1]][k - Direct]]

FreePresent(fs, lba) == IF lba = 0 THEN fs ELSE FreeBlock(fs, lba)

\* The blocks with these addresses, where there is one.
FreeBlocks(fs, lbas) ==
  LET freed[k \in 0..MaxBlocks] ==
        IF k = 0 THEN fs ELSE FreePresent(freed[k - 1], lbas[k])
  IN  freed[MaxBlocks]

FreeInode(fs, no) == SyncInodeBit([fs EXCEPT !.ibits = @ \ {no}], no)

\* Fault: the indirect block itself is not given back.
ReleaseOpen_KeepTable(fs, no) ==
  LET f == FreeBlocks(fs, all_blocks_lba(fs, fs.open[no]))
  IN  inode_close(inode_delete(FreeInode(f, no), no), no)

\* The indirect block first, whose addresses have been read.
ReleaseOpen(fs, no) ==
  LET inode == fs.open[no]
      f == FreePresent(ASSERT(fs, inode.no = no), inode.sec[Direct + 1])
      g == FreeBlocks(f, all_blocks_lba(fs, inode))
  IN  inode_close(inode_delete(FreeInode(g, no), no), no)

inode_release(fs, no) == ReleaseOpen(inode_open(fs, no), no)

-----------------------------------------------------------------------------
(* mount_partition and open_root_dir: memory after the system has started *)
MountedBits(disk, lba, sects) == UNION {disk[lba + k] : k \in 0..sects - 1}

mount_partition(disk) ==
  [disk |-> disk, log |-> <<>>, panic |-> "none", open |-> <<>>,
   bbits |-> MountedBits(disk, block_bitmap_lba, block_bitmap_sects),
   ibits |-> MountedBits(disk, inode_bitmap_lba, inode_bitmap_sects)]

open_root_dir(fs) == inode_open(fs, 0)
=============================================================================
