-------------------------------- MODULE File --------------------------------
(***************************************************************************)
(* Regular files (fs/file.c): file_write, which appends, and file_read.    *)
(* The byte at each position of each file is a number of its own.          *)
(***************************************************************************)
EXTENDS Dir

Byte(no, pos) == 1 + no * MaxBlocks * BlockSize + pos

Bytes(no, size) == [k \in 1..size |-> Byte(no, k - 1)]

-----------------------------------------------------------------------------
(* file_write *)

\* Block k of g.blk is the new block a.
Listed(g, a, k) == [fs |-> a.fs, blk |-> [g.blk EXCEPT ![k] = a.lba]]

\* The blocks has..will - 1 (counted from 0), each synced: f.blk gets them.
NewBlocks(f, has, will) ==
  LET got[k \in has..will] ==
        IF k = has THEN f ELSE Listed(got[k - 1], AllocSynced(got[k - 1].fs), k)
  IN  got[will]

\* The addresses an open inode has, as all_blocks starts with.
OwnBlocks(fs, no) == [fs |-> fs, blk |-> all_blocks_lba(fs, fs.open[no])]

\* The new addresses that may go into the inode.
InInode(f, no, ks) ==
  [f EXCEPT !.fs.open[no].sec = [k \in DOMAIN @ |-> IF k \in ks THEN f.blk[k] ELSE @[k]]]

\* Situation 1: all blocks are direct.
DirectBlocks(fs, no, has, will) ==
  LET f == ASSERT(fs, /\ fs.open[no].sec[has] # 0
                      /\ \A k \in has + 1..will : fs.open[no].sec[k] = 0)
  IN  InInode(NewBlocks(OwnBlocks(f, no), has, will), no, has + 1..will)

\* The indirect block goes to the disk.
WriteTable(f, lba) == [f EXCEPT !.fs = ide_write(@, lba, [k \in 1..TableLen |-> f.blk[Direct + k]])]

\* all_blocks when the indirect block is new.
WithTable(a, no) ==
  [fs |-> [ASSERT(a.fs, a.fs.open[no].sec[Direct + 1] = 0) EXCEPT !.open[no].sec[Direct + 1] = a.lba],
   blk |-> [k \in 1..MaxBlocks |-> IF k <= Direct THEN a.fs.open[no].sec[k] ELSE 0]]

\* A direct block is entered in the inode only if its address is below Direct.
EnterLow(f, no, has) == InInode(f, no, {k \in has + 1..Direct : f.blk[k] < Direct})

\* Situation 2: the indirect block is new.  Its own bit is not synced.
FirstIndirect(fs, no, has, will) ==
  LET Fill(a) == WriteTable(EnterLow(NewBlocks(WithTable(a, no), has, will), no, has), a.lba)
  IN  Fill(block_bitmap_alloc(fs))

\* Fault: every write behind the direct blocks makes the indirect block.
MoreIndirect_Again(fs, no, has, will) == FirstIndirect(fs, no, has, will)

\* Situation 3: the indirect block is read and extended.
MoreIndirect(fs, no, has, will) ==
  LET table == fs.open[no].sec[Direct + 1]
  IN  WriteTable(NewBlocks(OwnBlocks(ASSERT(fs, table # 0), no), has, will), table)

\* The blocks a write needs.
MakeBlocks(fs, no, has, will) ==
  CASE fs.panic # "none" -> [fs |-> fs, blk |-> Zeros(MaxBlocks)]
    [] fs.panic = "none" /\ will = has ->
         OwnBlocks(ASSERT(fs, will <= Direct \/ fs.open[no].sec[Direct + 1] # 0), no)
    [] fs.panic = "none" /\ will # has /\ will <= Direct -> DirectBlocks(fs, no, has, will)
    [] fs.panic = "none" /\ has <= Direct /\ will > Direct -> FirstIndirect(fs, no, has, will)
    [] fs.panic = "none" /\ will # has /\ has > Direct -> MoreIndirect(fs, no, has, will)

\* Fault: the first block is not read before it is written.
WriteBlock_NotRead(f, no, idx, size, count) ==
  LET Put(o) == LET pos == idx * BlockSize + o - 1
                IN  IF pos \in size..size + count - 1 THEN Byte(no, pos) ELSE 0
  IN  [f EXCEPT !.fs = ide_write(@, f.blk[idx + 1], [o \in 1..BlockSize |-> Put(o)])]

\* One block of the loop that writes the data: the first is read before.
WriteBlock(f, no, idx, size, count) ==
  LET lba == f.blk[idx + 1]
      first == idx = size \div BlockSize
      Put(o) == LET pos == idx * BlockSize + o - 1
                IN  IF pos \in size..size + count - 1 THEN Byte(no, pos)
                    ELSE IF first THEN f.fs.disk[lba][o] ELSE 0
  IN  [f EXCEPT !.fs = ide_write(@, lba, [o \in 1..BlockSize |-> Put(o)])]

\* The bytes size..size + count - 1, block by block.
WriteData(f, no, size, count) ==
  LET from == size \div BlockSize
      to == (size + count - 1) \div BlockSize
      written[k \in from..to + 1] ==
        IF k = from THEN f ELSE WriteBlock(written[k - 1], no, k - 1, size, count)
  IN  written[to + 1]

\* The first block of a file that has none.
AsFirst(a, no) == [ASSERT(a.fs, a.lba # data_start_lba) EXCEPT !.open[no].sec[1] = a.lba]
FirstBlock(fs, no) == IF fs.open[no].sec[1] # 0 THEN fs ELSE AsFirst(AllocSynced(fs), no)

\* The next state, and the new fd_pos or -1 when nothing is written: it is set
\* to i_size - 1 before the first of the (at least one) bytes.
file_write(fs, no, count) ==
  LET size == fs.open[no].size
      has == size \div BlockSize + 1
      will == (size + count) \div BlockSize + 1
      blocks == MakeBlocks(ASSERT(FirstBlock(fs, no), will <= MaxBlocks), no, has, will)
      f == [WriteData(blocks, no, size, count).fs EXCEPT !.open[no].size = size + count]
  IN  IF size + count > MaxBlocks * BlockSize THEN [fs |-> fs, pos |-> -1]
      ELSE [fs |-> SyncOpen(f, no), pos |-> size - 1 + count]

-----------------------------------------------------------------------------
(* file_read *)

\* The addresses file_read collects for blocks start..end (counted from 0);
\* an address it does not set is Junk.
ReadBlocks(fs, inode, start, end) ==
  LET table == [k \in 1..MaxBlocks |-> IF k <= Direct THEN Junk
                                       ELSE all_blocks_lba(fs, inode)[k]]
      DirectOnly(s, e) == [k \in 1..MaxBlocks |->
                             IF k \in s + 1..e + 1 THEN inode.sec[k] ELSE Junk]
  IN  CASE start = end /\ end < Direct -> DirectOnly(end, end)
        [] start = end /\ end >= Direct -> table
        [] start # end /\ end <= Direct -> DirectOnly(start, end)
        [] start < Direct /\ end > Direct ->
             [k \in 1..MaxBlocks |-> IF k \in start + 1..Direct THEN inode.sec[k] ELSE table[k]]
        [] start # end /\ start >= Direct -> [k \in 1..MaxBlocks |-> Junk]

\* How the call ends, and the bytes read: "end" is a return of -1.
file_read(fs, inode, pos, count) ==
  LET size == IF pos + count > inode.size THEN inode.size - pos ELSE count
      start == pos \div BlockSize
      end == (pos + size) \div BlockSize
      blk == ReadBlocks(fs, inode, start, end)
      Got(k) == LET lba == blk[k \div BlockSize + 1]
                IN  IF lba = Junk THEN Junk ELSE fs.disk[lba][(k % BlockSize) + 1]
      no_table == start < Direct /\ end > Direct /\ inode.sec[Direct + 1] = 0
  IN  IF size = 0 THEN [end |-> "end", bytes |-> <<>>]
      ELSE IF start >= MaxBlocks - 1 \/ end >= MaxBlocks - 1 \/ no_table
      THEN [end |-> "assert", bytes |-> <<>>]
      ELSE [end |-> "read", bytes |-> [k \in 1..size |-> Got(pos + k - 1)]]

\* sys_lseek: the new position, or -1.
sys_lseek(inode, pos, offset, whence) ==
  LET new_pos == CASE whence = "set" -> offset
                   [] whence = "cur" -> pos + offset
                   [] whence = "end" -> inode.size + offset
  IN  IF new_pos < 0 \/ new_pos > inode.size - 1 THEN -1 ELSE new_pos
=============================================================================
