-------------------------------- MODULE Dir ---------------------------------
(***************************************************************************)
(* Directories (fs/dir.c) and the lookup of paths (search_file and         *)
(* sys_getcwd of fs/fs.c).  A directory is a file of entries; its i_size   *)
(* counts them.  A path is the sequence of its names, and "/" is <<>>.     *)
(***************************************************************************)
EXTENDS Inode

Lowest(S) == CHOOSE k \in S : \A j \in S : k <= j

\* The first of a set of places <<block, entry>>.
FirstPlace(P) == CHOOSE h \in P : \A g \in P : h[1] < g[1] \/ (h[1] = g[1] /\ h[2] <= g[2])

\* The places of the allocated blocks of a directory.
Places(lbas) == {k \in DOMAIN lbas : lbas[k] # 0} \X (1..EntriesPerSec)

EntryAt(fs, lbas, place) == fs.disk[lbas[place[1]]][place[2]]

-----------------------------------------------------------------------------
\* The entry at the first of some places, or NoEntry.
EntryAtFirst(fs, lbas, places) ==
  IF places = {} THEN NoEntry ELSE EntryAt(fs, lbas, FirstPlace(places))

SearchName(fs, lbas, name) ==
  EntryAtFirst(fs, lbas, {h \in Places(lbas) : EntryAt(fs, lbas, h).name = name})

\* The entry with that name, or NoEntry.  The type is not looked at.
search_dir_entry(fs, inode, name) == SearchName(fs, all_blocks_lba(fs, inode), name)

\* The entries an open inode's directory may use: the indirect block is not
\* read, so its addresses count as free.
SyncBlocks(inode) == [k \in 1..MaxBlocks |-> IF k <= Direct THEN inode.sec[k] ELSE 0]

Bigger(fs, no) == [fs EXCEPT !.open[no].size = @ + 1]

\* The new entry in a block that has room.
AddEntry(fs, no, lba, de) ==
  LET e == Lowest({e \in 1..EntriesPerSec : fs.disk[lba][e].type = "unknown"})
  IN  Bigger(ide_write(fs, lba, [fs.disk[lba] EXCEPT ![e] = de]), no)

\* Block number k of the directory is the new block a.
Enter(a, no, k) == [a EXCEPT !.fs.open[no].sec[k] = a.lba]

\* A first block behind the new indirect block a, which lists it.
ListedIn(a, b) == [b EXCEPT !.fs = ide_write(@, a.lba, <<b.lba>> \o Zeros(TableLen - 1))]
Behind(a) == ListedIn(a, AllocSynced(a.fs))

\* The new entry in a new block k.  Block Direct + 1 is the first that the
\* indirect block lists, and comes with a new indirect block.  (The branch
\* for later ones is never taken: block Direct + 1 always counts as free.)
AddBlock(fs, no, k, de) ==
  LET Fill(a) == Bigger(ide_write(a.fs, a.lba, EntrySector(<<de>>)), no)
      new == Enter(AllocSynced(fs), no, k)
  IN  IF k <= Direct THEN Fill(new) ELSE Fill(Behind(new))

\* The first block with room, or the first place for a new block.
BlockForEntry(fs, lbas) ==
  Lowest({k \in 1..Direct + 1 :
            lbas[k] = 0 \/ \E e \in 1..EntriesPerSec : fs.disk[lbas[k]][e].type = "unknown"})

AddAt(fs, no, k, de) ==
  IF k > Direct \/ fs.open[no].sec[k] = 0 THEN AddBlock(fs, no, k, de)
  ELSE AddEntry(fs, no, fs.open[no].sec[k], de)

\* Into the directory whose inode is open under the number no.
sync_dir_entry(fs, no, de) ==
  AddAt(fs, no, BlockForEntry(fs, SyncBlocks(fs.open[no])), de)

-----------------------------------------------------------------------------
(* delete_dir_entry *)
IsDot(e) == e.name \in {".", ".."}

\* A block without other entries is given back: the bit that is cleared is
\* counted from the start of the bitmap, not of the data.  For a block of the
\* indirect block a loop that counts the others follows, which does not move
\* past an address that is 0.
DropBlock(fs, no, k, lba) ==
  LET bit == lba - block_bitmap_lba
      f == SyncBlockBit([fs EXCEPT !.bbits = @ \ {bit}], bit)
  IN  IF k <= Direct THEN [f EXCEPT !.open[no].sec[k] = 0] ELSE Panic(f, "hang")

EraseEntry(fs, lba, e) == ide_write(fs, lba, [fs.disk[lba] EXCEPT ![e] = NoEntry])

\* Fault: the size of the directory stays.
Smaller_Not(fs, no) == fs

Smaller(fs, no) == [ASSERT(fs, fs.open[no].size >= 1) EXCEPT !.open[no].size = @ - 1]

\* The entry at a place goes, with dir_entry_cnt and is_dir_first_block as they
\* are when the search has reached it.
DeleteAt(fs, no, lbas, h) ==
  LET upto == {EntryAt(fs, lbas, <<h[1], e>>) : e \in 1..h[2]}
      cnt == Cardinality({e \in upto : e.type # "unknown" /\ ~IsDot(e)})
      first == \E e \in upto : e.name = "."
  IN  IF cnt = 1 /\ ~first THEN DropBlock(fs, no, h[1], lbas[h[1]])
      ELSE EraseEntry(fs, lbas[h[1]], h[2])

DeleteFirst(fs, no, lbas, places) ==
  IF places = {} THEN fs
  ELSE SyncOpen(Smaller(DeleteAt(fs, no, lbas, FirstPlace(places)), no), no)

IsChild(e, no) == e.type # "unknown" /\ ~IsDot(e) /\ e.no = no

DeleteIn(fs, no, lbas, child) ==
  DeleteFirst(fs, no, lbas, {h \in Places(lbas) : IsChild(EntryAt(fs, lbas, h), child)})

\* From the directory whose inode is open under the number no.
delete_dir_entry(fs, no, child) ==
  DeleteIn(fs, no, all_blocks_lba(fs, fs.open[no]), child)

-----------------------------------------------------------------------------
\* The entries in use, in the order of the blocks.
EntryList(fs, lbas) ==
  LET all == FlattenSeq([k \in 1..MaxBlocks |-> IF lbas[k] = 0 THEN <<>> ELSE fs.disk[lbas[k]]])
  IN  SelectSeq(all, LAMBDA e : e.type # "unknown")

\* dir_read at position pos: an entry, NULL at the end, or a run past the array
\* of block addresses.
ReadAt(entries, size, pos) ==
  IF pos >= size THEN [end |-> "null", entry |-> NoEntry]
  ELSE IF pos >= Len(entries) THEN [end |-> "overrun", entry |-> NoEntry]
  ELSE [end |-> "entry", entry |-> entries[pos + 1]]

dir_read(fs, inode, pos) == ReadAt(EntryList(fs, all_blocks_lba(fs, inode)), inode.size, pos)

dir_is_empty(inode) == inode.size = 2

\* dir_remove of a child directory in the directory parent, both open.
dir_remove(fs, parent, child) ==
  LET f == ASSERT(fs, \A k \in 2..Direct : fs.open[child].sec[k] = 0)
  IN  inode_release(delete_dir_entry(f, parent, child), child)

-----------------------------------------------------------------------------
(* search_file *)

\* From the directory reached, with the entry of the k-th name: the directory
\* of that name, or the end of the search.
SearchStep(at, e, k) ==
  IF at.done THEN at
  ELSE IF e.name = "" \* not found
  THEN [at EXCEPT !.done = TRUE, !.parent = at.no, !.no = -1, !.type = "unknown", !.depth = k]
  ELSE IF e.type = "regular"
  THEN [at EXCEPT !.done = TRUE, !.parent = at.no, !.no = e.no, !.type = "regular", !.depth = k]
  ELSE [at EXCEPT !.parent = at.no, !.no = e.no, !.type = "directory", !.depth = k, !.held = TRUE]

\* The result: inode number or -1, type, depth reached, and the directory left
\* open as parent_dir.  root_dir itself is not counted as opened (held).
SearchStart == [no |-> 0, parent |-> 0, type |-> "directory", depth |-> 0,
                held |-> FALSE, done |-> FALSE]

search_file(fs, path) ==
  LET at[k \in 0..Len(path)] ==
        IF k = 0 THEN SearchStart
        ELSE SearchStep(at[k - 1],
                        search_dir_entry(fs, InodeAt(fs, at[k - 1].no), path[k]), k)
  IN  at[Len(path)]

\* parent_dir is open from search_file to dir_close.
OpenParent(fs, rec) == IF rec.held THEN inode_open(fs, rec.parent) ELSE fs
CloseParent(fs, rec) == IF rec.held THEN inode_close(fs, rec.parent) ELSE fs

-----------------------------------------------------------------------------
(* sys_getcwd of a working directory: the names from the root down to it *)
get_parent_dir_inode_nr(fs, child) == fs.disk[InodeAt(fs, child).sec[1]][2].no

SearchNumber(fs, lbas, no) ==
  EntryAtFirst(fs, lbas, {h \in Places(lbas) : EntryAt(fs, lbas, h).no = no})

\* "" when there is none.
get_child_dir_name(fs, parent, child) ==
  SearchNumber(fs, all_blocks_lba(fs, InodeAt(fs, parent)), child).name

\* NULL is <<"">>: a name was not found.
sys_getcwd(fs, cwd) ==
  LET up[no \in 0..InodeCnt - 1, k \in 0..InodeCnt] ==
        IF no = 0 \/ k = 0 THEN <<>>
        ELSE LET parent == get_parent_dir_inode_nr(fs, no)
                 name == get_child_dir_name(fs, parent, no)
             IN  IF name = "" THEN <<"">> ELSE Append(up[parent, k - 1], name)
  IN  up[cwd, InodeCnt]
=============================================================================
