----------------------------- MODULE FileSystem -----------------------------
(***************************************************************************)
(* What the file system promises: a tree of directories and files that one *)
(* call changes at a time, in a fixed order: the names, then the directory *)
(* that counts them, then the object.  tree is what a reader of the disk   *)
(* finds; goal is the tree the call under way works towards.  When the     *)
(* machine is switched off the tree stays as far as it has come: at worst  *)
(* one object is hollow and one directory's count is wrong.                *)
(***************************************************************************)
EXTENDS Integers, Sequences, SequencesExt

CONSTANT Paths  \* sequences of names; the root directory is always there

VARIABLES tree, goal

vars == <<tree, goal>>

\* A directory's data is the number of its entries, with "." and "..".
Directory(count) == [type |-> "directory", whole |-> TRUE, data |-> count]
File(data) == [type |-> "regular", whole |-> TRUE, data |-> data]

\* A name whose object has not been written.
Hollow(type) ==
  [type |-> type, whole |-> FALSE, data |-> IF type = "regular" THEN <<>> ELSE 0]

IsDirectory(path) == path \in DOMAIN tree /\ tree[path].type = "directory"

\* Where the parent of path has so many entries more.
Counted(t, path, more) == [t EXCEPT ![Front(path)].data = @ + more]

With(t, path, object) ==
  [x \in DOMAIN t \cup {path} |-> IF x = path THEN object ELSE t[x]]

Without(t, path) == [x \in DOMAIN t \ {path} |-> t[x]]

Init ==
  /\ tree = [x \in {<<>>} |-> Directory(2)]
  /\ goal = tree

-----------------------------------------------------------------------------
(* A call begins: the one before has reached the disk. *)
Make(path, object) ==
  /\ path \notin DOMAIN tree /\ IsDirectory(Front(path))
  /\ goal' = With(Counted(tree, path, 1), path, object)

RemoveFile(path) ==
  /\ path \in DOMAIN tree /\ tree[path].type = "regular"
  /\ goal' = Without(Counted(tree, path, -1), path)

RemoveDirectory(path) ==
  /\ IsDirectory(path)
  /\ \A x \in DOMAIN tree : x # <<>> => Front(x) # path
  /\ goal' = Without(Counted(tree, path, -1), path)

Grow(path) ==
  /\ path \in DOMAIN tree /\ tree[path].type = "regular"
  /\ path \in DOMAIN goal'
  /\ IsStrictPrefix(tree[path].data, goal'[path].data)
  /\ goal' = With(tree, path, File(goal'[path].data))

Begin ==
  /\ tree = goal
  /\ \E path \in Paths : \/ Make(path, Directory(2))
                         \/ Make(path, File(<<>>))
                         \/ RemoveFile(path)
                         \/ RemoveDirectory(path)
                         \/ Grow(path)
  /\ UNCHANGED tree

-----------------------------------------------------------------------------
(* The call reaches the disk, a part at a time. *)

\* The names: one is there, hollow, or one is gone.
Rename ==
  /\ DOMAIN tree # DOMAIN goal
  /\ tree' = [x \in DOMAIN goal |-> IF x \in DOMAIN tree THEN tree[x] ELSE Hollow(goal[x].type)]
  /\ UNCHANGED goal

\* An object, after the directory it is in.
Store(path) ==
  /\ DOMAIN tree = DOMAIN goal
  /\ path # <<>> => tree[Front(path)] = goal[Front(path)]
  /\ tree' = [tree EXCEPT ![path] = goal[path]]
  /\ UNCHANGED goal

\* Whatever was under way is forgotten.
Crash == goal' = tree /\ UNCHANGED tree

Next == Begin \/ Rename \/ (\E path \in DOMAIN tree : Store(path)) \/ Crash

Spec == Init /\ [][Next]_vars
=============================================================================
