------------------------------ MODULE MCMemory ------------------------------
(***************************************************************************)
(* TLC instances of Memory: init and one child at a time, pages of eight   *)
(* bytes.  Blocks of two bytes (two to an arena) and of four (one to an  *)
(* arena); seven bytes take two whole pages.  A bitmap of twelve bytes     *)
(* fills one page and a half, as the real one fills 22 and a part.         *)
(***************************************************************************)
EXTENDS Memory, TLC

CONSTANT child

MCSizes == KERNEL :> {1, 7} @@ init :> {} @@ child :> {3, 7}
MCMaxHeld == KERNEL :> 3 @@ init :> 0 @@ child :> 2
=============================================================================
