----------------------------- MODULE MCWaitExit -----------------------------
(***************************************************************************)
(* TLC instances of WaitExit: the three tasks of the boot and pages for    *)
(* three processes, which is enough for a grandchild that outlives its     *)
(* parent and for pids that are used again.                                *)
(***************************************************************************)
EXTENDS WaitExit, TLC

CONSTANTS main, idle, Pages

MCThreads == {init, main, idle} \cup Pages
MCSlices == [t \in MCThreads |-> 0]
MCStatuses == {-1, 200}

\* The page allocator may return any free page.
PageSymmetry == Permutations(Pages)
=============================================================================
