----------------------------- MODULE MCDirectory -----------------------------
(***************************************************************************)
(* The apex and one subdirectory, with one or two names for files.         *)
(***************************************************************************)
EXTENDS Directory, TLC

(* Containers this mount made: every directory has its marker.             *)
MarkedStores == {S \in SUBSET Paths :
             \A path \in S : path[1] # Top => <<Top, path[1]>> \in S}
(* Any container, with pseudo-directories.                                 *)
AnyStore == SUBSET Paths

Symmetry == Permutations(Procs)
=============================================================================
