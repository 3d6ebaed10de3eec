-------------------------- MODULE MCDirectoryCache --------------------------
(***************************************************************************)
(* Two directories with three possible names, a limit of three nodes and   *)
(* two reads: fills that fit, that just do not fit, that become temporary, *)
(* entries evicted by their last read and by expiry.                       *)
(***************************************************************************)
EXTENDS DirectoryCache
=============================================================================
