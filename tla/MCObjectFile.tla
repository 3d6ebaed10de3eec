----------------------------- MODULE MCObjectFile -----------------------------
(***************************************************************************)
(* Three handles that write, one that reads, one request at a time that    *)
(* changes attributes, and two names: a handle being released, one         *)
(* waiting, one overtaking it.                                             *)
(***************************************************************************)
EXTENDS ObjectFile
=============================================================================
