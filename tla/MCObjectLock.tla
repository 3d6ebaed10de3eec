---------------------------- MODULE MCObjectLock ----------------------------
(***************************************************************************)
(* The lock alone, when applications share a file: a reader closes it      *)
(* while a writer has it open, and a second writer waits.                  *)
(***************************************************************************)
EXTENDS ObjectLock
=============================================================================
