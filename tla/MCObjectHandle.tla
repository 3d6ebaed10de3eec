--------------------------- MODULE MCObjectHandle ---------------------------
(***************************************************************************)
(* One to three units per write, two per segment, seven units in all:      *)
(* objects of several segments, writes larger than a segment, and files    *)
(* that are written twice.                                                 *)
(***************************************************************************)
EXTENDS ObjectHandle
=============================================================================
