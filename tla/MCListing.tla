------------------------------ MODULE MCListing ------------------------------
(***************************************************************************)
(* Two listings that share one worker, with more tasks than there is room  *)
(* for in the channels, and a file that is opened and released meanwhile.  *)
(***************************************************************************)
EXTENDS Listing
=============================================================================
