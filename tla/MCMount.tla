-------------------------------- MODULE MCMount --------------------------------
(***************************************************************************)
(* A container and its segment container under two requests at a time: the *)
(* account mounted with and without a storage policy, and the container    *)
(* with and without a quota.                                               *)
(***************************************************************************)
EXTENDS Mount

Unlimited == -1
MCSegments == [n \in Names |-> "a_segments"]
MCOptions ==
  {[target |-> NoTarget, policy |-> TRUE, quota |-> 0],
   [target |-> NoTarget, policy |-> FALSE, quota |-> 3],
   [target |-> "a", policy |-> FALSE, quota |-> 0],
   [target |-> "a", policy |-> FALSE, quota |-> 1]}
=============================================================================
