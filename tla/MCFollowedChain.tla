--------------------------- MODULE MCFollowedChain ---------------------------
(* FollowedChain over the block trees of MCTree. *)
EXTENDS FollowedChain, MCTree
==============================================================================
