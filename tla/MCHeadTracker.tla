---------------------------- MODULE MCHeadTracker ----------------------------
(* HeadTracker over the block trees of MCTree. *)
EXTENDS HeadTracker, MCTree
==============================================================================
