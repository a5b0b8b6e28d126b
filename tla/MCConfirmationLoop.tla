------------------------- MODULE MCConfirmationLoop --------------------------
(* ConfirmationLoop over the block trees of MCTree. *)
EXTENDS ConfirmationLoop, MCTree
==============================================================================
