---------------------------- MODULE MCReconciler -----------------------------
(* Reconciler over the block trees of MCTree. *)
EXTENDS Reconciler, MCTree
==============================================================================
