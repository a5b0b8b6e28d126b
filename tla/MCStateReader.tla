---------------------------- MODULE MCStateReader ----------------------------
(* StateReader over a tree with one fork. *)
EXTENDS StateReader, MCTree

ForkedBlock  == {"g0", "a1", "a2", "b2"}
ForkedNum    == Only(ForkedBlock, MCNum)
ForkedParent == Only(ForkedBlock, MCParent)
==============================================================================
