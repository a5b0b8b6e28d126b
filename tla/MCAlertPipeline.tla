--------------------------- MODULE MCAlertPipeline ---------------------------
(***************************************************************************)
(* A tree with one fork and the logs of two contracts in it; and the       *)
(* configurations of the runs, each a sequence of monitors.                *)
(***************************************************************************)
EXTENDS AlertPipeline, MCTree

ForkedBlock  == {"g0", "a1", "a2", "b2"}
ForkedNum    == Only(ForkedBlock, MCNum)
ForkedParent == Only(ForkedBlock, MCParent)

Logs       == 1..2
LogsBlock  == <<"a1", "a2">>
LogsAddr   == <<"B", "A">>

Mon(id, addr, conf) == [id |-> id, chain |-> "base", addr |-> addr, conf |-> conf]

OnlyFast == <<Mon("m1", "A", "")>>
OnlySafe == <<Mon("m2", "A", "safe")>>
==============================================================================
