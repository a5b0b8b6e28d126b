------------------------------- MODULE MCTree --------------------------------
(***************************************************************************)
(* The block trees of the TLC runs.  Chain a is the longest; b forks off   *)
(* at height 2 and is as long, c forks off a at height 3, d forks off at   *)
(* height 1 and is deep enough to leave a window of two blocks.            *)
(*                                                                         *)
(*     g0 -- a1 -- a2 -- a3 -- a4                                          *)
(*      |     |     \--- c3                                                *)
(*      |     \--- b2 -- b3 -- b4                                          *)
(*      \--- d1 -- d2 -- d3                                                *)
(***************************************************************************)
MCParent ==
    [ g0 |-> "none",
      a1 |-> "g0", a2 |-> "a1", a3 |-> "a2", a4 |-> "a3",
      b2 |-> "a1", b3 |-> "b2", b4 |-> "b3",
      c3 |-> "a2",
      d1 |-> "g0", d2 |-> "d1", d3 |-> "d2" ]

MCNum ==
    [ g0 |-> 0,
      a1 |-> 1, a2 |-> 2, a3 |-> 3, a4 |-> 4,
      b2 |-> 2, b3 |-> 3, b4 |-> 4,
      c3 |-> 3,
      d1 |-> 1, d2 |-> 2, d3 |-> 3 ]

MCBlock == DOMAIN MCNum

(***************************************************************************)
(* Parts of that tree: a chain that is never reorganised, and a smaller    *)
(* tree with two forks for the runs that restart the process.              *)
(***************************************************************************)
Only(S, f) == [b \in S |-> f[b]]

LineBlock  == {"g0", "a1", "a2", "a3", "a4"}
LineNum    == Only(LineBlock, MCNum)
LineParent == Only(LineBlock, MCParent)

ForkBlock  == {"g0", "a1", "a2", "a3", "b2", "b3", "d1", "d2"}
ForkNum    == Only(ForkBlock, MCNum)
ForkParent == Only(ForkBlock, MCParent)
==============================================================================
