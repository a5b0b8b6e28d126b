------------------------------ MODULE ChainFeed ------------------------------
(***************************************************************************)
(* What the log pipeline is promised by whoever feeds it blocks: it is     *)
(* handed batches of blocks and is told of single blocks that left the     *)
(* chain, and whenever a batch arrives, the blocks it was given and not    *)
(* told to forget are one unbroken chain with the batch on top.            *)
(*                                                                         *)
(* HeadTracker implements this specification, AlertPipeline is a consumer  *)
(* of it.                                                                  *)
(***************************************************************************)
EXTENDS BlockTree

VARIABLE view   \* the blocks handed over and not reverted since

\* One block per height, and no gap between the lowest and the highest.
OneChain(S) ==
    /\ \A b, c \in S : Num[b] = Num[c] => b = c
    /\ \A b, c \in S : Num[b] < Num[c] => Parent[c] \in S

FeedInit == view = {}

\* The callback OnCanonicalBatch.
Deliver(S) ==
    /\ S # {}
    /\ \A b \in S, c \in view : Num[c] < Num[b]
    /\ OneChain(view \cup S)
    /\ view' = view \cup S

\* The callback OnReverted.
Revert(b) ==
    /\ b \in view
    /\ view' = view \ {b}

FeedNext ==
    \/ \E b \in view : Revert(b)
    \/ Deliver(view' \ view)

FeedSpec == FeedInit /\ [][FeedNext]_view
==============================================================================
