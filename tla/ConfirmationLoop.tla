--------------------------- MODULE ConfirmationLoop --------------------------
(***************************************************************************)
(* The safe and finalized loops of HeadTracker.  Each is a goroutine of    *)
(* its own that asks the endpoint for the block under its tag, moves a     *)
(* watermark up to that number, and hands the rows between the old and the *)
(* new watermark to its log fetcher.  It shares nothing with the polling   *)
(* loop but the "blocks" table, which that loop writes meanwhile.          *)
(*                                                                         *)
(* HeadByTag failing leaves the poll at once: a stuttering step.           *)
(***************************************************************************)
EXTENDS FollowedChain

CONSTANTS
    Kind,       \* the loops that run: "safe", "finalized"
    TagsTrail   \* the network tags a block only after the tracker delivered it

ASSUME LoopAssumption == TagsTrail \in BOOLEAN

VARIABLES
    tagged,     \* the block the network has under each tag, or NoBlock
    mark,       \* safeTip, finalizedTip; NoMark before they are seeded
    since,      \* history: the number each watermark was seeded with
    range,      \* the numbers a poll is about to load
    confirmed   \* history: the blocks each loop handed over, not reverted since

loopVars == <<tagged, mark, since, range, confirmed>>

NoMark == -1

\* Each loop's watermark and the range it loads are block numbers, and what it
\* loads is under its watermark.
LoopTypeOK ==
    /\ tagged \in [Kind -> Block \cup {NoBlock}]
    /\ mark \in [Kind -> Heights \cup {NoMark}]
    /\ since \in [Kind -> Heights \cup {NoMark}]
    /\ range \in [Kind -> SUBSET Heights]
    /\ confirmed \in [Kind -> SUBSET Block]
    /\ \A k \in Kind : \A n \in range[k] : n <= mark[k]

LoopInit ==
    /\ FollowInit
    /\ tagged = [k \in Kind |-> NoBlock]
    /\ mark = [k \in Kind |-> NoMark]
    /\ since = [k \in Kind |-> NoMark]
    /\ range = [k \in Kind |-> {}]
    /\ confirmed = [k \in Kind |-> {}]

------------------------------------------------------------------------------
(* The network and the polling loop.                                       *)

\* A tag moves up the canonical chain.
Tag(k, b) ==
    /\ b \in Chain[canon]
    /\ TagsTrail => stage = "poll" /\ b \in view
    /\ tagged[k] # NoBlock => tagged[k] \in Chain[b] \ {b}
    /\ tagged' = [tagged EXCEPT ![k] = b]
    /\ UNCHANGED <<allVars, mark, since, range, confirmed>>

\* What was tagged stays canonical: the chain reorganises above it.
MoveAboveTags(c) ==
    /\ Move(c)
    /\ \A k \in Kind : tagged[k] # NoBlock => tagged[k] \in Chain[c]
    /\ UNCHANGED loopVars

\* OnReverted retracts the alerts of a block whichever loop delivered it.
TrackerMoves ==
    /\ Poll \/ Fetch \/ FetchFault \/ Work
    /\ confirmed' = [k \in Kind |-> confirmed[k] \ (view \ view')]
    /\ UNCHANGED <<tagged, mark, since, range>>

------------------------------------------------------------------------------
(* pollConfirmationOnce.                                                   *)

\* The goroutines start after seedFromStorage; HeadByTag has an answer.
Asks(k) ==
    /\ stage # "boot"
    /\ range[k] = {}
    /\ tagged[k] # NoBlock

SeedWatermark(k) ==
    /\ Asks(k)
    /\ mark[k] = NoMark
    /\ mark' = [mark EXCEPT ![k] = Num[tagged[k]]]
    /\ since' = [since EXCEPT ![k] = Num[tagged[k]]]
    /\ UNCHANGED <<allVars, tagged, range, confirmed>>

\* Mutant: the watermark is left where it was.
AdvanceNever(k) ==
    /\ Asks(k)
    /\ mark[k] # NoMark
    /\ Num[tagged[k]] > mark[k]
    /\ range' = [range EXCEPT ![k] = (mark[k] + 1) .. Num[tagged[k]]]
    /\ UNCHANGED <<allVars, tagged, mark, since, confirmed>>

\* Mutant: one block more is not enough to move.
AdvanceLate(k) ==
    /\ Asks(k)
    /\ mark[k] # NoMark
    /\ Num[tagged[k]] > mark[k] + 1
    /\ mark' = [mark EXCEPT ![k] = Num[tagged[k]]]
    /\ range' = [range EXCEPT ![k] = (mark[k] + 1) .. Num[tagged[k]]]
    /\ UNCHANGED <<allVars, tagged, since, confirmed>>

\* The watermark moves before the rows are read.
Advance(k) ==
    /\ Asks(k)
    /\ mark[k] # NoMark
    /\ Num[tagged[k]] > mark[k]
    /\ mark' = [mark EXCEPT ![k] = Num[tagged[k]]]
    /\ range' = [range EXCEPT ![k] = (mark[k] + 1) .. Num[tagged[k]]]
    /\ UNCHANGED <<allVars, tagged, since, confirmed>>

\* Mutant: BETWEEN without its upper end.
LoadRangeBelowTop(numbers) ==
    {b \in Block : \E n \in numbers : blocks[n] = b /\ n + 1 \in numbers}

\* The rows of the blocks table with these numbers.
LoadCanonicalBlocksRange(numbers) ==
    {b \in Block : \E n \in numbers : blocks[n] = b}

\* The rows go to the callback; an error of the store drops the range.
Confirm(k, ok) ==
    /\ range[k] # {}
    /\ confirmed' = IF ok
                    THEN [confirmed EXCEPT ![k] = @ \cup LoadCanonicalBlocksRange(range[k])]
                    ELSE confirmed
    /\ range' = [range EXCEPT ![k] = {}]
    /\ UNCHANGED <<allVars, tagged, mark, since>>

LoopStep(k) == SeedWatermark(k) \/ Advance(k) \/ \E ok \in StoreAnswers : Confirm(k, ok)

LoopNext ==
    \/ \E k \in Kind, b \in Block : Tag(k, b)
    \/ \E c \in Block : MoveAboveTags(c)
    \/ TrackerMoves
    \/ \E k \in Kind : LoopStep(k)

\* The tickers of the loops fire again and again.
LoopSpec ==
    /\ LoopInit
    /\ [][LoopNext]_<<allVars, loopVars>>
    /\ \A k \in Kind : WF_<<allVars, loopVars>>(LoopStep(k))

------------------------------------------------------------------------------

\* The numbers a loop has dealt with.
Passed(k) == {n \in Heights : since[k] < n /\ n <= mark[k]} \ range[k]

\* While tags trail the tracker, a loop hands over exactly the tagged chain from
\* where its watermark started, though the tracker rewrites rows meanwhile.
ConfirmsTaggedChain ==
    \A k \in Kind : mark[k] # NoMark =>
        confirmed[k] = {b \in Chain[tagged[k]] : Num[b] \in Passed(k)}

\* Every tagged block above the seed is handed over in the end.
EventuallyConfirmed ==
    \A k \in Kind : \A b \in Block :
        [](/\ tagged[k] # NoBlock /\ b \in Chain[tagged[k]]
           /\ mark[k] # NoMark /\ Num[b] > since[k]
           => <>(b \in confirmed[k]))
==============================================================================
