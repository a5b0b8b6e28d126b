----------------------------- MODULE HeadTracker -----------------------------
(***************************************************************************)
(* ingest.HeadTracker: the loop that polls the head of one chain, lets the *)
(* reconciler work out what changed, holds new blocks back until they are  *)
(* ConfirmDepth under the head, and hands them to the log pipeline; and    *)
(* the two tables of storage.Store it keeps for a restart.                 *)
(*                                                                         *)
(* One poll is a sequence of stages.  Between any two of them, and between *)
(* any two answers inside the reconciliation, the process may be killed or *)
(* told to stop: then everything but the two tables is lost.               *)
(*                                                                         *)
(* HeadByTag failing leaves pollOnce at once with nothing changed, which   *)
(* is a stuttering step here.                                              *)
(***************************************************************************)
EXTENDS Reconciler

CONSTANTS
    ConfirmDepth,   \* HeadTracker.ConfirmDepth, from confirmations.fast
    SeedWindow,     \* the literal 256 of seedFromStorage
    StoreFails,     \* whether a call of the store may return an error
    MaxCrashes      \* bound: how many times the process dies

ASSUME TrackerAssumption ==
    /\ ConfirmDepth \in Nat
    /\ SeedWindow \in Nat
    /\ StoreFails \in BOOLEAN
    /\ MaxCrashes \in Nat

VARIABLES
    stage,      \* where Run is
    pending,    \* HeadTracker.pending
    toRevert,   \* reverted blocks OnReverted is still to be called for
    emit,       \* the blocks this poll hands on
    toRemember, \* those of them RememberBlock is still to be called for
    blocks,     \* the "blocks" table: number -> block
    saved,      \* the "cursors" row
    view,       \* history: blocks handed to the pipeline and not reverted since
    crashes     \* how many times the process died

pollVars  == <<stage, pending, toRevert, emit, toRemember>>
storeVars == <<blocks, saved>>
vars      == <<recVars, pollVars, storeVars, view, crashes>>

Stages == {"boot", "poll", "reconcile", "revert", "remember", "deliver", "save"}

\* The fields of HeadTracker and the tables of the store have their types, and
\* pollOnce remembers only blocks that it emits.
TypeOK ==
    /\ ReconcilerTypeOK
    /\ stage \in Stages
    /\ pending \subseteq Block
    /\ toRevert \subseteq Block
    /\ emit \subseteq Block
    /\ toRemember \subseteq emit
    /\ blocks \in Rows
    /\ saved \in Block \cup {NoBlock}
    /\ view \subseteq Block
    /\ crashes \in 0..MaxCrashes

Init ==
    /\ ReconcilerInit
    /\ stage = "boot"
    /\ pending = {}
    /\ toRevert = {}
    /\ emit = {}
    /\ toRemember = {}
    /\ blocks = EmptyRows
    /\ saved = NoBlock
    /\ view = {}
    /\ crashes = 0

------------------------------------------------------------------------------

Lowest(S)  == CHOOSE b \in S : \A c \in S : Num[b] <= Num[c]
Highest(S) == CHOOSE b \in S : \A c \in S : Num[c] <= Num[b]

\* Whether a call of the store succeeds.
StoreAnswers == IF StoreFails THEN BOOLEAN ELSE {TRUE}

------------------------------------------------------------------------------
(* seedFromStorage.                                                        *)

\* LoadCursor finds a row.
CursorFound == saved # NoBlock

\* Mutant: the lowest number is left out.
LoadRecentBlocksAbove(min) ==
    [n \in Heights |-> IF n > min THEN blocks[n] ELSE NoBlock]

\* The rows from a number on; there is no upper bound.
LoadRecentBlocks(min) ==
    [n \in Heights |-> IF n >= min THEN blocks[n] ELSE NoBlock]

MinBlock == IF Num[saved] > SeedWindow THEN Num[saved] - SeedWindow ELSE 0

SeedFromStorage ==
    /\ stage = "boot"
    /\ CursorFound
    /\ LoadKnown(LoadRecentBlocks(MinBlock))
    /\ stage' = "poll"
    /\ UNCHANGED <<pending, toRevert, emit, toRemember, storeVars, view, crashes>>

\* No cursor was saved, or one of the two loads failed: Run logs the error and
\* goes on with an empty reconciler.
StartUnseeded ==
    /\ stage = "boot"
    /\ ~CursorFound \/ StoreFails
    /\ stage' = "poll"
    /\ UNCHANGED <<recVars, pending, toRevert, emit, toRemember, storeVars, view, crashes>>

------------------------------------------------------------------------------
(* pollOnce, up to the answer of OnHead.                                   *)

PollHead(h) ==
    /\ stage = "poll"
    /\ OnHead(h)
    /\ stage' = "reconcile"
    /\ UNCHANGED <<pending, toRevert, emit, toRemember, storeVars, view, crashes>>

\* A step inside OnHead; an error of OnHead ends the poll.
Reconcile(step) ==
    /\ stage = "reconcile"
    /\ step
    /\ stage' = IF phase' = "idle" THEN "poll" ELSE "reconcile"
    /\ UNCHANGED <<pending, toRevert, emit, toRemember, storeVars, view, crashes>>

\* Mutant: a buffered block is matched by its number alone.
TakeResultByNumber ==
    /\ stage = "reconcile"
    /\ Return
    /\ LET buffer == pending \cup BlocksOf(canonical)
           SameNumber(b, S) == \E c \in S : Num[c] = Num[b]
       IN  /\ pending' = {b \in buffer : ~SameNumber(b, BlocksOf(reverted))}
           /\ toRevert' = {b \in BlocksOf(reverted) : ~SameNumber(b, buffer)}
    /\ stage' = "revert"
    /\ UNCHANGED <<emit, toRemember, storeVars, view, crashes>>

\* Mutant: OnReverted is called for buffered blocks too.
TakeResultLoudly ==
    /\ stage = "reconcile"
    /\ Return
    /\ pending' = (pending \cup BlocksOf(canonical)) \ BlocksOf(reverted)
    /\ toRevert' = BlocksOf(reverted)
    /\ stage' = "revert"
    /\ UNCHANGED <<emit, toRemember, storeVars, view, crashes>>

\* The canonical blocks join the buffer; a reverted block that is in the buffer
\* leaves it silently, for the others OnReverted will be called.
TakeResult ==
    /\ stage = "reconcile"
    /\ Return
    /\ LET buffer == pending \cup BlocksOf(canonical)
       IN  /\ pending' = buffer \ BlocksOf(reverted)
           /\ toRevert' = BlocksOf(reverted) \ buffer
    /\ stage' = "revert"
    /\ UNCHANGED <<emit, toRemember, storeVars, view, crashes>>

------------------------------------------------------------------------------
(* pollOnce, what it does with the result.                                 *)

\* Mutant: no callback is called.
OnRevertedSilent ==
    /\ stage = "revert"
    /\ toRevert # {}
    /\ toRevert' = toRevert \ {Lowest(toRevert)}
    /\ UNCHANGED <<recVars, stage, pending, emit, toRemember, storeVars, view, crashes>>

OnReverted ==
    /\ stage = "revert"
    /\ toRevert # {}
    /\ toRevert' = toRevert \ {Lowest(toRevert)}
    /\ view' = view \ {Lowest(toRevert)}
    /\ UNCHANGED <<recVars, stage, pending, emit, toRemember, storeVars, crashes>>

\* Mutant: one confirmation short.
ThresholdOneHigher(h) ==
    IF Num[h] + 1 > ConfirmDepth THEN Num[h] + 1 - ConfirmDepth ELSE 0

\* The highest number that has ConfirmDepth blocks on top of it.
Threshold(h) == IF Num[h] > ConfirmDepth THEN Num[h] - ConfirmDepth ELSE 0

\* Mutant: only the block at the threshold is ready.
SplitPendingAtThreshold ==
    /\ stage = "revert"
    /\ toRevert = {}
    /\ LET ready == {b \in pending : Num[b] = Threshold(head)}
       IN  /\ emit' = ready
           /\ toRemember' = ready
           /\ pending' = pending \ ready
           /\ stage' = IF ready = {} THEN "poll" ELSE "remember"
    /\ UNCHANGED <<recVars, toRevert, storeVars, view, crashes>>

\* Mutant: the loop that remembers blocks runs over the whole buffer.
SplitPendingRememberAll ==
    /\ stage = "revert"
    /\ toRevert = {}
    /\ LET ready == {b \in pending : Num[b] <= Threshold(head)}
       IN  /\ emit' = ready
           /\ toRemember' = pending
           /\ pending' = pending \ ready
           /\ stage' = IF ready = {} THEN "poll" ELSE "remember"
    /\ UNCHANGED <<recVars, toRevert, storeVars, view, crashes>>

\* Mutant: a batch that is ready goes out before the reverts.
SplitPendingFirst ==
    /\ stage = "revert"
    /\ LET ready == {b \in pending : Num[b] <= Threshold(head)}
       IN  /\ toRevert = {} \/ ready # {}
           /\ emit' = ready
           /\ toRemember' = ready
           /\ pending' = pending \ ready
           /\ stage' = IF ready = {} THEN "poll" ELSE "remember"
    /\ UNCHANGED <<recVars, toRevert, storeVars, view, crashes>>

SplitPending ==
    /\ stage = "revert"
    /\ toRevert = {}
    /\ LET ready == {b \in pending : Num[b] <= Threshold(head)}
       IN  /\ emit' = ready
           /\ toRemember' = ready
           /\ pending' = pending \ ready
           /\ stage' = IF ready = {} THEN "poll" ELSE "remember"
    /\ UNCHANGED <<recVars, toRevert, storeVars, view, crashes>>

\* Mutant: a row that exists is not updated.
InsertOnly(rows, b) ==
    IF rows[Num[b]] = NoBlock THEN [rows EXCEPT ![Num[b]] = b] ELSE rows

\* The row of the block's number is inserted or overwritten.
Upsert(rows, b) == [rows EXCEPT ![Num[b]] = b]

\* An error of the store is logged and the loop goes on.
RememberBlock(ok) ==
    /\ stage = "remember"
    /\ LET b == Lowest(toRemember)
       IN  /\ blocks' = IF ok THEN Upsert(blocks, b) ELSE blocks
           /\ toRemember' = toRemember \ {b}
           /\ stage' = IF toRemember = {b} THEN "deliver" ELSE "remember"
    /\ UNCHANGED <<recVars, pending, toRevert, emit, saved, view, crashes>>

OnCanonicalBatch ==
    /\ stage = "deliver"
    /\ view' = view \cup emit
    /\ stage' = "save"
    /\ UNCHANGED <<recVars, pending, toRevert, emit, toRemember, storeVars, crashes>>

SaveCursor(ok) ==
    /\ stage = "save"
    /\ saved' = IF ok THEN Highest(emit) ELSE saved
    /\ emit' = {}
    /\ stage' = "poll"
    /\ UNCHANGED <<recVars, pending, toRevert, toRemember, blocks, view, crashes>>

------------------------------------------------------------------------------

\* The process is killed, or stopped by a signal, and started again.
Crash ==
    /\ crashes < MaxCrashes
    /\ crashes' = crashes + 1
    /\ known' = EmptyRows /\ tip' = 0 /\ seeded' = FALSE
    /\ phase' = "idle" /\ head' = NoBlock /\ cursor' = NoBlock /\ path' = EmptyRows
    /\ canonical' = EmptyRows /\ reverted' = EmptyRows
    /\ stage' = "boot" /\ pending' = {} /\ toRevert' = {} /\ emit' = {} /\ toRemember' = {}
    /\ UNCHANGED <<storeVars, view>>

\* What the tracker does by itself, between two answers.
TrackerStep ==
    \/ SeedFromStorage
    \/ StartUnseeded
    \/ Reconcile(ReconcileLocal)
    \/ TakeResult
    \/ OnReverted
    \/ SplitPending
    \/ \E ok \in StoreAnswers : RememberBlock(ok)
    \/ OnCanonicalBatch
    \/ \E ok \in StoreAnswers : SaveCursor(ok)

Next ==
    \/ TrackerStep
    \/ \E h \in Block : PollHead(h)
    \/ \E b \in Block : Reconcile(ReconcileAnswer(b))
    \/ Reconcile(FetchFails)
    \/ Crash

Spec == Init /\ [][Next]_vars

\* The process starts again after it was stopped between two polls of an earlier
\* run: the table holds a chain, the cursor its top, and all of it was delivered.
ResumeInit ==
    /\ ReconcilerInit
    /\ stage = "boot"
    /\ pending = {}
    /\ toRevert = {}
    /\ emit = {}
    /\ toRemember = {}
    /\ blocks \in Loadable \ {EmptyRows}
    /\ saved = blocks[TopOf(blocks)]
    /\ view = BlocksOf(blocks)
    /\ crashes = 0

ResumeSpec == ResumeInit /\ [][Next]_vars

------------------------------------------------------------------------------
(* Properties of one run of the process.                                   *)

\* Between two polls the pipeline has exactly the known chain except the blocks
\* held back: each known block is either held back or was delivered and not
\* reverted, never both, and nothing else is held back.
DeliveredOrHeldBack ==
    (stage = "poll" /\ crashes = 0) =>
        /\ pending \subseteq BlocksOf(known)
        /\ pending \cap view = {}
        /\ BlocksOf(known) \ pending \subseteq view

\* What the pipeline has and was not told to forget is on the known chain, as
\* long as no block leaves the window by its depth.
NothingStaleInView ==
    (stage = "poll" /\ crashes = 0 /\ MaxDepth >= MaxHeight) =>
        view \subseteq BlocksOf(known)

\* OnReverted is called only for a block the pipeline has, and once: an orphan
\* that was still held back stays silent.
RevertsOnlyDelivered == crashes = 0 => toRevert \subseteq view

\* A delivery is in order: the delivered part of the known chain has no hole
\* under it.
DeliversInOrder ==
    crashes = 0 =>
        \A m, n \in Heights :
            /\ m < n
            /\ NoBlock \notin {known[m], known[n]}
            /\ known[n] \in view
            => known[m] \in view \cup toRevert

\* A block about to be delivered is under a head that is at least ConfirmDepth
\* higher, and on its chain: it is known, or it has just left the window and a
\* child of it is known or delivered with it.
DeliversOnlyBuried ==
    stage \in {"remember", "deliver"} =>
        /\ known[Num[head]] = head
        /\ \A b \in emit :
            /\ Num[b] = 0 \/ Num[b] + ConfirmDepth <= Num[head]
            /\ \/ known[Num[b]] = b
               \/ /\ known[Num[b]] = NoBlock
                  /\ \E c \in emit \cup BlocksOf(known) : Parent[c] = b

Feed == INSTANCE ChainFeed WITH view <- view

\* The callbacks of one run keep the promise of ChainFeed: every orphan is
\* taken back before the block that replaces it arrives, whatever the endpoints
\* answered and whatever the buffer held back.
ImplementsFeed == Feed!FeedSpec

------------------------------------------------------------------------------
(* Properties across restarts, of ResumeSpec.                              *)

\* Whatever the pipeline was given and not told to forget has its row in the
\* table, so that a restart can still find out that it was orphaned: a row is
\* written before the delivery and overwritten only after the revert.
ViewIsStored == view \subseteq BlocksOf(blocks)

\* A block the pipeline has is not delivered again, whenever the process dies
\* (tracker_test.go: "expected only [102] after seeded restart").
NeverDeliversAgain ==
    stage \in {"remember", "deliver"} => emit \cap view = {}

\* A delivery leaves a gap under it only if the block below has a row: dying
\* between RememberBlock and OnCanonicalBatch is the one way to lose the logs of a
\* block, and a start goes on from the rows and skips nothing that was produced
\* while the process was down.
SkipsOnlyRemembered ==
    stage \in {"remember", "deliver"} /\ CursorFound =>
        \A b \in emit : Num[b] > Num[saved] => Parent[b] \in view \cup emit \cup BlocksOf(blocks)
==============================================================================
