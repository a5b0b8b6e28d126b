----------------------------- MODULE Reconciler ------------------------------
(***************************************************************************)
(* ingest.Reconciler: it keeps the recent canonical chain of one network   *)
(* in memory and, given a new head, works out which blocks joined and      *)
(* which left that chain, asking an RPC endpoint for the blocks between.   *)
(*                                                                         *)
(* One call of OnHead is several steps here, one per answer of the         *)
(* endpoint, because the chain moves between two answers: an answer is     *)
(* ANY block of the asked height, or an error.  The code changes its state *)
(* only after the last answer, in the steps that end in phase "done".      *)
(***************************************************************************)
EXTENDS BlockTree

CONSTANT
    MaxDepth    \* Reconciler.maxDepth; cmd/opsentry passes 256

ASSUME MaxDepthAssumption == MaxDepth \in Nat \ {0}

VARIABLES
    known,      \* Reconciler.known
    tip,        \* Reconciler.tip
    seeded,     \* Reconciler.seeded
    phase,      \* where the call of OnHead is
    head,       \* its argument
    cursor,     \* the block the next one fetched must be linked to
    path,       \* the blocks fetched so far: fetched, or ancestryPath
    canonical,  \* ReconcileResult.Canonical, meaningful when phase = "done"
    reverted    \* ReconcileResult.Reverted

chainVars == <<known, tip, seeded>>
callVars  == <<phase, head, cursor, path>>
resVars   == <<canonical, reverted>>
recVars   == <<known, tip, seeded, phase, head, cursor, path, canonical, reverted>>

Phases == {"idle", "forward", "walk", "done"}

\* The fields of Reconciler and the locals of a call of OnHead have their types.
ReconcilerTypeOK ==
    /\ known \in Rows
    /\ tip \in Heights
    /\ seeded \in BOOLEAN
    /\ phase \in Phases
    /\ head \in Block \cup {NoBlock}
    /\ cursor \in Block \cup {NoBlock}
    /\ path \in Rows
    /\ canonical \in Rows
    /\ reverted \in Rows

ReconcilerInit ==
    /\ known = EmptyRows
    /\ tip = 0
    /\ seeded = FALSE
    /\ phase = "idle"
    /\ head = NoBlock
    /\ cursor = NoBlock
    /\ path = EmptyRows
    /\ canonical = EmptyRows
    /\ reverted = EmptyRows

------------------------------------------------------------------------------
(* The helpers of reorg.go.                                                *)

\* Mutant: the threshold is one too high.
PruneOneMore(rows, top) ==
    IF top <= MaxDepth
    THEN rows
    ELSE [n \in Heights |-> IF n <= top - MaxDepth THEN NoBlock ELSE rows[n]]

\* Mutant: the threshold is one too low.
PruneOneLess(rows, top) ==
    IF top <= MaxDepth
    THEN rows
    ELSE [n \in Heights |-> IF n < top - MaxDepth - 1 THEN NoBlock ELSE rows[n]]

Prune(rows, top) ==
    IF top <= MaxDepth
    THEN rows
    ELSE [n \in Heights |-> IF n < top - MaxDepth THEN NoBlock ELSE rows[n]]

HasAnyBelow(n) == \E k \in Heights : k < n /\ known[k] # NoBlock

\* A row by itself.
Just(b) == [EmptyRows EXCEPT ![Num[b]] = b]

LinksTo(b, prev) == Parent[b] = prev

\* Mutant: the loop starts one block too high.
OrphansOneShort(ancestor) ==
    [n \in Heights |-> IF n > ancestor + 1 /\ n <= tip THEN known[n] ELSE NoBlock]

\* What handleReorg reports as reverted: the rows above the common ancestor.
Orphans(ancestor) ==
    [n \in Heights |-> IF n > ancestor /\ n <= tip THEN known[n] ELSE NoBlock]

\* Mutant: the rows of the old branch are reported but not deleted.
SurvivorsAll(ancestor) == known

\* What it keeps.
Survivors(ancestor) ==
    [n \in Heights |-> IF n > ancestor /\ n <= tip THEN NoBlock ELSE known[n]]

\* record, for every block of "new" in increasing order.  The last one is the
\* block "top"; pruning after each record prunes what the last one prunes.
Record(rows, new, top) ==
    /\ known' = Prune(Overlay(rows, new), Num[top])
    /\ tip' = Num[top]
    /\ seeded' = TRUE

\* The call returns its result; the call's locals are forgotten.
Answer(joined, left) ==
    /\ phase' = "done"
    /\ canonical' = joined
    /\ reverted' = left
    /\ cursor' = NoBlock
    /\ path' = EmptyRows

------------------------------------------------------------------------------
(* LoadKnown: HeadTracker.Run calls it once, before the first poll.        *)

\* The highest number among the rows, 0 when there is none.
TopOf(rows) ==
    IF rows = EmptyRows
    THEN 0
    ELSE CHOOSE n \in Heights : EndsAt(rows, n)

LoadKnown(rows) ==
    /\ phase = "idle"
    /\ ~seeded
    /\ known' = Prune(rows, TopOf(rows))
    /\ tip' = TopOf(rows)
    /\ seeded' = (rows # EmptyRows)
    /\ UNCHANGED <<callVars, resVars>>

------------------------------------------------------------------------------
(* OnHead, by the branch it takes for the head h.                          *)

\* Nothing is known yet: the head starts the chain.
OnFirstHead(h) ==
    /\ phase = "idle"
    /\ ~seeded
    /\ head' = h
    /\ Record(known, Just(h), h)
    /\ Answer(Just(h), EmptyRows)

\* Mutant: the numbers are compared and the hashes are not.
OnKnownNumber(h) ==
    /\ phase = "idle"
    /\ seeded
    /\ known[Num[h]] # NoBlock
    /\ head' = h
    /\ Answer(EmptyRows, EmptyRows)
    /\ UNCHANGED chainVars

\* A head that is already known: the tip again, or a lagging endpoint.
OnKnownHead(h) ==
    /\ phase = "idle"
    /\ seeded
    /\ known[Num[h]] = h
    /\ head' = h
    /\ Answer(EmptyRows, EmptyRows)
    /\ UNCHANGED chainVars

\* applyForward starts at the block above the tip.
OnHigherHead(h) ==
    /\ phase = "idle"
    /\ seeded
    /\ known[Num[h]] # h
    /\ Num[h] > tip
    /\ phase' = "forward"
    /\ head' = h
    /\ cursor' = known[tip]
    /\ path' = EmptyRows
    /\ UNCHANGED <<chainVars, resVars>>

\* Mutant: a head that is known already is taken for a reorganisation.
OnAnyLowerHead(h) ==
    /\ phase = "idle"
    /\ seeded
    /\ Num[h] <= tip
    /\ phase' = "walk"
    /\ head' = h
    /\ cursor' = h
    /\ path' = Just(h)
    /\ UNCHANGED <<chainVars, resVars>>

\* handleReorg starts with the head itself on its path.
OnLowerHead(h) ==
    /\ phase = "idle"
    /\ seeded
    /\ known[Num[h]] # h
    /\ Num[h] <= tip
    /\ phase' = "walk"
    /\ head' = h
    /\ cursor' = h
    /\ path' = Just(h)
    /\ UNCHANGED <<chainVars, resVars>>

OnHead(h) ==
    \/ OnFirstHead(h)
    \/ OnKnownHead(h)
    \/ OnHigherHead(h)
    \/ OnLowerHead(h)

------------------------------------------------------------------------------
(* applyForward: from the tip up to the head, block by block.              *)

\* The number applyForward asks for; it has the head already.
ForwardAsks(n) ==
    /\ phase = "forward"
    /\ n = Num[cursor] + 1
    /\ n < Num[head]

\* Mutant: the parent hash of a fetched block is not compared.
ForwardExtendUnchecked(b) ==
    /\ ForwardAsks(Num[b])
    /\ cursor' = b
    /\ path' = [path EXCEPT ![Num[b]] = b]
    /\ UNCHANGED <<chainVars, resVars, phase, head>>

\* BlockByNumber answered b and b extends what was fetched before.
ForwardExtend(b) ==
    /\ ForwardAsks(Num[b])
    /\ LinksTo(b, cursor)
    /\ cursor' = b
    /\ path' = [path EXCEPT ![Num[b]] = b]
    /\ UNCHANGED <<chainVars, resVars, phase, head>>

\* A link is broken: the tip was orphaned, or the chain moved between two
\* answers.  handleReorg starts over from the head.
StartWalk ==
    /\ phase' = "walk"
    /\ cursor' = head
    /\ path' = Just(head)
    /\ UNCHANGED <<chainVars, resVars, head>>

ForwardMismatch(b) ==
    /\ ForwardAsks(Num[b])
    /\ ~LinksTo(b, cursor)
    /\ StartWalk

AtHead == phase = "forward" /\ Num[cursor] + 1 = Num[head]

ForwardHeadMismatch ==
    /\ AtHead
    /\ ~LinksTo(head, cursor)
    /\ StartWalk

\* Every link holds: record the blocks and report them.
ForwardDone ==
    /\ AtHead
    /\ LinksTo(head, cursor)
    /\ LET fetched == [path EXCEPT ![Num[head]] = head]
       IN  /\ Record(known, fetched, head)
           /\ Answer(fetched, EmptyRows)
    /\ UNCHANGED head

------------------------------------------------------------------------------
(* handleReorg: from the head down to a block that is known.               *)

ParentNum == Num[cursor] - 1

\* The parent of the cursor is known under its number.
MeetsKnown ==
    /\ Num[cursor] > 0
    /\ known[ParentNum] # NoBlock
    /\ LinksTo(cursor, known[ParentNum])

\* The walk has left the window of known blocks: its floor is taken for the
\* common ancestor.
BelowWindow ==
    /\ Num[cursor] > 0
    /\ known[ParentNum] = NoBlock
    /\ ParentNum < tip
    /\ ~HasAnyBelow(ParentNum + 1)

AtGenesis == Num[cursor] = 0

\* The rest of handleReorg once the common ancestor's number is settled.
Switch(ancestor) ==
    /\ Record(Survivors(ancestor), path, head)
    /\ Answer(path, Orphans(ancestor))
    /\ UNCHANGED head

WalkMeets   == phase = "walk" /\ MeetsKnown  /\ Switch(ParentNum)
WalkFloor   == phase = "walk" /\ BelowWindow /\ Switch(ParentNum)
WalkGenesis == phase = "walk" /\ AtGenesis   /\ Switch(0)

\* The walk asks for the block under the cursor.
WalkAsks(n) ==
    /\ phase = "walk"
    /\ ~MeetsKnown
    /\ ~BelowWindow
    /\ ~AtGenesis
    /\ n = ParentNum

WalkFetch(b) ==
    /\ WalkAsks(Num[b])
    /\ LinksTo(cursor, b)
    /\ cursor' = b
    /\ path' = [path EXCEPT ![Num[b]] = b]
    /\ UNCHANGED <<chainVars, resVars, phase, head>>

\* OnHead returns an error; the caller keeps nothing of the call.
GiveUp ==
    /\ phase' = "idle"
    /\ cursor' = NoBlock
    /\ path' = EmptyRows
    /\ UNCHANGED <<chainVars, resVars, head>>

\* "chain shifted": the answer is not the parent.
WalkShifted(b) ==
    /\ WalkAsks(Num[b])
    /\ ~LinksTo(cursor, b)
    /\ GiveUp

\* BlockByNumber failed, in either loop.
FetchFails ==
    /\ \E n \in Heights : ForwardAsks(n) \/ WalkAsks(n)
    /\ GiveUp

------------------------------------------------------------------------------
(* The steps of a call after OnHead, given what the endpoint answers.      *)

ReconcileAnswer(b) ==
    \/ ForwardExtend(b)
    \/ ForwardMismatch(b)
    \/ WalkFetch(b)
    \/ WalkShifted(b)

ReconcileLocal ==
    \/ ForwardHeadMismatch
    \/ ForwardDone
    \/ WalkMeets
    \/ WalkFloor
    \/ WalkGenesis

\* The caller has taken the result.
Return ==
    /\ phase = "done"
    /\ phase' = "idle"
    /\ canonical' = EmptyRows
    /\ reverted' = EmptyRows
    /\ UNCHANGED <<chainVars, head, cursor, path>>

\* What a caller that keeps its contract may load: nothing, or a hash chain.
Loadable ==
    {rows \in Rows : rows = EmptyRows \/ \E t \in Heights : IsHashChain(rows, t)}

ReconcilerNext ==
    \/ \E rows \in Loadable : LoadKnown(rows)
    \/ \E h \in Block : OnHead(h)
    \/ \E b \in Block : ReconcileAnswer(b)
    \/ ReconcileLocal
    \/ FetchFails
    \/ Return

ReconcilerSpec == ReconcilerInit /\ [][ReconcilerNext]_recVars

------------------------------------------------------------------------------
(* Properties.                                                             *)

\* Whatever the endpoints answer, in whatever order, the known blocks are one
\* hash chain that ends at the tip (and there are none before the first head):
\* no gap, no two branches mixed, no row left above the tip.
KnownIsHashChain ==
    IF seeded THEN IsHashChain(known, tip) ELSE known = EmptyRows /\ tip = 0

\* The memory of the reconciler is bounded: after any sequence of heads, jumps
\* forward, reorganisations that end below the old tip and rows loaded at the start,
\* what is known is within MaxDepth blocks under the tip.
KnownFitsWindow ==
    \A n \in Heights : known[n] # NoBlock => n <= tip /\ tip <= n + MaxDepth

\* While applyForward is fetching, what is known and what was fetched form one
\* hash chain that ends at the cursor, and the head is still above it: a broken
\* link never stays in the list that ForwardDone will record.
FetchedExtendsKnown ==
    phase = "forward" =>
        /\ seeded
        /\ {head, cursor} \subseteq Block
        /\ Num[cursor] < Num[head]
        /\ IsHashChain(Overlay(known, path), Num[cursor])
        /\ Overlay(known, path)[Num[cursor]] = cursor
        /\ \A n \in Heights : path[n] # NoBlock => n > tip

\* While handleReorg is walking back, its path is a hash chain from the cursor
\* up to the head, and no block of it is known: the walk never steps past the
\* common ancestor onto the known chain.
WalkedPathIsUnknown ==
    phase = "walk" =>
        /\ seeded
        /\ {head, cursor} \subseteq Block
        /\ IsHashChain(path, Num[head])
        /\ path[Num[head]] = head
        /\ path[Num[cursor]] = cursor
        /\ \A n \in Heights : n < Num[cursor] => path[n] = NoBlock
        /\ \A n \in Heights : path[n] # NoBlock => path[n] # known[n]

\* What a step that ends a call for the head h has reported, told from the
\* blocks known before it.
Kept == [n \in Heights |-> IF reverted'[n] = NoBlock THEN known[n] ELSE NoBlock]

TellsTheSwitchTo(h) ==
    LET chain == Overlay(Kept, canonical')
    IN  /\ IsHashChain(chain, Num[h])
        /\ chain[Num[h]] = h
        /\ tip' = Num[h]
        /\ \A n \in Heights :
            /\ n + MaxDepth >= Num[h] => known'[n] = chain[n]
            /\ canonical'[n] # NoBlock => Kept[n] = NoBlock
            /\ reverted'[n] # NoBlock =>
                 /\ reverted'[n] = known[n]
                 /\ chain[n] # known[n]
                 /\ chain[n] # NoBlock \/ n > Num[h]

\* OnHead tells the whole truth about the switch it makes.  When it returns a
\* result for a head it did not know, the blocks it did not revert and the
\* blocks it reports as canonical form one hash chain that ends with that head,
\* none of them is both, and it is what the reconciler now knows, up to MaxDepth
\* blocks under the head.  A reverted block was known, and has left the chain:
\* another block has its height, or it is above the head.
ReportsTheSwitch ==
    [][ (phase # "done" /\ phase' = "done" /\ known[Num[head']] # head')
          => TellsTheSwitchTo(head') ]_recVars
==============================================================================
