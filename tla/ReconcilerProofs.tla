--------------------------- MODULE ReconcilerProofs --------------------------
(***************************************************************************)
(* Proofs about the Reconciler, for every block tree, every window size    *)
(* and every answer of the endpoints.                                      *)
(***************************************************************************)
EXTENDS Reconciler, TLAPS

USE DEF Heights

------------------------------------------------------------------------------
(* What the table operators preserve.                                      *)

\* Nothing below the tip is taken away except from the bottom, so a pruned
\* hash chain is a hash chain with the same top (reorg.go, prune).
LEMMA PruneKeepsChain ==
    ASSUME NEW rows \in Rows, NEW top \in Heights, IsHashChain(rows, top)
    PROVE  /\ Prune(rows, top) \in Rows
           /\ IsHashChain(Prune(rows, top), top)
  BY BlockTreeAssumption, MaxDepthAssumption
     DEF Rows, Prune, IsHashChain, FiledByNumber, EndsAt, NoGaps, Linked

\* Writing rows over rows.
LEMMA OverlayType ==
    ASSUME NEW rows \in Rows, NEW new \in Rows
    PROVE  Overlay(rows, new) \in Rows
  BY DEF Rows, Overlay

\* A row by itself is a hash chain (reorg.go, record of the first head).
LEMMA JustIsChain ==
    ASSUME NEW b \in Block
    PROVE  /\ Just(b) \in Rows
           /\ Num[b] \in Heights
           /\ \A n \in Heights : Just(b)[n] = IF n = Num[b] THEN b ELSE NoBlock
           /\ IsHashChain(Just(b), Num[b])
  <1>1. Num[b] \in Heights /\ b # NoBlock
    BY BlockTreeAssumption
  <1>2. \A n \in Heights : Just(b)[n] = IF n = Num[b] THEN b ELSE NoBlock
    BY <1>1 DEF Just, EmptyRows
  <1>3. Just(b) \in Rows
    BY <1>1 DEF Just, EmptyRows, Rows
  <1>4. IsHashChain(Just(b), Num[b])
    BY <1>1, <1>2, BlockTreeAssumption
       DEF IsHashChain, FiledByNumber, EndsAt, NoGaps, Linked
  <1>. QED BY <1>1, <1>2, <1>3, <1>4

\* Putting a block on top of a chain, when it names the top as its parent
\* (reorg.go, the loop of applyForward).
LEMMA ExtendChain ==
    ASSUME NEW rows \in Rows, NEW b \in Block, NEW t \in Heights,
           IsHashChain(rows, t), Num[b] = t + 1, Parent[b] = rows[t]
    PROVE  IsHashChain([rows EXCEPT ![Num[b]] = b], Num[b])
  BY BlockTreeAssumption
     DEF Rows, IsHashChain, FiledByNumber, EndsAt, NoGaps, Linked

\* Putting a block under a chain that begins with a child of it (reorg.go, the
\* loop of handleReorg).
LEMMA LowerChain ==
    ASSUME NEW rows \in Rows, NEW b \in Block, NEW c \in Block, NEW t \in Heights,
           IsHashChain(rows, t), rows[Num[c]] = c,
           \A n \in Heights : n < Num[c] => rows[n] = NoBlock,
           Num[b] = Num[c] - 1, Parent[c] = b
    PROVE  IsHashChain([rows EXCEPT ![Num[b]] = b], t)
  BY BlockTreeAssumption
     DEF Rows, IsHashChain, FiledByNumber, EndsAt, NoGaps, Linked

\* The chain that handleReorg switches to: what survives below the foot of the
\* path, then the path (reorg.go, the end of handleReorg).
LEMMA SpliceChains ==
    ASSUME NEW low \in Rows,
           NEW high \in Rows, NEW foot \in Heights, NEW top \in Heights,
           IsHashChain(high, top), high[foot] # NoBlock,
           \A n \in Heights : n < foot => high[n] = NoBlock,
           FiledByNumber(low), Linked(low), NoGaps(low, foot - 1),
           \A n \in Heights : n >= foot => low[n] = NoBlock,
           (foot > 0 /\ low[foot - 1] # NoBlock) => Parent[high[foot]] = low[foot - 1],
           (\E n \in Heights : low[n] # NoBlock) => foot > 0 /\ low[foot - 1] # NoBlock
    PROVE  IsHashChain(Overlay(low, high), top)
  <1> DEFINE both == Overlay(low, high)
  <1>1. \A n \in Heights : both[n] = IF n < foot THEN low[n] ELSE high[n]
    BY DEF Overlay, Rows
  <1>2. \A n \in Heights : foot <= n /\ n <= top => high[n] # NoBlock
    BY DEF IsHashChain, NoGaps, EndsAt
  <1>3. foot <= top
    BY DEF IsHashChain, EndsAt
  <1>4. FiledByNumber(both) /\ EndsAt(both, top)
    BY <1>1, <1>3 DEF IsHashChain, FiledByNumber, EndsAt
  <1>5. NoGaps(both, top)
    BY <1>1, <1>2, <1>3 DEF NoGaps
  <1>6. Linked(both)
    <2> SUFFICES ASSUME NEW n \in Heights, n > 0, both[n] # NoBlock, both[n - 1] # NoBlock
                 PROVE  Parent[both[n]] = both[n - 1]
      BY DEF Linked
    <2>1. n - 1 \in Heights
      BY BlockTreeAssumption
    <2>2. CASE n < foot
      BY <1>1, <2>1, <2>2 DEF Linked
    <2>3. CASE n = foot
      BY <1>1, <2>1, <2>3
    <2>4. CASE n > foot
      BY <1>1, <2>1, <2>4 DEF IsHashChain, Linked
    <2>. QED BY <2>2, <2>3, <2>4
  <1>. QED BY <1>4, <1>5, <1>6 DEF IsHashChain

------------------------------------------------------------------------------
(* The inductive invariant.  KnownIsHashChain is not inductive by itself:  *)
(* a call that is under way ends by writing its path into the table, so    *)
(* the path must be known to fit the table in every step of the call.      *)

ReconcilerInv ==
    /\ ReconcilerTypeOK
    /\ KnownIsHashChain
    /\ FetchedExtendsKnown
    /\ WalkedPathIsUnknown

\* A new reconciler (reorg.go, NewReconciler).
LEMMA InitInv == ReconcilerInit => ReconcilerInv
  <1> SUFFICES ASSUME ReconcilerInit PROVE ReconcilerInv
    OBVIOUS
  <1>1. EmptyRows \in Rows /\ 0 \in Heights
    BY BlockTreeAssumption DEF Rows, EmptyRows
  <1>2. ReconcilerTypeOK
    BY <1>1 DEF ReconcilerInit, ReconcilerTypeOK, Phases
  <1>3. KnownIsHashChain /\ FetchedExtendsKnown /\ WalkedPathIsUnknown
    BY DEF ReconcilerInit, KnownIsHashChain, FetchedExtendsKnown, WalkedPathIsUnknown
  <1>. QED BY <1>2, <1>3 DEF ReconcilerInv

\* Recording a chain in a call that ends keeps the invariant.
LEMMA RecordKeepsInv ==
    ASSUME ReconcilerInv, NEW rows \in Rows, NEW new \in Rows, NEW top \in Block,
           NEW left \in Rows,
           IsHashChain(Overlay(rows, new), Num[top]),
           Record(rows, new, top), Answer(new, left), head' \in Block
    PROVE  ReconcilerInv'
  <1>1. Num[top] \in Heights
    BY BlockTreeAssumption
  <1>2. known' \in Rows /\ IsHashChain(known', Num[top])
    BY <1>1, OverlayType, PruneKeepsChain DEF Record
  <1>3. tip' = Num[top] /\ seeded' = TRUE /\ phase' = "done"
    BY DEF Record, Answer
  <1>4. ReconcilerTypeOK'
    BY <1>1, <1>2, <1>3 DEF ReconcilerTypeOK, Answer, Phases, Rows, EmptyRows
  <1>5. KnownIsHashChain'
    BY <1>2, <1>3 DEF KnownIsHashChain, IsHashChain, FiledByNumber, EndsAt, NoGaps, Linked
  <1>6. FetchedExtendsKnown' /\ WalkedPathIsUnknown'
    BY <1>3 DEF FetchedExtendsKnown, WalkedPathIsUnknown
  <1>. QED BY <1>4, <1>5, <1>6 DEF ReconcilerInv

\* Seeding from a hash chain (reorg.go, LoadKnown).
LEMMA LoadKeepsInv ==
    ASSUME ReconcilerInv, NEW rows \in Loadable, LoadKnown(rows)
    PROVE  ReconcilerInv'
  <1>1. /\ rows \in Rows
        /\ phase' = phase /\ phase = "idle"
        /\ head' = head /\ cursor' = cursor /\ path' = path
        /\ canonical' = canonical /\ reverted' = reverted
    BY DEF LoadKnown, Loadable, callVars, resVars
  <1>2. CASE rows = EmptyRows
    <2>1. TopOf(rows) = 0
      BY <1>2 DEF TopOf
    <2>2. known' = Prune(EmptyRows, 0) /\ tip' = 0
      BY <1>2, <2>1 DEF LoadKnown
    <2>3. known' = EmptyRows
      BY <2>2, MaxDepthAssumption DEF Prune
    <2>4. seeded' = FALSE
      BY <1>2, Zenon DEF LoadKnown
    <2>5. ReconcilerTypeOK'
      <3>1. known' \in Rows
        BY <1>1, <1>2, <2>3
      <3>2. tip' \in Heights
        BY <2>2, BlockTreeAssumption
      <3>3. seeded' \in BOOLEAN
        BY <2>4
      <3>. QED BY <1>1, <3>1, <3>2, <3>3 DEF ReconcilerInv, ReconcilerTypeOK
    <2>. QED
      BY <1>1, <2>2, <2>3, <2>4, <2>5
         DEF ReconcilerInv, KnownIsHashChain, FetchedExtendsKnown, WalkedPathIsUnknown
  <1>3. CASE rows # EmptyRows
    <2>1. PICK t \in Heights : IsHashChain(rows, t)
      BY <1>3 DEF Loadable
    <2>2. \A n \in Heights : EndsAt(rows, n) => n = t
      BY <2>1, BlockTreeAssumption DEF IsHashChain, EndsAt
    <2>3. TopOf(rows) = t
      <3>1. EndsAt(rows, t)
        BY <2>1 DEF IsHashChain
      <3>. QED BY <1>3, <2>2, <3>1 DEF TopOf
    <2>4. known' \in Rows /\ IsHashChain(known', t)
      BY <1>1, <2>1, <2>3, PruneKeepsChain DEF LoadKnown
    <2>5. tip' = t /\ seeded' = TRUE
      BY <1>3, <2>3 DEF LoadKnown
    <2>6. ReconcilerTypeOK'
      BY <1>1, <2>4, <2>5 DEF ReconcilerInv, ReconcilerTypeOK
    <2>7. KnownIsHashChain'
      BY <2>4, <2>5 DEF KnownIsHashChain, IsHashChain, FiledByNumber, EndsAt, NoGaps, Linked
    <2>. QED
      BY <1>1, <2>6, <2>7 DEF ReconcilerInv, FetchedExtendsKnown, WalkedPathIsUnknown
  <1>. QED BY <1>2, <1>3

\* The call goes on in handleReorg, from a head that is not known.
LEMMA WalkStartKeepsInv ==
    ASSUME ReconcilerInv, NEW h \in Block, seeded, known[Num[h]] # h,
           phase' = "walk", head' = h, cursor' = h, path' = Just(h),
           UNCHANGED <<chainVars, resVars>>
    PROVE  ReconcilerInv'
  <1>1. ReconcilerTypeOK'
    BY JustIsChain DEF ReconcilerInv, ReconcilerTypeOK, Phases, chainVars, resVars
  <1>2. KnownIsHashChain'
    BY DEF ReconcilerInv, KnownIsHashChain, chainVars, IsHashChain, FiledByNumber,
           EndsAt, NoGaps, Linked
  <1>3. WalkedPathIsUnknown'
    <2>1. IsHashChain(path', Num[head'])
      BY JustIsChain
    <2>2. /\ path'[Num[head']] = head'
          /\ path'[Num[cursor']] = cursor'
          /\ \A n \in Heights : n < Num[cursor'] => path'[n] = NoBlock
          /\ \A n \in Heights : path'[n] # NoBlock => path'[n] # known'[n]
      BY JustIsChain, BlockTreeAssumption DEF chainVars
    <2>. QED
      BY <2>1, <2>2 DEF WalkedPathIsUnknown, chainVars, IsHashChain, FiledByNumber,
         EndsAt, NoGaps, Linked
  <1>4. FetchedExtendsKnown'
    BY DEF FetchedExtendsKnown
  <1>. QED BY <1>1, <1>2, <1>3, <1>4 DEF ReconcilerInv

\* Every branch of OnHead (reorg.go, OnHead).
LEMMA OnHeadKeepsInv ==
    ASSUME ReconcilerInv, NEW h \in Block, OnHead(h)
    PROVE  ReconcilerInv'
  <1>1. CASE OnFirstHead(h)
    <2>1. known = EmptyRows /\ known \in Rows
      BY <1>1 DEF ReconcilerInv, ReconcilerTypeOK, KnownIsHashChain, OnFirstHead
    <2>2. EmptyRows \in Rows /\ Just(h) \in Rows
      BY <2>1, JustIsChain
    <2>3. Overlay(known, Just(h)) = Just(h)
      BY <2>1, <2>2 DEF Overlay, EmptyRows, Rows
    <2>4. IsHashChain(Overlay(known, Just(h)), Num[h])
      BY <2>3, JustIsChain
    <2>. QED
      BY <1>1, <2>1, <2>2, <2>4, RecordKeepsInv DEF OnFirstHead
  <1>2. CASE OnKnownHead(h)
    BY <1>2, BlockTreeAssumption
       DEF OnKnownHead, Answer, chainVars, ReconcilerInv, ReconcilerTypeOK,
           KnownIsHashChain, FetchedExtendsKnown, WalkedPathIsUnknown, Phases,
           EmptyRows, Rows, IsHashChain, FiledByNumber, EndsAt, NoGaps, Linked
  <1>3. CASE OnHigherHead(h)
    <2>1. /\ known \in Rows /\ tip \in Heights /\ IsHashChain(known, tip)
          /\ seeded = TRUE /\ Num[h] > tip
      BY <1>3 DEF OnHigherHead, ReconcilerInv, ReconcilerTypeOK, KnownIsHashChain
    <2>2. known[tip] \in Block /\ Num[known[tip]] = tip
      BY <2>1 DEF IsHashChain, EndsAt, FiledByNumber, Rows
    <2>3. /\ known' = known /\ tip' = tip /\ seeded' = TRUE /\ phase' = "forward"
          /\ head' = h /\ cursor' = known[tip] /\ path' = EmptyRows
          /\ canonical' = canonical /\ reverted' = reverted
      BY <1>3, <2>1 DEF OnHigherHead, chainVars, resVars
    <2>4. Overlay(known', path') = known
      BY <2>1, <2>3 DEF Overlay, EmptyRows, Rows
    <2>5. ReconcilerTypeOK'
      BY <2>1, <2>2, <2>3 DEF ReconcilerInv, ReconcilerTypeOK, Phases, Rows, EmptyRows
    <2>6. KnownIsHashChain'
      BY <2>1, <2>3 DEF KnownIsHashChain, IsHashChain, FiledByNumber, EndsAt, NoGaps, Linked
    <2>7. FetchedExtendsKnown'
      <3>1. IsHashChain(Overlay(known', path'), Num[cursor'])
        BY <2>1, <2>2, <2>3, <2>4
      <3>2. /\ Overlay(known', path')[Num[cursor']] = cursor'
            /\ \A n \in Heights : path'[n] # NoBlock => n > tip'
            /\ Num[cursor'] < Num[head']
        BY <2>1, <2>2, <2>3, <2>4 DEF EmptyRows
      <3>. QED
        BY <2>2, <2>3, <3>1, <3>2
           DEF FetchedExtendsKnown, IsHashChain, FiledByNumber, EndsAt, NoGaps, Linked, Overlay
    <2>8. WalkedPathIsUnknown'
      BY <2>3 DEF WalkedPathIsUnknown
    <2>. QED BY <2>5, <2>6, <2>7, <2>8 DEF ReconcilerInv
  <1>4. CASE OnLowerHead(h)
    BY <1>4, WalkStartKeepsInv DEF OnLowerHead
  <1>. QED BY <1>1, <1>2, <1>3, <1>4 DEF OnHead

\* What the invariant says of a call inside applyForward.
LEMMA ForwardFacts ==
    ASSUME ReconcilerInv, phase = "forward"
    PROVE  /\ seeded = TRUE
           /\ known \in Rows /\ path \in Rows /\ tip \in Heights
           /\ head \in Block /\ cursor \in Block
           /\ Num[head] \in Heights /\ Num[cursor] \in Heights
           /\ Num[cursor] < Num[head]
           /\ IsHashChain(known, tip)
           /\ IsHashChain(Overlay(known, path), Num[cursor])
           /\ Overlay(known, path)[Num[cursor]] = cursor
           /\ \A n \in Heights : path[n] # NoBlock => n > tip
           /\ tip <= Num[cursor]
  <1>1. /\ seeded = TRUE
        /\ known \in Rows /\ path \in Rows /\ tip \in Heights
        /\ head \in Block /\ cursor \in Block
        /\ Num[cursor] < Num[head]
        /\ IsHashChain(known, tip)
        /\ IsHashChain(Overlay(known, path), Num[cursor])
        /\ Overlay(known, path)[Num[cursor]] = cursor
        /\ \A n \in Heights : path[n] # NoBlock => n > tip
    BY DEF ReconcilerInv, ReconcilerTypeOK, KnownIsHashChain, FetchedExtendsKnown
  <1>2. Num[head] \in Heights /\ Num[cursor] \in Heights
    BY <1>1, BlockTreeAssumption
  <1>3. Overlay(known, path)[tip] # NoBlock
    BY <1>1 DEF Overlay, IsHashChain, EndsAt
  <1>4. tip <= Num[cursor]
    BY <1>1, <1>2, <1>3 DEF IsHashChain, EndsAt
  <1>. QED BY <1>1, <1>2, <1>4

\* One more block on the fetched list leaves a hash chain over the known ones.
LEMMA ForwardExtends ==
    ASSUME ReconcilerInv, phase = "forward", NEW b \in Block,
           Num[b] = Num[cursor] + 1, LinksTo(b, cursor)
    PROVE  /\ [path EXCEPT ![Num[b]] = b] \in Rows
           /\ Overlay(known, [path EXCEPT ![Num[b]] = b])
                = [Overlay(known, path) EXCEPT ![Num[b]] = b]
           /\ IsHashChain(Overlay(known, [path EXCEPT ![Num[b]] = b]), Num[b])
  <1>1. Num[b] \in Heights /\ b # NoBlock
    BY BlockTreeAssumption
  <1>2. [path EXCEPT ![Num[b]] = b] \in Rows
    BY <1>1, ForwardFacts DEF Rows
  <1>3. Overlay(known, [path EXCEPT ![Num[b]] = b])
          = [Overlay(known, path) EXCEPT ![Num[b]] = b]
    BY <1>1, ForwardFacts DEF Overlay, Rows
  <1>4. Overlay(known, path) \in Rows
    BY ForwardFacts, OverlayType
  <1>5. IsHashChain([Overlay(known, path) EXCEPT ![Num[b]] = b], Num[b])
    BY <1>1, <1>4, ForwardFacts, ExtendChain DEF LinksTo
  <1>. QED BY <1>2, <1>3, <1>5

\* Every step of applyForward (reorg.go, applyForward).
LEMMA ForwardKeepsInv ==
    ASSUME ReconcilerInv,
           \/ \E b \in Block : ForwardExtend(b) \/ ForwardMismatch(b)
           \/ ForwardHeadMismatch
           \/ ForwardDone
    PROVE  ReconcilerInv'
  <1>1. ASSUME NEW b \in Block, ForwardExtend(b)
        PROVE  ReconcilerInv'
    <2>1. /\ phase = "forward" /\ Num[b] = Num[cursor] + 1 /\ Num[b] < Num[head]
          /\ LinksTo(b, cursor)
          /\ cursor' = b /\ path' = [path EXCEPT ![Num[b]] = b]
          /\ known' = known /\ tip' = tip /\ seeded' = seeded
          /\ canonical' = canonical /\ reverted' = reverted
          /\ phase' = phase /\ head' = head
      BY <1>1 DEF ForwardExtend, ForwardAsks, chainVars, resVars
    <2>2. ReconcilerTypeOK'
      BY <2>1, ForwardExtends DEF ReconcilerInv, ReconcilerTypeOK
    <2>3. KnownIsHashChain'
      BY <2>1 DEF ReconcilerInv, KnownIsHashChain, IsHashChain, FiledByNumber,
                  EndsAt, NoGaps, Linked
    <2>4. IsHashChain(Overlay(known', path'), Num[cursor'])
      BY <2>1, ForwardExtends
    <2>5. Overlay(known', path')[Num[cursor']] = cursor'
      BY <2>1, ForwardFacts, BlockTreeAssumption DEF Overlay, Rows
    <2>6. \A n \in Heights : path'[n] # NoBlock => n > tip'
      BY <2>1, ForwardFacts, BlockTreeAssumption DEF Rows
    <2>7. FetchedExtendsKnown'
      BY <2>1, <2>4, <2>5, <2>6, ForwardFacts
         DEF FetchedExtendsKnown, IsHashChain, FiledByNumber, EndsAt, NoGaps, Linked, Overlay
    <2>8. WalkedPathIsUnknown'
      BY <2>1 DEF WalkedPathIsUnknown
    <2>. QED BY <2>2, <2>3, <2>7, <2>8 DEF ReconcilerInv
  <1>2. ASSUME phase = "forward", StartWalk
        PROVE  ReconcilerInv'
    <2>1. seeded /\ head \in Block /\ known[Num[head]] # head
      BY <1>2, ForwardFacts, BlockTreeAssumption DEF IsHashChain, EndsAt
    <2>. QED
      BY <1>2, <2>1, WalkStartKeepsInv DEF StartWalk
  <1>3. ASSUME ForwardDone
        PROVE  ReconcilerInv'
    <2> DEFINE fetched == [path EXCEPT ![Num[head]] = head]
    <2>1. /\ phase = "forward" /\ Num[head] = Num[cursor] + 1 /\ LinksTo(head, cursor)
          /\ Record(known, fetched, head) /\ Answer(fetched, EmptyRows) /\ head' = head
      BY <1>3 DEF ForwardDone, AtHead
    <2>2. head \in Block /\ known \in Rows
      BY <2>1, ForwardFacts
    <2>3. fetched \in Rows /\ IsHashChain(Overlay(known, fetched), Num[head])
      BY <2>1, <2>2, ForwardExtends
    <2>4. EmptyRows \in Rows
      BY DEF EmptyRows, Rows
    <2>. HIDE DEF fetched
    <2>. QED BY <2>1, <2>2, <2>3, <2>4, RecordKeepsInv
  <1>. QED
    BY <1>1, <1>2, <1>3 DEF ForwardMismatch, ForwardHeadMismatch, AtHead, ForwardAsks

\* What the invariant says of a call inside handleReorg.
LEMMA WalkFacts ==
    ASSUME ReconcilerInv, phase = "walk"
    PROVE  /\ seeded = TRUE
           /\ known \in Rows /\ path \in Rows /\ tip \in Heights
           /\ head \in Block /\ cursor \in Block
           /\ Num[head] \in Heights /\ Num[cursor] \in Heights
           /\ IsHashChain(known, tip)
           /\ IsHashChain(path, Num[head])
           /\ path[Num[head]] = head
           /\ path[Num[cursor]] = cursor
           /\ \A n \in Heights : n < Num[cursor] => path[n] = NoBlock
           /\ \A n \in Heights : path[n] # NoBlock => path[n] # known[n]
           /\ NoBlock \notin Block
  BY BlockTreeAssumption
     DEF ReconcilerInv, ReconcilerTypeOK, KnownIsHashChain, WalkedPathIsUnknown

\* The number handleReorg settles on as the common ancestor's: under it
\* everything survives, and the path continues what survives.
LEMMA WalkEnds ==
    ASSUME ReconcilerInv, phase = "walk",
           NEW ancestor,
           \/ MeetsKnown /\ ancestor = ParentNum
           \/ BelowWindow /\ ancestor = ParentNum
           \/ AtGenesis /\ ancestor = 0
    PROVE  /\ ancestor \in Heights
           /\ Survivors(ancestor) \in Rows
           /\ Orphans(ancestor) \in Rows
           /\ \A n \in Heights : n >= Num[cursor] => Survivors(ancestor)[n] = NoBlock
           /\ \A n \in Heights : n < Num[cursor] => Survivors(ancestor)[n] = known[n]
           /\ IsHashChain(Overlay(Survivors(ancestor), path), Num[head])
  <1>1. /\ known \in Rows /\ path \in Rows /\ tip \in Heights
        /\ head \in Block /\ cursor \in Block
        /\ Num[head] \in Heights /\ Num[cursor] \in Heights
        /\ IsHashChain(known, tip) /\ IsHashChain(path, Num[head])
        /\ path[Num[cursor]] = cursor /\ cursor # NoBlock
        /\ \A n \in Heights : n < Num[cursor] => path[n] = NoBlock
    BY WalkFacts
  <1> DEFINE low == Survivors(ancestor)
  <1>2. Num[cursor] > 0 => Num[cursor] - 1 \in Heights
    BY <1>1, BlockTreeAssumption
  <1>3. ancestor \in Heights
    BY <1>1, <1>2, BlockTreeAssumption DEF MeetsKnown, BelowWindow, AtGenesis, ParentNum
  <1>4. low \in Rows /\ Orphans(ancestor) \in Rows
    BY <1>1 DEF Survivors, Orphans, Rows
  <1>5. \A n \in Heights : low[n] = IF n > ancestor /\ n <= tip THEN NoBlock ELSE known[n]
    BY DEF Survivors
  <1>6. /\ \A n \in Heights : n >= Num[cursor] => low[n] = NoBlock
        /\ \A n \in Heights : n < Num[cursor] => low[n] = known[n]
        /\ (\E n \in Heights : low[n] # NoBlock)
             => /\ Num[cursor] > 0 /\ low[Num[cursor] - 1] # NoBlock
        /\ (Num[cursor] > 0 /\ low[Num[cursor] - 1] # NoBlock)
             => Parent[cursor] = low[Num[cursor] - 1]
    <2>1. CASE MeetsKnown /\ ancestor = ParentNum
      BY <1>1, <1>2, <1>5, <2>1
         DEF MeetsKnown, ParentNum, LinksTo, IsHashChain, EndsAt
    <2>2. CASE BelowWindow /\ ancestor = ParentNum
      BY <1>1, <1>2, <1>5, <2>2
         DEF BelowWindow, ParentNum, HasAnyBelow, IsHashChain, EndsAt
    <2>3. CASE AtGenesis /\ ancestor = 0
      <3>1. Num[cursor] = 0
        BY <2>3 DEF AtGenesis
      <3>2. known[0] = NoBlock
        <4> SUFFICES ASSUME known[0] # NoBlock PROVE FALSE
          OBVIOUS
        <4>1. known[0] \in Block /\ Num[known[0]] = 0
          BY <1>1, <1>3, <2>3 DEF Rows, IsHashChain, FiledByNumber
        <4>2. known[0] = cursor
          BY <1>1, <3>1, <4>1, BlockTreeAssumption
        <4>. QED BY <1>1, <3>1, <4>2, WalkFacts
      <3>3. \A n \in Heights : low[n] = NoBlock
        BY <1>1, <1>5, <2>3, <3>2 DEF IsHashChain, EndsAt
      <3>. QED BY <1>1, <3>1, <3>3
    <2>. QED BY <2>1, <2>2, <2>3
  <1>7. FiledByNumber(low) /\ Linked(low)
    <2>1. \A n \in Heights : low[n] # NoBlock => low[n] = known[n]
      BY <1>5
    <2>2. \A n \in Heights : n > 0 => n - 1 \in Heights
      BY BlockTreeAssumption
    <2>3. FiledByNumber(low)
      BY <1>1, <2>1 DEF IsHashChain, FiledByNumber
    <2>. HIDE DEF low
    <2>4. Linked(low)
      BY <1>1, <2>1, <2>2 DEF IsHashChain, Linked
    <2>. QED BY <2>3, <2>4
  <1>8. NoGaps(low, Num[cursor] - 1)
    <2> SUFFICES ASSUME NEW m \in Heights, NEW n \in Heights,
                        m < n, n <= Num[cursor] - 1, low[m] # NoBlock
                 PROVE  low[n] # NoBlock
      BY DEF NoGaps
    <2>1. low[Num[cursor] - 1] # NoBlock /\ Num[cursor] - 1 \in Heights
      BY <1>2, <1>6
    <2>2. Num[cursor] - 1 <= tip /\ known[m] # NoBlock
      BY <1>1, <1>6, <2>1 DEF IsHashChain, EndsAt
    <2>3. n <= tip
      BY <1>1, <2>1, <2>2
    <2>. QED BY <1>1, <1>6, <2>2, <2>3 DEF IsHashChain, NoGaps
  <1>9. IsHashChain(Overlay(low, path), Num[head])
    <2>. HIDE DEF low
    <2>. QED BY <1>1, <1>4, <1>6, <1>7, <1>8, SpliceChains
  <1>. QED BY <1>3, <1>4, <1>6, <1>9

\* Every step of handleReorg (reorg.go, handleReorg).
LEMMA WalkKeepsInv ==
    ASSUME ReconcilerInv,
           \/ \E b \in Block : WalkFetch(b)
           \/ WalkMeets
           \/ WalkFloor
           \/ WalkGenesis
    PROVE  ReconcilerInv'
  <1>1. ASSUME NEW b \in Block, WalkFetch(b)
        PROVE  ReconcilerInv'
    <2>1. /\ phase = "walk" /\ Num[b] = Num[cursor] - 1 /\ Num[cursor] # 0
          /\ Parent[cursor] = b
          /\ cursor' = b /\ path' = [path EXCEPT ![Num[b]] = b]
          /\ known' = known /\ tip' = tip /\ seeded' = seeded
          /\ canonical' = canonical /\ reverted' = reverted
          /\ phase' = phase /\ head' = head
      BY <1>1 DEF WalkFetch, WalkAsks, ParentNum, LinksTo, AtGenesis, chainVars, resVars
    <2>2. Num[b] \in Heights /\ b # NoBlock
      BY BlockTreeAssumption
    <2>3. known[Num[b]] # b
      <3>1. ~MeetsKnown /\ Num[cursor] > 0
        BY <1>1, <2>1, WalkFacts DEF WalkFetch, WalkAsks
      <3>. QED BY <2>1, <2>2, <3>1 DEF MeetsKnown, ParentNum, LinksTo
    <2>4. path' \in Rows
      BY <2>1, <2>2, WalkFacts DEF Rows
    <2>5. ReconcilerTypeOK'
      BY <2>1, <2>4 DEF ReconcilerInv, ReconcilerTypeOK
    <2>6. KnownIsHashChain'
      BY <2>1 DEF ReconcilerInv, KnownIsHashChain, IsHashChain, FiledByNumber,
                  EndsAt, NoGaps, Linked
    <2>7. IsHashChain(path', Num[head'])
      BY <2>1, WalkFacts, LowerChain
    <2>8. Num[head] >= Num[cursor]
      BY WalkFacts, <2>1 DEF IsHashChain, EndsAt
    <2>9. /\ path'[Num[head']] = head'
          /\ path'[Num[cursor']] = cursor'
          /\ \A n \in Heights : n < Num[cursor'] => path'[n] = NoBlock
          /\ \A n \in Heights : path'[n] # NoBlock => path'[n] # known'[n]
      BY <2>1, <2>2, <2>3, <2>8, WalkFacts DEF Rows
    <2>10. WalkedPathIsUnknown'
      BY <2>1, <2>7, <2>9, WalkFacts
         DEF WalkedPathIsUnknown, IsHashChain, FiledByNumber, EndsAt, NoGaps, Linked
    <2>11. FetchedExtendsKnown'
      BY <2>1 DEF FetchedExtendsKnown
    <2>. QED BY <2>5, <2>6, <2>10, <2>11 DEF ReconcilerInv
  <1>2. ASSUME phase = "walk", NEW ancestor, Switch(ancestor),
               \/ MeetsKnown /\ ancestor = ParentNum
               \/ BelowWindow /\ ancestor = ParentNum
               \/ AtGenesis /\ ancestor = 0
        PROVE  ReconcilerInv'
    <2>1. /\ Survivors(ancestor) \in Rows /\ Orphans(ancestor) \in Rows
          /\ IsHashChain(Overlay(Survivors(ancestor), path), Num[head])
      BY <1>2, WalkEnds
    <2>2. path \in Rows /\ head \in Block
      BY <1>2, WalkFacts
    <2>. QED BY <1>2, <2>1, <2>2, RecordKeepsInv DEF Switch
  <1>. QED BY <1>1, <1>2 DEF WalkMeets, WalkFloor, WalkGenesis

\* A call that ends without a result, or whose result was taken, changes nothing.
LEMMA EndKeepsInv ==
    ASSUME ReconcilerInv, GiveUp \/ Return
    PROVE  ReconcilerInv'
  <1>1. /\ known' = known /\ tip' = tip /\ seeded' = seeded /\ phase' = "idle"
        /\ head' = head
        /\ canonical' \in Rows /\ reverted' \in Rows /\ path' \in Rows
        /\ cursor' \in Block \cup {NoBlock}
    BY DEF GiveUp, Return, chainVars, resVars, ReconcilerInv, ReconcilerTypeOK, EmptyRows, Rows
  <1>2. ReconcilerTypeOK'
    BY <1>1 DEF ReconcilerInv, ReconcilerTypeOK, Phases
  <1>3. KnownIsHashChain'
    BY <1>1 DEF ReconcilerInv, KnownIsHashChain, IsHashChain, FiledByNumber,
                EndsAt, NoGaps, Linked
  <1>. QED BY <1>1, <1>2, <1>3 DEF ReconcilerInv, FetchedExtendsKnown, WalkedPathIsUnknown

------------------------------------------------------------------------------
(* The theorems.                                                           *)

\* One step of the reconciler, whichever it is.
LEMMA NextKeepsInv == ReconcilerInv /\ [ReconcilerNext]_recVars => ReconcilerInv'
  <1> SUFFICES ASSUME ReconcilerInv, [ReconcilerNext]_recVars
               PROVE  ReconcilerInv'
    OBVIOUS
  <1>1. ASSUME NEW rows \in Loadable, LoadKnown(rows) PROVE ReconcilerInv'
    BY <1>1, LoadKeepsInv
  <1>2. ASSUME NEW h \in Block, OnHead(h) PROVE ReconcilerInv'
    BY <1>2, OnHeadKeepsInv
  <1>3. ASSUME NEW b \in Block, ReconcileAnswer(b) PROVE ReconcilerInv'
    BY <1>3, ForwardKeepsInv, WalkKeepsInv, EndKeepsInv DEF ReconcileAnswer, WalkShifted
  <1>4. CASE ReconcileLocal
    BY <1>4, ForwardKeepsInv, WalkKeepsInv DEF ReconcileLocal
  <1>5. CASE FetchFails \/ Return
    BY <1>5, EndKeepsInv DEF FetchFails
  <1>6. CASE UNCHANGED recVars
    BY <1>6 DEF recVars, ReconcilerInv, ReconcilerTypeOK, KnownIsHashChain,
                FetchedExtendsKnown, WalkedPathIsUnknown, IsHashChain, FiledByNumber,
                EndsAt, NoGaps, Linked, Overlay
  <1>. QED BY <1>1, <1>2, <1>3, <1>4, <1>5, <1>6 DEF ReconcilerNext

\* The inductive invariant holds in every state of the reconciler.
THEOREM ReconcilerInvariant == ReconcilerSpec => []ReconcilerInv
  BY InitInv, NextKeepsInv, PTL DEF ReconcilerSpec

\* Nothing known is more than MaxDepth under the tip.
WindowInv == \A n \in Heights : known[n] # NoBlock => tip <= n + MaxDepth

\* What prune leaves.
LEMMA PruneFits ==
    ASSUME NEW rows, NEW top \in Heights, NEW n \in Heights, Prune(rows, top)[n] # NoBlock
    PROVE  top <= n + MaxDepth
  BY BlockTreeAssumption, MaxDepthAssumption DEF Prune, Heights

\* Whatever changes the known blocks prunes them by the new tip.
LEMMA StepKeepsWindow ==
    ASSUME ReconcilerInv, WindowInv, [ReconcilerNext]_recVars
    PROVE  WindowInv'
  <1>0. ReconcilerInv'
    BY NextKeepsInv
  <1>1. CASE UNCHANGED chainVars
    BY <1>1 DEF chainVars, WindowInv
  <1>2. ASSUME NEW rows, NEW top \in Heights, known' = Prune(rows, top), tip' = top
        PROVE  WindowInv'
    BY <1>2, PruneFits DEF WindowInv
  <1>3. ASSUME NEW rows, NEW new, NEW h \in Block, Record(rows, new, h) PROVE WindowInv'
    BY <1>2, <1>3, BlockTreeAssumption DEF Record
  <1>4. ASSUME NEW rows \in Loadable, LoadKnown(rows) PROVE WindowInv'
    <2>1. tip' \in Heights
      BY <1>0 DEF ReconcilerInv, ReconcilerTypeOK
    <2>. QED BY <1>2, <1>4, <2>1 DEF LoadKnown
  <1>5. ASSUME NEW h \in Block, OnHead(h) PROVE WindowInv'
    BY <1>1, <1>3, <1>5
       DEF OnHead, OnFirstHead, OnKnownHead, OnHigherHead, OnLowerHead, chainVars
  <1>6. ASSUME NEW b \in Block, ReconcileAnswer(b) PROVE WindowInv'
    BY <1>1, <1>6 DEF ReconcileAnswer, ForwardExtend, ForwardMismatch, StartWalk, WalkFetch,
                      WalkShifted, GiveUp, chainVars
  <1>7. CASE ForwardDone
    BY <1>3, <1>7, ForwardFacts DEF ForwardDone, AtHead
  <1>8. ASSUME phase = "walk", NEW ancestor, Switch(ancestor) PROVE WindowInv'
    BY <1>3, <1>8, WalkFacts DEF Switch
  <1>9. CASE ReconcileLocal
    BY <1>1, <1>7, <1>8, <1>9
       DEF ReconcileLocal, ForwardHeadMismatch, StartWalk, WalkMeets, WalkFloor, WalkGenesis,
           chainVars
  <1>10. CASE FetchFails \/ Return \/ UNCHANGED recVars
    BY <1>1, <1>10 DEF FetchFails, GiveUp, Return, recVars, chainVars
  <1>. QED BY <1>4, <1>5, <1>6, <1>9, <1>10 DEF ReconcilerNext

\* Reconciler.known never holds more than the MaxDepth blocks under the tip and the
\* tip, however the chain jumps, falls back or is reorganised (reorg.go, prune).
THEOREM WindowStaysBounded == ReconcilerSpec => []KnownFitsWindow
  <1>1. ReconcilerInit => WindowInv
    BY DEF ReconcilerInit, WindowInv, EmptyRows
  <1>2. ReconcilerInv /\ WindowInv => KnownFitsWindow
    <2> SUFFICES ASSUME ReconcilerInv, NEW n \in Heights, known[n] # NoBlock
                 PROVE  n <= tip
      BY DEF WindowInv, KnownFitsWindow
    <2>1. seeded /\ EndsAt(known, tip)
      BY DEF ReconcilerInv, KnownIsHashChain, IsHashChain, EmptyRows
    <2>. QED BY <2>1, BlockTreeAssumption
             DEF ReconcilerInv, ReconcilerTypeOK, EndsAt, Heights
  <1>. QED BY <1>1, <1>2, StepKeepsWindow, ReconcilerInvariant, PTL DEF ReconcilerSpec

\* Whatever the endpoints answer, Reconciler.known is one hash chain that ends
\* at Reconciler.tip: the reorg walk never mixes two branches.
THEOREM KnownStaysHashChain == ReconcilerSpec => []KnownIsHashChain
  <1>1. ReconcilerInv => KnownIsHashChain
    BY DEF ReconcilerInv
  <1>. QED BY <1>1, ReconcilerInvariant, PTL

\* While applyForward fetches, what it has fetched extends the known chain link by
\* link up to the cursor, so that nothing recorded later breaks the chain.
THEOREM FetchedStaysLinked == ReconcilerSpec => []FetchedExtendsKnown
  <1>1. ReconcilerInv => FetchedExtendsKnown
    BY DEF ReconcilerInv
  <1>. QED BY <1>1, ReconcilerInvariant, PTL

\* The walk of handleReorg stays off the known chain: it stops at the highest
\* common ancestor and never reports a block as new that was known.
THEOREM WalkStaysOffKnown == ReconcilerSpec => []WalkedPathIsUnknown
  <1>1. ReconcilerInv => WalkedPathIsUnknown
    BY DEF ReconcilerInv
  <1>. QED BY <1>1, ReconcilerInvariant, PTL

------------------------------------------------------------------------------
(* The result of a call.                                                   *)

\* Recording the rows "new" over what was not reverted tells the switch.
LEMMA RecordTells ==
    ASSUME NEW rows \in Rows, NEW new \in Rows, NEW h \in Block, NEW left \in Rows,
           Record(rows, new, h), Answer(new, left),
           rows = [n \in Heights |-> IF left[n] = NoBlock THEN known[n] ELSE NoBlock],
           IsHashChain(Overlay(rows, new), Num[h]), new[Num[h]] = h,
           \A n \in Heights : new[n] # NoBlock => rows[n] = NoBlock,
           \A n \in Heights : left[n] # NoBlock =>
                /\ left[n] = known[n]
                /\ new[n] # known[n]
                /\ new[n] # NoBlock \/ n > Num[h]
    PROVE  TellsTheSwitchTo(h)
  <1>1. canonical' = new /\ reverted' = left /\ tip' = Num[h]
    BY DEF Answer, Record
  <1>2. Kept = rows
    BY <1>1 DEF Kept
  <1> DEFINE chain == Overlay(rows, new)
  <1>3. Num[h] \in Heights /\ h # NoBlock /\ MaxHeight \in Nat /\ MaxDepth \in Nat
    BY BlockTreeAssumption, MaxDepthAssumption
  <1>4. chain[Num[h]] = h
    BY <1>3 DEF Overlay
  <1>5. ASSUME NEW n \in Heights, n + MaxDepth >= Num[h]
        PROVE  known'[n] = chain[n]
    <2>1. known' = Prune(chain, Num[h])
      BY DEF Record
    <2>. HIDE DEF chain
    <2>. QED BY <1>3, <1>5, <2>1 DEF Prune
  <1>6. ASSUME NEW n \in Heights, left[n] # NoBlock
        PROVE  /\ chain[n] # known[n]
               /\ chain[n] # NoBlock \/ n > Num[h]
    BY <1>6 DEF Overlay
  <1>. QED BY <1>1, <1>2, <1>4, <1>5, <1>6 DEF TellsTheSwitchTo

\* Every step that ends a call for a head that was not known.
LEMMA StepTells ==
    ASSUME ReconcilerInv, ReconcilerNext,
           phase # "done", phase' = "done", known[Num[head']] # head'
    PROVE  TellsTheSwitchTo(head')
  <1>0. EmptyRows \in Rows /\ known \in Rows
    BY DEF ReconcilerInv, ReconcilerTypeOK, EmptyRows, Rows
  <1>1. ASSUME NEW h \in Block, OnFirstHead(h)
        PROVE  TellsTheSwitchTo(head')
    <2>1. known = EmptyRows /\ head' = h
      BY <1>1 DEF ReconcilerInv, KnownIsHashChain, OnFirstHead
    <2>2. Overlay(known, Just(h)) = Just(h)
      BY <2>1, JustIsChain DEF Overlay, EmptyRows, Rows
    <2>3. known = [n \in Heights |-> IF EmptyRows[n] = NoBlock THEN known[n] ELSE NoBlock]
      BY <2>1 DEF EmptyRows
    <2>4. /\ \A n \in Heights : known[n] = NoBlock /\ EmptyRows[n] = NoBlock
          /\ Just(h)[Num[h]] = h
      BY <2>1, JustIsChain DEF EmptyRows
    <2>. QED
      BY <1>0, <1>1, <2>1, <2>2, <2>3, <2>4, JustIsChain, RecordTells DEF OnFirstHead
  <1>2. CASE ForwardDone
    <2> DEFINE fetched == [path EXCEPT ![Num[head]] = head]
    <2>1. /\ phase = "forward" /\ Num[head] = Num[cursor] + 1 /\ LinksTo(head, cursor)
          /\ Record(known, fetched, head) /\ Answer(fetched, EmptyRows) /\ head' = head
      BY <1>2 DEF ForwardDone, AtHead
    <2>2. /\ head \in Block /\ Num[head] \in Heights /\ path \in Rows
          /\ tip \in Heights /\ tip < Num[head]
      BY <2>1, ForwardFacts
    <2>3. fetched \in Rows /\ IsHashChain(Overlay(known, fetched), Num[head])
      BY <2>1, <2>2, ForwardExtends
    <2>4. known = [n \in Heights |-> IF EmptyRows[n] = NoBlock THEN known[n] ELSE NoBlock]
      BY <1>0 DEF EmptyRows, Rows
    <2>5. \A n \in Heights : fetched[n] # NoBlock => n > tip
      BY <2>1, <2>2, ForwardFacts DEF Rows
    <2>6. \A n \in Heights : fetched[n] # NoBlock => known[n] = NoBlock
      BY <2>1, <2>5, ForwardFacts DEF IsHashChain, EndsAt
    <2>7. fetched[Num[head]] = head /\ \A n \in Heights : EmptyRows[n] = NoBlock
      BY <2>2 DEF EmptyRows, Rows
    <2>. HIDE DEF fetched
    <2>. QED BY <1>0, <2>1, <2>2, <2>3, <2>4, <2>6, <2>7, RecordTells
  <1>3. ASSUME phase = "walk", NEW ancestor, Switch(ancestor),
               \/ MeetsKnown /\ ancestor = ParentNum
               \/ BelowWindow /\ ancestor = ParentNum
               \/ AtGenesis /\ ancestor = 0
        PROVE  TellsTheSwitchTo(head')
    <2> DEFINE low == Survivors(ancestor)
               left == Orphans(ancestor)
    <2>1. /\ ancestor \in Heights /\ low \in Rows /\ left \in Rows
          /\ \A n \in Heights : n >= Num[cursor] => low[n] = NoBlock
          /\ \A n \in Heights : n < Num[cursor] => low[n] = known[n]
          /\ IsHashChain(Overlay(low, path), Num[head])
      BY <1>3, WalkEnds
    <2>2. /\ path \in Rows /\ head \in Block /\ Num[head] \in Heights
          /\ Num[cursor] \in Heights /\ path[Num[head]] = head
          /\ path[Num[cursor]] # NoBlock
          /\ IsHashChain(path, Num[head])
          /\ \A n \in Heights : n < Num[cursor] => path[n] = NoBlock
          /\ \A n \in Heights : path[n] # NoBlock => path[n] # known[n]
      BY <1>3, WalkFacts
    <2>3. Record(low, path, head) /\ Answer(path, left) /\ head' = head
      BY <1>3 DEF Switch
    <2>4. \A n \in Heights : left[n] # NoBlock => left[n] = known[n] /\ low[n] = NoBlock
      BY DEF Orphans, Survivors
    <2>5. low = [n \in Heights |-> IF left[n] = NoBlock THEN known[n] ELSE NoBlock]
      BY DEF Orphans, Survivors
    <2>6. \A n \in Heights : path[n] # NoBlock => low[n] = NoBlock
      BY <2>1, <2>2, BlockTreeAssumption
    <2>7. ASSUME NEW n \in Heights, left[n] # NoBlock
          PROVE  path[n] # known[n] /\ (path[n] # NoBlock \/ n > Num[head])
      <3>1. known[n] # NoBlock /\ n >= Num[cursor]
        BY <2>1, <2>2, <2>4, <2>7, BlockTreeAssumption
      <3>2. path[n] # NoBlock \/ n > Num[head]
        <4>1. NoGaps(path, Num[head])
          BY <2>2 DEF IsHashChain
        <4>2. CASE n = Num[cursor]
          BY <2>2, <4>2
        <4>3. CASE n > Num[cursor]
          BY <2>2, <4>1, <4>3, BlockTreeAssumption DEF NoGaps
        <4>. QED BY <2>2, <3>1, <4>2, <4>3, BlockTreeAssumption
      <3>. QED BY <2>2, <3>1, <3>2
    <2>. HIDE DEF low, left
    <2>. QED BY <2>1, <2>2, <2>3, <2>4, <2>5, <2>6, <2>7, RecordTells
  <1>4. ASSUME NEW h \in Block, OnHead(h) PROVE TellsTheSwitchTo(head')
    BY <1>1, <1>4 DEF OnHead, OnKnownHead, OnHigherHead, OnLowerHead
  <1>5. CASE ReconcileLocal
    BY <1>2, <1>3, <1>5
       DEF ReconcileLocal, ForwardHeadMismatch, StartWalk, WalkMeets, WalkFloor, WalkGenesis
  <1>6. ASSUME NEW rows \in Loadable, LoadKnown(rows) PROVE FALSE
    BY <1>6 DEF LoadKnown, callVars
  <1>7. ASSUME NEW b \in Block, ReconcileAnswer(b) PROVE FALSE
    BY <1>7 DEF ReconcileAnswer, ForwardExtend, ForwardMismatch, StartWalk, WalkFetch,
                WalkShifted, GiveUp
  <1>8. CASE FetchFails \/ Return
    BY <1>8 DEF FetchFails, GiveUp, Return
  <1>. QED BY <1>4, <1>5, <1>6, <1>7, <1>8 DEF ReconcilerNext

\* Every result of OnHead tells the whole switch, for every block tree, window
\* and sequence of answers: reverted and canonical together turn the known chain
\* into the chain of the head.
THEOREM ResultsTellTheSwitch == ReconcilerSpec => ReportsTheSwitch
  <1>1. ReconcilerInv /\ [ReconcilerNext]_recVars
          => [ (phase # "done" /\ phase' = "done" /\ known[Num[head']] # head')
                 => TellsTheSwitchTo(head') ]_recVars
    BY StepTells DEF recVars
  <1>. QED BY <1>1, ReconcilerInvariant, PTL DEF ReconcilerSpec, ReportsTheSwitch
==============================================================================
