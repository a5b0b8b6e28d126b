-------------------------- MODULE HeadTrackerProofs --------------------------
(*****************************************************************************)
(* Proofs about the HeadTracker, for every block tree, window, confirmation  *)
(* depth and answer of the endpoints and the store.                          *)
(*                                                                           *)
(* First the switch that a call of OnHead makes, and the types.  Then what   *)
(* the log pipeline is told in one run of the process: the chain the         *)
(* tracker follows is split into what the pipeline was told, what is about   *)
(* to be handed over and what is held back, and only the switch changes      *)
(* that chain.  Last the restarts: the tracker loads the rows of the blocks  *)
(* table from its cursor's window on, and goes on from there.                *)
(*****************************************************************************)
EXTENDS HeadTracker, ReconcilerProofs, WellFoundedInduction

USE DEF Heights

------------------------------------------------------------------------------
(* The switch a call of OnHead makes.                                      *)

\* The call ends with a chain whose new part begins at height foot: below it
\* the known rows stay, from it on they are reverted.  The known chain goes on
\* under the new part, unless nothing was known or the walk left the window.
SwitchAt(foot) ==
    /\ head' \in Block
    /\ canonical' \in Rows /\ reverted' \in Rows
    /\ \A n \in Heights : canonical'[n] # NoBlock <=> foot <= n /\ n <= Num[head']
    /\ \A n \in Heights : canonical'[n] # NoBlock => canonical'[n] # known[n]
    /\ canonical'[Num[head']] = head'
    /\ \A n \in Heights : reverted'[n] = IF n >= foot THEN known[n] ELSE NoBlock
    /\ IsHashChain(Overlay(Kept, canonical'), Num[head'])
    /\ known' = Prune(Overlay(Kept, canonical'), Num[head'])
    /\ tip' = Num[head'] /\ seeded' = TRUE
    /\ \/ foot > 0 /\ known[foot - 1] # NoBlock
       \/ ~seeded
       \/ /\ phase = "walk" /\ (BelowWindow \/ AtGenesis)
          /\ \A n \in Heights : n < foot => known[n] = NoBlock

\* The first head starts the chain.
LEMMA FirstSwitches ==
    ASSUME ReconcilerInv, NEW h \in Block, OnFirstHead(h)
    PROVE  \E foot \in Heights : SwitchAt(foot)
  <1>1. known = EmptyRows /\ ~seeded /\ known \in Rows
    BY DEF ReconcilerInv, ReconcilerTypeOK, KnownIsHashChain, OnFirstHead
  <1>2. /\ head' = h /\ canonical' = Just(h) /\ reverted' = EmptyRows
        /\ known' = Prune(Overlay(known, Just(h)), Num[h])
        /\ tip' = Num[h] /\ seeded' = TRUE
    BY DEF OnFirstHead, Record, Answer
  <1>3. /\ Just(h) \in Rows /\ Num[h] \in Heights /\ IsHashChain(Just(h), Num[h])
        /\ \A n \in Heights : Just(h)[n] = IF n = Num[h] THEN h ELSE NoBlock
    BY JustIsChain
  <1>4. Kept = known
    BY <1>1, <1>2 DEF Kept, EmptyRows
  <1>5. Overlay(known, Just(h)) = Just(h)
    BY <1>1, <1>3 DEF Overlay, EmptyRows, Rows
  <1>6. \A n \in Heights : EmptyRows[n] = NoBlock
    BY DEF EmptyRows
  <1>7. h # NoBlock
    BY BlockTreeAssumption
  <1>8. /\ head' \in Block
        /\ canonical' \in Rows /\ reverted' \in Rows
        /\ canonical'[Num[head']] = head'
        /\ \A n \in Heights : canonical'[n] # NoBlock => canonical'[n] # known[n]
        /\ \A n \in Heights : reverted'[n] = IF n >= Num[h] THEN known[n] ELSE NoBlock
        /\ \A n \in Heights : canonical'[n] # NoBlock <=> Num[h] <= n /\ n <= Num[head']
    BY <1>1, <1>2, <1>3, <1>6, <1>7
  <1>9. SwitchAt(Num[h])
    BY <1>1, <1>2, <1>3, <1>4, <1>5, <1>8 DEF SwitchAt
  <1>. QED BY <1>3, <1>9

\* A height between the foot and the top of a chain is filled.
LEMMA FilledBetween ==
    ASSUME NEW rows \in Rows, NEW top \in Heights, NEW foot \in Heights,
           IsHashChain(rows, top), rows[foot] # NoBlock,
           \A n \in Heights : n < foot => rows[n] = NoBlock
    PROVE  /\ foot <= top
           /\ \A n \in Heights : rows[n] # NoBlock <=> foot <= n /\ n <= top
  <1>1. foot <= top
    BY DEF IsHashChain, EndsAt
  <1>2. \A n \in Heights : n > top => rows[n] = NoBlock
    BY DEF IsHashChain, EndsAt
  <1>3. \A n \in Heights : foot < n /\ n <= top => rows[n] # NoBlock
    BY DEF IsHashChain, NoGaps
  <1>. QED BY <1>1, <1>2, <1>3

\* applyForward puts everything it fetched on top of the tip.
LEMMA ForwardSwitches ==
    ASSUME ReconcilerInv, ForwardDone
    PROVE  \E foot \in Heights : SwitchAt(foot)
  <1> DEFINE fetched == [path EXCEPT ![Num[head]] = head]
  <1>1. /\ phase = "forward" /\ Num[head] = Num[cursor] + 1 /\ LinksTo(head, cursor)
        /\ Record(known, fetched, head) /\ Answer(fetched, EmptyRows) /\ head' = head
    BY DEF ForwardDone, AtHead
  <1>2. /\ head \in Block /\ Num[head] \in Heights /\ path \in Rows /\ known \in Rows
        /\ tip \in Heights /\ tip < Num[head] /\ IsHashChain(known, tip) /\ seeded = TRUE
        /\ \A n \in Heights : path[n] # NoBlock => n > tip
    BY <1>1, ForwardFacts
  <1>3. fetched \in Rows /\ IsHashChain(Overlay(known, fetched), Num[head])
    BY <1>1, <1>2, ForwardExtends
  <1>4. \A n \in Heights : EmptyRows[n] = NoBlock
    BY DEF EmptyRows
  <1>5. \A n \in Heights : fetched[n] # NoBlock => n > tip
    BY <1>2 DEF Rows
  <1>6. fetched[Num[head]] = head
    BY <1>2 DEF Rows
  <1>. HIDE DEF fetched
  <1>7. /\ canonical' = fetched /\ reverted' = EmptyRows
        /\ known' = Prune(Overlay(known, fetched), Num[head])
        /\ tip' = Num[head] /\ seeded' = TRUE
    BY <1>1 DEF Record, Answer
  <1>8. Kept = known
    BY <1>2, <1>4, <1>7 DEF Kept, Rows
  <1>9. known[tip] # NoBlock /\ \A n \in Heights : n > tip => known[n] = NoBlock
    BY <1>2 DEF IsHashChain, EndsAt
  <1>10. \A n \in Heights : fetched[n] # NoBlock <=> tip + 1 <= n /\ n <= Num[head]
    <2> DEFINE both == Overlay(known, fetched)
    <2>1. \A n \in Heights : both[n] = IF fetched[n] # NoBlock THEN fetched[n] ELSE known[n]
      BY DEF Overlay
    <2>2. both[tip] # NoBlock /\ NoGaps(both, Num[head]) /\ EndsAt(both, Num[head])
      BY <1>2, <1>3, <1>9, <2>1 DEF IsHashChain
    <2>. HIDE DEF both
    <2>3. \A n \in Heights : tip < n /\ n <= Num[head] => both[n] # NoBlock
      BY <1>2, <2>2 DEF NoGaps
    <2>4. \A n \in Heights : n > Num[head] => both[n] = NoBlock
      BY <2>2 DEF EndsAt
    <2>. QED BY <1>2, <1>5, <1>9, <2>1, <2>3, <2>4
  <1>11. tip + 1 \in Heights
    BY <1>2, BlockTreeAssumption
  <1>12. \A n \in Heights : reverted'[n] = IF n >= tip + 1 THEN known[n] ELSE NoBlock
    BY <1>2, <1>4, <1>7, <1>9
  <1>13. \A n \in Heights : fetched[n] # NoBlock => fetched[n] # known[n]
    BY <1>5, <1>9
  <1>14. EmptyRows \in Rows
    BY DEF EmptyRows, Rows
  <1>15. tip + 1 > 0 /\ known[(tip + 1) - 1] # NoBlock
    BY <1>2, <1>9
  <1>16. SwitchAt(tip + 1)
    BY <1>1, <1>2, <1>3, <1>6, <1>7, <1>8, <1>10, <1>12, <1>13, <1>14, <1>15 DEF SwitchAt
  <1>. QED BY <1>11, <1>16

\* handleReorg replaces everything from the lowest block of its path on.
LEMMA WalkSwitches ==
    ASSUME ReconcilerInv, WalkMeets \/ WalkFloor \/ WalkGenesis
    PROVE  \E foot \in Heights : SwitchAt(foot)
  <1>1. PICK ancestor :
          /\ phase = "walk" /\ Switch(ancestor)
          /\ \/ MeetsKnown /\ ancestor = ParentNum
             \/ BelowWindow /\ ancestor = ParentNum
             \/ AtGenesis /\ ancestor = 0
    BY DEF WalkMeets, WalkFloor, WalkGenesis
  <1> DEFINE low == Survivors(ancestor)
             left == Orphans(ancestor)
  <1>2. /\ ancestor \in Heights /\ low \in Rows /\ left \in Rows
        /\ \A n \in Heights : n >= Num[cursor] => low[n] = NoBlock
        /\ \A n \in Heights : n < Num[cursor] => low[n] = known[n]
        /\ IsHashChain(Overlay(low, path), Num[head])
    BY <1>1, WalkEnds
  <1>3. /\ path \in Rows /\ head \in Block /\ Num[head] \in Heights
        /\ cursor \in Block /\ known \in Rows /\ tip \in Heights
        /\ Num[cursor] \in Heights /\ path[Num[head]] = head
        /\ path[Num[cursor]] # NoBlock
        /\ IsHashChain(path, Num[head])
        /\ \A n \in Heights : n < Num[cursor] => path[n] = NoBlock
        /\ \A n \in Heights : path[n] # NoBlock => path[n] # known[n]
    BY <1>1, WalkFacts
  <1>4. Record(low, path, head) /\ Answer(path, left) /\ head' = head
    BY <1>1 DEF Switch
  <1>5. low = [n \in Heights |-> IF left[n] = NoBlock THEN known[n] ELSE NoBlock]
    BY DEF Orphans, Survivors
  <1>6. \A n \in Heights : left[n] # NoBlock => left[n] = known[n] /\ low[n] = NoBlock
    BY DEF Orphans, Survivors
  <1>. HIDE DEF low, left
  <1>7. /\ canonical' = path /\ reverted' = left
        /\ known' = Prune(Overlay(low, path), Num[head])
        /\ tip' = Num[head] /\ seeded' = TRUE
    BY <1>4 DEF Record, Answer
  <1>8. Kept = low
    BY <1>5, <1>7 DEF Kept
  <1>9. ASSUME NEW n \in Heights
        PROVE  left[n] = IF n >= Num[cursor] THEN known[n] ELSE NoBlock
    <2>1. low[n] = IF left[n] = NoBlock THEN known[n] ELSE NoBlock
      BY <1>5
    <2>2. CASE n >= Num[cursor]
      BY <1>2, <1>6, <2>1, <2>2
    <2>3. CASE ~(n >= Num[cursor])
      BY <1>2, <1>3, <1>6, <2>1, <2>3
    <2>. QED BY <2>2, <2>3
  <1>10. \A n \in Heights : path[n] # NoBlock <=> Num[cursor] <= n /\ n <= Num[head]
    BY <1>3, FilledBetween
  <1>11. \/ Num[cursor] > 0 /\ known[Num[cursor] - 1] # NoBlock
         \/ /\ BelowWindow \/ AtGenesis
            /\ \A n \in Heights : n < Num[cursor] => known[n] = NoBlock
    BY <1>1, <1>3 DEF MeetsKnown, BelowWindow, AtGenesis, ParentNum, HasAnyBelow
  <1>12. SwitchAt(Num[cursor])
    BY <1>1, <1>2, <1>3, <1>4, <1>7, <1>8, <1>9, <1>10, <1>11 DEF SwitchAt
  <1>. QED BY <1>3, <1>12

------------------------------------------------------------------------------
(* The same switch, as sets of blocks.                                     *)

\* A block of a table is filed under its number.
LEMMA InBlocksOf ==
    ASSUME NEW rows \in Rows, FiledByNumber(rows), NEW b
    PROVE  b \in BlocksOf(rows) <=> b \in Block /\ rows[Num[b]] = b
  BY BlockTreeAssumption DEF BlocksOf, FiledByNumber, Rows

\* The blocks known before and after the switch, those that joined and those
\* that left.
SwitchOf(K, K2, N, R, foot, h) ==
    /\ h \in N /\ N \subseteq Block
    /\ \A b \in N : foot <= Num[b] /\ Num[b] <= Num[h]
    /\ N \cap K = {}
    /\ R = {b \in K : Num[b] >= foot}
    /\ \A b, c \in N : Num[b] = Num[c] => b = c
    /\ \A b \in N : Num[b] > foot => Parent[b] \in N
    /\ \A b \in N : Num[b] < Num[h] => \E d \in N : Parent[d] = b
    /\ \A k \in K, d \in N : Num[k] = foot - 1 /\ Num[d] = foot => Parent[d] = k
    /\ \E d \in N : Num[d] = foot
    /\ K2 \subseteq (K \ R) \cup N
    /\ \A b \in ((K \ R) \cup N) \ K2 : Num[b] + MaxDepth < Num[h]
    /\ h \in K2

\* The rows of the switch, read as sets.
LEMMA SwitchSets ==
    ASSUME ReconcilerInv, ReconcilerInv', NEW foot \in Heights, SwitchAt(foot)
    PROVE  SwitchOf(BlocksOf(known), BlocksOf(known'), BlocksOf(canonical'),
                    BlocksOf(reverted'), foot, head')
  <1> DEFINE chain == Overlay(Kept, canonical')
             h == head'
             N == BlocksOf(canonical')
             R == BlocksOf(reverted')
             K == BlocksOf(known)
  <1>1. /\ h \in Block /\ canonical' \in Rows /\ reverted' \in Rows /\ known \in Rows
        /\ known' \in Rows /\ Num[h] \in Heights /\ NoBlock \notin Block
        /\ MaxDepth \in Nat /\ MaxHeight \in Nat
    BY BlockTreeAssumption, MaxDepthAssumption
       DEF SwitchAt, ReconcilerInv, ReconcilerTypeOK
  <1>2. FiledByNumber(known) /\ FiledByNumber(known')
    <2>1. FiledByNumber(EmptyRows)
      BY DEF FiledByNumber, EmptyRows
    <2>2. FiledByNumber(known)
      BY <2>1 DEF ReconcilerInv, KnownIsHashChain, IsHashChain
    <2>3. KnownIsHashChain' /\ seeded'
      BY DEF ReconcilerInv, SwitchAt
    <2>4. FiledByNumber(known')
      BY <2>3 DEF KnownIsHashChain, IsHashChain, FiledByNumber
    <2>. QED BY <2>2, <2>4
  <1>3. /\ \A n \in Heights : canonical'[n] # NoBlock <=> foot <= n /\ n <= Num[h]
        /\ \A n \in Heights : canonical'[n] # NoBlock => canonical'[n] # known[n]
        /\ canonical'[Num[h]] = h
        /\ \A n \in Heights : reverted'[n] = IF n >= foot THEN known[n] ELSE NoBlock
        /\ IsHashChain(chain, Num[h])
        /\ known' = Prune(chain, Num[h])
    BY DEF SwitchAt
  <1>4. \A n \in Heights : chain[n] =
          IF canonical'[n] # NoBlock THEN canonical'[n]
          ELSE IF n >= foot THEN NoBlock ELSE known[n]
    BY <1>1, <1>3 DEF Overlay, Kept, Rows
  <1>5. chain \in Rows
    BY <1>1, <1>4 DEF Overlay, Kept, Rows
  <1>6. FiledByNumber(chain) /\ Linked(chain)
    BY <1>3 DEF IsHashChain
  <1>. HIDE DEF chain
  <1>7. FiledByNumber(canonical') /\ FiledByNumber(reverted')
    BY <1>2, <1>3, <1>4, <1>6 DEF FiledByNumber
  <1>8. /\ \A b : b \in N <=> b \in Block /\ canonical'[Num[b]] = b
        /\ \A b : b \in R <=> b \in Block /\ reverted'[Num[b]] = b
        /\ \A b : b \in K <=> b \in Block /\ known[Num[b]] = b
        /\ \A b : b \in BlocksOf(known') <=> b \in Block /\ known'[Num[b]] = b
    BY <1>1, <1>2, <1>7, InBlocksOf
  <1>. HIDE DEF N, R, K
  <1>9. \A b \in Block : Num[b] \in Heights /\ b # NoBlock
    BY BlockTreeAssumption
  <1>10. h \in N /\ N \subseteq Block
    BY <1>1, <1>3, <1>8
  <1>11. \A b \in N : foot <= Num[b] /\ Num[b] <= Num[h]
    BY <1>3, <1>8, <1>9
  <1>12. N \cap K = {}
    BY <1>3, <1>8, <1>9
  <1>13. R = {b \in K : Num[b] >= foot}
    BY <1>3, <1>8, <1>9
  <1>14. \A b, c \in N : Num[b] = Num[c] => b = c
    BY <1>8
  <1>15. \A n \in Heights : foot <= n /\ n <= Num[h] =>
           /\ canonical'[n] \in N /\ Num[canonical'[n]] = n /\ chain[n] = canonical'[n]
    BY <1>1, <1>3, <1>4, <1>7, <1>8 DEF Rows, FiledByNumber
  <1>16. ASSUME NEW b \in N, Num[b] > foot
         PROVE  Parent[b] \in N
    <2>1. /\ Num[b] \in Heights /\ Num[b] - 1 \in Heights
          /\ foot <= Num[b] - 1 /\ Num[b] - 1 <= Num[h] /\ Num[b] <= Num[h]
      BY <1>1, <1>9, <1>10, <1>11, <1>16
    <2>2. chain[Num[b]] = b /\ chain[Num[b] - 1] \in N
      BY <1>8, <1>11, <1>15, <2>1
    <2>. QED BY <1>6, <1>9, <1>10, <2>1, <2>2 DEF Linked
  <1>17. ASSUME NEW b \in N, Num[b] < Num[h]
         PROVE  \E d \in N : Parent[d] = b
    <2>1. /\ Num[b] + 1 \in Heights /\ foot <= Num[b] + 1 /\ Num[b] + 1 <= Num[h]
          /\ foot <= Num[b] /\ Num[b] <= Num[h] /\ Num[b] \in Heights
      BY <1>1, <1>9, <1>10, <1>11, <1>17
    <2>2. chain[Num[b]] = b /\ chain[Num[b] + 1] \in N
      BY <1>8, <1>15, <2>1
    <2>3. (Num[b] + 1) - 1 = Num[b] /\ Num[b] + 1 > 0
      BY <2>1
    <2>4. Parent[chain[Num[b] + 1]] = chain[Num[b]]
      BY <1>6, <1>9, <1>10, <2>1, <2>2, <2>3 DEF Linked
    <2>. QED BY <2>2, <2>4
  <1>18. ASSUME NEW k \in K, NEW d \in N, Num[k] = foot - 1, Num[d] = foot
         PROVE  Parent[d] = k
    <2>1. k \in Block /\ Num[k] \in Heights /\ foot > 0 /\ foot - 1 \in Heights /\ k # NoBlock
      BY <1>8, <1>9, <1>18
    <2>2. canonical'[foot - 1] = NoBlock
      BY <1>3, <2>1
    <2>3. chain[foot - 1] = k
      BY <1>4, <1>8, <1>18, <2>1, <2>2
    <2>4. chain[foot] = d /\ d # NoBlock
      BY <1>4, <1>8, <1>9, <1>10, <1>18
    <2>. QED BY <1>6, <2>1, <2>3, <2>4 DEF Linked
  <1>19. \E d \in N : Num[d] = foot
    <2>1. foot <= Num[h]
      BY <1>10, <1>11
    <2>. QED BY <1>15, <2>1
  <1>20. \A b : b \in (K \ R) \cup N <=> b \in Block /\ chain[Num[b]] = b
    <2>1. \A b \in Block : chain[Num[b]] = b <=>
             (canonical'[Num[b]] = b \/ (Num[b] < foot /\ known[Num[b]] = b))
      BY <1>3, <1>4, <1>9
    <2>. QED BY <1>8, <1>9, <1>13, <2>1
  <1>21. \A n \in Heights : known'[n] = IF n + MaxDepth < Num[h] THEN NoBlock ELSE chain[n]
    BY <1>1, <1>3, <1>5 DEF Prune, Rows
  <1>22. BlocksOf(known') \subseteq (K \ R) \cup N
    BY <1>8, <1>9, <1>20, <1>21
  <1>23. \A b \in ((K \ R) \cup N) \ BlocksOf(known') : Num[b] + MaxDepth < Num[h]
    BY <1>8, <1>9, <1>20, <1>21
  <1>24. h \in BlocksOf(known')
    BY <1>1, <1>8, <1>9, <1>10, <1>20, <1>21
  <1>. QED
    BY <1>10, <1>11, <1>12, <1>13, <1>14, <1>16, <1>17, <1>18, <1>19, <1>22, <1>23, <1>24
       DEF SwitchOf, N, R, K

\* Every block of S is lower than every block of T.
Under(S, T) == \A c \in S, d \in T : Num[c] < Num[d]

\* A chain that grows up to height t.
ReachesTo(S, t) ==
    /\ \A c \in S : Num[c] <= t
    /\ \A c \in S : Num[c] < t => \E d \in S : Parent[d] = c

\* The blocks of C are one chain that ends at height t, with the known blocks K
\* on top of it: the part from the foot on is known, and so is what is under it.
Carries(C, K, R, foot, t) ==
    /\ C \subseteq Block /\ K \subseteq C
    /\ Feed!OneChain(C) /\ ReachesTo(C, t)
    /\ \A c \in C : Num[c] >= foot => c \in K
    /\ \A c \in C \ R : \E k \in K : Num[k] = foot - 1

\* What a switch makes of such a set: one chain again, with the new head on top.
LEMMA SwitchFollowed ==
    ASSUME NEW C, NEW K, NEW K2, NEW N, NEW R, NEW h, NEW foot \in Heights, NEW t \in Heights,
           SwitchOf(K, K2, N, R, foot, h), Carries(C, K, R, foot, t)
    PROVE  /\ Feed!OneChain((C \ R) \cup N)
           /\ ReachesTo((C \ R) \cup N, Num[h])
           /\ Under(C \ R, N)
  <1> DEFINE D == (C \ R) \cup N
  <1>0. /\ C \subseteq Block /\ K \subseteq C
        /\ Feed!OneChain(C)
        /\ \A c \in C : Num[c] <= t
        /\ \A c \in C : Num[c] < t => \E d \in C : Parent[d] = c
        /\ \A c \in C : Num[c] >= foot => c \in K
        /\ \A c \in C \ R : \E k \in K : Num[k] = foot - 1
    BY DEF Carries, ReachesTo
  <1>1. /\ \A b \in Block : Num[b] \in Heights /\ b # NoBlock
        /\ \A b \in Block : Num[b] > 0 => Parent[b] \in Block /\ Num[Parent[b]] = Num[b] - 1
        /\ \A b \in Block : Num[b] = 0 => Parent[b] = NoBlock
        /\ MaxHeight \in Nat /\ NoBlock \notin Block
    BY <1>0, BlockTreeAssumption
  <1>2. /\ h \in N /\ N \subseteq Block /\ h \in Block
        /\ \A b \in N : foot <= Num[b] /\ Num[b] <= Num[h]
        /\ R = {b \in K : Num[b] >= foot}
        /\ \A b, c \in N : Num[b] = Num[c] => b = c
        /\ \A b \in N : Num[b] > foot => Parent[b] \in N
        /\ \A b \in N : Num[b] < Num[h] => \E d \in N : Parent[d] = b
        /\ \A k \in K, d \in N : Num[k] = foot - 1 /\ Num[d] = foot => Parent[d] = k
        /\ \E d \in N : Num[d] = foot
        /\ K2 \subseteq (K \ R) \cup N
    BY DEF SwitchOf
  <1>3. \A c \in C \ R : c \in Block /\ Num[c] < foot
    BY <1>0, <1>1, <1>2
  <1>4. /\ \A b, c \in C : Num[b] = Num[c] => b = c
        /\ \A b, c \in C : Num[b] < Num[c] => Parent[c] \in C
    BY <1>0 DEF Feed!OneChain
  <1>5. \A c \in C \ R, n \in N : Num[c] < Num[n]
    BY <1>0, <1>1, <1>2, <1>3
  <1>6. foot <= Num[h] /\ Num[h] \in Heights
    BY <1>0, <1>1, <1>2
  <1>7. \A d \in D : Num[d] <= Num[h]
    BY <1>0, <1>1, <1>2, <1>3, <1>6
  <1>8. ASSUME NEW b \in D, NEW c \in D, Num[b] = Num[c]
        PROVE  b = c
    BY <1>0, <1>2, <1>3, <1>4, <1>5, <1>8
  <1>9. ASSUME NEW b \in D, NEW c \in D, Num[b] < Num[c]
        PROVE  Parent[c] \in D
    <2>1. CASE c \in N /\ Num[c] > foot
      BY <1>0, <1>2, <2>1
    <2>2. CASE c \in N /\ Num[c] = foot
      <3>1. b \in C \ R
        BY <1>0, <1>1, <1>2, <1>9, <2>2
      <3>2. PICK k \in K : Num[k] = foot - 1
        BY <1>0, <3>1
      <3>3. Parent[c] = k
        BY <1>0, <1>2, <2>2, <3>2
      <3>4. k \in C \ R
        BY <1>0, <1>1, <1>2, <3>2
      <3>. QED BY <1>0, <3>3, <3>4
    <2>3. CASE c \in C \ R
      <3>1. b \in C \ R
        BY <1>0, <1>1, <1>2, <1>3, <1>5, <1>9, <2>3
      <3>2. Parent[c] \in C /\ Num[c] < foot /\ c \in Block /\ b \in Block
        BY <1>0, <1>3, <1>4, <1>9, <2>3, <3>1
      <3>3. Num[c] > 0
        BY <1>0, <1>1, <1>9, <3>2
      <3>4. Num[Parent[c]] < foot
        BY <1>0, <1>1, <3>2, <3>3
      <3>. QED BY <1>0, <1>1, <1>2, <3>2, <3>4
    <2>. QED BY <1>0, <1>1, <1>2, <2>1, <2>2, <2>3
  <1>10. ASSUME NEW d \in D, Num[d] < Num[h]
         PROVE  \E e \in D : Parent[e] = d
    <2>1. CASE d \in N
      BY <1>0, <1>2, <1>10, <2>1
    <2>2. CASE d \in C \ R
      <3>1. PICK k \in K : Num[k] = foot - 1
        BY <1>0, <2>2
      <3>2. k \in C /\ d \in C /\ d \in Block /\ Num[d] \in Heights /\ Num[d] <= foot - 1
        BY <1>0, <1>1, <1>3, <2>2, <3>1
      <3>3. CASE Num[d] = foot - 1
        BY <1>0, <1>2, <1>4, <3>1, <3>2, <3>3
      <3>4. CASE Num[d] < foot - 1
        <4>1. Num[d] < t
          BY <1>0, <1>1, <3>1, <3>2, <3>4
        <4>2. PICK e \in C : Parent[e] = d
          BY <1>0, <3>2, <4>1
        <4>3. Num[e] = Num[d] + 1
          BY <1>0, <1>1, <3>2, <4>2
        <4>4. e \notin R
          BY <1>0, <1>2, <3>2, <3>4, <4>3
        <4>. QED BY <1>0, <4>2, <4>4
      <3>. QED BY <1>0, <1>1, <3>2, <3>3, <3>4
    <2>. QED BY <1>0, <2>1, <2>2
  <1>12. Feed!OneChain(D)
    BY <1>0, <1>8, <1>9 DEF Feed!OneChain
  <1>. QED BY <1>5, <1>7, <1>10, <1>12 DEF ReachesTo, Under

------------------------------------------------------------------------------
(* Types, whatever the store answers and whenever the process dies.        *)

\* A set of numbers that is not empty has a least one.
LEMMA LeastNumber ==
    ASSUME NEW T \in SUBSET Nat, T # {}
    PROVE  \E m \in T : \A n \in T : m <= n
  <1>1. PICK m \in T : \A n \in T : ~ (<<n, m>> \in OpToRel(<, Nat))
    BY NatLessThanWellFounded, WFMin
  <1>2. ASSUME NEW n \in T PROVE m <= n
    <2>1. n \in Nat /\ m \in Nat
      OBVIOUS
    <2>2. n < m => <<n, m>> \in OpToRel(<, Nat)
      BY <2>1 DEF OpToRel
    <2>3. ~(n < m)
      BY <1>1, <2>2, Zenon
    <2>. QED BY <2>1, <2>3
  <1>. QED BY <1>2

\* The loops of pollOnce go through their blocks by number: there is a lowest
\* and a highest block in a batch.
LEMMA LowestHighest ==
    ASSUME NEW S \in SUBSET Block, S # {}
    PROVE  Lowest(S) \in S /\ Highest(S) \in S
  <1>1. \A b \in S : Num[b] \in Heights /\ MaxHeight \in Nat
    BY BlockTreeAssumption
  <1> DEFINE up == {Num[b] : b \in S}
             down == {MaxHeight - Num[b] : b \in S}
  <1>2. up \in SUBSET Nat /\ up # {} /\ down \in SUBSET Nat /\ down # {}
    BY <1>1
  <1>3. \E b \in S : \A c \in S : Num[b] <= Num[c]
    <2>1. PICK m \in up : \A n \in up : m <= n
      BY <1>2, LeastNumber
    <2>2. PICK b \in S : m = Num[b]
      BY <2>1
    <2>3. \A c \in S : Num[c] \in up
      OBVIOUS
    <2>. QED BY <2>1, <2>2, <2>3
  <1>4. \E b \in S : \A c \in S : Num[c] <= Num[b]
    <2>1. PICK m \in down : \A n \in down : m <= n
      BY <1>2, LeastNumber
    <2>2. PICK b \in S : m = MaxHeight - Num[b]
      BY <2>1
    <2>3. \A c \in S : MaxHeight - Num[c] \in down
      OBVIOUS
    <2>4. \A c \in S : MaxHeight - Num[b] <= MaxHeight - Num[c]
      BY <2>1, <2>2, <2>3
    <2>. QED BY <1>1, <2>4
  <1>. QED BY <1>3, <1>4 DEF Lowest, Highest

\* The rows that LoadRecentBlocks returns have a top.
LEMMA TopOfType ==
    ASSUME NEW rows \in Rows
    PROVE  TopOf(rows) \in Heights
  <1>0. MaxHeight \in Nat
    BY BlockTreeAssumption
  <1>1. CASE rows = EmptyRows
    BY <1>0, <1>1 DEF TopOf
  <1>2. CASE rows # EmptyRows
    <2> DEFINE down == {MaxHeight - n : n \in {n \in Heights : rows[n] # NoBlock}}
    <2>1. \E n \in Heights : rows[n] # NoBlock
      BY <1>2 DEF Rows, EmptyRows
    <2>2. down \in SUBSET Nat /\ down # {}
      BY <1>0, <2>1
    <2>3. PICK m \in down : \A n \in down : m <= n
      BY <2>2, LeastNumber
    <2>4. PICK n \in Heights : rows[n] # NoBlock /\ m = MaxHeight - n
      BY <2>3
    <2>5. ASSUME NEW k \in Heights, k > n PROVE rows[k] = NoBlock
      <3>1. rows[k] # NoBlock => MaxHeight - k \in down
        OBVIOUS
      <3>2. ~(m <= MaxHeight - k)
        BY <1>0, <2>4, <2>5
      <3>. QED BY <2>3, <3>1, <3>2
    <2>6. \E k \in Heights : EndsAt(rows, k)
      BY <2>4, <2>5 DEF EndsAt
    <2>. QED BY <1>2, <2>6 DEF TopOf
  <1>. QED BY <1>1, <1>2

\* A call that ends by recording blocks leaves rows, whatever it recorded.
LEMMA RecordTypes ==
    ASSUME NEW rows \in Rows, NEW new \in Rows, NEW left \in Rows, NEW top \in Block,
           Record(rows, new, top), Answer(new, left), head' \in Block
    PROVE  ReconcilerTypeOK'
  <1>1. Num[top] \in Heights
    BY BlockTreeAssumption
  <1>2. Overlay(rows, new) \in Rows
    BY OverlayType
  <1>3. Prune(Overlay(rows, new), Num[top]) \in Rows
    BY <1>2 DEF Prune, Rows
  <1>4. EmptyRows \in Rows
    BY DEF EmptyRows, Rows
  <1>. QED BY <1>1, <1>3, <1>4 DEF ReconcilerTypeOK, Record, Answer, Phases

\* OnHead, whatever is known.
LEMMA OnHeadTypes ==
    ASSUME ReconcilerTypeOK, NEW h \in Block, OnHead(h)
    PROVE  ReconcilerTypeOK' /\ head' = h
  <1>1. EmptyRows \in Rows /\ Just(h) \in Rows
    BY JustIsChain DEF EmptyRows, Rows
  <1>2. CASE OnFirstHead(h)
    BY <1>1, <1>2, RecordTypes DEF OnFirstHead, ReconcilerTypeOK
  <1>3. CASE OnKnownHead(h)
    BY <1>1, <1>3 DEF OnKnownHead, Answer, chainVars, ReconcilerTypeOK, Phases
  <1>4. CASE OnHigherHead(h)
    BY <1>1, <1>4 DEF OnHigherHead, chainVars, resVars, ReconcilerTypeOK, Phases, Rows
  <1>5. CASE OnLowerHead(h)
    BY <1>1, <1>5 DEF OnLowerHead, chainVars, resVars, ReconcilerTypeOK, Phases
  <1>. QED BY <1>2, <1>3, <1>4, <1>5 DEF OnHead, OnFirstHead

\* The steps of a call after OnHead, and the end of it.
LEMMA CallTypes ==
    ASSUME ReconcilerTypeOK, phase \in {"forward", "walk"} => head \in Block,
           \/ \E b \in Block : ReconcileAnswer(b)
           \/ ReconcileLocal \/ FetchFails \/ Return
    PROVE  ReconcilerTypeOK' /\ head' = head
  <1>1. EmptyRows \in Rows
    BY DEF EmptyRows, Rows
  <1>2. ASSUME NEW b \in Block, ForwardExtend(b) \/ WalkFetch(b)
        PROVE  ReconcilerTypeOK' /\ head' = head
    <2>1. Num[b] \in Heights
      BY BlockTreeAssumption
    <2>2. [path EXCEPT ![Num[b]] = b] \in Rows
      BY <2>1 DEF ReconcilerTypeOK, Rows
    <2>. QED
      BY <1>2, <2>2 DEF ForwardExtend, WalkFetch, chainVars, resVars, ReconcilerTypeOK
  <1>3. ASSUME head \in Block, StartWalk
        PROVE  ReconcilerTypeOK' /\ head' = head
    BY <1>3, JustIsChain DEF StartWalk, chainVars, resVars, ReconcilerTypeOK, Phases
  <1>4. CASE GiveUp \/ Return
    BY <1>1, <1>4 DEF GiveUp, Return, chainVars, resVars, ReconcilerTypeOK, Phases
  <1>5. CASE ForwardDone
    <2>1. head \in Block
      BY <1>5 DEF ForwardDone, AtHead
    <2>2. [path EXCEPT ![Num[head]] = head] \in Rows /\ known \in Rows
      BY <2>1, BlockTreeAssumption DEF ReconcilerTypeOK, Rows
    <2>. QED BY <1>1, <1>5, <2>1, <2>2, RecordTypes DEF ForwardDone
  <1>6. ASSUME NEW ancestor, phase = "walk", Switch(ancestor)
        PROVE  ReconcilerTypeOK' /\ head' = head
    <2>1. Survivors(ancestor) \in Rows /\ Orphans(ancestor) \in Rows /\ path \in Rows
      BY DEF Survivors, Orphans, ReconcilerTypeOK, Rows
    <2>. QED BY <1>6, <2>1, RecordTypes DEF Switch
  <1>. QED
    BY <1>2, <1>3, <1>4, <1>5, <1>6
       DEF ReconcileAnswer, ReconcileLocal, FetchFails, ForwardMismatch, ForwardAsks,
           ForwardHeadMismatch, AtHead, WalkShifted, WalkMeets, WalkFloor, WalkGenesis

\* What the types need: a call under way has a head, a loop has work left.
TypeInv ==
    /\ TypeOK
    /\ phase \in {"forward", "walk"} => head \in Block
    /\ stage = "remember" <=> toRemember # {}
    /\ stage \in {"remember", "deliver", "save"} => emit # {}

\* Every step of the tracker, a crash included, keeps the types.
LEMMA TypeStep == TypeInv /\ [Next]_vars => TypeInv'
  <1> SUFFICES ASSUME TypeInv, [Next]_vars PROVE TypeInv'
    OBVIOUS
  <1>0. TypeOK /\ ReconcilerTypeOK /\ EmptyRows \in Rows /\ 0 \in Heights
    BY BlockTreeAssumption DEF TypeInv, TypeOK, EmptyRows, Rows
  <1>1. CASE SeedFromStorage
    <2> DEFINE rows == LoadRecentBlocks(MinBlock)
    <2>1. rows \in Rows
      BY <1>0 DEF LoadRecentBlocks, TypeOK, Rows
    <2>. HIDE DEF rows
    <2>2. TopOf(rows) \in Heights /\ Prune(rows, TopOf(rows)) \in Rows
      BY <2>1, TopOfType DEF Prune, Rows
    <2>3. LoadKnown(rows)
      BY <1>1 DEF SeedFromStorage, rows
    <2>4. (rows # EmptyRows) \in BOOLEAN
      OBVIOUS
    <2>5. ReconcilerTypeOK' /\ phase' = phase /\ head' = head
      BY <1>0, <2>2, <2>3, <2>4 DEF LoadKnown, callVars, resVars, ReconcilerTypeOK
    <2>. QED
      BY <1>0, <1>1, <2>5 DEF TypeInv, TypeOK, SeedFromStorage, storeVars, Stages
  <1>2. CASE StartUnseeded
    BY <1>2 DEF TypeInv, TypeOK, ReconcilerTypeOK, StartUnseeded, recVars, storeVars, Stages
  <1>3. ASSUME NEW h \in Block, PollHead(h) PROVE TypeInv'
    BY <1>0, <1>3, OnHeadTypes DEF TypeInv, TypeOK, PollHead, storeVars, Stages
  <1>4. CASE \/ Reconcile(ReconcileLocal) \/ Reconcile(FetchFails)
             \/ \E b \in Block : Reconcile(ReconcileAnswer(b))
    <2>1. /\ ReconcileLocal \/ FetchFails \/ \E b \in Block : ReconcileAnswer(b)
          /\ stage = "reconcile"
          /\ stage' = IF phase' = "idle" THEN "poll" ELSE "reconcile"
          /\ UNCHANGED <<pending, toRevert, emit, toRemember, storeVars, view, crashes>>
      BY <1>4 DEF Reconcile
    <2>2. phase \in {"forward", "walk"}
      BY <2>1 DEF ReconcileLocal, ForwardHeadMismatch, ForwardDone, AtHead, WalkMeets, WalkFloor,
                  WalkGenesis, FetchFails, ForwardAsks, WalkAsks, ReconcileAnswer,
                  ForwardExtend, ForwardMismatch, WalkFetch, WalkShifted
    <2>3. head \in Block
      BY <2>2 DEF TypeInv
    <2>4. ReconcilerTypeOK' /\ head' = head
      BY <1>0, <2>1, <2>3, CallTypes
    <2>. QED BY <1>0, <2>1, <2>3, <2>4 DEF TypeInv, TypeOK, storeVars, Stages
  <1>5. CASE TakeResult
    <2>1. Return
      BY <1>5 DEF TakeResult
    <2>2. ReconcilerTypeOK' /\ head' = head
      BY <1>0, <2>1, CallTypes DEF TypeInv
    <2>3. BlocksOf(canonical) \subseteq Block /\ BlocksOf(reverted) \subseteq Block
      BY <1>0 DEF ReconcilerTypeOK, BlocksOf, Rows
    <2>4. phase' = "idle"
      BY <2>1 DEF Return
    <2>. QED
      BY <1>0, <1>5, <2>2, <2>3, <2>4 DEF TakeResult, TypeInv, TypeOK, storeVars, Stages
  <1>6. ASSUME UNCHANGED recVars
        PROVE  ReconcilerTypeOK' /\ head' = head /\ phase' = phase
    BY <1>0, <1>6 DEF ReconcilerTypeOK, recVars
  <1>7. CASE OnReverted
    BY <1>0, <1>6, <1>7 DEF OnReverted, TypeInv, TypeOK, storeVars, Stages
  <1>8. CASE SplitPending
    BY <1>0, <1>6, <1>8 DEF SplitPending, TypeInv, TypeOK, storeVars, Stages
  <1>9. ASSUME NEW ok, RememberBlock(ok) PROVE TypeInv'
    <2> DEFINE b == Lowest(toRemember)
    <2>1. b \in toRemember /\ toRemember \subseteq emit /\ emit \subseteq Block
      BY <1>9, LowestHighest DEF RememberBlock, TypeInv, TypeOK
    <2>2. Upsert(blocks, b) \in Rows
      BY <1>0, <2>1, BlockTreeAssumption DEF Upsert, TypeOK, Rows
    <2>. HIDE DEF b
    <2>3. /\ stage = "remember"
          /\ blocks' = IF ok THEN Upsert(blocks, b) ELSE blocks
          /\ toRemember' = toRemember \ {b}
          /\ stage' = IF toRemember = {b} THEN "deliver" ELSE "remember"
          /\ UNCHANGED <<recVars, pending, toRevert, emit, saved, view, crashes>>
      BY <1>9 DEF RememberBlock, b
    <2>4. blocks' \in Rows
      BY <1>0, <2>2, <2>3 DEF TypeOK
    <2>5. stage' = "remember" <=> toRemember' # {}
      BY <2>1, <2>3
    <2>. QED
      BY <1>0, <1>6, <2>1, <2>3, <2>4, <2>5 DEF TypeInv, TypeOK, Stages
  <1>10. CASE OnCanonicalBatch
    BY <1>0, <1>6, <1>10 DEF OnCanonicalBatch, TypeInv, TypeOK, storeVars, Stages
  <1>11. ASSUME NEW ok, SaveCursor(ok) PROVE TypeInv'
    <2>1. Highest(emit) \in Block
      BY <1>0, <1>11, LowestHighest DEF SaveCursor, TypeInv, TypeOK
    <2>. QED BY <1>0, <1>6, <1>11, <2>1 DEF SaveCursor, TypeInv, TypeOK, Stages
  <1>12. CASE Crash
    <2>1. ReconcilerTypeOK'
      BY <1>0, <1>12 DEF Crash, ReconcilerTypeOK, Phases
    <2>2. crashes' \in 0..MaxCrashes
      BY <1>0, <1>12, TrackerAssumption DEF Crash, TypeOK
    <2>. QED BY <1>0, <1>12, <2>1, <2>2 DEF Crash, TypeInv, TypeOK, storeVars, Stages
  <1>13. CASE UNCHANGED vars
    BY <1>0, <1>6, <1>13 DEF vars, pollVars, storeVars, TypeInv, TypeOK
  <1>. QED
    BY <1>1, <1>2, <1>3, <1>4, <1>5, <1>7, <1>8, <1>9, <1>10, <1>11, <1>12, <1>13
       DEF Next, TrackerStep

\* The start.
LEMMA TypeAtStart == Init => TypeInv
  <1> SUFFICES ASSUME Init PROVE TypeInv
    OBVIOUS
  <1>1. ReconcilerTypeOK
    BY InitInv DEF Init, ReconcilerInv
  <1>2. EmptyRows \in Rows /\ MaxCrashes \in Nat
    BY TrackerAssumption DEF EmptyRows, Rows
  <1>3. phase = "idle"
    BY DEF Init, ReconcilerInit
  <1>. QED BY <1>1, <1>2, <1>3 DEF Init, TypeInv, TypeOK, Stages

\* A run that has not died has not died before.
LEMMA CrashesCount ==
    ASSUME TypeInv, [Next]_vars, crashes' = 0
    PROVE  crashes = 0
  <1>1. crashes \in Nat
    BY TrackerAssumption DEF TypeInv, TypeOK
  <1>2. CASE Crash
    BY <1>1, <1>2 DEF Crash
  <1>3. CASE Next /\ ~Crash
    BY <1>3 DEF Next, TrackerStep, SeedFromStorage, StartUnseeded, PollHead, Reconcile,
                TakeResult, OnReverted, SplitPending, RememberBlock, OnCanonicalBatch, SaveCursor
  <1>. QED BY <1>2, <1>3 DEF vars

\* HeadTracker.Run keeps the types of its fields and of the two tables, whatever
\* the endpoints and the store answer and whenever the process dies.
THEOREM TrackerTypeCorrect == Spec => []TypeOK
  <1>1. TypeInv => TypeOK
    BY DEF TypeInv
  <1>. QED BY <1>1, TypeAtStart, TypeStep, PTL DEF Spec

------------------------------------------------------------------------------
(* The stages of pollOnce.                                                 *)

\* What holds between two steps of pollOnce, whatever they did to the blocks.
StageInv ==
    /\ stage = "reconcile" <=> phase # "idle"
    /\ stage # "revert" => toRevert = {}
    /\ stage = "boot" => ~seeded /\ saved = NoBlock
    /\ stage \in {"revert", "remember", "deliver"} \/ phase = "done" =>
         head \in Block /\ known[Num[head]] = head
    /\ stage \in {"remember", "deliver"} => \A b \in emit : Num[b] <= Threshold(head)

\* The first run of the process.
Running == crashes = 0 /\ TypeInv /\ ReconcilerInv /\ StageInv

\* How a call of OnHead that is not finished yet goes on: it fetches or gives
\* up, it knew the head, or it switches.
CallGoesOn ==
    /\ phase # "done"
    /\ \/ phase' # "done" /\ UNCHANGED chainVars
       \/ /\ phase' = "done" /\ UNCHANGED chainVars
          /\ canonical' = EmptyRows /\ reverted' = EmptyRows
          /\ head' \in Block /\ known[Num[head']] = head'
       \/ phase' = "done" /\ \E foot \in Heights : SwitchAt(foot)

\* A step of pollOnce up to the result of OnHead.
CallStep ==
    /\ stage \in {"poll", "reconcile"}
    /\ CallGoesOn
    /\ stage' = IF phase' = "idle" THEN "poll" ELSE "reconcile"
    /\ UNCHANGED <<pending, toRevert, emit, toRemember, storeVars, view, crashes>>

\* The steps that leave the reconciler alone.
OwnStep ==
    /\ UNCHANGED recVars
    /\ \/ StartUnseeded
       \/ OnReverted
       \/ SplitPending
       \/ \E ok \in StoreAnswers : RememberBlock(ok)
       \/ OnCanonicalBatch
       \/ \E ok \in StoreAnswers : SaveCursor(ok)
       \/ UNCHANGED vars

\* Every step inside OnHead goes on in one of these ways (reorg.go, OnHead,
\* applyForward and handleReorg).
LEMMA EveryCallGoesOn ==
    ASSUME ReconcilerInv,
           \/ \E h \in Block : OnHead(h)
           \/ \E b \in Block : ReconcileAnswer(b)
           \/ ReconcileLocal \/ FetchFails
    PROVE  CallGoesOn
  <1>1. ASSUME NEW h \in Block, OnFirstHead(h) PROVE CallGoesOn
    BY <1>1, FirstSwitches DEF CallGoesOn, OnFirstHead, Answer
  <1>2. ASSUME NEW h \in Block, OnKnownHead(h) PROVE CallGoesOn
    BY <1>2 DEF CallGoesOn, OnKnownHead, Answer
  <1>3. ASSUME NEW h \in Block, OnHigherHead(h) \/ OnLowerHead(h) PROVE CallGoesOn
    BY <1>3 DEF CallGoesOn, OnHigherHead, OnLowerHead
  <1>4. ASSUME NEW b \in Block, ReconcileAnswer(b) PROVE CallGoesOn
    BY <1>4 DEF CallGoesOn, ReconcileAnswer, ForwardExtend, ForwardMismatch, WalkFetch,
                WalkShifted, StartWalk, GiveUp, ForwardAsks, WalkAsks
  <1>5. CASE FetchFails
    BY <1>5 DEF CallGoesOn, FetchFails, GiveUp, ForwardAsks, WalkAsks
  <1>6. CASE ForwardHeadMismatch
    BY <1>6 DEF CallGoesOn, ForwardHeadMismatch, AtHead, StartWalk
  <1>7. CASE ForwardDone
    BY <1>7, ForwardSwitches DEF CallGoesOn, ForwardDone, AtHead, Answer
  <1>8. CASE WalkMeets \/ WalkFloor \/ WalkGenesis
    BY <1>8, WalkSwitches DEF CallGoesOn, WalkMeets, WalkFloor, WalkGenesis, Switch, Answer
  <1>. QED BY <1>1, <1>2, <1>3, <1>4, <1>5, <1>6, <1>7, <1>8 DEF OnHead, ReconcileLocal

\* As long as the process does not die, a step goes on with the call, takes its
\* result or leaves the reconciler alone: there is no cursor to start from, and
\* the reconciler keeps its invariant.
LEMMA RunSteps ==
    ASSUME Running, crashes' = 0, [Next]_vars
    PROVE  ReconcilerInv' /\ (CallStep \/ TakeResult \/ OwnStep)
  <1>0. ReconcilerInv /\ StageInv /\ crashes = 0
    BY DEF Running
  <1>1. ~SeedFromStorage /\ ~Crash
    BY <1>0 DEF StageInv, SeedFromStorage, CursorFound, Crash
  <1>2. ASSUME NEW h \in Block, PollHead(h) PROVE ReconcilerInv' /\ CallStep
    <2>1. phase' # "idle"
      BY <1>2 DEF PollHead, OnHead, OnFirstHead, OnKnownHead, OnHigherHead, OnLowerHead, Answer
    <2>2. CallGoesOn /\ ReconcilerInv'
      BY <1>0, <1>2, EveryCallGoesOn, OnHeadKeepsInv DEF PollHead
    <2>. QED BY <1>2, <2>1, <2>2 DEF PollHead, CallStep
  <1>3. ASSUME \/ Reconcile(ReconcileLocal) \/ Reconcile(FetchFails)
               \/ \E b \in Block : Reconcile(ReconcileAnswer(b))
        PROVE  ReconcilerInv' /\ CallStep
    <2>1. /\ ReconcileLocal \/ FetchFails \/ \E b \in Block : ReconcileAnswer(b)
          /\ stage = "reconcile"
          /\ stage' = IF phase' = "idle" THEN "poll" ELSE "reconcile"
          /\ UNCHANGED <<pending, toRevert, emit, toRemember, storeVars, view, crashes>>
      BY <1>3 DEF Reconcile
    <2>2. ReconcilerInv'
      BY <1>0, <2>1, NextKeepsInv DEF ReconcilerNext
    <2>3. CallGoesOn
      BY <1>0, <2>1, EveryCallGoesOn
    <2>. QED BY <2>1, <2>2, <2>3 DEF CallStep
  <1>4. CASE TakeResult
    BY <1>0, <1>4, EndKeepsInv DEF TakeResult
  <1>5. ASSUME UNCHANGED recVars PROVE ReconcilerInv'
    BY <1>0, <1>5, NextKeepsInv
  <1>6. ASSUME \/ StartUnseeded \/ OnReverted \/ SplitPending \/ OnCanonicalBatch
               \/ \E ok \in StoreAnswers : RememberBlock(ok)
               \/ \E ok \in StoreAnswers : SaveCursor(ok)
               \/ UNCHANGED vars
        PROVE  ReconcilerInv' /\ OwnStep
    <2>1. UNCHANGED recVars
      BY <1>6 DEF StartUnseeded, OnReverted, SplitPending, OnCanonicalBatch, RememberBlock,
                  SaveCursor, vars
    <2>. QED BY <1>5, <1>6, <2>1 DEF OwnStep
  <1>. QED BY <1>1, <1>2, <1>3, <1>4, <1>6 DEF Next, TrackerStep

\* The head of a switch is known afterwards.
LEMMA SwitchKnowsHead ==
    ASSUME ReconcilerInv, ReconcilerInv', NEW foot \in Heights, SwitchAt(foot)
    PROVE  head' \in Block /\ known'[Num[head']] = head'
  <1>1. head' \in Block /\ seeded' /\ known' \in Rows /\ KnownIsHashChain'
    BY DEF SwitchAt, ReconcilerInv, ReconcilerTypeOK
  <1>2. FiledByNumber(known')
    BY <1>1 DEF KnownIsHashChain, IsHashChain, FiledByNumber
  <1>3. head' \in BlocksOf(known')
    BY SwitchSets DEF SwitchOf
  <1>. QED BY <1>1, <1>2, <1>3, InBlocksOf

\* The stages of one run of the process.
LEMMA StageStep ==
    ASSUME Running, TypeInv', crashes' = 0, [Next]_vars
    PROVE  Running'
  <1>0. ReconcilerInv /\ ReconcilerInv' /\ StageInv /\ TypeInv /\ TypeOK
    BY RunSteps DEF Running, TypeInv
  <1>1. CASE CallStep
    <2>1. phase' = "done" => head' \in Block /\ known'[Num[head']] = head'
      BY <1>0, <1>1, SwitchKnowsHead DEF CallStep, CallGoesOn, chainVars
    <2>2. StageInv'
      BY <1>0, <1>1, <2>1 DEF CallStep, StageInv, storeVars
    <2>. QED BY <1>0, <2>2 DEF Running
  <1>2. CASE TakeResult
    <2>1. /\ phase = "done" /\ phase' = "idle" /\ known' = known /\ head' = head
          /\ stage = "reconcile" /\ stage' = "revert"
      BY <1>2 DEF TakeResult, Return, chainVars
    <2>2. StageInv'
      BY <1>0, <2>1 DEF StageInv
    <2>. QED BY <1>0, <2>2 DEF Running
  <1>3. CASE OwnStep
    <2>1. /\ known' = known /\ head' = head /\ phase' = phase /\ seeded' = seeded
      BY <1>3 DEF OwnStep, recVars
    <2>3. Threshold(head)' = Threshold(head)
      BY <2>1 DEF Threshold
    <2>4. ASSUME StartUnseeded \/ OnReverted PROVE StageInv'
      BY <1>0, <2>1, <2>3, <2>4 DEF StartUnseeded, OnReverted, StageInv
    <2>5. ASSUME SplitPending PROVE StageInv'
      BY <1>0, <2>1, <2>3, <2>5 DEF SplitPending, StageInv
    <2>6. ASSUME NEW ok, RememberBlock(ok) PROVE StageInv'
      BY <1>0, <2>1, <2>3, <2>6 DEF RememberBlock, StageInv
    <2>7. ASSUME OnCanonicalBatch PROVE StageInv'
      BY <1>0, <2>1, <2>3, <2>7 DEF OnCanonicalBatch, StageInv
    <2>8. ASSUME NEW ok, SaveCursor(ok) PROVE StageInv'
      BY <1>0, <2>1, <2>3, <2>8 DEF SaveCursor, StageInv
    <2>9. ASSUME UNCHANGED vars PROVE StageInv'
      BY <1>0, <2>1, <2>3, <2>9 DEF vars, pollVars, storeVars, StageInv
    <2>10. StageInv'
      BY <1>3, <2>4, <2>5, <2>6, <2>7, <2>8, <2>9 DEF OwnStep
    <2>. QED BY <1>0, <2>10 DEF Running
  <1>. QED BY <1>1, <1>2, <1>3, RunSteps

------------------------------------------------------------------------------
(* The chain the tracker follows.                                          *)

\* Known, and not handed over: the buffer, with the result of OnHead if it was
\* not taken yet.
Held ==
    IF phase = "done" THEN (pending \cup BlocksOf(canonical)) \ BlocksOf(reverted) ELSE pending

\* Handed over, and about to be reverted.
Leaving ==
    IF phase = "done" THEN BlocksOf(reverted) \ (pending \cup BlocksOf(canonical)) ELSE toRevert

\* The batch, between the split of the buffer and the callback.
InFlight == IF stage \in {"remember", "deliver"} THEN emit ELSE {}

\* What the pipeline has and will keep, and the whole chain.
Told == view \ Leaving
Followed == Told \cup Held \cup InFlight

\* The effect of a step on these sets.
SetsStay == UNCHANGED <<view, Held, Leaving, InFlight>>

\* The result of OnHead is being worked off.
Taking == stage = "revert" \/ phase = "done"

\* Nothing of that changes.
QuietStep ==
    /\ SetsStay
    /\ Taking => Taking' /\ head' = head
    /\ UNCHANGED chainVars

\* TakeResult: a switch.
SwitchStep ==
    /\ Leaving = {} /\ InFlight = {} /\ InFlight' = {} /\ view' = view
    /\ ~Taking /\ Taking' /\ Held = pending
    /\ Held' = (Held \cup BlocksOf(canonical')) \ BlocksOf(reverted')
    /\ Leaving' = BlocksOf(reverted') \ (Held \cup BlocksOf(canonical'))
    /\ \E foot \in Heights : SwitchAt(foot)

\* OnReverted for one block.
RevertStep ==
    /\ \E b \in Leaving : view' = view \ {b} /\ Leaving' = Leaving \ {b}
    /\ Taking /\ Taking' /\ head' = head
    /\ UNCHANGED <<Held, InFlight, chainVars>>

\* splitPending: what is deep enough is in flight.
SplitStep ==
    /\ Leaving = {} /\ Leaving' = {} /\ InFlight = {} /\ view' = view
    /\ Taking /\ ~Taking'
    /\ InFlight' = {b \in Held : Num[b] <= Threshold(head)}
    /\ Held' = Held \ InFlight'
    /\ UNCHANGED chainVars

\* OnCanonicalBatch.
DeliverStep ==
    /\ Leaving = {} /\ Leaving' = {} /\ InFlight' = {} /\ InFlight # {}
    /\ view' = view \cup InFlight /\ ~Taking
    /\ UNCHANGED <<Held, chainVars>>

\* Every step of one run has one of these effects: the buffer, the callbacks and
\* the store change nothing in the chain that is followed.
LEMMA Effects ==
    ASSUME Running, Running', [Next]_vars
    PROVE  \/ QuietStep
           \/ SwitchStep
           \/ RevertStep
           \/ SplitStep
           \/ DeliverStep
  <1>0. StageInv /\ StageInv' /\ TypeInv /\ TypeOK /\ crashes' = 0
    BY DEF Running, TypeInv
  <1>1. BlocksOf(EmptyRows) = {}
    BY BlockTreeAssumption DEF BlocksOf, EmptyRows
  <1>2. CASE CallStep
    <2>1. /\ Leaving = {} /\ InFlight = {} /\ InFlight' = {} /\ view' = view
          /\ stage # "revert" /\ phase # "done" /\ Held = pending
          /\ pending' = pending /\ toRevert' = {}
      BY <1>0, <1>2 DEF CallStep, CallGoesOn, StageInv, Leaving, InFlight, Held
    <2>2. CASE phase' # "done" /\ UNCHANGED chainVars
      BY <2>1, <2>2 DEF QuietStep, SetsStay, Taking, Held, Leaving
    <2>3. CASE phase' = "done" /\ UNCHANGED chainVars
               /\ canonical' = EmptyRows /\ reverted' = EmptyRows
      BY <1>1, <2>1, <2>3 DEF QuietStep, SetsStay, Taking, Held, Leaving
    <2>4. CASE phase' = "done" /\ \E foot \in Heights : SwitchAt(foot)
      <3>1. /\ Held' = (Held \cup BlocksOf(canonical')) \ BlocksOf(reverted')
            /\ Leaving' = BlocksOf(reverted') \ (Held \cup BlocksOf(canonical'))
        BY <2>1, <2>4 DEF Held, Leaving, BlocksOf
      <3>. QED BY <2>1, <2>4, <3>1 DEF SwitchStep, Taking
    <2>. QED BY <1>2, <2>2, <2>3, <2>4 DEF CallStep, CallGoesOn
  <1>3. CASE TakeResult
    <2>1. /\ phase = "done" /\ phase' = "idle" /\ UNCHANGED chainVars
          /\ stage = "reconcile" /\ stage' = "revert" /\ view' = view /\ head' = head
          /\ pending' = (pending \cup BlocksOf(canonical)) \ BlocksOf(reverted)
          /\ toRevert' = BlocksOf(reverted) \ (pending \cup BlocksOf(canonical))
      BY <1>3 DEF TakeResult, Return
    <2>. QED BY <2>1 DEF QuietStep, SetsStay, Taking, Held, Leaving, InFlight
  <1>4. CASE OwnStep
    <2>1. UNCHANGED chainVars /\ phase' = phase /\ head' = head
      BY <1>4 DEF OwnStep, recVars, chainVars
    <2>2. CASE StartUnseeded
      BY <1>0, <2>1, <2>2
         DEF StartUnseeded, StageInv, QuietStep, SetsStay, Taking, Held, Leaving, InFlight
    <2>3. CASE OnReverted
      <3> DEFINE b == Lowest(toRevert)
      <3>1. b \in toRevert
        BY <1>0, <2>3, LowestHighest DEF OnReverted, TypeOK
      <3>. HIDE DEF b
      <3>2. /\ toRevert' = toRevert \ {b} /\ view' = view \ {b} /\ stage = "revert"
            /\ stage' = stage /\ pending' = pending
        BY <2>3 DEF OnReverted, b
      <3>3. phase = "idle"
        BY <1>0, <3>2 DEF StageInv
      <3>4. Held' = Held /\ InFlight' = InFlight /\ Leaving = toRevert /\ Leaving' = toRevert'
        BY <2>1, <3>2, <3>3 DEF Held, InFlight, Leaving
      <3>. QED BY <2>1, <3>1, <3>2, <3>4 DEF RevertStep, Taking
    <2>4. CASE SplitPending
      <3>1. phase = "idle" /\ phase' = "idle"
        BY <1>0, <2>1, <2>4 DEF StageInv, SplitPending
      <3> DEFINE ready == {b \in pending : Num[b] <= Threshold(head)}
      <3>2. /\ stage = "revert" /\ toRevert = {} /\ emit' = ready /\ pending' = pending \ ready
            /\ stage' = IF ready = {} THEN "poll" ELSE "remember"
            /\ toRevert' = toRevert /\ view' = view
        BY <2>4 DEF SplitPending
      <3>. HIDE DEF ready
      <3>3. /\ Held = pending /\ Held' = pending' /\ Leaving = {} /\ Leaving' = {}
            /\ InFlight = {} /\ InFlight' = ready
        BY <3>1, <3>2 DEF Held, Leaving, InFlight
      <3>. QED BY <2>1, <3>1, <3>2, <3>3 DEF SplitStep, Taking, ready
    <2>5. ASSUME NEW ok, RememberBlock(ok) PROVE QuietStep
      BY <1>0, <2>1, <2>5
         DEF RememberBlock, StageInv, QuietStep, SetsStay, Taking, Held, Leaving, InFlight
    <2>6. CASE OnCanonicalBatch
      <3>1. phase = "idle" /\ toRevert = {} /\ emit # {}
        BY <1>0, <2>6 DEF StageInv, TypeInv, OnCanonicalBatch
      <3>. QED BY <2>1, <2>6, <3>1 DEF OnCanonicalBatch, DeliverStep, Taking, Held, Leaving, InFlight
    <2>7. ASSUME NEW ok, SaveCursor(ok) PROVE QuietStep
      BY <1>0, <2>1, <2>7
         DEF SaveCursor, StageInv, QuietStep, SetsStay, Taking, Held, Leaving, InFlight
    <2>8. CASE UNCHANGED vars
      BY <2>1, <2>8 DEF vars, recVars, pollVars, QuietStep, SetsStay, Taking, Held, Leaving, InFlight
    <2>. QED BY <1>4, <2>2, <2>3, <2>4, <2>5, <2>6, <2>7, <2>8 DEF OwnStep
  <1>. QED BY <1>0, <1>2, <1>3, <1>4, RunSteps

\* The blocks of these sets are blocks.
LEMMA FollowedType ==
    ASSUME TypeOK
    PROVE  /\ Held \subseteq Block /\ Leaving \subseteq Block /\ InFlight \subseteq Block
           /\ Told \subseteq Block /\ Followed \subseteq Block /\ view \subseteq Block
           /\ \A b \in Block : Num[b] \in Heights /\ b # NoBlock
           /\ MaxHeight \in Nat
  <1>1. /\ BlocksOf(canonical) \subseteq Block /\ BlocksOf(reverted) \subseteq Block
    BY DEF BlocksOf
  <1>2. Held \subseteq Block /\ Leaving \subseteq Block /\ InFlight \subseteq Block /\ view \subseteq Block
    BY <1>1 DEF Held, Leaving, InFlight, TypeOK
  <1>3. Told \subseteq Block /\ Followed \subseteq Block
    BY <1>2 DEF Told, Followed
  <1>. QED BY <1>2, <1>3, BlockTreeAssumption

------------------------------------------------------------------------------
(* What is reverted was handed over, and what is known is followed.        *)

\* What is reverted was handed over, and what is known is followed.
RevertInv == Leaving \subseteq view /\ BlocksOf(known) \subseteq Followed

\* Every step keeps that.
LEMMA RevertInvStep ==
    ASSUME Running, Running', [Next]_vars, RevertInv
    PROVE  RevertInv'
  <1> DEFINE K == BlocksOf(known)
  <1>1. UNCHANGED chainVars => BlocksOf(known') = K
    BY DEF chainVars
  <1>2. BlocksOf(known') = BlocksOf(known)'
    BY DEF BlocksOf
  <1>3. Leaving \subseteq view /\ K \subseteq (view \ Leaving) \cup Held \cup InFlight
    BY DEF RevertInv, Followed, Told
  <1>4. SUFFICES /\ Leaving' \subseteq view'
                 /\ BlocksOf(known') \subseteq (view' \ Leaving') \cup Held' \cup InFlight'
    BY <1>2 DEF RevertInv, Followed, Told
  <1>. HIDE DEF K
  <1>5. CASE QuietStep
    BY <1>1, <1>3, <1>5 DEF QuietStep, SetsStay
  <1>6. CASE SwitchStep
    <2>1. PICK foot \in Heights : SwitchAt(foot)
      BY <1>6 DEF SwitchStep
    <2> DEFINE N == BlocksOf(canonical')
               R == BlocksOf(reverted')
    <2>2. SwitchOf(K, BlocksOf(known'), N, R, foot, head')
      BY <2>1, SwitchSets DEF Running, K
    <2>3. R \subseteq K /\ N \cap K = {} /\ BlocksOf(known') \subseteq (K \ R) \cup N
      BY <2>2 DEF SwitchOf
    <2>4. /\ Leaving = {} /\ InFlight = {} /\ InFlight' = {} /\ view' = view
          /\ Held' = (Held \cup N) \ R /\ Leaving' = R \ (Held \cup N)
      BY <1>6 DEF SwitchStep
    <2>. HIDE DEF N, R
    <2>. QED BY <1>3, <2>3, <2>4
  <1>7. CASE RevertStep
    BY <1>1, <1>3, <1>7 DEF RevertStep
  <1>8. CASE SplitStep
    BY <1>1, <1>3, <1>8 DEF SplitStep
  <1>9. CASE DeliverStep
    BY <1>1, <1>3, <1>9 DEF DeliverStep
  <1>. QED BY <1>5, <1>6, <1>7, <1>8, <1>9, Effects

\* One run of the process from its start.
RunInv == crashes = 0 => Running /\ RevertInv

\* It holds in one run of the process.
LEMMA RunInvHolds == Spec => [](TypeInv /\ RunInv)
  <1>1. Init => TypeInv /\ RunInv
    <2> SUFFICES ASSUME Init PROVE TypeInv /\ RunInv
      OBVIOUS
    <2>1. TypeInv
      BY TypeAtStart
    <2>2. ReconcilerInv
      BY InitInv DEF Init
    <2>3. /\ stage = "boot" /\ phase = "idle" /\ toRevert = {} /\ ~seeded /\ saved = NoBlock
          /\ known = EmptyRows /\ toRevert = {} /\ view = {}
      BY DEF Init, ReconcilerInit
    <2>4. StageInv
      BY <2>3 DEF StageInv
    <2>5. BlocksOf(known) = {}
      BY <2>3, BlockTreeAssumption DEF BlocksOf, EmptyRows
    <2>6. RevertInv
      BY <2>3, <2>5 DEF RevertInv, Leaving
    <2>. QED BY <2>1, <2>2, <2>4, <2>6 DEF RunInv, Running
  <1>2. TypeInv /\ RunInv /\ [Next]_vars => (TypeInv /\ RunInv)'
    <2> SUFFICES ASSUME TypeInv, RunInv, [Next]_vars, crashes' = 0
                 PROVE  Running' /\ RevertInv'
      BY TypeStep DEF RunInv
    <2>1. TypeInv'
      BY TypeStep
    <2>2. crashes = 0
      BY CrashesCount
    <2>. QED BY <2>1, <2>2, StageStep, RevertInvStep DEF RunInv
  <1>. QED BY <1>1, <1>2, PTL DEF Spec

\* OnReverted is called only for a block that was handed to the pipeline and not
\* reverted since: an orphan that was still held back stays silent
\* (tracker.go, pollOnce: the blocks removed from pending).
THEOREM RevertsWereDelivered == Spec => []RevertsOnlyDelivered
  <1>1. RunInv => RevertsOnlyDelivered
    <2> SUFFICES ASSUME RunInv, crashes = 0 PROVE toRevert \subseteq view
      BY DEF RevertsOnlyDelivered
    <2>1. StageInv /\ Leaving \subseteq view
      BY DEF RunInv, Running, RevertInv
    <2>. QED BY <2>1 DEF StageInv, Leaving
  <1>. QED BY <1>1, RunInvHolds, PTL

------------------------------------------------------------------------------
(* The followed chain, as long as no reorganisation leaves the window.     *)

\* The walk of handleReorg reaches the floor of the window only while all that
\* was handed over or is held back is still in the window: no reorganisation is
\* deeper than MaxDepth (reorg.go, the branch that takes the floor for the
\* common ancestor).
StaysInWindow ==
    phase = "walk" /\ (BelowWindow \/ AtGenesis) => view \cup pending \subseteq BlocksOf(known)

\* What is followed is one chain that ends at the tip.  What the pipeline has
\* lies under the batch it is given next, and that under what is held back.
EndsAtTip == (Followed # {} => seeded) /\ ReachesTo(Followed, tip)

\* What was told lies under what is in flight, and that under what is held back.
InLayers == Under(Told \cup InFlight, Held) /\ Under(Told, InFlight)

\* What is followed is a chain, in these layers.
ChainInv ==
    /\ Feed!OneChain(Followed)
    /\ EndsAtTip
    /\ InLayers
    /\ Leaving \cap Followed = {}

\* A switch replaces the part of the followed chain from its foot on.
LEMMA ChainInvSwitch ==
    ASSUME Running, Running', RevertInv, ChainInv, StaysInWindow, SwitchStep
    PROVE  /\ ChainInv'
           /\ Followed' = (Followed \ BlocksOf(reverted')) \cup BlocksOf(canonical')
  <1> DEFINE K == BlocksOf(known)
             N == BlocksOf(canonical')
             R == BlocksOf(reverted')
             D == (Followed \ R) \cup N
             h == head'
  <1>1. PICK foot \in Heights : SwitchAt(foot)
    BY DEF SwitchStep
  <1>2. SwitchOf(K, BlocksOf(known'), N, R, foot, h)
    BY <1>1, SwitchSets DEF Running
  <1>3. TypeOK /\ ReconcilerInv
    BY DEF Running, TypeInv
  <1>4. /\ Followed \in SUBSET Block /\ Held \subseteq Block /\ view \subseteq Block
        /\ \A b \in Block : Num[b] \in Heights /\ b # NoBlock
        /\ MaxHeight \in Nat
    BY <1>3, FollowedType
  <1>5. /\ Leaving = {} /\ InFlight = {} /\ InFlight' = {} /\ view' = view /\ Held = pending
        /\ Held' = (Held \cup N) \ R /\ Leaving' = R \ (Held \cup N)
    BY DEF SwitchStep
  <1>6. Followed = view \cup Held /\ K \subseteq Followed
    BY <1>5 DEF Followed, Told, RevertInv
  <1>7. known \in Rows /\ tip \in Heights /\ FiledByNumber(known)
    <2>1. FiledByNumber(EmptyRows)
      BY DEF FiledByNumber, EmptyRows
    <2>. QED BY <1>3, <2>1
                DEF ReconcilerInv, ReconcilerTypeOK, KnownIsHashChain, IsHashChain
  <1>8. \A b : b \in K <=> b \in Block /\ known[Num[b]] = b
    BY <1>7, InBlocksOf
  <1>9. /\ R = {b \in K : Num[b] >= foot} /\ N \cap K = {}
    BY <1>2 DEF SwitchOf
  <1>10. /\ \A b, c \in Followed : Num[b] = Num[c] => b = c
         /\ \A c \in Followed : seeded /\ Num[c] <= tip
         /\ \A c \in Followed : Num[c] < tip => \E d \in Followed : Parent[d] = c
         /\ \A c \in view, d \in Held : Num[c] < Num[d]
    BY <1>5 DEF ChainInv, EndsAtTip, InLayers, ReachesTo, Under, Feed!OneChain, Told
  <1>11. /\ \/ foot > 0 /\ known[foot - 1] # NoBlock
            \/ ~seeded
            \/ /\ phase = "walk" /\ (BelowWindow \/ AtGenesis)
               /\ \A n \in Heights : n < foot => known[n] = NoBlock
         /\ h \in Block /\ tip' = Num[h] /\ seeded' = TRUE
    BY <1>1 DEF SwitchAt
  <1>. HIDE DEF K, N, R, h
  <1>12. /\ \A c \in Followed : Num[c] >= foot => c \in K
         /\ \A c \in Followed \ R : \E k \in K : Num[k] = foot - 1
    <2>1. CASE foot > 0 /\ known[foot - 1] # NoBlock
      <3>1. foot - 1 \in Heights
        BY <1>4, <2>1
      <3>2. seeded /\ NoGaps(known, tip)
        BY <1>3, <2>1, <3>1 DEF ReconcilerInv, ReconcilerTypeOK, KnownIsHashChain, IsHashChain, EmptyRows
      <3>3. known[foot - 1] \in K /\ Num[known[foot - 1]] = foot - 1
        BY <1>7, <1>8, <2>1, <3>1 DEF FiledByNumber, Rows
      <3>4. ASSUME NEW c \in Followed, Num[c] >= foot PROVE c \in K
        <4>1. c \in Block /\ Num[c] \in Heights /\ Num[c] <= tip
          BY <1>4, <1>10
        <4>2. known[Num[c]] # NoBlock
          BY <1>7, <2>1, <3>1, <3>2, <3>4, <4>1 DEF NoGaps
        <4>3. known[Num[c]] \in K /\ Num[known[Num[c]]] = Num[c]
          BY <1>7, <1>8, <4>1, <4>2 DEF FiledByNumber, Rows
        <4>. QED BY <1>6, <1>10, <4>3
      <3>. QED BY <3>3, <3>4
    <2>2. CASE ~seeded
      BY <1>10, <2>2
    <2>3. CASE /\ phase = "walk" /\ (BelowWindow \/ AtGenesis)
               /\ \A n \in Heights : n < foot => known[n] = NoBlock
      <3>1. Followed \subseteq K
        BY <1>5, <1>6, <2>3 DEF StaysInWindow, K
      <3>2. \A k \in K : Num[k] >= foot
        BY <1>4, <1>8, <2>3
      <3>. QED BY <1>9, <3>1, <3>2
    <2>. QED BY <1>11, <2>1, <2>2, <2>3
  <1>13. Feed!OneChain(Followed)
    BY DEF ChainInv
  <1>14. Feed!OneChain(D) /\ ReachesTo(D, Num[h]) /\ Under(Followed \ R, N)
    <2>1. Carries(Followed, K, R, foot, tip)
      BY <1>4, <1>6, <1>10, <1>12, <1>13 DEF Carries, ReachesTo
    <2>2. tip \in Heights
      BY <1>7
    <2>. QED BY <1>2, <2>1, <2>2, SwitchFollowed
  <1>15. N \cap Followed = {} /\ view \cap Held = {}
    <2>1. \A c \in Followed : ~(Num[c] < Num[c])
      BY <1>4
    <2>2. N \cap R = {}
      BY <1>9
    <2>. QED BY <1>6, <1>10, <1>14, <2>1, <2>2 DEF Under
  <1>16. Told' = view \ R /\ Held' = (Held \ R) \cup N /\ Leaving' = R \ Held
    <2>1. Told' = view' \ Leaving'
      BY DEF Told
    <2>2. N \cap R = {}
      BY <1>9
    <2>. QED BY <1>5, <1>6, <1>15, <2>1, <2>2
  <1>17. Followed' = D
    <2>1. Followed' = Told' \cup Held' \cup InFlight'
      BY DEF Followed
    <2>. QED BY <1>5, <1>6, <1>16, <2>1
  <1>18. Feed!OneChain(Followed')
    BY <1>14, <1>17
  <1>19. EndsAtTip'
    BY <1>11, <1>14, <1>17 DEF EndsAtTip, ReachesTo, h
  <1>20. InLayers'
    BY <1>5, <1>6, <1>10, <1>14, <1>16 DEF InLayers, Under
  <1>21. Leaving' \cap Followed' = {}
    BY <1>5, <1>9, <1>15, <1>16, <1>17
  <1>22. ChainInv'
    BY <1>18, <1>19, <1>20, <1>21 DEF ChainInv, Feed!OneChain
  <1>. QED BY <1>17, <1>22 DEF N, R

\* The other steps move blocks between the layers and leave the chain alone.
LEMMA ChainInvOther ==
    ASSUME Running, RevertInv, ChainInv,
           QuietStep \/ RevertStep \/ SplitStep \/ DeliverStep
    PROVE  ChainInv' /\ Followed' = Followed
  <1>0. /\ Followed = (view \ Leaving) \cup Held \cup InFlight
        /\ Told = view \ Leaving /\ Told' = view' \ Leaving'
        /\ Followed' = Told' \cup Held' \cup InFlight'
        /\ Leaving \subseteq view
    BY DEF Followed, Told, RevertInv
  <1>1. /\ Leaving \cap Followed = {}
        /\ Under(Told \cup InFlight, Held) /\ Under(Told, InFlight)
    BY DEF ChainInv, InLayers
  <1>2. Held \subseteq Block /\ \A b \in Block : Num[b] \in Heights
    BY FollowedType DEF Running, TypeInv
  <1>3. ASSUME QuietStep \/ RevertStep
        PROVE  /\ Told' = Told /\ Held' = Held /\ InFlight' = InFlight
               /\ Leaving' \subseteq Leaving
    BY <1>0, <1>3 DEF QuietStep, SetsStay, RevertStep
  <1>4. /\ Followed' = Followed /\ Leaving' \subseteq Leaving
        /\ Under(Told' \cup InFlight', Held') /\ Under(Told', InFlight')
    <2>1. CASE QuietStep \/ RevertStep
      BY <1>0, <1>1, <1>3, <2>1
    <2>2. CASE SplitStep
      <3> DEFINE th == Threshold(head)
      <3>1. /\ Told' = Told /\ InFlight = {} /\ Leaving' \subseteq Leaving
            /\ InFlight' = {b \in Held : Num[b] <= th} /\ Held' = Held \ InFlight'
        BY <1>0, <2>2 DEF SplitStep
      <3>2. th \in Int
        <4>1. head \in Block
          BY <2>2 DEF SplitStep, Running, StageInv, Taking
        <4>. QED BY <1>2, <4>1, TrackerAssumption, BlockTreeAssumption DEF Threshold
      <3>. HIDE DEF th
      <3>3. Followed' = Followed
        BY <1>0, <3>1
      <3>4. \A c \in InFlight', d \in Held' : Num[c] < Num[d]
        BY <1>2, <3>1, <3>2, BlockTreeAssumption
      <3>. QED BY <1>1, <3>1, <3>3, <3>4 DEF Under
    <2>3. CASE DeliverStep
      <3>1. /\ Told' = Told \cup InFlight /\ InFlight' = {} /\ Held' = Held /\ Leaving' \subseteq Leaving
        BY <1>0, <2>3 DEF DeliverStep
      <3>. QED BY <1>0, <1>1, <3>1 DEF Under
    <2>. QED BY <2>1, <2>2, <2>3
  <1>5. tip' = tip /\ seeded' = seeded
    BY DEF QuietStep, RevertStep, SplitStep, DeliverStep, chainVars
  <1>6. InLayers' /\ EndsAtTip' /\ Leaving' \cap Followed' = {}
    BY <1>1, <1>4, <1>5 DEF InLayers, Under, ChainInv, EndsAtTip, ReachesTo
  <1>7. Feed!OneChain(Followed')
    BY <1>4 DEF ChainInv
  <1>. QED BY <1>4, <1>6, <1>7 DEF ChainInv, Feed!OneChain

\* A step keeps that while no walk leaves the window.
LEMMA ChainInvStep ==
    ASSUME Running, Running', [Next]_vars, RevertInv, ChainInv, StaysInWindow
    PROVE  ChainInv'
  BY Effects, ChainInvSwitch, ChainInvOther

\* Before the first head nothing is followed.
LEMMA ChainInvStart ==
    ASSUME Init
    PROVE  ChainInv /\ Followed = {}
  <1>1. view = {} /\ pending = {} /\ toRevert = {} /\ phase = "idle" /\ stage = "boot"
    BY DEF Init, ReconcilerInit
  <1>2. Held = {} /\ InFlight = {} /\ Told = {} /\ Followed = {}
    BY <1>1 DEF Held, InFlight, Told, Followed
  <1>. QED BY <1>2 DEF ChainInv, EndsAtTip, ReachesTo, InLayers, Under, Feed!OneChain

\* The inductive invariant of one run whose walks stay in the window.
FollowInv == TypeInv /\ RunInv /\ (crashes = 0 => ChainInv)

\* It holds under that condition.
LEMMA FollowInvHolds == Spec /\ []StaysInWindow => []FollowInv
  <1>1. Init => ChainInv
    BY ChainInvStart
  <1>2. /\ TypeInv /\ RunInv /\ (TypeInv /\ RunInv)' /\ (crashes = 0 => ChainInv)
        /\ StaysInWindow /\ [Next]_vars
        => (crashes = 0 => ChainInv)'
    BY CrashesCount, ChainInvStep DEF RunInv
  <1>. QED BY <1>1, <1>2, RunInvHolds, PTL DEF Spec, FollowInv

\* A block that is known is followed, and a followed block of its height is it.
LEMMA KnownIsFollowed ==
    ASSUME Running, RevertInv, NEW n \in Heights, known[n] # NoBlock
    PROVE  known[n] \in Block /\ Num[known[n]] = n /\ known[n] \in Followed
  <1>1. known \in Rows /\ KnownIsHashChain
    BY DEF Running, ReconcilerInv, ReconcilerTypeOK
  <1>2. Num[known[n]] = n
    BY <1>1 DEF KnownIsHashChain, IsHashChain, FiledByNumber, EmptyRows
  <1>3. known[n] \in Block /\ known[n] \in BlocksOf(known)
    BY <1>1 DEF Rows, BlocksOf
  <1>. QED BY <1>2, <1>3 DEF RevertInv

\* Blocks reach the pipeline from the bottom up: a known block under one that was
\* delivered was delivered too (tracker.go, pollOnce: the sort of the buffer and
\* the one threshold for all of it).
THEOREM DeliveriesAreInOrder == Spec /\ []StaysInWindow => []DeliversInOrder
  <1>1. FollowInv => DeliversInOrder
    <2> SUFFICES ASSUME FollowInv, crashes = 0,
                        NEW m \in Heights, NEW n \in Heights, m < n,
                        known[m] # NoBlock, known[n] # NoBlock, known[n] \in view
                 PROVE  known[m] \in view
      BY DEF DeliversInOrder
    <2>1. Running /\ RevertInv /\ ChainInv
      BY DEF FollowInv, RunInv
    <2>2. /\ Num[known[m]] = m /\ known[m] \in Followed
          /\ Num[known[n]] = n /\ known[n] \in Followed
      BY <2>1, KnownIsFollowed
    <2>3. known[n] \in Told
      BY <2>1, <2>2 DEF ChainInv, Told
    <2>4. known[m] \notin Held \cup InFlight
      BY <2>1, <2>2, <2>3, BlockTreeAssumption DEF ChainInv, InLayers, Under
    <2>. QED BY <2>2, <2>4 DEF Followed, Told
  <1>. QED BY <1>1, FollowInvHolds, PTL

------------------------------------------------------------------------------
(* What is held back is known.                                             *)

\* A block that is held back is known, unless it left the window in the switch
\* whose result is being taken: then it is deep enough to be delivered next.
HeldInv ==
    \A b \in Held : \/ b \in BlocksOf(known)
                    \/ Taking /\ Num[b] + MaxDepth < Num[head]

\* Every step keeps that.
LEMMA HeldInvStep ==
    ASSUME ConfirmDepth <= MaxDepth, Running, Running', [Next]_vars, HeldInv
    PROVE  HeldInv'
  <1>0. /\ Held \subseteq Block /\ \A b \in Block : Num[b] \in Heights
        /\ MaxHeight \in Nat /\ MaxDepth \in Nat /\ ConfirmDepth \in Nat
    BY FollowedType, BlockTreeAssumption, MaxDepthAssumption, TrackerAssumption
       DEF Running, TypeInv
  <1>1. UNCHANGED chainVars => BlocksOf(known)' = BlocksOf(known)
    BY DEF chainVars, BlocksOf
  <1>2. CASE QuietStep \/ RevertStep
    BY <1>1, <1>2 DEF QuietStep, SetsStay, RevertStep, HeldInv
  <1>3. CASE SwitchStep
    <2>1. PICK foot \in Heights : SwitchAt(foot)
      BY <1>3 DEF SwitchStep
    <2> DEFINE K == BlocksOf(known)
               K2 == BlocksOf(known')
               N == BlocksOf(canonical')
               R == BlocksOf(reverted')
    <2>2. SwitchOf(K, K2, N, R, foot, head')
      BY <2>1, SwitchSets DEF Running
    <2>3. \A b \in ((K \ R) \cup N) \ K2 : Num[b] + MaxDepth < Num[head']
      BY <2>2 DEF SwitchOf
    <2>4. Held \subseteq K /\ Held' = (Held \cup N) \ R /\ Taking'
      BY <1>3 DEF SwitchStep, HeldInv
    <2>5. K2 = BlocksOf(known)'
      BY DEF BlocksOf
    <2>. HIDE DEF K, K2, N, R
    <2>6. \A b \in Held' : b \in K2 \/ Num[b] + MaxDepth < Num[head']
      BY <2>3, <2>4
    <2>. QED BY <2>4, <2>5, <2>6 DEF HeldInv
  <1>4. CASE SplitStep
    <2>1. /\ Held' = {b \in Held : ~(Num[b] <= Threshold(head))}
          /\ BlocksOf(known)' = BlocksOf(known) /\ Taking
      BY <1>1, <1>4 DEF SplitStep
    <2>2. head \in Block /\ Num[head] \in Nat
      BY <1>0, <2>1 DEF Taking, Running, StageInv
    <2>3. ASSUME NEW b \in Held, Num[b] + MaxDepth < Num[head]
          PROVE  Num[b] <= Threshold(head)
      BY <1>0, <2>2, <2>3 DEF Threshold
    <2>. QED BY <2>1, <2>3 DEF HeldInv
  <1>5. CASE DeliverStep
    BY <1>1, <1>5 DEF DeliverStep, HeldInv
  <1>. QED BY <1>2, <1>3, <1>4, <1>5, Effects

\* So it holds.
LEMMA HeldInvHolds ==
    ASSUME ConfirmDepth <= MaxDepth
    PROVE  Spec => [](crashes = 0 => HeldInv)
  <1>1. Init => HeldInv
    BY ChainInvStart DEF HeldInv, Followed
  <1>2. /\ TypeInv /\ RunInv /\ (TypeInv /\ RunInv)' /\ (crashes = 0 => HeldInv)
        /\ [Next]_vars
        => (crashes = 0 => HeldInv)'
    BY CrashesCount, HeldInvStep DEF RunInv
  <1>. QED BY <1>1, <1>2, RunInvHolds, PTL DEF Spec

\* Between two polls the pipeline has exactly the known blocks that are not held
\* back: none was dropped or given twice, however the chain was reorganised
\* (tracker.go, pollOnce: pending).
THEOREM EverythingDeliveredOrHeldBack ==
    ASSUME ConfirmDepth <= MaxDepth
    PROVE  Spec /\ []StaysInWindow => []DeliveredOrHeldBack
  <1>1. FollowInv /\ (crashes = 0 => HeldInv) => DeliveredOrHeldBack
    <2> SUFFICES ASSUME FollowInv, HeldInv, crashes = 0, stage = "poll"
                 PROVE  /\ pending \subseteq BlocksOf(known)
                        /\ pending \cap view = {}
                        /\ BlocksOf(known) \ pending \subseteq view
      BY DEF DeliveredOrHeldBack
    <2>1. Running /\ RevertInv /\ ChainInv
      BY DEF FollowInv, RunInv
    <2>2. phase = "idle" /\ toRevert = {}
      BY <2>1 DEF Running, StageInv
    <2>3. Held = pending /\ Told = view /\ InFlight = {} /\ ~Taking
      BY <2>2 DEF Held, Told, Leaving, InFlight, Taking
    <2>4. pending \subseteq BlocksOf(known)
      BY <2>3 DEF HeldInv
    <2>5. \A c \in view : Num[c] \in Int
      BY FollowedType, <2>1, BlockTreeAssumption DEF Running, TypeInv
    <2>6. pending \cap view = {}
      BY <2>1, <2>3, <2>5 DEF ChainInv, InLayers, Under
    <2>7. BlocksOf(known) \subseteq view \cup pending
      BY <2>1, <2>3 DEF RevertInv, Followed
    <2>. QED BY <2>4, <2>6, <2>7
  <1>. QED BY <1>1, FollowInvHolds, HeldInvHolds, PTL

\* A batch goes to the pipeline only when the head that was polled is known and
\* ConfirmDepth above every block of it, and the blocks are on the chain of that
\* head (tracker.go, pollOnce: the threshold).
THEOREM DeliveriesAreBuried ==
    ASSUME ConfirmDepth <= MaxDepth
    PROVE  Spec /\ []StaysInWindow => [](crashes = 0 => DeliversOnlyBuried)
  <1>1. FollowInv /\ (crashes = 0 => HeldInv) => (crashes = 0 => DeliversOnlyBuried)
    <2> SUFFICES ASSUME FollowInv, HeldInv, crashes = 0, stage \in {"remember", "deliver"},
                        NEW b \in emit
                 PROVE  /\ known[Num[head]] = head
                        /\ Num[b] = 0 \/ Num[b] + ConfirmDepth <= Num[head]
                        /\ \/ known[Num[b]] = b
                           \/ /\ known[Num[b]] = NoBlock
                              /\ \E c \in emit \cup BlocksOf(known) : Parent[c] = b
      <3>1. stage \in {"remember", "deliver"} /\ FollowInv /\ crashes = 0 => emit # {}
        BY DEF FollowInv, TypeInv
      <3>. QED BY <3>1 DEF DeliversOnlyBuried
    <2>1. Running /\ RevertInv /\ ChainInv /\ ReconcilerInv /\ TypeOK
      BY DEF FollowInv, RunInv, Running, TypeInv
    <2>2. /\ phase = "idle" /\ ~Taking /\ InFlight = emit /\ Held = pending
      BY <2>1 DEF Running, StageInv, Taking, InFlight, Held
    <2>3. /\ head \in Block /\ known[Num[head]] = head /\ Num[b] <= Threshold(head)
      BY <2>1 DEF Running, StageInv
    <2>4. /\ b \in Followed /\ b \in Block /\ Num[b] \in Heights /\ Num[b] \in Nat
          /\ Num[head] \in Nat /\ ConfirmDepth \in Nat /\ b # NoBlock /\ Num[head] \in Heights
      BY <2>1, <2>2, <2>3, FollowedType, TrackerAssumption, BlockTreeAssumption DEF Followed
    <2>5. Num[b] = 0 \/ Num[b] + ConfirmDepth <= Num[head]
      BY <2>3, <2>4 DEF Threshold
    <2>6. CASE known[Num[b]] # NoBlock
      BY <2>1, <2>3, <2>4, <2>5, <2>6, KnownIsFollowed DEF ChainInv, Feed!OneChain
    <2>7. CASE known[Num[b]] = NoBlock
      <3>1. Num[b] <= tip /\ seeded /\ tip \in Nat
        BY <2>1, <2>4, BlockTreeAssumption
           DEF ChainInv, EndsAtTip, ReachesTo, ReconcilerInv, ReconcilerTypeOK
      <3>2. known[tip] # NoBlock
        BY <2>1, <3>1 DEF ReconcilerInv, KnownIsHashChain, IsHashChain, EndsAt
      <3>3. Num[b] < tip
        BY <2>4, <2>7, <3>1, <3>2
      <3>4. PICK d \in Followed : Parent[d] = b
        BY <2>1, <2>4, <3>3 DEF ChainInv, EndsAtTip, ReachesTo
      <3>5. d \in Block /\ Num[d] = Num[b] + 1
        BY <2>1, <2>4, <3>4, FollowedType, BlockTreeAssumption
      <3>6. d \notin Told
        BY <2>1, <2>2, <2>4, <3>5 DEF ChainInv, InLayers, Under
      <3>7. d \in emit \cup BlocksOf(known)
        BY <2>2, <3>4, <3>6 DEF Followed, HeldInv
      <3>. QED BY <2>3, <2>5, <2>7, <3>4, <3>7
    <2>. QED BY <2>6, <2>7
  <1>. QED BY <1>1, FollowInvHolds, HeldInvHolds, PTL

------------------------------------------------------------------------------
(* The refinement of ChainFeed.                                            *)

\* Every step of one run is a callback that ChainFeed allows, or none.
LEMMA FeedStep ==
    ASSUME Running, Running', [Next]_vars, RevertInv, ChainInv
    PROVE  [Feed!FeedNext]_view
  <1>1. CASE QuietStep \/ SwitchStep \/ SplitStep
    BY <1>1 DEF QuietStep, SetsStay, SwitchStep, SplitStep
  <1>2. CASE RevertStep
    BY <1>2 DEF RevertStep, RevertInv, Feed!FeedNext, Feed!Revert
  <1>3. CASE DeliverStep
    <2>1. /\ Leaving = {} /\ InFlight # {} /\ view' = view \cup InFlight
      BY <1>3 DEF DeliverStep
    <2>2. Told = view /\ Followed = view \cup Held \cup InFlight
      BY <2>1 DEF Told, Followed
    <2>3. /\ Under(view \cup InFlight, Held) /\ Under(view, InFlight)
          /\ Feed!OneChain(Followed)
      BY <2>2 DEF ChainInv, InLayers
    <2>4. Followed \subseteq Block /\ \A b \in Block : Num[b] \in Nat
      BY FollowedType, BlockTreeAssumption DEF Running, TypeInv
    <2>5. InFlight \cap view = {}
      BY <2>2, <2>3, <2>4 DEF Under
    <2>6. view' \ view = InFlight
      BY <2>1, <2>5
    <2>7. Feed!OneChain(view \cup InFlight)
      <3>1. ASSUME NEW b \in view \cup InFlight, NEW c \in view \cup InFlight, Num[b] < Num[c]
            PROVE  Parent[c] \in view \cup InFlight
        <4>1. Parent[c] \in Followed
          BY <2>2, <2>3, <3>1 DEF Feed!OneChain
        <4>2. Num[c] > 0 /\ c \in Block
          BY <2>2, <2>4, <3>1
        <4>3. Num[Parent[c]] = Num[c] - 1 /\ Num[c] \in Nat
          BY <2>4, <4>2, BlockTreeAssumption
        <4>4. Parent[c] \notin Held
          BY <2>3, <4>3 DEF Under
        <4>. QED BY <2>2, <4>1, <4>4
      <3>2. \A b, c \in view \cup InFlight : Num[b] = Num[c] => b = c
        BY <2>2, <2>3 DEF Feed!OneChain
      <3>. QED BY <3>1, <3>2 DEF Feed!OneChain
    <2>8. Feed!Deliver(InFlight)
      BY <2>1, <2>3, <2>7 DEF Feed!Deliver, Under
    <2>. QED BY <2>6, <2>8 DEF Feed!FeedNext
  <1>. QED BY <1>1, <1>2, <1>3, Effects

\* In one run, HeadTracker implements ChainFeed: whatever the endpoints answered
\* and whatever the buffer held back, the callbacks take an orphan back before
\* the block that replaces it arrives, and every batch extends the chain that
\* was delivered (tracker.go, pollOnce).
THEOREM TrackerImplementsFeed ==
    Spec /\ [](crashes = 0) /\ []StaysInWindow => ImplementsFeed
  <1>1. Init => Feed!FeedInit
    BY DEF Init, Feed!FeedInit
  <1>2. FollowInv /\ FollowInv' /\ crashes = 0 /\ (crashes = 0)' /\ [Next]_vars
          => [Feed!FeedNext]_view
    BY FeedStep DEF FollowInv, RunInv
  <1>. QED BY <1>1, <1>2, FollowInvHolds, PTL DEF Spec, ImplementsFeed, Feed!FeedSpec

------------------------------------------------------------------------------
(* A window that no block leaves.                                          *)

\* The inductive invariant for such a window.
WideInv == ChainInv /\ Followed \subseteq BlocksOf(known)

\* Then no walk leaves it either.
LEMMA WideStaysInWindow ==
    ASSUME Running, WideInv
    PROVE  StaysInWindow
  <1> SUFFICES ASSUME phase = "walk" PROVE view \cup pending \subseteq BlocksOf(known)
    BY DEF StaysInWindow
  <1>1. toRevert = {}
    BY DEF Running, StageInv
  <1>2. Told = view /\ Held = pending
    BY <1>1 DEF Told, Leaving, Held
  <1>. QED BY <1>2 DEF WideInv, Followed

\* Every step keeps it, without a condition.
LEMMA WideInvStep ==
    ASSUME MaxDepth >= MaxHeight, Running, Running', [Next]_vars, RevertInv, WideInv
    PROVE  WideInv'
  <1>1. StaysInWindow /\ ChainInv
    BY WideStaysInWindow DEF WideInv
  <1>2. ChainInv'
    BY <1>1, ChainInvStep
  <1>3. CASE SwitchStep
    <2>1. PICK foot \in Heights : SwitchAt(foot)
      BY <1>3 DEF SwitchStep
    <2> DEFINE K == BlocksOf(known)
               K2 == BlocksOf(known')
               N == BlocksOf(canonical')
               R == BlocksOf(reverted')
    <2>2. SwitchOf(K, K2, N, R, foot, head')
      BY <2>1, SwitchSets DEF Running
    <2>3. Followed' = (Followed \ R) \cup N
      BY <1>1, <1>3, ChainInvSwitch
    <2>4. \A b \in ((K \ R) \cup N) \ K2 : Num[b] + MaxDepth < Num[head']
      BY <2>2 DEF SwitchOf
    <2>5. /\ Followed \subseteq K /\ K \subseteq Block /\ N \subseteq Block /\ head' \in Block
      BY <2>1 DEF WideInv, BlocksOf, SwitchAt
    <2>6. \A b \in Block : ~(Num[b] + MaxDepth < Num[head'])
      BY <2>5, BlockTreeAssumption, MaxDepthAssumption
    <2>7. K2 = BlocksOf(known)'
      BY DEF BlocksOf
    <2>. HIDE DEF K, K2, N, R
    <2>8. Followed' \subseteq K2
      BY <2>3, <2>4, <2>5, <2>6
    <2>. QED BY <1>2, <2>7, <2>8 DEF WideInv
  <1>4. CASE QuietStep \/ RevertStep \/ SplitStep \/ DeliverStep
    <2>1. Followed' = Followed
      BY <1>1, <1>4, ChainInvOther
    <2>2. BlocksOf(known)' = BlocksOf(known)
      BY <1>4 DEF BlocksOf, QuietStep, RevertStep, SplitStep, DeliverStep, chainVars
    <2>. QED BY <1>2, <2>1, <2>2 DEF WideInv
  <1>. QED BY <1>3, <1>4, Effects

\* A window that is as deep as the chain is never left.
LEMMA WideInvHolds ==
    ASSUME MaxDepth >= MaxHeight
    PROVE  Spec => [](crashes = 0 => WideInv)
  <1>1. Init => WideInv
    BY ChainInvStart DEF WideInv
  <1>2. /\ TypeInv /\ RunInv /\ (TypeInv /\ RunInv)' /\ (crashes = 0 => WideInv)
        /\ [Next]_vars
        => (crashes = 0 => WideInv)'
    BY CrashesCount, WideInvStep DEF RunInv
  <1>. QED BY <1>1, <1>2, RunInvHolds, PTL DEF Spec

\* As long as no block leaves the window by its depth, nothing the pipeline has
\* is stale between two polls: every orphan was reverted (tracker.go, pollOnce:
\* the loop over result.Reverted).
THEOREM NothingStaleStays == Spec => []NothingStaleInView
  <1>1. CASE MaxDepth >= MaxHeight
    <2>1. RunInv /\ (crashes = 0 => WideInv) => NothingStaleInView
      <3> SUFFICES ASSUME RunInv, WideInv, crashes = 0, stage = "poll"
                   PROVE  view \subseteq BlocksOf(known)
        BY DEF NothingStaleInView
      <3>1. toRevert = {} /\ phase = "idle"
        BY DEF RunInv, Running, StageInv
      <3>2. Told = view
        BY <3>1 DEF Told, Leaving
      <3>. QED BY <3>2 DEF WideInv, Followed
    <2>. QED BY <1>1, <2>1, WideInvHolds, RunInvHolds, PTL
  <1>2. CASE ~(MaxDepth >= MaxHeight)
    <2>1. NothingStaleInView
      BY <1>2 DEF NothingStaleInView
    <2>. QED BY <2>1, PTL
  <1>. QED BY <1>1, <1>2

\* Without a crash and with such a window, HeadTracker implements ChainFeed
\* outright.
THEOREM WideWindowImplementsFeed ==
    ASSUME MaxDepth >= MaxHeight
    PROVE  Spec /\ [](crashes = 0) => ImplementsFeed
  <1>1. RunInv /\ (crashes = 0 => WideInv) /\ crashes = 0 => StaysInWindow
    BY WideStaysInWindow DEF RunInv
  <1>. QED BY <1>1, RunInvHolds, WideInvHolds, TrackerImplementsFeed, PTL

------------------------------------------------------------------------------
(* Restarts: the calls of a reconciler whose rows were loaded.             *)

\* What was fetched, with the block it must be linked to under it.
OnTip == [path EXCEPT ![tip] = known[tip]]

\* applyForward under way: the fetched blocks go on from the tip, though what is
\* known under the tip need not be linked.
FetchedOnTip ==
    phase = "forward" =>
        /\ seeded
        /\ {head, cursor} \subseteq Block
        /\ Num[cursor] < Num[head]
        /\ IsHashChain(OnTip, Num[cursor])
        /\ OnTip[Num[cursor]] = cursor
        /\ \A n \in Heights : path[n] # NoBlock => n > tip

\* The invariant of a reconciler whose rows came from the table, which need not
\* be a chain: a row of an orphan stays above the block that replaced the ones
\* under it.
LoadedInv ==
    /\ ReconcilerTypeOK
    /\ FiledByNumber(known)
    /\ IF seeded THEN EndsAt(known, tip) ELSE known = EmptyRows
    /\ FetchedOnTip
    /\ WalkedPathIsUnknown

\* A call that ends by replacing the rows from height foot on.
RowsSwitch(foot) ==
    /\ head' \in Block
    /\ canonical' \in Rows /\ reverted' \in Rows
    /\ FiledByNumber(canonical') /\ Linked(canonical')
    /\ \A n \in Heights : canonical'[n] # NoBlock <=> foot <= n /\ n <= Num[head']
    /\ \A n \in Heights : canonical'[n] # NoBlock => canonical'[n] # known[n]
    /\ canonical'[Num[head']] = head'
    /\ \A n \in Heights : reverted'[n] = IF n >= foot THEN known[n] ELSE NoBlock
    /\ known' = Prune(Overlay(Kept, canonical'), Num[head'])
    /\ tip' = Num[head'] /\ seeded' = TRUE
    /\ \/ /\ foot > 0 /\ known[foot - 1] # NoBlock
          /\ Parent[canonical'[foot]] = known[foot - 1]
       \/ /\ phase = "walk" /\ (BelowWindow \/ AtGenesis)
          /\ foot = Num[cursor]
          /\ \A n \in Heights : n < foot => known[n] = NoBlock

\* One more block of applyForward.
LEMMA LoadedForward ==
    ASSUME LoadedInv, phase = "forward", NEW b \in Block,
           Num[b] = Num[cursor] + 1, LinksTo(b, cursor)
    PROVE  /\ [path EXCEPT ![Num[b]] = b] \in Rows
           /\ tip < Num[b]
           /\ [[path EXCEPT ![Num[b]] = b] EXCEPT ![tip] = known[tip]]
                = [OnTip EXCEPT ![Num[b]] = b]
           /\ OnTip \in Rows
           /\ IsHashChain([OnTip EXCEPT ![Num[b]] = b], Num[b])
           /\ [OnTip EXCEPT ![Num[b]] = b][Num[b]] = b
           /\ known[tip] \in Block
           /\ \A n \in Heights : [path EXCEPT ![Num[b]] = b][n] # NoBlock => n > tip
  <1>1. /\ Num[b] \in Heights /\ b # NoBlock /\ MaxHeight \in Nat
        /\ known \in Rows /\ path \in Rows /\ tip \in Heights
        /\ cursor \in Block /\ Num[cursor] \in Heights
    BY BlockTreeAssumption DEF LoadedInv, ReconcilerTypeOK, FetchedOnTip
  <1>2. /\ IsHashChain(OnTip, Num[cursor]) /\ OnTip[Num[cursor]] = cursor
        /\ \A n \in Heights : path[n] # NoBlock => n > tip
        /\ EndsAt(known, tip)
    BY DEF LoadedInv, FetchedOnTip
  <1>3. OnTip \in Rows /\ OnTip[tip] = known[tip] /\ known[tip] # NoBlock
    BY <1>1, <1>2 DEF OnTip, Rows, EndsAt
  <1>4. tip <= Num[cursor]
    BY <1>1, <1>2, <1>3 DEF IsHashChain, EndsAt
  <1>5. Parent[b] = OnTip[Num[cursor]]
    BY <1>2 DEF LinksTo
  <1>6. IsHashChain([OnTip EXCEPT ![Num[b]] = b], Num[b])
    BY <1>1, <1>2, <1>3, <1>5, ExtendChain
  <1>7. [path EXCEPT ![Num[b]] = b] \in Rows
    BY <1>1 DEF Rows
  <1>8. tip # Num[b] /\ tip < Num[b]
    BY <1>1, <1>4
  <1>9. [[path EXCEPT ![Num[b]] = b] EXCEPT ![tip] = known[tip]] = [OnTip EXCEPT ![Num[b]] = b]
    BY <1>1, <1>8 DEF OnTip, Rows
  <1>10. \A n \in Heights : [path EXCEPT ![Num[b]] = b][n] # NoBlock => n > tip
    BY <1>1, <1>2, <1>8 DEF Rows
  <1>11. [OnTip EXCEPT ![Num[b]] = b][Num[b]] = b /\ known[tip] \in Block
    BY <1>1, <1>3 DEF Rows
  <1>. QED BY <1>3, <1>6, <1>7, <1>8, <1>9, <1>10, <1>11

\* applyForward.
LEMMA LoadedForwardSwitches ==
    ASSUME LoadedInv, ForwardDone
    PROVE  \E foot \in Heights : RowsSwitch(foot)
  <1> DEFINE fetched == [path EXCEPT ![Num[head]] = head]
             chain == [OnTip EXCEPT ![Num[head]] = head]
  <1>1. /\ phase = "forward" /\ Num[head] = Num[cursor] + 1 /\ LinksTo(head, cursor)
        /\ Record(known, fetched, head) /\ Answer(fetched, EmptyRows) /\ head' = head
    BY DEF ForwardDone, AtHead
  <1>2. /\ head \in Block /\ Num[head] \in Heights /\ path \in Rows /\ known \in Rows
        /\ tip \in Heights /\ MaxHeight \in Nat /\ head # NoBlock
        /\ EndsAt(known, tip) /\ FiledByNumber(known)
    BY <1>1, BlockTreeAssumption DEF LoadedInv, FetchedOnTip, ReconcilerTypeOK
  <1>3. /\ fetched \in Rows /\ tip < Num[head]
        /\ [fetched EXCEPT ![tip] = known[tip]] = chain
        /\ OnTip \in Rows /\ IsHashChain(chain, Num[head]) /\ chain[Num[head]] = head
        /\ known[tip] \in Block
        /\ \A n \in Heights : fetched[n] # NoBlock => n > tip
    BY <1>1, <1>2, LoadedForward
  <1>4. chain \in Rows
    BY <1>2, <1>3 DEF Rows
  <1>5. fetched[Num[head]] = head
    BY <1>2 DEF Rows
  <1>. HIDE DEF fetched, chain
  <1>6. \A n \in Heights : chain[n] = IF n = tip THEN known[tip] ELSE fetched[n]
    BY <1>2, <1>3 DEF Rows
  <1>7. \A n \in Heights : chain[n] # NoBlock <=> tip <= n /\ n <= Num[head]
    <2>1. chain[tip] # NoBlock
      BY <1>2, <1>3, <1>6, BlockTreeAssumption
    <2>2. \A n \in Heights : n < tip => chain[n] = NoBlock
      BY <1>2, <1>3, <1>6
    <2>. QED BY <1>2, <1>3, <1>4, <2>1, <2>2, FilledBetween
  <1>8. \A n \in Heights : fetched[n] # NoBlock <=> tip + 1 <= n /\ n <= Num[head]
    BY <1>2, <1>3, <1>6, <1>7
  <1>9. \A n \in Heights : n > tip => chain[n] = fetched[n]
    BY <1>2, <1>6
  <1>10. FiledByNumber(fetched) /\ Linked(fetched)
    <2>1. FiledByNumber(chain) /\ Linked(chain)
      BY <1>3 DEF IsHashChain
    <2>2. FiledByNumber(fetched)
      BY <1>3, <1>9, <2>1 DEF FiledByNumber
    <2>3. Linked(fetched)
      BY <1>2, <1>3, <1>9, <2>1 DEF Linked
    <2>. QED BY <2>2, <2>3
  <1>11. tip + 1 \in Heights /\ tip + 1 > 0 /\ (tip + 1) - 1 = tip
    BY <1>2, <1>3
  <1>12. Parent[fetched[tip + 1]] = known[tip]
    <2>1. Linked(chain) /\ chain[tip + 1] = fetched[tip + 1] /\ chain[tip] = known[tip]
      BY <1>2, <1>3, <1>6, <1>11 DEF IsHashChain
    <2>2. chain[tip + 1] # NoBlock /\ chain[tip] # NoBlock
      BY <1>2, <1>3, <1>7, <1>11
    <2>. QED BY <1>2, <1>11, <2>1, <2>2 DEF Linked
  <1>13. /\ canonical' = fetched /\ reverted' = EmptyRows
         /\ known' = Prune(Overlay(known, fetched), Num[head])
         /\ tip' = Num[head] /\ seeded' = TRUE
    BY <1>1 DEF Record, Answer
  <1>14. \A n \in Heights : EmptyRows[n] = NoBlock
    BY DEF EmptyRows
  <1>15. Kept = known
    BY <1>2, <1>13, <1>14 DEF Kept, Rows
  <1>16. EmptyRows \in Rows
    BY DEF EmptyRows, Rows
  <1>17. \A n \in Heights : reverted'[n] = IF n >= tip + 1 THEN known[n] ELSE NoBlock
    BY <1>2, <1>13, <1>14 DEF EndsAt
  <1>18. \A n \in Heights : fetched[n] # NoBlock => fetched[n] # known[n]
    BY <1>2, <1>3 DEF EndsAt
  <1>19. known[(tip + 1) - 1] # NoBlock
    BY <1>2, <1>11 DEF EndsAt
  <1>20. RowsSwitch(tip + 1)
    BY <1>1, <1>2, <1>3, <1>5, <1>8, <1>10, <1>11, <1>12, <1>13, <1>15, <1>16, <1>17, <1>18, <1>19
       DEF RowsSwitch
  <1>. QED BY <1>11, <1>20

\* What a walk of handleReorg may rely on.
LEMMA LoadedWalk ==
    ASSUME LoadedInv, phase = "walk"
    PROVE  /\ seeded = TRUE
           /\ known \in Rows /\ path \in Rows /\ tip \in Heights
           /\ head \in Block /\ cursor \in Block
           /\ Num[head] \in Heights /\ Num[cursor] \in Heights
           /\ FiledByNumber(known) /\ EndsAt(known, tip)
           /\ IsHashChain(path, Num[head])
           /\ path[Num[head]] = head
           /\ path[Num[cursor]] = cursor
           /\ \A n \in Heights : n < Num[cursor] => path[n] = NoBlock
           /\ \A n \in Heights : path[n] # NoBlock => path[n] # known[n]
           /\ NoBlock \notin Block /\ MaxHeight \in Nat
  BY BlockTreeAssumption DEF LoadedInv, ReconcilerTypeOK, WalkedPathIsUnknown

\* handleReorg.
LEMMA LoadedWalkSwitches ==
    ASSUME LoadedInv, WalkMeets \/ WalkFloor \/ WalkGenesis
    PROVE  \E foot \in Heights : RowsSwitch(foot)
  <1>1. PICK ancestor :
          /\ phase = "walk" /\ Switch(ancestor)
          /\ \/ MeetsKnown /\ ancestor = ParentNum
             \/ BelowWindow /\ ancestor = ParentNum
             \/ AtGenesis /\ ancestor = 0
    BY DEF WalkMeets, WalkFloor, WalkGenesis
  <1> DEFINE low == Survivors(ancestor)
             left == Orphans(ancestor)
             foot == Num[cursor]
  <1>2. /\ path \in Rows /\ head \in Block /\ Num[head] \in Heights
        /\ cursor \in Block /\ known \in Rows /\ tip \in Heights /\ cursor # NoBlock
        /\ foot \in Heights /\ path[Num[head]] = head /\ path[foot] = cursor
        /\ IsHashChain(path, Num[head]) /\ MaxHeight \in Nat
        /\ FiledByNumber(known) /\ EndsAt(known, tip)
        /\ \A n \in Heights : n < foot => path[n] = NoBlock
        /\ \A n \in Heights : path[n] # NoBlock => path[n] # known[n]
    BY <1>1, LoadedWalk
  <1>3. /\ \A n \in Heights : left[n] = IF n > ancestor /\ n <= tip THEN known[n] ELSE NoBlock
        /\ low = [n \in Heights |-> IF left[n] = NoBlock THEN known[n] ELSE NoBlock]
        /\ left \in Rows
    BY <1>2 DEF Orphans, Survivors, Rows
  <1>4. \A n \in Heights : n > tip => known[n] = NoBlock
    BY <1>2 DEF EndsAt
  <1>. HIDE DEF low, left
  <1>5. ASSUME NEW n \in Heights
        PROVE  left[n] = IF n >= foot THEN known[n] ELSE NoBlock
    <2>1. CASE ~AtGenesis
      <3>1. ancestor = foot - 1
        BY <1>1, <2>1 DEF ParentNum
      <3>. QED BY <1>2, <1>3, <1>4, <3>1
    <2>2. CASE AtGenesis
      <3>1. foot = 0 /\ ancestor = 0
        BY <1>1, <1>2, <2>2 DEF AtGenesis, MeetsKnown, BelowWindow
      <3>2. known[0] = NoBlock
        <4> SUFFICES ASSUME known[0] # NoBlock PROVE FALSE
          OBVIOUS
        <4>1. known[0] \in Block /\ Num[known[0]] = 0
          BY <1>2, <3>1 DEF Rows, FiledByNumber
        <4>2. known[0] = cursor
          BY <1>2, <3>1, <4>1, BlockTreeAssumption
        <4>. QED BY <1>2, <3>1, <4>2
      <3>. QED BY <1>2, <1>3, <1>4, <3>1, <3>2
    <2>. QED BY <2>1, <2>2
  <1>6. /\ canonical' = path /\ reverted' = left /\ head' = head
        /\ known' = Prune(Overlay(low, path), Num[head])
        /\ tip' = Num[head] /\ seeded' = TRUE
    BY <1>1 DEF Switch, Record, Answer, low, left
  <1>7. Kept = low
    BY <1>3, <1>6 DEF Kept
  <1>8. \A n \in Heights : path[n] # NoBlock <=> foot <= n /\ n <= Num[head]
    BY <1>2, FilledBetween
  <1>9. FiledByNumber(path) /\ Linked(path)
    BY <1>2 DEF IsHashChain
  <1>10. \/ /\ foot > 0 /\ known[foot - 1] # NoBlock /\ Parent[path[foot]] = known[foot - 1]
         \/ /\ phase = "walk" /\ (BelowWindow \/ AtGenesis)
            /\ \A n \in Heights : n < foot => known[n] = NoBlock
    BY <1>1, <1>2 DEF MeetsKnown, BelowWindow, AtGenesis, ParentNum, HasAnyBelow, LinksTo
  <1>11. RowsSwitch(foot)
    <2>. HIDE DEF foot
    <2>1. foot = Num[cursor]
      BY DEF foot
    <2>. QED BY <1>2, <1>3, <1>5, <1>6, <1>7, <1>8, <1>9, <1>10, <2>1 DEF RowsSwitch
  <1>. QED BY <1>2, <1>11

\* The rows after a switch, height by height.
LEMMA RowsAfterSwitch ==
    ASSUME LoadedInv, NEW foot \in Heights, RowsSwitch(foot)
    PROVE  /\ \A n \in Heights : known'[n] =
                IF n + MaxDepth < Num[head'] THEN NoBlock
                ELSE IF canonical'[n] # NoBlock THEN canonical'[n]
                ELSE IF n < foot THEN known[n] ELSE NoBlock
           /\ known' \in Rows /\ FiledByNumber(known') /\ EndsAt(known', Num[head'])
           /\ foot <= Num[head'] /\ Num[head'] \in Heights
  <1>1. /\ known \in Rows /\ FiledByNumber(known) /\ Num[head'] \in Heights /\ head' \in Block
        /\ canonical' \in Rows /\ head' # NoBlock /\ MaxHeight \in Nat /\ MaxDepth \in Nat
        /\ FiledByNumber(canonical')
        /\ canonical'[Num[head']] = head'
        /\ \A n \in Heights : canonical'[n] # NoBlock <=> foot <= n /\ n <= Num[head']
        /\ \A n \in Heights : reverted'[n] = IF n >= foot THEN known[n] ELSE NoBlock
        /\ known' = Prune(Overlay(Kept, canonical'), Num[head'])
    BY BlockTreeAssumption, MaxDepthAssumption DEF RowsSwitch, LoadedInv, ReconcilerTypeOK
  <1> DEFINE all == Overlay(Kept, canonical')
  <1>2. \A n \in Heights : all[n] = IF canonical'[n] # NoBlock THEN canonical'[n]
                                    ELSE IF n < foot THEN known[n] ELSE NoBlock
    BY <1>1 DEF Overlay, Kept
  <1>3. all \in Rows
    BY <1>1 DEF Overlay, Kept, Rows
  <1>. HIDE DEF all
  <1>4. \A n \in Heights : known'[n] = IF n + MaxDepth < Num[head'] THEN NoBlock ELSE all[n]
    BY <1>1, <1>3 DEF Prune, Rows, all
  <1>5. known' \in Rows
    BY <1>1, <1>3 DEF Prune, Rows, all
  <1>6. FiledByNumber(known')
    BY <1>1, <1>2, <1>4 DEF FiledByNumber
  <1>7. foot <= Num[head']
    BY <1>1
  <1>8. EndsAt(known', Num[head'])
    BY <1>1, <1>2, <1>4, <1>7 DEF EndsAt
  <1>. QED BY <1>1, <1>2, <1>4, <1>5, <1>6, <1>7, <1>8

\* How a call goes on.
LoadedGoesOn ==
    /\ phase # "done"
    /\ \/ phase' # "done" /\ UNCHANGED chainVars
       \/ /\ phase' = "done" /\ UNCHANGED chainVars
          /\ canonical' = EmptyRows /\ reverted' = EmptyRows
       \/ phase' = "done" /\ \E foot \in Heights : RowsSwitch(foot)

\* A switch keeps the invariant,
LEMMA LoadedSwitchKeeps ==
    ASSUME LoadedInv, ReconcilerTypeOK', phase' = "done",
           NEW foot \in Heights, RowsSwitch(foot)
    PROVE  LoadedInv'
  <1>1. FiledByNumber(known') /\ EndsAt(known', Num[head']) /\ seeded' /\ tip' = Num[head']
    BY RowsAfterSwitch DEF RowsSwitch
  <1>2. FiledByNumber(known)' /\ EndsAt(known, tip)'
    BY <1>1 DEF FiledByNumber, EndsAt
  <1>. QED BY <1>1, <1>2 DEF LoadedInv, FetchedOnTip, WalkedPathIsUnknown

\* and so does a step that leaves the known rows alone,
LEMMA LoadedChainKept ==
    ASSUME LoadedInv, UNCHANGED chainVars, ReconcilerTypeOK', FetchedOnTip', WalkedPathIsUnknown'
    PROVE  LoadedInv'
  <1>1. known' = known /\ tip' = tip /\ seeded' = seeded
    BY DEF chainVars
  <1>2. FiledByNumber(known)' /\ (seeded => EndsAt(known, tip)') /\ (~seeded => known' = EmptyRows)
    BY <1>1 DEF LoadedInv, FiledByNumber, EndsAt
  <1>. QED BY <1>1, <1>2 DEF LoadedInv

\* and the beginning of a walk.
LEMMA LoadedWalkStarts ==
    ASSUME LoadedInv, NEW h \in Block, seeded, known[Num[h]] # h,
           phase' = "walk", head' = h, cursor' = h, path' = Just(h),
           UNCHANGED chainVars, ReconcilerTypeOK'
    PROVE  LoadedInv'
  <1>1. IsHashChain(path', Num[head'])
    BY JustIsChain
  <1>2. /\ path'[Num[head']] = head'
        /\ path'[Num[cursor']] = cursor'
        /\ \A n \in Heights : n < Num[cursor'] => path'[n] = NoBlock
        /\ \A n \in Heights : path'[n] # NoBlock => path'[n] # known'[n]
    BY JustIsChain, BlockTreeAssumption DEF chainVars
  <1>3. WalkedPathIsUnknown'
    BY <1>1, <1>2 DEF WalkedPathIsUnknown, chainVars, IsHashChain, FiledByNumber,
       EndsAt, NoGaps, Linked
  <1>4. FetchedOnTip'
    BY DEF FetchedOnTip
  <1>. QED BY <1>3, <1>4, LoadedChainKept

\* Every step of a call of OnHead keeps the invariant, and goes on or answers.
LEMMA LoadedCall ==
    ASSUME LoadedInv, seeded, ReconcilerTypeOK',
           \/ \E h \in Block : OnHead(h)
           \/ \E b \in Block : ReconcileAnswer(b)
           \/ ReconcileLocal \/ FetchFails
    PROVE  LoadedInv' /\ LoadedGoesOn
  <1>0. /\ known \in Rows /\ tip \in Heights /\ EndsAt(known, tip) /\ FiledByNumber(known)
        /\ path \in Rows /\ MaxHeight \in Nat
    BY BlockTreeAssumption DEF LoadedInv, ReconcilerTypeOK
  <1>1. ASSUME NEW h \in Block, OnKnownHead(h) PROVE LoadedInv' /\ LoadedGoesOn
    <2>1. /\ UNCHANGED chainVars /\ phase' = "done"
          /\ phase = "idle" /\ canonical' = EmptyRows /\ reverted' = EmptyRows
      BY <1>1 DEF OnKnownHead, Answer
    <2>2. FetchedOnTip' /\ WalkedPathIsUnknown'
      BY <2>1 DEF FetchedOnTip, WalkedPathIsUnknown
    <2>3. LoadedInv'
      BY <2>1, <2>2, LoadedChainKept
    <2>. QED BY <2>1, <2>3 DEF LoadedGoesOn
  <1>2. ASSUME NEW h \in Block, OnHigherHead(h) PROVE LoadedInv' /\ LoadedGoesOn
    <2>1. /\ UNCHANGED chainVars /\ phase' = "forward" /\ phase = "idle"
          /\ head' = h /\ cursor' = known[tip] /\ path' = EmptyRows
          /\ known' = known /\ tip' = tip /\ seeded' = seeded /\ Num[h] > tip
      BY <1>2 DEF OnHigherHead, chainVars
    <2>2. known[tip] \in Block /\ Num[known[tip]] = tip
      BY <1>0 DEF EndsAt, FiledByNumber, Rows
    <2>3. OnTip' = Just(known[tip])
      BY <2>1, <2>2 DEF OnTip, Just
    <2>4. IsHashChain(OnTip', tip) /\ OnTip'[tip] = known[tip]
      BY <2>2, <2>3, JustIsChain
    <2>5. \A n \in Heights : path'[n] = NoBlock
      BY <2>1 DEF EmptyRows
    <2>6. IsHashChain(OnTip, Num[cursor])'
      BY <2>1, <2>2, <2>4 DEF IsHashChain, FiledByNumber, EndsAt, NoGaps, Linked
    <2>7. FetchedOnTip'
      BY <2>1, <2>2, <2>4, <2>5, <2>6 DEF FetchedOnTip
    <2>8. WalkedPathIsUnknown'
      BY <2>1 DEF WalkedPathIsUnknown
    <2>9. LoadedInv'
      BY <2>1, <2>7, <2>8, LoadedChainKept
    <2>. QED BY <2>1, <2>9 DEF LoadedGoesOn
  <1>3. ASSUME NEW h \in Block, OnLowerHead(h) PROVE LoadedInv' /\ LoadedGoesOn
    <2>1. LoadedInv'
      BY <1>3, LoadedWalkStarts DEF OnLowerHead
    <2>. QED BY <1>3, <2>1 DEF LoadedGoesOn, OnLowerHead
  <1>4. ASSUME NEW h \in Block, OnHead(h) PROVE LoadedInv' /\ LoadedGoesOn
    BY <1>1, <1>2, <1>3, <1>4 DEF OnHead, OnFirstHead
  <1>5. ASSUME NEW b \in Block, ForwardExtend(b) PROVE LoadedInv' /\ LoadedGoesOn
    <2>1. /\ phase = "forward" /\ Num[b] = Num[cursor] + 1 /\ Num[b] < Num[head]
          /\ LinksTo(b, cursor) /\ cursor' = b /\ path' = [path EXCEPT ![Num[b]] = b]
          /\ UNCHANGED chainVars /\ phase' = phase /\ head' = head
          /\ known' = known /\ tip' = tip /\ seeded' = seeded
      BY <1>5 DEF ForwardExtend, ForwardAsks, chainVars
    <2>2. /\ OnTip' = [OnTip EXCEPT ![Num[b]] = b]
          /\ IsHashChain([OnTip EXCEPT ![Num[b]] = b], Num[b])
          /\ [OnTip EXCEPT ![Num[b]] = b][Num[b]] = b
          /\ \A n \in Heights : path'[n] # NoBlock => n > tip
      <3>1. OnTip' = [[path EXCEPT ![Num[b]] = b] EXCEPT ![tip] = known[tip]]
        BY <2>1 DEF OnTip
      <3>. QED BY <2>1, <3>1, LoadedForward
    <2>3. IsHashChain(OnTip, Num[cursor])' /\ OnTip'[Num[cursor']] = cursor'
      BY <2>1, <2>2 DEF IsHashChain, FiledByNumber, EndsAt, NoGaps, Linked
    <2>4. FetchedOnTip'
      BY <2>1, <2>2, <2>3 DEF FetchedOnTip, LoadedInv
    <2>5. WalkedPathIsUnknown'
      BY <2>1 DEF WalkedPathIsUnknown
    <2>6. LoadedInv'
      BY <2>1, <2>4, <2>5, LoadedChainKept
    <2>. QED BY <2>1, <2>6 DEF LoadedGoesOn
  <1>6. ASSUME phase = "forward", StartWalk PROVE LoadedInv' /\ LoadedGoesOn
    <2>1. head \in Block /\ cursor \in Block /\ Num[cursor] < Num[head]
      BY <1>6 DEF LoadedInv, FetchedOnTip
    <2>2. known[Num[head]] = NoBlock
      <3>1. OnTip[tip] # NoBlock
        BY <1>0 DEF OnTip, Rows, EndsAt
      <3>2. tip <= Num[cursor]
        BY <1>0, <1>6, <2>1, <3>1, BlockTreeAssumption DEF LoadedInv, FetchedOnTip, IsHashChain, EndsAt
      <3>3. Num[head] > tip /\ Num[head] \in Heights
        BY <1>0, <2>1, <3>2, BlockTreeAssumption
      <3>. QED BY <1>0, <3>3 DEF EndsAt
    <2>3. LoadedInv'
      BY <1>6, <2>1, <2>2, LoadedWalkStarts, BlockTreeAssumption DEF StartWalk
    <2>. QED BY <1>6, <2>3 DEF LoadedGoesOn, StartWalk
  <1>7. ASSUME NEW b \in Block, WalkFetch(b) PROVE LoadedInv' /\ LoadedGoesOn
    <2>1. /\ phase = "walk" /\ Num[b] = Num[cursor] - 1 /\ Num[cursor] # 0
          /\ Parent[cursor] = b /\ UNCHANGED chainVars
          /\ cursor' = b /\ path' = [path EXCEPT ![Num[b]] = b]
          /\ known' = known /\ tip' = tip /\ seeded' = seeded
          /\ phase' = phase /\ head' = head
      BY <1>7 DEF WalkFetch, WalkAsks, ParentNum, LinksTo, AtGenesis, chainVars
    <2>2. Num[b] \in Heights /\ b # NoBlock
      BY BlockTreeAssumption
    <2>3. known[Num[b]] # b
      <3>1. ~MeetsKnown /\ Num[cursor] > 0
        BY <1>7, <2>1, LoadedWalk DEF WalkFetch, WalkAsks
      <3>. QED BY <2>1, <2>2, <3>1 DEF MeetsKnown, ParentNum, LinksTo
    <2>4. IsHashChain(path', Num[head'])
      BY <2>1, LoadedWalk, LowerChain
    <2>5. Num[head] >= Num[cursor]
      BY LoadedWalk, <2>1 DEF IsHashChain, EndsAt
    <2>6. /\ path'[Num[head']] = head'
          /\ path'[Num[cursor']] = cursor'
          /\ \A n \in Heights : n < Num[cursor'] => path'[n] = NoBlock
          /\ \A n \in Heights : path'[n] # NoBlock => path'[n] # known'[n]
      BY <2>1, <2>2, <2>3, <2>5, LoadedWalk DEF Rows
    <2>7. WalkedPathIsUnknown'
      BY <2>1, <2>4, <2>6, LoadedWalk
         DEF WalkedPathIsUnknown, IsHashChain, FiledByNumber, EndsAt, NoGaps, Linked
    <2>8. FetchedOnTip'
      BY <2>1 DEF FetchedOnTip
    <2>9. LoadedInv'
      BY <2>1, <2>7, <2>8, LoadedChainKept
    <2>. QED BY <2>1, <2>9 DEF LoadedGoesOn
  <1>8. ASSUME GiveUp, phase # "done" PROVE LoadedInv' /\ LoadedGoesOn
    <2>1. UNCHANGED chainVars /\ phase' = "idle"
      BY <1>8 DEF GiveUp
    <2>2. FetchedOnTip' /\ WalkedPathIsUnknown'
      BY <2>1 DEF FetchedOnTip, WalkedPathIsUnknown
    <2>3. LoadedInv'
      BY <2>1, <2>2, LoadedChainKept
    <2>. QED BY <1>8, <2>1, <2>3 DEF LoadedGoesOn
  <1>9. ASSUME ForwardDone PROVE LoadedInv' /\ LoadedGoesOn
    <2>1. phase' = "done" /\ phase = "forward"
      BY <1>9 DEF ForwardDone, AtHead, Answer
    <2>2. PICK foot \in Heights : RowsSwitch(foot)
      BY <1>9, LoadedForwardSwitches
    <2>3. LoadedInv'
      BY <2>1, <2>2, LoadedSwitchKeeps
    <2>. QED BY <2>1, <2>2, <2>3 DEF LoadedGoesOn
  <1>10. ASSUME WalkMeets \/ WalkFloor \/ WalkGenesis PROVE LoadedInv' /\ LoadedGoesOn
    <2>1. phase' = "done" /\ phase = "walk"
      BY <1>10 DEF WalkMeets, WalkFloor, WalkGenesis, Switch, Answer
    <2>2. PICK foot \in Heights : RowsSwitch(foot)
      BY <1>10, LoadedWalkSwitches
    <2>3. LoadedInv'
      BY <2>1, <2>2, LoadedSwitchKeeps
    <2>. QED BY <2>1, <2>2, <2>3 DEF LoadedGoesOn
  <1>11. ASSUME NEW b \in Block, ReconcileAnswer(b) PROVE LoadedInv' /\ LoadedGoesOn
    BY <1>5, <1>6, <1>7, <1>8, <1>11
       DEF ReconcileAnswer, ForwardMismatch, ForwardAsks, WalkShifted, WalkAsks
  <1>12. ASSUME ReconcileLocal PROVE LoadedInv' /\ LoadedGoesOn
    BY <1>6, <1>9, <1>10, <1>12 DEF ReconcileLocal, ForwardHeadMismatch, AtHead
  <1>13. ASSUME FetchFails PROVE LoadedInv' /\ LoadedGoesOn
    BY <1>8, <1>13 DEF FetchFails, ForwardAsks, WalkAsks
  <1>. QED BY <1>4, <1>11, <1>12, <1>13

------------------------------------------------------------------------------
(* Restarts: what a step does.                                             *)

\* The stages of pollOnce after a start that found a cursor.
LoadedStage ==
    /\ stage = "reconcile" <=> phase # "idle"
    /\ stage # "revert" => toRevert = {}
    /\ stage = "boot" <=> ~seeded
    /\ stage = "boot" => pending = {}
    /\ stage = "revert" \/ phase = "done" => head \in Block
    /\ stage = "save" => emit \subseteq view

\* The two tables: the cursor's number has a row, and the blocks of a batch are
\* written from the lowest to the highest.
StoreInv ==
    /\ saved \in Block /\ blocks[Num[saved]] # NoBlock
    /\ FiledByNumber(blocks)
    /\ stage \in {"remember", "deliver", "save"} =>
         /\ \A b, c \in emit : Num[b] = Num[c] => b = c
         /\ \A b \in emit \ toRemember : blocks[Num[b]] = b

\* The part of the invariant that holds whether or not the window is left.
Resumed == TypeInv /\ LoadedInv /\ LoadedStage /\ StoreInv

\* What is held back or in flight, one block per number.
Fresh == Held \cup InFlight
\* No two of them have one number.
FreshByNumber == \A b, c \in Fresh : Num[b] = Num[c] => b = c

\* The effect of a step on the sets of blocks, the known rows and the tables.
KeepsRows == known' = known /\ UNCHANGED storeVars

\* Nothing changes for the pipeline and in the tables.
StillStep == SetsStay /\ KeepsRows /\ (stage' = "save" => stage = "save")

\* TakeResult: a switch.
LoadedSwitchStep ==
    /\ Leaving = {} /\ InFlight = {} /\ InFlight' = {} /\ view' = view /\ Held = pending
    /\ Held' = (Held \cup BlocksOf(canonical')) \ BlocksOf(reverted')
    /\ Leaving' = BlocksOf(reverted') \ (Held \cup BlocksOf(canonical'))
    /\ \E foot \in Heights : RowsSwitch(foot)
    /\ UNCHANGED storeVars /\ stage' # "save"

\* OnReverted for one block.
TakeBackStep ==
    /\ \E b \in Leaving : view' = view \ {b} /\ Leaving' = Leaving \ {b}
    /\ UNCHANGED <<Held, InFlight>> /\ KeepsRows /\ stage' # "save"

\* splitPending: what is deep enough is in flight.
ReadyStep ==
    /\ Leaving = {} /\ Leaving' = {} /\ InFlight = {} /\ view' = view
    /\ InFlight' = {b \in Held : Num[b] <= Threshold(head)}
    /\ Held' = Held \ InFlight'
    /\ head \in Block /\ KeepsRows /\ stage' # "save"

\* RememberBlock for one block of the batch.
WriteStep ==
    /\ SetsStay /\ Leaving = {} /\ known' = known /\ saved' = saved
    /\ \E b \in InFlight : blocks' = Upsert(blocks, b)
    /\ stage' # "save"

\* OnCanonicalBatch.
HandOverStep ==
    /\ Leaving = {} /\ Leaving' = {} /\ InFlight' = {} /\ InFlight # {} /\ Held' = Held
    /\ view' = view \cup InFlight /\ InFlight \subseteq BlocksOf(blocks)
    /\ KeepsRows /\ stage' = "save"

\* SaveCursor.
CursorStep ==
    /\ SetsStay /\ Leaving = {} /\ known' = known /\ blocks' = blocks
    /\ stage = "save" /\ stage' # "save" /\ saved' \in view

\* seedFromStorage.
LoadStep ==
    /\ SetsStay /\ Held = {} /\ InFlight = {} /\ Leaving = {}
    /\ UNCHANGED storeVars /\ stage' # "save"
    /\ LoadKnown(LoadRecentBlocks(MinBlock))

\* The process dies: what is held back or in flight is lost.
CrashStep ==
    /\ Held' = {} /\ InFlight' = {} /\ Leaving' = {} /\ view' = view
    /\ known' = EmptyRows /\ UNCHANGED storeVars /\ stage' # "save"

\* One of these is what a step does.
ResumeEffect ==
    \/ StillStep \/ LoadedSwitchStep \/ TakeBackStep \/ ReadyStep \/ WriteStep
    \/ HandOverStep \/ CursorStep \/ LoadStep \/ CrashStep

\* Empty rows have no block.
LEMMA EmptyHasNone == BlocksOf(EmptyRows) = {}
  BY BlockTreeAssumption DEF BlocksOf, EmptyRows

\* Rows that are not empty end at their top.
LEMMA TopOfEnds ==
    ASSUME NEW rows \in Rows, NEW m \in Heights, rows[m] # NoBlock
    PROVE  rows # EmptyRows /\ EndsAt(rows, TopOf(rows)) /\ TopOf(rows) \in Heights
  <1>0. MaxHeight \in Nat /\ rows # EmptyRows
    BY BlockTreeAssumption DEF EmptyRows
  <1> DEFINE down == {MaxHeight - n : n \in {n \in Heights : rows[n] # NoBlock}}
  <1>2. down \in SUBSET Nat /\ down # {}
    BY <1>0
  <1>3. PICK k \in down : \A n \in down : k <= n
    BY <1>2, LeastNumber
  <1>4. PICK n \in Heights : rows[n] # NoBlock /\ k = MaxHeight - n
    BY <1>3
  <1>5. ASSUME NEW i \in Heights, i > n PROVE rows[i] = NoBlock
    <2>1. rows[i] # NoBlock => MaxHeight - i \in down
      OBVIOUS
    <2>2. ~(k <= MaxHeight - i)
      BY <1>0, <1>4, <1>5
    <2>. QED BY <1>3, <2>1, <2>2
  <1>6. \E i \in Heights : EndsAt(rows, i)
    BY <1>4, <1>5 DEF EndsAt
  <1>. QED BY <1>0, <1>6 DEF TopOf

\* seedFromStorage: the rows from MinBlock on, cut to the window.
LEMMA LoadedRows ==
    ASSUME TypeOK, StoreInv, LoadKnown(LoadRecentBlocks(MinBlock))
    PROVE  /\ seeded' = TRUE /\ tip' \in Heights
           /\ FiledByNumber(known') /\ EndsAt(known', tip')
           /\ \A n \in Heights : known'[n] =
                IF n < MinBlock \/ n + MaxDepth < tip' THEN NoBlock ELSE blocks[n]
  <1> DEFINE rows == LoadRecentBlocks(MinBlock)
             top == TopOf(rows)
  <1>0. /\ blocks \in Rows /\ saved \in Block /\ Num[saved] \in Heights
        /\ blocks[Num[saved]] # NoBlock /\ FiledByNumber(blocks)
        /\ MaxHeight \in Nat /\ SeedWindow \in Nat /\ MaxDepth \in Nat
    BY BlockTreeAssumption, TrackerAssumption, MaxDepthAssumption DEF TypeOK, StoreInv
  <1>1. MinBlock \in Nat /\ MinBlock <= Num[saved]
    BY <1>0 DEF MinBlock
  <1>2. \A n \in Heights : rows[n] = IF n < MinBlock THEN NoBlock ELSE blocks[n]
    BY <1>1 DEF LoadRecentBlocks
  <1>3. rows \in Rows
    BY <1>0, <1>1 DEF LoadRecentBlocks, Rows
  <1>4. rows[Num[saved]] # NoBlock
    BY <1>0, <1>1, <1>2
  <1>5. /\ known' = Prune(rows, top) /\ tip' = top /\ seeded' = (rows # EmptyRows)
    BY DEF LoadKnown
  <1>6. rows # EmptyRows /\ EndsAt(rows, top) /\ top \in Heights
    BY <1>0, <1>3, <1>4, TopOfEnds
  <1>. HIDE DEF rows, top
  <1>7. \A n \in Heights : known'[n] = IF n + MaxDepth < top THEN NoBlock ELSE rows[n]
    BY <1>0, <1>3, <1>5, <1>6 DEF Prune, Rows
  <1>8. \A n \in Heights : known'[n] =
          IF n < MinBlock \/ n + MaxDepth < top THEN NoBlock ELSE blocks[n]
    BY <1>2, <1>7
  <1>9. FiledByNumber(known')
    BY <1>0, <1>8 DEF FiledByNumber
  <1>10. EndsAt(known', top)
    BY <1>0, <1>6, <1>7 DEF EndsAt
  <1>. QED BY <1>5, <1>6, <1>8, <1>9, <1>10

\* Every step is one of them.
LEMMA ResumeSteps ==
    ASSUME StoreFails = FALSE, Resumed, FreshByNumber, TypeInv', [Next]_vars
    PROVE  Resumed' /\ ResumeEffect
  <1>0. TypeInv /\ TypeOK /\ LoadedInv /\ LoadedStage /\ StoreInv /\ ReconcilerTypeOK'
        /\ view \subseteq Block /\ emit \subseteq Block
    BY DEF Resumed, TypeInv, TypeOK
  <1>1. ASSUME stage \in {"poll", "reconcile"}, seeded,
               \/ \E h \in Block : OnHead(h)
               \/ \E b \in Block : ReconcileAnswer(b)
               \/ ReconcileLocal \/ FetchFails,
               stage' = IF phase' = "idle" THEN "poll" ELSE "reconcile",
               UNCHANGED <<pending, toRevert, emit, toRemember, storeVars, view, crashes>>
        PROVE  Resumed' /\ ResumeEffect
    <2>1. LoadedInv' /\ LoadedGoesOn
      BY <1>0, <1>1, LoadedCall
    <2>2. /\ Leaving = {} /\ InFlight = {} /\ InFlight' = {} /\ view' = view
          /\ phase # "done" /\ Held = pending /\ stage' # "save"
          /\ pending' = pending /\ toRevert' = {} /\ UNCHANGED storeVars
      BY <1>0, <1>1, <2>1 DEF LoadedGoesOn, LoadedStage, Leaving, InFlight, Held
    <2>3. seeded' /\ (phase' = "done" => head' \in Block)
      <3>1. CASE UNCHANGED chainVars
        <4>1. ASSUME phase' = "done" PROVE head' \in Block
          <5>1. ASSUME NEW h \in Block, OnHead(h) PROVE head' \in Block
            BY <5>1, OnHeadTypes, <1>0 DEF LoadedInv
          <5>2. ASSUME \/ \E b \in Block : ReconcileAnswer(b)
                       \/ ReconcileLocal \/ FetchFails
                PROVE  head' \in Block
            <6>1. phase \in {"forward", "walk"}
              BY <5>2 DEF ReconcileLocal, ForwardHeadMismatch, ForwardDone, AtHead, WalkMeets, WalkFloor,
                  WalkGenesis, FetchFails, ForwardAsks, WalkAsks, ReconcileAnswer,
                  ForwardExtend, ForwardMismatch, WalkFetch, WalkShifted
            <6>2. head \in Block
              BY <1>0, <6>1 DEF TypeInv
            <6>. QED BY <1>0, <5>2, <6>2, CallTypes DEF LoadedInv
          <5>. QED BY <1>1, <5>1, <5>2
        <4>. QED BY <1>1, <3>1, <4>1 DEF chainVars
      <3>2. CASE \E foot \in Heights : RowsSwitch(foot)
        BY <3>2 DEF RowsSwitch
      <3>. QED BY <2>1, <3>1, <3>2 DEF LoadedGoesOn
    <2>4. LoadedStage'
      BY <1>0, <1>1, <2>2, <2>3 DEF LoadedStage
    <2>5. StoreInv'
      BY <1>0, <1>1 DEF StoreInv, storeVars, FiledByNumber
    <2>6. ResumeEffect
      <3>1. CASE phase' # "done" /\ UNCHANGED chainVars
        BY <2>2, <3>1 DEF ResumeEffect, StillStep, SetsStay, KeepsRows, Held, Leaving, chainVars
      <3>2. CASE phase' = "done" /\ UNCHANGED chainVars
               /\ canonical' = EmptyRows /\ reverted' = EmptyRows
        BY <2>2, <3>2, EmptyHasNone
           DEF ResumeEffect, StillStep, SetsStay, KeepsRows, Held, Leaving, chainVars
      <3>3. CASE phase' = "done" /\ \E foot \in Heights : RowsSwitch(foot)
        <4>1. /\ Held' = (Held \cup BlocksOf(canonical')) \ BlocksOf(reverted')
              /\ Leaving' = BlocksOf(reverted') \ (Held \cup BlocksOf(canonical'))
          BY <2>2, <3>3 DEF Held, Leaving, BlocksOf
        <4>. QED BY <2>2, <3>3, <4>1 DEF ResumeEffect, LoadedSwitchStep
      <3>. QED BY <2>1, <3>1, <3>2, <3>3 DEF LoadedGoesOn
    <2>. QED BY <2>1, <2>4, <2>5, <2>6 DEF Resumed
  <1>2. ASSUME NEW h \in Block, PollHead(h) PROVE Resumed' /\ ResumeEffect
    <2>1. phase' # "idle"
      BY <1>2 DEF PollHead, OnHead, OnFirstHead, OnKnownHead, OnHigherHead, OnLowerHead, Answer
    <2>2. stage = "poll" /\ seeded
      BY <1>0, <1>2 DEF PollHead, LoadedStage
    <2>. QED BY <1>1, <1>2, <2>1, <2>2 DEF PollHead
  <1>3. ASSUME \/ Reconcile(ReconcileLocal) \/ Reconcile(FetchFails)
               \/ \E b \in Block : Reconcile(ReconcileAnswer(b))
        PROVE  Resumed' /\ ResumeEffect
    <2>1. stage = "reconcile" /\ seeded
      BY <1>0, <1>3 DEF Reconcile, LoadedStage
    <2>. QED BY <1>1, <1>3, <2>1 DEF Reconcile
  <1>4. ASSUME UNCHANGED recVars PROVE LoadedInv'
    <2>1. UNCHANGED chainVars /\ path' = path /\ cursor' = cursor /\ head' = head /\ phase' = phase
          /\ known' = known /\ tip' = tip /\ seeded' = seeded
      BY <1>4 DEF recVars, chainVars
    <2>2. OnTip' = OnTip
      BY <2>1 DEF OnTip
    <2>3. FetchedOnTip'
      BY <1>0, <2>1, <2>2 DEF LoadedInv, FetchedOnTip, IsHashChain, FiledByNumber, EndsAt, NoGaps, Linked
    <2>4. WalkedPathIsUnknown'
      BY <1>0, <2>1 DEF LoadedInv, WalkedPathIsUnknown, IsHashChain, FiledByNumber, EndsAt, NoGaps, Linked
    <2>. QED BY <1>0, <2>1, <2>3, <2>4, LoadedChainKept
  <1>5. CASE TakeResult
    <2>1. /\ phase = "done" /\ phase' = "idle" /\ UNCHANGED chainVars
          /\ stage = "reconcile" /\ stage' = "revert" /\ view' = view /\ head' = head
          /\ pending' = (pending \cup BlocksOf(canonical)) \ BlocksOf(reverted)
          /\ toRevert' = BlocksOf(reverted) \ (pending \cup BlocksOf(canonical))
          /\ UNCHANGED storeVars /\ emit' = emit /\ known' = known /\ seeded' = seeded
      BY <1>5 DEF TakeResult, Return, chainVars
    <2>2. FetchedOnTip' /\ WalkedPathIsUnknown'
      BY <2>1 DEF FetchedOnTip, WalkedPathIsUnknown
    <2>3. LoadedInv'
      BY <1>0, <2>1, <2>2, LoadedChainKept
    <2>4. LoadedStage' /\ StoreInv'
      BY <1>0, <2>1 DEF LoadedStage, StoreInv, storeVars, FiledByNumber
    <2>5. StillStep
      BY <2>1 DEF StillStep, SetsStay, KeepsRows, Held, Leaving, InFlight
    <2>. QED BY <1>0, <2>3, <2>4, <2>5 DEF Resumed, ResumeEffect
  <1>6. ASSUME SeedFromStorage PROVE Resumed' /\ ResumeEffect
    <2>1. /\ LoadKnown(LoadRecentBlocks(MinBlock)) /\ stage = "boot" /\ stage' = "poll"
          /\ UNCHANGED <<pending, toRevert, emit, toRemember, storeVars, view, crashes>>
      BY <1>6 DEF SeedFromStorage
    <2>2. /\ phase = "idle" /\ UNCHANGED callVars /\ UNCHANGED resVars /\ pending = {} /\ toRevert = {}
      BY <1>0, <2>1 DEF LoadKnown, LoadedStage
    <2>3. seeded' = TRUE /\ FiledByNumber(known') /\ EndsAt(known', tip')
      BY <1>0, <2>1, LoadedRows
    <2>4. LoadedInv'
      BY <1>0, <2>2, <2>3 DEF LoadedInv, FetchedOnTip, WalkedPathIsUnknown, callVars,
         FiledByNumber, EndsAt
    <2>5. LoadedStage' /\ StoreInv'
      BY <1>0, <2>1, <2>2, <2>3 DEF LoadedStage, StoreInv, storeVars, FiledByNumber, callVars
    <2>6. LoadStep
      BY <2>1, <2>2 DEF LoadStep, SetsStay, Held, Leaving, InFlight, callVars, resVars
    <2>. QED BY <1>0, <2>4, <2>5, <2>6 DEF Resumed, ResumeEffect
  <1>7. ~StartUnseeded
    BY <1>0, BlockTreeAssumption DEF StartUnseeded, CursorFound, StoreInv
  <1>8. CASE OnReverted
    <2> DEFINE b == Lowest(toRevert)
    <2>1. b \in toRevert
      BY <1>0, <1>8, LowestHighest DEF OnReverted, TypeOK
    <2>. HIDE DEF b
    <2>2. /\ toRevert' = toRevert \ {b} /\ view' = view \ {b} /\ stage = "revert"
          /\ stage' = stage /\ pending' = pending /\ UNCHANGED recVars /\ UNCHANGED storeVars
          /\ emit' = emit
      BY <1>8 DEF OnReverted, b
    <2>3. phase = "idle" /\ known' = known /\ phase' = phase /\ head' = head /\ seeded' = seeded
      BY <1>0, <2>2 DEF LoadedStage, recVars
    <2>4. Held' = Held /\ InFlight' = InFlight /\ Leaving = toRevert /\ Leaving' = toRevert'
      BY <2>2, <2>3 DEF Held, InFlight, Leaving
    <2>5. TakeBackStep
      BY <2>1, <2>2, <2>3, <2>4 DEF TakeBackStep, KeepsRows
    <2>6. LoadedStage' /\ StoreInv'
      BY <1>0, <2>2, <2>3 DEF LoadedStage, StoreInv, storeVars, FiledByNumber
    <2>. QED BY <1>0, <1>4, <2>2, <2>5, <2>6 DEF Resumed, ResumeEffect
  <1>9. CASE SplitPending
    <2> DEFINE ready == {b \in pending : Num[b] <= Threshold(head)}
    <2>1. /\ stage = "revert" /\ toRevert = {} /\ emit' = ready /\ pending' = pending \ ready
          /\ stage' = IF ready = {} THEN "poll" ELSE "remember"
          /\ toRemember' = ready
          /\ toRevert' = toRevert /\ view' = view /\ UNCHANGED recVars /\ UNCHANGED storeVars
      BY <1>9 DEF SplitPending
    <2>2. /\ phase = "idle" /\ known' = known /\ phase' = phase /\ head' = head /\ seeded' = seeded
          /\ head \in Block
      BY <1>0, <2>1 DEF LoadedStage, recVars
    <2>3. ready \subseteq pending
      OBVIOUS
    <2>. HIDE DEF ready
    <2>4. /\ Held = pending /\ Held' = pending' /\ Leaving = {} /\ Leaving' = {}
          /\ InFlight = {} /\ InFlight' = ready
      BY <2>1, <2>2 DEF Held, Leaving, InFlight
    <2>5. ReadyStep
      BY <2>1, <2>2, <2>4 DEF ReadyStep, KeepsRows, ready
    <2>6. LoadedStage'
      BY <1>0, <2>1, <2>2 DEF LoadedStage
    <2>7. \A b, c \in ready : Num[b] = Num[c] => b = c
      BY <2>3, <2>4 DEF FreshByNumber, Fresh
    <2>8. StoreInv'
      BY <1>0, <2>1, <2>7 DEF StoreInv, storeVars, FiledByNumber
    <2>. QED BY <1>0, <1>4, <2>1, <2>5, <2>6, <2>8 DEF Resumed, ResumeEffect
  <1>10. ASSUME RememberBlock(TRUE) PROVE Resumed' /\ ResumeEffect
    <2> DEFINE b == Lowest(toRemember)
    <2>1. b \in toRemember /\ toRemember \subseteq emit /\ emit \subseteq Block
      BY <1>0, <1>10, LowestHighest DEF RememberBlock, TypeInv, TypeOK
    <2>. HIDE DEF b
    <2>2. /\ stage = "remember"
          /\ blocks' = Upsert(blocks, b)
          /\ toRemember' = toRemember \ {b}
          /\ stage' = IF toRemember = {b} THEN "deliver" ELSE "remember"
          /\ UNCHANGED <<recVars, pending, toRevert, emit, saved, view, crashes>>
      BY <1>10 DEF RememberBlock, b
    <2>3. phase = "idle" /\ phase' = "idle" /\ known' = known /\ toRevert = {} /\ toRevert' = {}
          /\ seeded' = seeded /\ pending' = pending /\ emit' = emit /\ saved' = saved
      BY <1>0, <2>2 DEF LoadedStage, recVars
    <2>4. WriteStep
      BY <2>1, <2>2, <2>3 DEF WriteStep, SetsStay, Held, Leaving, InFlight
    <2>5. LoadedStage'
      BY <1>0, <2>2, <2>3 DEF LoadedStage
    <2>6. /\ blocks \in Rows /\ Num[b] \in Heights /\ b # NoBlock
          /\ Num[saved] \in Heights /\ \A c \in emit : Num[c] \in Heights
      BY <1>0, <2>1, BlockTreeAssumption DEF TypeOK, StoreInv
    <2>7. \A n \in Heights : blocks'[n] = IF n = Num[b] THEN b ELSE blocks[n]
      BY <2>2, <2>6 DEF Upsert, Rows
    <2>8. /\ \A c, d \in emit : Num[c] = Num[d] => c = d
          /\ \A c \in emit \ toRemember : blocks[Num[c]] = c
          /\ FiledByNumber(blocks) /\ saved \in Block /\ blocks[Num[saved]] # NoBlock
      BY <1>0, <2>2 DEF StoreInv
    <2>9. \A c \in emit' \ toRemember' : blocks'[Num[c]] = c
      BY <2>1, <2>2, <2>3, <2>6, <2>7, <2>8
    <2>10. FiledByNumber(blocks)' /\ saved' \in Block /\ blocks'[Num[saved']] # NoBlock
      BY <2>3, <2>6, <2>7, <2>8 DEF FiledByNumber
    <2>11. StoreInv'
      BY <2>3, <2>8, <2>9, <2>10 DEF StoreInv
    <2>. QED BY <1>0, <1>4, <2>2, <2>4, <2>5, <2>11 DEF Resumed, ResumeEffect
  <1>11. CASE OnCanonicalBatch
    <2>1. /\ stage = "deliver" /\ view' = view \cup emit /\ stage' = "save"
          /\ UNCHANGED <<recVars, pending, toRevert, emit, toRemember, storeVars, crashes>>
      BY <1>11 DEF OnCanonicalBatch
    <2>2. phase = "idle" /\ phase' = "idle" /\ known' = known /\ toRevert = {} /\ toRevert' = {}
          /\ seeded' = seeded /\ emit # {} /\ toRemember = {}
      BY <1>0, <2>1 DEF LoadedStage, recVars, TypeInv
    <2>3. \A c \in emit : c \in Block /\ Num[c] \in Heights /\ blocks[Num[c]] = c
      BY <1>0, <2>1, <2>2, BlockTreeAssumption DEF StoreInv
    <2>4. emit \subseteq BlocksOf(blocks)
      BY <2>3 DEF BlocksOf
    <2>5. HandOverStep
      BY <2>1, <2>2, <2>4 DEF HandOverStep, KeepsRows, Held, Leaving, InFlight
    <2>6. LoadedStage' /\ StoreInv'
      BY <1>0, <2>1, <2>2 DEF LoadedStage, StoreInv, storeVars, FiledByNumber
    <2>. QED BY <1>0, <1>4, <2>1, <2>5, <2>6 DEF Resumed, ResumeEffect
  <1>12. ASSUME SaveCursor(TRUE) PROVE Resumed' /\ ResumeEffect
    <2>1. /\ stage = "save" /\ saved' = Highest(emit) /\ emit' = {} /\ stage' = "poll"
          /\ UNCHANGED <<recVars, pending, toRevert, toRemember, blocks, view, crashes>>
      BY <1>12 DEF SaveCursor
    <2>2. phase = "idle" /\ phase' = "idle" /\ known' = known /\ toRevert = {} /\ toRevert' = {}
          /\ seeded' = seeded /\ emit # {} /\ toRemember = {}
      BY <1>0, <2>1 DEF LoadedStage, recVars, TypeInv
    <2>3. saved' \in emit /\ saved' \in Block
      BY <1>0, <2>1, <2>2, LowestHighest
    <2>4. blocks[Num[saved']] = saved' /\ saved' # NoBlock
      BY <1>0, <2>1, <2>2, <2>3, BlockTreeAssumption DEF StoreInv
    <2>5. CursorStep
      BY <1>0, <2>1, <2>2, <2>3 DEF LoadedStage, CursorStep, SetsStay, Held, Leaving, InFlight
    <2>6. LoadedStage' /\ StoreInv'
      BY <1>0, <2>1, <2>2, <2>3, <2>4 DEF LoadedStage, StoreInv, FiledByNumber
    <2>. QED BY <1>0, <1>4, <2>1, <2>5, <2>6 DEF Resumed, ResumeEffect
  <1>13. CASE Crash
    <2>1. /\ known' = EmptyRows /\ seeded' = FALSE /\ phase' = "idle" /\ stage' = "boot"
          /\ pending' = {} /\ toRevert' = {} /\ emit' = {} /\ UNCHANGED <<storeVars, view>>
      BY <1>13 DEF Crash
    <2>2. LoadedInv'
      BY <1>0, <2>1 DEF LoadedInv, FetchedOnTip, WalkedPathIsUnknown, FiledByNumber, EmptyRows
    <2>3. LoadedStage' /\ StoreInv'
      BY <1>0, <2>1 DEF LoadedStage, StoreInv, storeVars, FiledByNumber
    <2>4. CrashStep
      BY <2>1 DEF CrashStep, Held, Leaving, InFlight
    <2>. QED BY <1>0, <2>2, <2>3, <2>4 DEF Resumed, ResumeEffect
  <1>14. CASE UNCHANGED vars
    <2>1. UNCHANGED recVars /\ UNCHANGED storeVars /\ UNCHANGED pollVars /\ view' = view
          /\ known' = known /\ phase' = phase /\ head' = head /\ seeded' = seeded
          /\ stage' = stage /\ canonical' = canonical /\ reverted' = reverted
          /\ pending' = pending /\ toRevert' = toRevert /\ emit' = emit /\ toRemember' = toRemember
      BY <1>14 DEF vars, recVars, pollVars
    <2>2. StillStep
      BY <2>1 DEF StillStep, SetsStay, KeepsRows, Held, Leaving, InFlight
    <2>3. LoadedStage' /\ StoreInv'
      BY <1>0, <2>1 DEF LoadedStage, StoreInv, storeVars, FiledByNumber
    <2>. QED BY <1>0, <1>4, <2>1, <2>2, <2>3 DEF Resumed, ResumeEffect
  <1>15. StoreAnswers = {TRUE}
    BY DEF StoreAnswers
  <1>. QED
    BY <1>2, <1>3, <1>5, <1>6, <1>7, <1>8, <1>9, <1>10, <1>11, <1>12, <1>13, <1>14, <1>15
       DEF Next, TrackerStep

------------------------------------------------------------------------------
(* Restarts: the table, and what is in the window.                         *)

\* The same switch as sets of blocks: those known before and after, those that
\* joined and those that left.
CutOf(K, K2, N, R, foot, h) ==
    /\ h \in N /\ N \subseteq Block
    /\ \A b \in N : foot <= Num[b]
    /\ \A b, c \in N : Num[b] = Num[c] => b = c
    /\ \A b \in N : Num[b] > foot => Parent[b] \in N
    /\ \A k \in K, d \in N : Num[k] = foot - 1 /\ Num[d] = foot => Parent[d] = k
    /\ \E d \in N : Num[d] = foot
    /\ N \cap K = {}
    /\ R = {b \in K : Num[b] >= foot}
    /\ K2 \subseteq (K \ R) \cup N
    /\ \A b \in ((K \ R) \cup N) \ K2, k \in K2 : Num[b] < Num[k]
    /\ \A b \in ((K \ R) \cup N) \ K2 : Num[b] + MaxDepth < Num[h]
    /\ \/ \E k \in K : Num[k] = foot - 1
       \/ /\ phase = "walk" /\ (BelowWindow \/ AtGenesis) /\ foot = Num[cursor]
          /\ \A k \in K : Num[k] >= foot

\* The switch, read off the rows.
LEMMA RowsSwitchSets ==
    ASSUME LoadedInv, NEW foot \in Heights, RowsSwitch(foot)
    PROVE  CutOf(BlocksOf(known), BlocksOf(known'), BlocksOf(canonical'),
                 BlocksOf(reverted'), foot, head')
  <1> DEFINE h == head'
             N == BlocksOf(canonical')
             R == BlocksOf(reverted')
             K == BlocksOf(known)
             K2 == BlocksOf(known')
  <1>1. /\ h \in Block /\ canonical' \in Rows /\ reverted' \in Rows /\ known \in Rows
        /\ FiledByNumber(canonical') /\ Linked(canonical') /\ FiledByNumber(known)
        /\ \A n \in Heights : canonical'[n] # NoBlock <=> foot <= n /\ n <= Num[h]
        /\ \A n \in Heights : canonical'[n] # NoBlock => canonical'[n] # known[n]
        /\ canonical'[Num[h]] = h
        /\ \A n \in Heights : reverted'[n] = IF n >= foot THEN known[n] ELSE NoBlock
        /\ \/ /\ foot > 0 /\ known[foot - 1] # NoBlock
              /\ Parent[canonical'[foot]] = known[foot - 1]
           \/ /\ phase = "walk" /\ (BelowWindow \/ AtGenesis)
              /\ foot = Num[cursor]
              /\ \A n \in Heights : n < foot => known[n] = NoBlock
    BY DEF RowsSwitch, LoadedInv, ReconcilerTypeOK
  <1>2. /\ \A n \in Heights : known'[n] =
                IF n + MaxDepth < Num[h] THEN NoBlock
                ELSE IF canonical'[n] # NoBlock THEN canonical'[n]
                ELSE IF n < foot THEN known[n] ELSE NoBlock
        /\ known' \in Rows /\ FiledByNumber(known')
        /\ foot <= Num[h] /\ Num[h] \in Heights
    BY RowsAfterSwitch
  <1>3. FiledByNumber(reverted')
    BY <1>1 DEF FiledByNumber
  <1>4. /\ \A b : b \in N <=> b \in Block /\ canonical'[Num[b]] = b
        /\ \A b : b \in R <=> b \in Block /\ reverted'[Num[b]] = b
        /\ \A b : b \in K <=> b \in Block /\ known[Num[b]] = b
        /\ \A b : b \in K2 <=> b \in Block /\ known'[Num[b]] = b
    BY <1>1, <1>2, <1>3, InBlocksOf
  <1>. HIDE DEF N, R, K, K2
  <1>5. /\ \A b \in Block : Num[b] \in Heights /\ b # NoBlock
        /\ MaxHeight \in Nat /\ MaxDepth \in Nat
    BY BlockTreeAssumption, MaxDepthAssumption
  <1>6. h \in N /\ N \subseteq Block /\ K \subseteq Block
    BY <1>1, <1>4
  <1>7. \A b \in N : foot <= Num[b] /\ Num[b] <= Num[h]
    BY <1>1, <1>4, <1>5
  <1>8. \A b, c \in N : Num[b] = Num[c] => b = c
    BY <1>4
  <1>9. ASSUME NEW b \in N, Num[b] > foot PROVE Parent[b] \in N
    <2>1. /\ Num[b] \in Heights /\ Num[b] - 1 \in Heights /\ Num[b] > 0 /\ b \in Block
          /\ canonical'[Num[b]] = b /\ b # NoBlock
      BY <1>4, <1>5, <1>9
    <2>2. canonical'[Num[b] - 1] # NoBlock
      BY <1>1, <1>2, <1>5, <1>7, <1>9, <2>1
    <2>3. Parent[b] = canonical'[Num[b] - 1]
      BY <1>1, <2>1, <2>2 DEF Linked
    <2>4. canonical'[Num[b] - 1] \in Block /\ Num[canonical'[Num[b] - 1]] = Num[b] - 1
      BY <1>1, <2>1, <2>2 DEF Rows, FiledByNumber
    <2>. QED BY <1>4, <2>3, <2>4
  <1>10. ASSUME NEW k \in K, NEW d \in N, Num[k] = foot - 1, Num[d] = foot
         PROVE  Parent[d] = k
    <2>1. /\ foot > 0 /\ foot - 1 \in Heights /\ known[foot - 1] = k /\ k # NoBlock
          /\ canonical'[foot] = d
      BY <1>4, <1>5, <1>10
    <2>. QED BY <1>1, <2>1
  <1>11. N \cap K = {}
    BY <1>1, <1>4, <1>5
  <1>12. R = {b \in K : Num[b] >= foot}
    BY <1>1, <1>4, <1>5
  <1>13. \A b : b \in (K \ R) \cup N <=>
            b \in Block /\ (canonical'[Num[b]] = b \/ (Num[b] < foot /\ known[Num[b]] = b))
    BY <1>4, <1>5, <1>12
  <1>14. \A b \in Block : Num[b] < foot => canonical'[Num[b]] = NoBlock
    BY <1>1, <1>5
  <1>15. K2 \subseteq (K \ R) \cup N
    BY <1>2, <1>4, <1>5, <1>13
  <1>16. \A b \in ((K \ R) \cup N) \ K2 : Num[b] + MaxDepth < Num[h]
    BY <1>2, <1>4, <1>5, <1>13, <1>14
  <1>17. \A k \in K2 : ~(Num[k] + MaxDepth < Num[h]) /\ k \in Block
    BY <1>2, <1>4, <1>5
  <1>18. \A b \in ((K \ R) \cup N) \ K2, k \in K2 : Num[b] < Num[k]
    <2>1. \A b \in ((K \ R) \cup N) : b \in Block
      BY <1>13
    <2>. QED BY <1>2, <1>5, <1>16, <1>17, <2>1
  <1>19. \/ \E k \in K : Num[k] = foot - 1
         \/ /\ phase = "walk" /\ (BelowWindow \/ AtGenesis) /\ foot = Num[cursor]
            /\ \A k \in K : Num[k] >= foot
    <2>1. CASE foot > 0 /\ known[foot - 1] # NoBlock
      <3>1. foot - 1 \in Heights
        BY <1>5, <2>1
      <3>2. known[foot - 1] \in Block /\ Num[known[foot - 1]] = foot - 1
        BY <1>1, <2>1, <3>1 DEF Rows, FiledByNumber
      <3>. QED BY <1>4, <3>2
    <2>2. CASE \A n \in Heights : n < foot => known[n] = NoBlock
      BY <1>1, <1>4, <1>5, <2>1, <2>2
    <2>. QED BY <1>1, <2>1, <2>2
  <1>20. \E d \in N : Num[d] = foot
    <2>1. canonical'[foot] # NoBlock
      BY <1>1, <1>2
    <2>2. canonical'[foot] \in Block /\ Num[canonical'[foot]] = foot
      BY <1>1, <2>1 DEF Rows, FiledByNumber
    <2>. QED BY <1>4, <2>2
  <1>21. CutOf(K, K2, N, R, foot, h)
    BY <1>6, <1>7, <1>8, <1>9, <1>10, <1>11, <1>12, <1>15, <1>16, <1>18, <1>19, <1>20 DEF CutOf
  <1>. QED BY <1>21 DEF N, R, K, K2, h

\* Known, or lower than everything known.
InWindow(b) == b \in BlocksOf(known) \/ \A k \in BlocksOf(known) : Num[b] < Num[k]

\* What the pipeline was told is in the table.  Everything followed is in the
\* window: the rows may have lost lower blocks, to a prune or to a restart, but
\* none in between.  What is held back or in flight lies above what was told.
RowsInv ==
    /\ view \subseteq BlocksOf(blocks)
    /\ \A b \in Followed : InWindow(b)
    /\ InLayers
    /\ FreshByNumber

\* A switch keeps that, as long as the walk has not left the window, and takes back
\* or holds back what the rows say.
LEMMA SwitchKeepsRows ==
    ASSUME Resumed, RowsInv, StaysInWindow, LoadedSwitchStep,
           NEW foot \in Heights, RowsSwitch(foot)
    PROVE  /\ RowsInv'
           /\ Told' = Told \ BlocksOf(reverted')
           /\ Held' = (Held \ BlocksOf(reverted')) \cup BlocksOf(canonical')
           /\ Followed' = (Followed \ BlocksOf(reverted')) \cup BlocksOf(canonical')
           /\ \A c \in Followed \ BlocksOf(reverted') : Num[c] < foot
           /\ (\A c \in Followed \ BlocksOf(reverted') : Num[c] = foot - 1 => c \in BlocksOf(known))
           /\ (\A k \in BlocksOf(known) : Num[k] >= foot) => Followed \ BlocksOf(reverted') = {}
  <1> DEFINE K == BlocksOf(known)
             K2 == BlocksOf(known')
             N == BlocksOf(canonical')
             R == BlocksOf(reverted')
             h == head'
             F == Followed
  <1>1. CutOf(K, K2, N, R, foot, h)
    BY RowsSwitchSets DEF Resumed
  <1>2. /\ F \subseteq Block /\ Held \subseteq Block /\ view \subseteq Block /\ K \subseteq Block
        /\ \A b \in Block : Num[b] \in Heights
        /\ MaxHeight \in Nat
    BY FollowedType DEF Resumed, TypeInv, BlocksOf
  <1>3. /\ Leaving = {} /\ InFlight = {} /\ InFlight' = {} /\ view' = view /\ Held = pending
        /\ Held' = (Held \cup N) \ R /\ Leaving' = R \ (Held \cup N) /\ UNCHANGED storeVars
    BY DEF LoadedSwitchStep
  <1>4. Told = view /\ F = view \cup Held
    BY <1>3 DEF Followed, Told
  <1>5. /\ \A b \in F : b \in K \/ \A k \in K : Num[b] < Num[k]
        /\ \A c \in view, d \in Held : Num[c] < Num[d]
        /\ \A b, c \in Held : Num[b] = Num[c] => b = c
        /\ view \subseteq BlocksOf(blocks)
    BY <1>4 DEF RowsInv, InWindow, InLayers, Under, FreshByNumber, Fresh
  <1>6. (\A k \in K : Num[k] >= foot) => F \subseteq K
    <2>1. ASSUME \A k \in K : Num[k] >= foot PROVE F \subseteq K
      <3>1. ~ \E k \in K : Num[k] = foot - 1
        BY <1>2, <2>1
      <3>2. phase = "walk" /\ (BelowWindow \/ AtGenesis)
        BY <1>1, <3>1 DEF CutOf
      <3>. QED BY <1>3, <1>4, <3>2 DEF StaysInWindow
    <2>. QED BY <2>1
  <1>. HIDE DEF K, K2, N, R, h, F
  <1>7. /\ h \in N /\ N \subseteq Block
        /\ \A b \in N : foot <= Num[b]
        /\ \A b, c \in N : Num[b] = Num[c] => b = c
        /\ N \cap K = {}
        /\ R = {b \in K : Num[b] >= foot}
        /\ K2 \subseteq (K \ R) \cup N
        /\ \A b \in ((K \ R) \cup N) \ K2, k \in K2 : Num[b] < Num[k]
    BY <1>1 DEF CutOf
  <1>8. \/ \E k \in K : Num[k] = foot - 1
        \/ \A k \in K : Num[k] >= foot
    BY <1>1 DEF CutOf
  <1>9. \A c \in F \ R : Num[c] < foot
    <2>1. CASE \E k \in K : Num[k] = foot - 1
      <3>1. PICK k \in K : Num[k] = foot - 1
        BY <2>1
      <3>2. ASSUME NEW c \in F \ R PROVE Num[c] < foot
        <4>1. Num[c] \in Heights /\ Num[k] \in Heights
          BY <1>2
        <4>2. CASE c \in K
          BY <1>7, <4>1, <4>2
        <4>3. CASE \A j \in K : Num[c] < Num[j]
          BY <3>1, <4>1, <4>3
        <4>. QED BY <1>5, <4>2, <4>3
      <3>. QED BY <3>2
    <2>2. CASE \A k \in K : Num[k] >= foot
      BY <1>6, <1>7, <2>2
    <2>. QED BY <1>8, <2>1, <2>2
  <1>10. \A c \in F \ R : Num[c] = foot - 1 => c \in K
    <2>1. CASE \E k \in K : Num[k] = foot - 1
      <3>1. PICK k \in K : Num[k] = foot - 1
        BY <2>1
      <3>2. \A c \in F : Num[c] \in Heights
        BY <1>2
      <3>. QED BY <1>5, <3>1, <3>2
    <2>2. CASE \A k \in K : Num[k] >= foot
      BY <1>6, <2>2
    <2>. QED BY <1>8, <2>1, <2>2
  <1>11. (\A k \in K : Num[k] >= foot) => F \ R = {}
    BY <1>6, <1>7
  <1>12. N \cap F = {} /\ N \cap R = {} /\ view \cap Held = {}
    <2>1. \A c \in F \cup N : Num[c] \in Heights
      BY <1>2, <1>7
    <2>2. N \cap R = {}
      BY <1>7
    <2>. QED BY <1>4, <1>5, <1>7, <1>9, <2>1, <2>2
  <1>13. /\ Told' = Told \ R /\ Held' = (Held \ R) \cup N /\ Followed' = (F \ R) \cup N
    <2>1. Told' = view' \ Leaving' /\ Followed' = Told' \cup Held' \cup InFlight'
      BY DEF Told, Followed
    <2>. QED BY <1>3, <1>4, <1>12, <2>1
  <1>14. ASSUME NEW b \in Followed' PROVE b \in K2 \/ \A k \in K2 : Num[b] < Num[k]
    <2>1. Num[b] \in Heights /\ b \in Block /\ \A k \in K2 : k \in Block /\ Num[k] \in Heights
      BY <1>2, <1>7, <1>13
    <2>2. CASE b \in (K \ R) \cup N
      BY <1>7, <2>2
    <2>3. CASE b \notin (K \ R) \cup N
      <3>1. b \in F \ R /\ b \notin K
        BY <1>13, <2>3
      <3>2. \A k \in K : Num[b] < Num[k]
        BY <1>5, <3>1
      <3>3. \A k \in N : Num[b] < Num[k]
        BY <1>2, <1>7, <1>9, <2>1, <3>1
      <3>. QED BY <1>7, <3>2, <3>3
    <2>. QED BY <2>2, <2>3
  <1>15. BlocksOf(known)' = K2 /\ BlocksOf(blocks)' = BlocksOf(blocks)
    BY <1>3 DEF BlocksOf, K2, storeVars
  <1>16. \A b \in Followed' : InWindow(b)'
    BY <1>14, <1>15 DEF InWindow
  <1>17. InLayers'
    <2>1. \A c \in Told \ R, n \in N : Num[c] < Num[n]
      BY <1>2, <1>4, <1>7, <1>9
    <2>2. \A c \in Told \ R, d \in Held \ R : Num[c] < Num[d]
      BY <1>4, <1>5
    <2>. QED BY <1>3, <1>13, <2>1, <2>2 DEF InLayers, Under
  <1>18. FreshByNumber'
    <2>1. \A c \in Held \ R : Num[c] < foot /\ Num[c] \in Heights
      BY <1>2, <1>4, <1>9
    <2>2. \A c \in N : Num[c] \in Heights
      BY <1>2, <1>7
    <2>. QED BY <1>3, <1>5, <1>7, <1>13, <2>1, <2>2 DEF FreshByNumber, Fresh
  <1>19. RowsInv'
    BY <1>3, <1>5, <1>15, <1>16, <1>17, <1>18 DEF RowsInv
  <1>. QED BY <1>9, <1>10, <1>11, <1>13, <1>19 DEF K, N, R, F

\* The other steps.
LEMMA RowsInvStep ==
    ASSUME Resumed, Resumed', RowsInv, StaysInWindow, ResumeEffect
    PROVE  RowsInv'
  <1>0. /\ Followed = Told \cup Held \cup InFlight /\ Followed' = Told' \cup Held' \cup InFlight'
        /\ Told = view \ Leaving /\ Told' = view' \ Leaving'
        /\ Fresh = Held \cup InFlight /\ Fresh' = Held' \cup InFlight'
    BY DEF Followed, Told, Fresh
  <1>1. /\ view \subseteq BlocksOf(blocks)
        /\ \A b \in Followed : b \in BlocksOf(known) \/ \A k \in BlocksOf(known) : Num[b] < Num[k]
        /\ Under(Told \cup InFlight, Held) /\ Under(Told, InFlight)
        /\ \A b, c \in Fresh : Num[b] = Num[c] => b = c
    BY DEF RowsInv, InWindow, InLayers, FreshByNumber
  <1>2. /\ Followed \subseteq Block /\ Held \subseteq Block /\ view \subseteq Block /\ InFlight \subseteq Block
        /\ Told \subseteq Block
        /\ \A b \in Block : Num[b] \in Heights /\ b # NoBlock
        /\ MaxHeight \in Nat /\ blocks \in Rows /\ FiledByNumber(blocks) /\ TypeOK
    BY FollowedType DEF Resumed, TypeInv, TypeOK, StoreInv
  <1>3. known' = known => BlocksOf(known)' = BlocksOf(known)
    BY DEF BlocksOf
  <1>4. blocks' = blocks => BlocksOf(blocks)' = BlocksOf(blocks)
    BY DEF BlocksOf
  <1>5. ASSUME view' \subseteq BlocksOf(blocks)', known' = known, Followed' = Followed,
               Under(Told' \cup InFlight', Held'), Under(Told', InFlight'), Fresh' \subseteq Fresh
        PROVE  RowsInv'
    <2>1. \A b \in Followed' : InWindow(b)'
      BY <1>1, <1>3, <1>5 DEF InWindow
    <2>2. InLayers' /\ FreshByNumber'
      BY <1>1, <1>5 DEF InLayers, Under, FreshByNumber
    <2>. QED BY <1>5, <2>1, <2>2 DEF RowsInv
  <1>6. CASE StillStep \/ CursorStep
    BY <1>0, <1>1, <1>4, <1>5, <1>6 DEF StillStep, CursorStep, SetsStay, KeepsRows, storeVars
  <1>7. CASE LoadedSwitchStep
    BY <1>7, SwitchKeepsRows DEF LoadedSwitchStep
  <1>8. CASE TakeBackStep
    <2>1. /\ Told' = Told /\ Held' = Held /\ InFlight' = InFlight /\ view' \subseteq view
          /\ known' = known /\ blocks' = blocks
      BY <1>0, <1>8 DEF TakeBackStep, KeepsRows, storeVars
    <2>. QED BY <1>0, <1>1, <1>4, <1>5, <2>1
  <1>9. CASE ReadyStep
    <2> DEFINE th == Threshold(head)
    <2>1. /\ Told' = Told /\ InFlight = {} /\ view' = view /\ known' = known /\ blocks' = blocks
          /\ InFlight' = {b \in Held : Num[b] <= th} /\ Held' = Held \ InFlight' /\ head \in Block
      BY <1>0, <1>9 DEF ReadyStep, KeepsRows, storeVars
    <2>2. th \in Int
      BY <1>2, <2>1, TrackerAssumption DEF Threshold
    <2>. HIDE DEF th
    <2>3. Followed' = Followed /\ Fresh' = Fresh
      BY <1>0, <2>1
    <2>4. \A c \in InFlight', d \in Held' : Num[c] < Num[d]
      BY <1>2, <2>1, <2>2
    <2>5. Under(Told' \cup InFlight', Held') /\ Under(Told', InFlight')
      BY <1>1, <2>1, <2>4 DEF Under
    <2>. QED BY <1>1, <1>4, <1>5, <2>1, <2>3, <2>5
  <1>10. CASE WriteStep
    <2>1. PICK b \in InFlight : blocks' = Upsert(blocks, b)
      BY <1>10 DEF WriteStep
    <2>2. /\ Told' = Told /\ Held' = Held /\ InFlight' = InFlight /\ view' = view
          /\ known' = known /\ Told = view
      BY <1>0, <1>10 DEF WriteStep, SetsStay
    <2>3. \A n \in Heights : blocks'[n] = IF n = Num[b] THEN b ELSE blocks[n]
      BY <1>2, <2>1 DEF Upsert, Rows
    <2>4. ASSUME NEW c \in view PROVE c \in BlocksOf(blocks)'
      <3>1. c \in Block /\ blocks[Num[c]] = c /\ Num[c] \in Heights
        BY <1>1, <1>2, InBlocksOf
      <3>2. Num[c] # Num[b]
        BY <1>1, <1>2, <2>2 DEF Under
      <3>3. blocks'[Num[c]] = c
        BY <2>3, <3>1, <3>2
      <3>. QED BY <3>1, <3>3 DEF BlocksOf
    <2>. QED BY <1>0, <1>1, <1>5, <2>2, <2>4
  <1>11. CASE HandOverStep
    <2>1. /\ Told' = Told \cup InFlight /\ InFlight' = {} /\ Held' = Held
          /\ view' = view \cup InFlight /\ InFlight \subseteq BlocksOf(blocks)
          /\ known' = known /\ blocks' = blocks
      BY <1>0, <1>11 DEF HandOverStep, KeepsRows, storeVars
    <2>2. Followed' = Followed /\ Fresh' \subseteq Fresh
      BY <1>0, <2>1
    <2>3. view' \subseteq BlocksOf(blocks)'
      BY <1>1, <1>4, <2>1
    <2>4. Under(Told' \cup InFlight', Held') /\ Under(Told', InFlight')
      BY <1>1, <2>1 DEF Under
    <2>. QED BY <1>5, <2>1, <2>2, <2>3, <2>4
  <1>12. ASSUME Held' = {}, InFlight' = {}, view' = view, blocks' = blocks,
                \A b \in view : InWindow(b)'
         PROVE  RowsInv'
    <2>1. Followed' \subseteq view
      BY <1>0, <1>12
    <2>2. InLayers' /\ FreshByNumber'
      BY <1>12 DEF InLayers, Under, FreshByNumber, Fresh
    <2>. QED BY <1>1, <1>4, <1>12, <2>1, <2>2 DEF RowsInv
  <1>13. CASE LoadStep
    <2>1. /\ Held' = {} /\ InFlight' = {} /\ view' = view /\ blocks' = blocks
          /\ LoadKnown(LoadRecentBlocks(MinBlock))
      BY <1>13 DEF LoadStep, SetsStay, storeVars
    <2>2. /\ tip' \in Heights
          /\ \A n \in Heights : known'[n] =
                IF n < MinBlock \/ n + MaxDepth < tip' THEN NoBlock ELSE blocks[n]
      BY <1>2, <2>1, LoadedRows DEF Resumed
    <2>3. MinBlock \in Nat /\ MaxDepth \in Nat
      <3>1. Num[saved] \in Heights /\ SeedWindow \in Nat
        BY <1>2, TrackerAssumption DEF Resumed, StoreInv
      <3>. QED BY <1>2, <3>1, MaxDepthAssumption DEF MinBlock
    <2>4. ASSUME NEW b \in view PROVE InWindow(b)'
      <3>1. b \in Block /\ blocks[Num[b]] = b /\ Num[b] \in Heights
        BY <1>1, <1>2, InBlocksOf
      <3>2. CASE Num[b] < MinBlock \/ Num[b] + MaxDepth < tip'
        <4>1. ASSUME NEW k \in BlocksOf(known)' PROVE Num[b] < Num[k]
          <5>1. PICK n \in Heights : known'[n] = k /\ k \in Block
            BY <4>1 DEF BlocksOf
          <5>2. ~(n < MinBlock \/ n + MaxDepth < tip') /\ blocks[n] = k /\ k # NoBlock
            BY <1>2, <2>2, <5>1
          <5>3. Num[k] = n
            BY <1>2, <5>2 DEF FiledByNumber
          <5>. QED BY <1>2, <2>2, <2>3, <3>1, <3>2, <5>2, <5>3
        <4>. QED BY <4>1 DEF InWindow
      <3>3. CASE ~(Num[b] < MinBlock \/ Num[b] + MaxDepth < tip')
        <4>1. known'[Num[b]] = b
          BY <2>2, <3>1, <3>3
        <4>. QED BY <3>1, <4>1 DEF InWindow, BlocksOf
      <3>. QED BY <3>2, <3>3
    <2>. QED BY <1>12, <2>1, <2>4
  <1>14. CASE CrashStep
    <2>1. /\ Held' = {} /\ InFlight' = {} /\ view' = view /\ blocks' = blocks
          /\ known' = EmptyRows
      BY <1>14 DEF CrashStep, storeVars
    <2>2. BlocksOf(known)' = {}
      BY <2>1, EmptyHasNone DEF BlocksOf
    <2>. QED BY <1>12, <2>1, <2>2 DEF InWindow
  <1>. QED
    BY <1>6, <1>7, <1>8, <1>9, <1>10, <1>11, <1>13, <1>14 DEF ResumeEffect

\* A start that finds rows and a cursor.
LEMMA ResumeStart ==
    ASSUME ResumeInit
    PROVE  TypeInv /\ Resumed /\ RowsInv /\ known = EmptyRows /\ Fresh = {}
  <1>1. /\ ReconcilerInit /\ stage = "boot" /\ pending = {} /\ toRevert = {} /\ emit = {}
        /\ toRemember = {} /\ blocks \in Loadable \ {EmptyRows}
        /\ saved = blocks[TopOf(blocks)] /\ view = BlocksOf(blocks) /\ crashes = 0
    BY DEF ResumeInit
  <1>2. ReconcilerTypeOK /\ known = EmptyRows /\ ~seeded /\ phase = "idle"
    BY <1>1, InitInv DEF ReconcilerInv, ReconcilerInit
  <1>3. blocks \in Rows /\ \E t \in Heights : IsHashChain(blocks, t)
    BY <1>1 DEF Loadable
  <1>4. PICK t \in Heights : IsHashChain(blocks, t)
    BY <1>3
  <1>5. FiledByNumber(blocks) /\ blocks[t] # NoBlock
    BY <1>4 DEF IsHashChain, EndsAt
  <1>6. EndsAt(blocks, TopOf(blocks)) /\ TopOf(blocks) \in Heights
    BY <1>3, <1>5, TopOfEnds
  <1>7. saved \in Block /\ Num[saved] = TopOf(blocks) /\ blocks[Num[saved]] # NoBlock
    BY <1>1, <1>3, <1>5, <1>6 DEF EndsAt, Rows, FiledByNumber
  <1>8. view \subseteq Block /\ MaxCrashes \in Nat
    BY <1>1, TrackerAssumption DEF BlocksOf
  <1>9. TypeInv
    BY <1>1, <1>2, <1>3, <1>7, <1>8 DEF TypeInv, TypeOK, Stages
  <1>10. LoadedInv
    BY <1>2 DEF LoadedInv, FetchedOnTip, WalkedPathIsUnknown, FiledByNumber, EmptyRows
  <1>11. LoadedStage /\ StoreInv
    BY <1>1, <1>2, <1>5, <1>7 DEF LoadedStage, StoreInv
  <1>12. Held = {} /\ InFlight = {} /\ Leaving = {}
    BY <1>1, <1>2 DEF Held, InFlight, Leaving
  <1>13. BlocksOf(known) = {}
    BY <1>2, EmptyHasNone
  <1>14. RowsInv
    BY <1>1, <1>12, <1>13
       DEF RowsInv, InWindow, InLayers, Under, FreshByNumber, Fresh
  <1>. QED BY <1>2, <1>9, <1>10, <1>11, <1>12, <1>14 DEF Resumed, Fresh

\* The inductive invariant of a tracker that may die and start again.
ResumeInv == Resumed /\ RowsInv

\* It holds while no walk leaves the window.
LEMMA ResumeInvHolds ==
    ASSUME StoreFails = FALSE
    PROVE  ResumeSpec /\ []StaysInWindow => []ResumeInv
  <1>1. ResumeInit => ResumeInv
    BY ResumeStart DEF ResumeInv
  <1>2. ResumeInv /\ StaysInWindow /\ [Next]_vars => ResumeInv'
    <2> SUFFICES ASSUME ResumeInv, StaysInWindow, [Next]_vars PROVE ResumeInv'
      OBVIOUS
    <2>1. TypeInv' /\ Resumed /\ RowsInv /\ FreshByNumber
      BY TypeStep DEF ResumeInv, Resumed, RowsInv
    <2>2. Resumed' /\ ResumeEffect
      BY <2>1, ResumeSteps
    <2>. QED BY <2>1, <2>2, RowsInvStep DEF ResumeInv
  <1>. QED BY <1>1, <1>2, PTL DEF ResumeSpec

\* Whatever the pipeline was told and not told to forget is a row of the blocks
\* table, across restarts, while the store works and no walk leaves the window: a
\* start loads what it needs to take blocks back (tracker.go, seedFromStorage,
\* RememberBlock before OnCanonicalBatch).
THEOREM ViewStaysStored ==
    ASSUME StoreFails = FALSE
    PROVE  ResumeSpec /\ []StaysInWindow => []ViewIsStored
  <1>1. ResumeInv => ViewIsStored
    BY DEF ResumeInv, RowsInv, ViewIsStored
  <1>. QED BY <1>1, ResumeInvHolds, PTL

\* What is in flight lies above what was told.
LEMMA NoSecondDelivery == ResumeInv => NeverDeliversAgain
  <1> SUFFICES ASSUME ResumeInv, stage \in {"remember", "deliver"} PROVE emit \cap view = {}
    BY DEF NeverDeliversAgain
  <1>1. InFlight = emit /\ Told = view
    BY DEF ResumeInv, Resumed, LoadedStage, InFlight, Told, Leaving
  <1>2. Under(view, emit)
    BY <1>1 DEF ResumeInv, RowsInv, InLayers
  <1>3. \A b \in view : Num[b] \in Heights
    BY BlockTreeAssumption DEF ResumeInv, Resumed, TypeInv, TypeOK
  <1>. QED BY <1>2, <1>3 DEF Under

\* No block is handed over a second time without being taken back, across
\* restarts, under the same two conditions (tracker.go, pollOnce).
THEOREM NoBlockIsDeliveredAgain ==
    ASSUME StoreFails = FALSE
    PROVE  ResumeSpec /\ []StaysInWindow => []NeverDeliversAgain
  BY NoSecondDelivery, ResumeInvHolds, PTL

------------------------------------------------------------------------------
(* What a restart skips is in the table.                                   *)

\* A walk that gives up at the floor of the window has a known block that is not
\* above the cursor: the window is as deep as what was delivered but not saved.
ReachesCursor == phase = "walk" /\ BelowWindow => HasAnyBelow(Num[saved] + 1)

\* The blocks of the table.
Stored == BlocksOf(blocks)

\* What is known was followed or stored.  A fresh block is linked to what is
\* followed under it, and its parent is followed or stored unless it is not above
\* the cursor.
LinkInv ==
    /\ BlocksOf(known) \subseteq Followed \cup Stored
    /\ \A b \in Fresh, e \in Followed : Num[e] + 1 = Num[b] => Parent[b] = e
    /\ \A b \in Fresh : \/ Parent[b] \in Followed \cup Stored
                        \/ /\ stage # "save" /\ Num[b] <= Num[saved]
                           /\ \A e \in Followed : Num[b] <= Num[e]

\* A switch keeps that while a walk reaches the cursor.
LEMMA LinkInvSwitch ==
    ASSUME Resumed, RowsInv, LinkInv, StaysInWindow, ReachesCursor, LoadedSwitchStep,
           NEW foot \in Heights, RowsSwitch(foot)
    PROVE  LinkInv'
  <1> DEFINE K == BlocksOf(known)
             K2 == BlocksOf(known')
             N == BlocksOf(canonical')
             R == BlocksOf(reverted')
             F == Followed
             S == Stored
             A == (Held \ R) \cup N
             D == (F \ R) \cup N
  <1>1. CutOf(K, K2, N, R, foot, head')
    BY RowsSwitchSets DEF Resumed
  <1>2. /\ F \subseteq Block /\ Held \subseteq F /\ K \subseteq Block
        /\ \A b \in Block : Num[b] \in Heights /\ b # NoBlock
        /\ \A b \in Block : Num[b] > 0 => Parent[b] \in Block /\ Num[Parent[b]] = Num[b] - 1
        /\ \A b \in Block : Num[b] = 0 => Parent[b] = NoBlock
        /\ MaxHeight \in Nat /\ saved \in Block
    BY FollowedType, BlockTreeAssumption DEF Resumed, TypeInv, BlocksOf, Followed, StoreInv
  <1>3. /\ Followed' = D /\ Fresh' = A /\ Stored' = S /\ BlocksOf(known)' = K2
        /\ saved' = saved /\ stage' # "save" /\ Held \subseteq Fresh
    <2>1. /\ Followed' = D /\ Held' = A
      BY SwitchKeepsRows
    <2>2. /\ InFlight' = {} /\ UNCHANGED storeVars /\ stage' # "save"
      BY DEF LoadedSwitchStep
    <2>. QED BY <2>1, <2>2 DEF Fresh, Stored, BlocksOf, storeVars
  <1>4. /\ \A c \in F \ R : Num[c] < foot
        /\ \A c \in F \ R : Num[c] = foot - 1 => c \in K
        /\ (\A k \in K : Num[k] >= foot) => F \ R = {}
    BY SwitchKeepsRows
  <1>5. /\ K \subseteq F \cup S
        /\ \A b \in Held, e \in F : Num[e] + 1 = Num[b] => Parent[b] = e
        /\ \A b \in Held : \/ Parent[b] \in F \cup S
                           \/ Num[b] <= Num[saved] /\ \A e \in F : Num[b] <= Num[e]
    BY <1>3 DEF LinkInv
  <1>6. /\ N \subseteq Block
        /\ \A b \in N : foot <= Num[b]
        /\ \A b, c \in N : Num[b] = Num[c] => b = c
        /\ \A b \in N : Num[b] > foot => Parent[b] \in N
        /\ \A k \in K, d \in N : Num[k] = foot - 1 /\ Num[d] = foot => Parent[d] = k
        /\ R = {b \in K : Num[b] >= foot}
        /\ K2 \subseteq (K \ R) \cup N
        /\ \/ \E k \in K : Num[k] = foot - 1
           \/ /\ phase = "walk" /\ (BelowWindow \/ AtGenesis) /\ foot = Num[cursor]
              /\ \A k \in K : Num[k] >= foot
    BY <1>1 DEF CutOf
  <1>7. (\A k \in K : Num[k] >= foot) => foot <= Num[saved]
    <2> SUFFICES ASSUME \A k \in K : Num[k] >= foot PROVE foot <= Num[saved]
      OBVIOUS
    <2>1. phase = "walk" /\ (BelowWindow \/ AtGenesis) /\ foot = Num[cursor]
      BY <1>2, <1>6
    <2>2. CASE AtGenesis
      BY <1>2, <2>1, <2>2 DEF AtGenesis
    <2>3. CASE BelowWindow
      <3>1. HasAnyBelow(Num[saved] + 1)
        BY <2>1, <2>3 DEF ReachesCursor
      <3>2. PICK n \in Heights : n < Num[saved] + 1 /\ known[n] # NoBlock
        BY <3>1 DEF HasAnyBelow
      <3>3. known \in Rows /\ FiledByNumber(known)
        BY DEF Resumed, LoadedInv, ReconcilerTypeOK
      <3>4. known[n] \in K /\ Num[known[n]] = n
        BY <3>2, <3>3 DEF Rows, FiledByNumber, BlocksOf
      <3>. QED BY <1>2, <3>2, <3>4
    <2>. QED BY <2>1, <2>2, <2>3
  <1>. HIDE DEF K, K2, N, R, F, S
  <1>8. K2 \subseteq D \cup S
    BY <1>5, <1>6
  <1>9. ASSUME NEW b \in A, NEW e \in D, Num[e] + 1 = Num[b]
        PROVE  Parent[b] = e
    <2>0. b \in Block /\ e \in Block /\ Num[b] \in Heights /\ Num[e] \in Heights
      BY <1>2, <1>6
    <2>1. CASE b \in Held \ R
      <3>1. b \in F \ R
        BY <1>2, <2>1
      <3>2. Num[b] < foot
        BY <1>4, <3>1
      <3>3. e \notin N
        BY <1>6, <1>9, <2>0, <3>2
      <3>. QED BY <1>5, <1>9, <2>1, <3>3
    <2>2. CASE b \in N /\ Num[b] > foot
      <3>1. Parent[b] \in N /\ Num[Parent[b]] = Num[b] - 1
        BY <1>2, <1>6, <2>0, <2>2
      <3>2. e \notin F \ R
        BY <1>4, <1>9, <2>0, <2>2
      <3>. QED BY <1>6, <1>9, <2>0, <3>1, <3>2
    <2>3. CASE b \in N /\ Num[b] = foot
      <3>1. e \notin N /\ Num[e] = foot - 1
        BY <1>6, <1>9, <2>0, <2>3
      <3>2. e \in K
        BY <1>4, <3>1
      <3>. QED BY <1>6, <2>3, <3>1, <3>2
    <2>. QED BY <1>6, <2>0, <2>1, <2>2, <2>3
  <1>10. ASSUME NEW b \in A
         PROVE  \/ Parent[b] \in D \cup S
                \/ Num[b] <= Num[saved] /\ \A e \in D : Num[b] <= Num[e]
    <2>0. b \in Block /\ Num[b] \in Heights
      BY <1>2, <1>6
    <2>1. CASE b \in Held \ R
      <3>1. b \in F \ R
        BY <1>2, <2>1
      <3>2. Num[b] < foot
        BY <1>4, <3>1
      <3>3. CASE Parent[b] \in F \cup S
        <4>1. Parent[b] \notin R
          BY <1>2, <1>6, <2>0, <3>2
        <4>. QED BY <3>3, <4>1
      <3>4. CASE Num[b] <= Num[saved] /\ \A e \in F : Num[b] <= Num[e]
        <4>1. \A e \in N : Num[b] <= Num[e]
          BY <1>2, <1>6, <2>0, <3>2
        <4>. QED BY <3>4, <4>1
      <3>. QED BY <1>5, <2>1, <3>3, <3>4
    <2>2. CASE b \in N /\ Num[b] > foot
      BY <1>6, <2>2
    <2>3. CASE b \in N /\ Num[b] = foot
      <3>1. CASE \E k \in K : Num[k] = foot - 1
        <4>1. PICK k \in K : Num[k] = foot - 1
          BY <3>1
        <4>2. Parent[b] = k /\ k \in F \cup S
          BY <1>5, <1>6, <2>3, <4>1
        <4>3. k \notin R
          BY <1>2, <1>6, <4>1
        <4>. QED BY <4>2, <4>3
      <3>2. CASE \A k \in K : Num[k] >= foot
        BY <1>4, <1>6, <1>7, <2>3, <3>2
      <3>. QED BY <1>6, <3>1, <3>2
    <2>. QED BY <1>6, <2>0, <2>1, <2>2, <2>3
  <1>. QED BY <1>3, <1>8, <1>9, <1>10 DEF LinkInv

\* The other steps.
LEMMA LinkInvStep ==
    ASSUME Resumed, Resumed', RowsInv, LinkInv, StaysInWindow, ReachesCursor, ResumeEffect
    PROVE  LinkInv'
  <1>0. /\ Followed = Told \cup Held \cup InFlight /\ Followed' = Told' \cup Held' \cup InFlight'
        /\ Told = view \ Leaving /\ Told' = view' \ Leaving'
        /\ Fresh = Held \cup InFlight /\ Fresh' = Held' \cup InFlight'
    BY DEF Followed, Told, Fresh
  <1>1. /\ BlocksOf(known) \subseteq Followed \cup Stored
        /\ \A b \in Fresh, e \in Followed : Num[e] + 1 = Num[b] => Parent[b] = e
        /\ \A b \in Fresh : \/ Parent[b] \in Followed \cup Stored
                            \/ /\ stage # "save" /\ Num[b] <= Num[saved]
                               /\ \A e \in Followed : Num[b] <= Num[e]
    BY DEF LinkInv
  <1>2. known' = known => BlocksOf(known)' = BlocksOf(known)
    BY DEF BlocksOf
  <1>3. blocks' = blocks => Stored' = Stored
    BY DEF Stored, BlocksOf
  <1>4. CASE StillStep \/ TakeBackStep \/ ReadyStep
    <2>1. /\ Followed' = Followed /\ Fresh' = Fresh /\ known' = known /\ blocks' = blocks
          /\ saved' = saved /\ (stage' = "save" => stage = "save")
      BY <1>0, <1>4 DEF StillStep, TakeBackStep, ReadyStep, SetsStay, KeepsRows, storeVars
    <2>. QED BY <1>1, <1>2, <1>3, <2>1 DEF LinkInv
  <1>5. CASE CursorStep
    <2>1. /\ Followed' = Followed /\ Fresh' = Fresh /\ known' = known /\ blocks' = blocks
          /\ stage = "save"
      BY <1>0, <1>5 DEF CursorStep, SetsStay
    <2>. QED BY <1>1, <1>2, <1>3, <2>1 DEF LinkInv
  <1>6. CASE LoadedSwitchStep
    BY <1>6, LinkInvSwitch DEF LoadedSwitchStep
  <1>7. CASE WriteStep
    <2>1. PICK w \in InFlight : blocks' = Upsert(blocks, w)
      BY <1>7 DEF WriteStep
    <2>2. /\ Followed' = Followed /\ Fresh' = Fresh /\ known' = known /\ saved' = saved
          /\ stage' # "save"
      BY <1>0, <1>7 DEF WriteStep, SetsStay
        <2>3. /\ blocks \in Rows /\ FiledByNumber(blocks) /\ known \in Rows /\ FiledByNumber(known)
          /\ w \in Block /\ w \in Followed /\ Followed \subseteq Block /\ Fresh \subseteq Block
      BY <1>0, FollowedType DEF Resumed, TypeInv, TypeOK, StoreInv, LoadedInv, ReconcilerTypeOK
    <2>4. \A n \in Heights : blocks'[n] = IF n = Num[w] THEN w ELSE blocks[n]
      BY <2>1, <2>3, BlockTreeAssumption DEF Upsert, Rows
    <2>5. ASSUME NEW p \in Stored PROVE p \in Stored' \/ Num[p] = Num[w]
      <3>1. p \in Block /\ blocks[Num[p]] = p /\ Num[p] \in Heights
        BY <2>3, InBlocksOf, BlockTreeAssumption DEF Stored
      <3>2. Num[p] # Num[w] => blocks'[Num[p]] = p
        BY <2>4, <3>1
      <3>. QED BY <3>1, <3>2 DEF Stored, BlocksOf
    <2>6. BlocksOf(known) \subseteq Followed \cup Stored'
      <3> SUFFICES ASSUME NEW k \in BlocksOf(known), k \notin Followed PROVE k \in Stored'
        OBVIOUS
      <3>1. k \in Block /\ known[Num[k]] = k /\ Num[k] \in Heights
        BY <2>3, InBlocksOf, BlockTreeAssumption
      <3>2. Num[k] # Num[w]
        <4>1. w \in BlocksOf(known) \/ \A j \in BlocksOf(known) : Num[w] < Num[j]
          BY <2>3 DEF RowsInv, InWindow
        <4>2. w \in BlocksOf(known) => known[Num[w]] = w
          BY <2>3, InBlocksOf
        <4>. QED BY <2>3, <3>1, <4>1, <4>2
      <3>. QED BY <1>1, <2>5, <3>2
    <2>7. ASSUME NEW b \in Fresh, Parent[b] \in Followed \cup Stored
          PROVE  Parent[b] \in Followed \cup Stored'
      <3>1. CASE Parent[b] \in Stored /\ Num[Parent[b]] = Num[w]
        <4>1. b \in Block /\ Parent[b] \in Block
          BY <2>3, <3>1 DEF Stored, BlocksOf
        <4>2. Num[b] = Num[w] + 1
          BY <3>1, <4>1, BlockTreeAssumption
        <4>. QED BY <1>1, <2>3, <4>2
      <3>. QED BY <2>5, <2>7, <3>1
    <2>8. \A b \in Fresh' : \/ Parent[b] \in Followed' \cup Stored'
                            \/ /\ stage' # "save" /\ Num[b] <= Num[saved']
                               /\ \A e \in Followed' : Num[b] <= Num[e]
      BY <1>1, <2>2, <2>7
    <2>. QED BY <1>1, <1>2, <2>2, <2>6, <2>8 DEF LinkInv
  <1>8. CASE HandOverStep
    <2>1. /\ Followed' = Followed /\ Fresh' = Held /\ known' = known /\ blocks' = blocks
          /\ InFlight # {} /\ saved' = saved
      BY <1>0, <1>8 DEF HandOverStep, KeepsRows, storeVars
    <2>2. ASSUME NEW b \in Held PROVE Parent[b] \in Followed \cup Stored
      <3>1. PICK e \in InFlight : TRUE
        BY <2>1
      <3>2. Num[e] < Num[b] /\ e \in Followed
        BY <1>0 DEF RowsInv, InLayers, Under
      <3>3. Num[e] \in Heights /\ Num[b] \in Heights
        BY <1>0, FollowedType DEF Resumed, TypeInv
      <3>4. ~(Num[b] <= Num[e])
        BY <3>2, <3>3
      <3>. QED BY <1>0, <1>1, <3>2, <3>4
    <2>. QED BY <1>0, <1>1, <1>2, <1>3, <2>1, <2>2 DEF LinkInv
  <1>9. CASE LoadStep
    <2>1. /\ Fresh' = {} /\ blocks' = blocks /\ LoadKnown(LoadRecentBlocks(MinBlock))
      BY <1>0, <1>9 DEF LoadStep, SetsStay, storeVars
    <2>2. \A n \in Heights : known'[n] =
            IF n < MinBlock \/ n + MaxDepth < tip' THEN NoBlock ELSE blocks[n]
      BY <2>1, LoadedRows DEF Resumed, TypeInv
    <2>3. BlocksOf(known)' \subseteq Stored
      BY <2>2, BlockTreeAssumption DEF BlocksOf, Stored
    <2>. QED BY <1>3, <2>1, <2>3 DEF LinkInv
  <1>10. CASE CrashStep
    <2>1. Fresh' = {} /\ known' = EmptyRows
      BY <1>0, <1>10 DEF CrashStep
    <2>2. BlocksOf(known)' = {}
      BY <2>1, EmptyHasNone DEF BlocksOf
    <2>. QED BY <2>1, <2>2 DEF LinkInv
  <1>. QED BY <1>4, <1>5, <1>6, <1>7, <1>8, <1>9, <1>10 DEF ResumeEffect

\* So it holds while no walk leaves the window and all reach the cursor.
LEMMA LinkInvHolds ==
    ASSUME StoreFails = FALSE
    PROVE  ResumeSpec /\ []StaysInWindow /\ []ReachesCursor => [](ResumeInv /\ LinkInv)
  <1>1. ResumeInit => LinkInv
    BY ResumeStart, EmptyHasNone DEF LinkInv
  <1>2. /\ ResumeInv /\ ResumeInv' /\ LinkInv /\ StaysInWindow /\ ReachesCursor /\ [Next]_vars
        => LinkInv'
    <2> SUFFICES ASSUME ResumeInv, ResumeInv', LinkInv, StaysInWindow, ReachesCursor, [Next]_vars
                 PROVE  LinkInv'
      OBVIOUS
    <2>1. TypeInv' /\ Resumed /\ Resumed' /\ RowsInv /\ FreshByNumber
      BY DEF ResumeInv, Resumed, RowsInv
    <2>2. ResumeEffect
      BY <2>1, ResumeSteps
    <2>. QED BY <2>1, <2>2, LinkInvStep
  <1>. QED BY <1>1, <1>2, ResumeInvHolds, PTL DEF ResumeSpec

\* The parent of a block in flight is not held back, so it was told or is stored.
LEMMA NoGapUnremembered == ResumeInv /\ LinkInv => SkipsOnlyRemembered
  <1> SUFFICES ASSUME ResumeInv, LinkInv, stage \in {"remember", "deliver"},
                      NEW b \in emit, Num[b] > Num[saved]
               PROVE  Parent[b] \in view \cup emit \cup BlocksOf(blocks)
    BY DEF SkipsOnlyRemembered
  <1>1. InFlight = emit /\ Followed = view \cup Held \cup emit
    BY DEF ResumeInv, Resumed, LoadedStage, InFlight, Told, Leaving, Followed
  <1>2. /\ b \in Fresh /\ b \in Block /\ saved \in Block /\ Held \subseteq Block
        /\ Num[b] \in Heights /\ Num[saved] \in Heights
    BY <1>1, FollowedType DEF ResumeInv, Resumed, TypeInv, TypeOK, StoreInv, Fresh
  <1>3. Parent[b] \in Followed \cup BlocksOf(blocks)
    BY <1>2 DEF LinkInv, Stored
  <1>4. Parent[b] \notin Held
    <2> SUFFICES ASSUME Parent[b] \in Held PROVE FALSE
      OBVIOUS
    <2>1. Num[b] < Num[Parent[b]]
      BY <1>1 DEF ResumeInv, RowsInv, InLayers, Under
    <2>2. Parent[b] \in Block
      BY <1>2
    <2>. QED BY <1>2, <2>1, <2>2, BlockTreeAssumption
  <1>. QED BY <1>1, <1>3, <1>4

\* What a restart skips above the cursor is in the blocks table: a block above the
\* cursor is only handed over if its parent was told, goes with it or is a row, as
\* long as the store works and no walk leaves the window or stays above the cursor
\* (tracker.go, SaveCursor after OnCanonicalBatch).
THEOREM GapsAreRemembered ==
    ASSUME StoreFails = FALSE
    PROVE  ResumeSpec /\ []StaysInWindow /\ []ReachesCursor => []SkipsOnlyRemembered
  BY NoGapUnremembered, LinkInvHolds, PTL

------------------------------------------------------------------------------
(* Restarts with a window that no block leaves.                            *)

\* A window over the whole chain: no block is ever pruned or left in the table.
WideWindow == MaxDepth >= MaxHeight /\ SeedWindow >= MaxHeight

\* Then everything followed is known, and so is a block not above the cursor.
WideRows ==
    BlocksOf(known) # {} =>
        /\ Followed \subseteq BlocksOf(known)
        /\ \E k \in BlocksOf(known) : Num[k] <= Num[saved]

\* So no walk leaves the window, and each reaches the cursor.
LEMMA WideRowsReach ==
    ASSUME Resumed, WideRows
    PROVE  StaysInWindow /\ ReachesCursor
  <1> SUFFICES ASSUME phase = "walk"
               PROVE  view \cup pending \subseteq BlocksOf(known) /\ HasAnyBelow(Num[saved] + 1)
    BY DEF StaysInWindow, ReachesCursor
  <1>1. stage = "reconcile" /\ seeded /\ toRevert = {}
    BY DEF Resumed, LoadedStage
  <1>2. /\ known \in Rows /\ tip \in Heights /\ known[tip] # NoBlock
        /\ saved \in Block /\ Num[saved] \in Heights /\ FiledByNumber(known)
    BY <1>1, BlockTreeAssumption DEF Resumed, LoadedInv, ReconcilerTypeOK, EndsAt, StoreInv
  <1>3. BlocksOf(known) # {}
    BY <1>2 DEF BlocksOf, Rows
  <1>4. Followed = view \cup pending
    BY <1>1 DEF Followed, Told, Leaving, Held, InFlight
  <1>5. PICK k \in BlocksOf(known) : Num[k] <= Num[saved]
    BY <1>3 DEF WideRows
  <1>6. known[Num[k]] = k /\ k \in Block /\ Num[k] \in Heights /\ k # NoBlock
    BY <1>2, InBlocksOf, BlockTreeAssumption
  <1>7. HasAnyBelow(Num[saved] + 1)
    BY <1>2, <1>5, <1>6, BlockTreeAssumption DEF HasAnyBelow
  <1>. QED BY <1>3, <1>4, <1>7 DEF WideRows

\* A switch keeps that: nothing is pruned.
LEMMA WideRowsSwitch ==
    ASSUME WideWindow, Resumed, RowsInv, WideRows, LoadedSwitchStep,
           NEW foot \in Heights, RowsSwitch(foot)
    PROVE  WideRows'
  <1> DEFINE K == BlocksOf(known)
             K2 == BlocksOf(known')
             N == BlocksOf(canonical')
             R == BlocksOf(reverted')
             F == Followed
  <1>1. CutOf(K, K2, N, R, foot, head')
    BY RowsSwitchSets DEF Resumed
  <1>2. StaysInWindow /\ ReachesCursor
    BY WideRowsReach
  <1>3. Followed' = (F \ R) \cup N
    BY <1>2, SwitchKeepsRows
  <1>4. /\ BlocksOf(known)' = K2 /\ saved' = saved /\ saved \in Block
    BY DEF LoadedSwitchStep, storeVars, BlocksOf, Resumed, StoreInv
  <1>5. /\ \A b \in Block : Num[b] \in Heights
        /\ K \subseteq Block /\ MaxHeight \in Nat /\ MaxDepth \in Nat /\ MaxDepth >= MaxHeight
    BY BlockTreeAssumption, MaxDepthAssumption DEF BlocksOf, WideWindow
  <1>6. /\ K # {} => F \subseteq K /\ \E k \in K : Num[k] <= Num[saved]
    BY DEF WideRows
  <1>7. K # {}
    <2>1. CASE phase = "walk"
      <3>1. seeded
        BY <2>1 DEF Resumed, LoadedStage
      <3>. QED BY <3>1 DEF Resumed, LoadedInv, ReconcilerTypeOK, EndsAt, BlocksOf, Rows
    <2>. QED BY <1>1, <2>1 DEF CutOf
  <1>. HIDE DEF K, K2, N, R, F
  <1>8. /\ head' \in N /\ N \subseteq Block
        /\ R = {b \in K : Num[b] >= foot}
        /\ \E d \in N : Num[d] = foot
        /\ \A b \in ((K \ R) \cup N) \ K2 : Num[b] + MaxDepth < Num[head']
        /\ \/ \E k \in K : Num[k] = foot - 1
           \/ \A k \in K : Num[k] >= foot
    BY <1>1 DEF CutOf
  <1>9. (K \ R) \cup N \subseteq K2
    BY <1>5, <1>8
  <1>10. \E k \in K2 : Num[k] <= Num[saved]
    <2>1. PICK k \in K : Num[k] <= Num[saved]
      BY <1>6, <1>7
    <2>2. CASE Num[k] < foot
      BY <1>5, <1>8, <1>9, <2>1, <2>2
    <2>3. CASE Num[k] >= foot /\ \E j \in K : Num[j] = foot - 1
      <3>1. PICK j \in K : Num[j] = foot - 1
        BY <2>3
      <3>. QED BY <1>4, <1>5, <1>8, <1>9, <2>1, <2>3, <3>1
    <2>4. CASE Num[k] >= foot /\ \A j \in K : Num[j] >= foot
      BY <1>4, <1>5, <1>8, <1>9, <2>1, <2>4
    <2>. QED BY <1>5, <1>8, <2>2, <2>3, <2>4
  <1>. QED BY <1>3, <1>4, <1>6, <1>7, <1>9, <1>10 DEF WideRows

\* The other steps: seedFromStorage loads every row.
LEMMA WideRowsStep ==
    ASSUME WideWindow, Resumed, RowsInv, WideRows, ResumeEffect
    PROVE  WideRows'
  <1>0. /\ Followed = Told \cup Held \cup InFlight /\ Followed' = Told' \cup Held' \cup InFlight'
        /\ Told = view \ Leaving /\ Told' = view' \ Leaving'
    BY DEF Followed, Told
  <1>1. known' = known => BlocksOf(known)' = BlocksOf(known)
    BY DEF BlocksOf
  <1>2. CASE StillStep \/ TakeBackStep \/ ReadyStep \/ WriteStep \/ HandOverStep
    <2>1. Followed' = Followed /\ known' = known /\ saved' = saved
      BY <1>0, <1>2 DEF StillStep, TakeBackStep, ReadyStep, WriteStep, HandOverStep, SetsStay,
                        KeepsRows, storeVars
    <2>. QED BY <1>1, <2>1 DEF WideRows
  <1>3. CASE CursorStep
    <2>1. /\ Followed' = Followed /\ known' = known /\ saved' \in view /\ view \subseteq Followed
          /\ view \subseteq Block
      BY <1>0, <1>3 DEF CursorStep, SetsStay, Resumed, TypeInv, TypeOK
    <2>2. Num[saved'] <= Num[saved']
      BY <2>1, BlockTreeAssumption
    <2>. QED BY <1>1, <2>1, <2>2 DEF WideRows
  <1>4. CASE LoadedSwitchStep
    BY <1>4, WideRowsSwitch DEF LoadedSwitchStep
  <1>5. CASE LoadStep
    <2>1. /\ Followed' = view /\ saved' = saved /\ blocks' = blocks
          /\ LoadKnown(LoadRecentBlocks(MinBlock))
      BY <1>0, <1>5 DEF LoadStep, SetsStay, storeVars
    <2>2. /\ tip' \in Heights
          /\ \A n \in Heights : known'[n] =
                IF n < MinBlock \/ n + MaxDepth < tip' THEN NoBlock ELSE blocks[n]
      BY <2>1, LoadedRows DEF Resumed, TypeInv
    <2>3. /\ saved \in Block /\ Num[saved] \in Heights /\ blocks[Num[saved]] # NoBlock
          /\ blocks \in Rows /\ FiledByNumber(blocks) /\ view \subseteq BlocksOf(blocks)
          /\ MaxHeight \in Nat /\ MaxDepth \in Nat /\ SeedWindow \in Nat
          /\ MaxDepth >= MaxHeight /\ SeedWindow >= MaxHeight
      BY BlockTreeAssumption, TrackerAssumption, MaxDepthAssumption
         DEF Resumed, TypeInv, TypeOK, StoreInv, RowsInv, WideWindow
    <2>4. MinBlock = 0
      BY <2>3 DEF MinBlock
    <2>5. \A n \in Heights : known'[n] = blocks[n]
      BY <2>2, <2>3, <2>4
    <2>6. BlocksOf(known)' = BlocksOf(blocks)
      BY <2>5 DEF BlocksOf
    <2>7. blocks[Num[saved]] \in BlocksOf(blocks) /\ Num[blocks[Num[saved]]] = Num[saved]
      BY <2>3 DEF BlocksOf, Rows, FiledByNumber
    <2>. QED BY <2>1, <2>3, <2>6, <2>7 DEF WideRows
  <1>6. CASE CrashStep
    <2>1. BlocksOf(known)' = {}
      BY <1>6, EmptyHasNone DEF CrashStep, BlocksOf
    <2>. QED BY <2>1 DEF WideRows
  <1>. QED BY <1>2, <1>3, <1>4, <1>5, <1>6 DEF ResumeEffect

\* The conditions of the theorems above hold.
LEMMA WideResume ==
    ASSUME WideWindow, StoreFails = FALSE
    PROVE  ResumeSpec => []StaysInWindow /\ []ReachesCursor
  <1>1. ResumeInit => ResumeInv /\ WideRows
    BY ResumeStart, EmptyHasNone DEF ResumeInv, WideRows
  <1>2. ResumeInv /\ WideRows /\ [Next]_vars => (ResumeInv /\ WideRows)'
    <2> SUFFICES ASSUME ResumeInv, WideRows, [Next]_vars PROVE ResumeInv' /\ WideRows'
      OBVIOUS
    <2>1. TypeInv' /\ Resumed /\ RowsInv /\ FreshByNumber /\ StaysInWindow
      BY TypeStep, WideRowsReach DEF ResumeInv, Resumed, RowsInv
    <2>2. Resumed' /\ ResumeEffect
      BY <2>1, ResumeSteps
    <2>. QED BY <2>1, <2>2, RowsInvStep, WideRowsStep DEF ResumeInv
  <1>3. ResumeInv /\ WideRows => StaysInWindow /\ ReachesCursor
    BY WideRowsReach DEF ResumeInv
  <1>. QED BY <1>1, <1>2, <1>3, PTL DEF ResumeSpec

\* With a window that no block leaves the three hold without any condition on
\* what the chain does: the process may die between any two steps.
THEOREM RestartsAreSeamless ==
    ASSUME MaxDepth >= MaxHeight, SeedWindow >= MaxHeight, StoreFails = FALSE
    PROVE  ResumeSpec => []ViewIsStored /\ []NeverDeliversAgain /\ []SkipsOnlyRemembered
  <1>1. WideWindow
    BY DEF WideWindow
  <1>. QED BY <1>1, WideResume, ViewStaysStored, NoBlockIsDeliveredAgain, GapsAreRemembered, PTL
==============================================================================
