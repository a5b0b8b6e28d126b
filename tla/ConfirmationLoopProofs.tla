----------------------- MODULE ConfirmationLoopProofs ------------------------
(*****************************************************************************)
(* Proofs about the safe and finalized loops beside the HeadTracker, for     *)
(* every block tree, number of loops and interleaving of the two: what a     *)
(* loop loads from the blocks table is the tagged chain, since the tracker   *)
(* takes back no block of it.                                                *)
(*****************************************************************************)
EXTENDS ConfirmationLoop, HeadTrackerProofs

USE DEF Heights

------------------------------------------------------------------------------
(* Chains of blocks.                                                       *)

\* A chain has its block, is closed under parents, and is the least such set.
LEMMA ChainFacts ==
    ASSUME NEW b \in Block
    PROVE  /\ b \in Chain[b] /\ Chain[b] \subseteq Block
           /\ \A x \in Chain[b] : Num[x] > 0 => Parent[x] \in Chain[b]
           /\ DownClosed(Chain[b])
           /\ \A S \in SUBSET Block : b \in S /\ DownClosed(S) => Chain[b] \subseteq S
  <1>1. Chain[b] = {c \in Block : \A S \in SUBSET Block : b \in S /\ DownClosed(S) => c \in S}
    BY DEF Chain
  <1>2. b \in Chain[b] /\ Chain[b] \subseteq Block
    BY <1>1
  <1>3. \A S \in SUBSET Block : b \in S /\ DownClosed(S) => Chain[b] \subseteq S
    BY <1>1
  <1>4. ASSUME NEW x \in Chain[b], Parent[x] # NoBlock PROVE Parent[x] \in Chain[b]
    <2>1. Parent[x] \in Block
      BY <1>2, <1>4, BlockTreeAssumption
    <2>2. ASSUME NEW S \in SUBSET Block, b \in S, DownClosed(S) PROVE Parent[x] \in S
      <3>1. x \in S
        BY <1>3, <2>2
      <3>. QED BY <1>4, <2>2, <3>1 DEF DownClosed
    <2>. QED BY <1>1, <2>1, <2>2
  <1>5. \A x \in Chain[b] : Num[x] > 0 => Parent[x] \in Chain[b]
    BY <1>2, <1>4, BlockTreeAssumption
  <1>6. DownClosed(Chain[b])
    BY <1>4 DEF DownClosed
  <1>. QED BY <1>2, <1>3, <1>5, <1>6

\* The blocks of a chain are not above its top, and a chain has the chains of its
\* blocks.
LEMMA ChainBelow ==
    ASSUME NEW b \in Block, NEW x \in Chain[b]
    PROVE  x \in Block /\ Num[x] <= Num[b] /\ Chain[x] \subseteq Chain[b]
  <1> DEFINE S == {y \in Block : Num[y] <= Num[b]}
  <1>1. Num[b] \in Int /\ \A y \in Block : Num[y] \in Int
    BY BlockTreeAssumption
  <1>2. b \in S /\ S \in SUBSET Block
    BY <1>1
  <1>3. DownClosed(S)
    <2> SUFFICES ASSUME NEW y \in S, Parent[y] # NoBlock PROVE Parent[y] \in S
      BY DEF DownClosed
    <2>1. Num[y] > 0 /\ Parent[y] \in Block /\ Num[Parent[y]] = Num[y] - 1
      BY BlockTreeAssumption
    <2>. QED BY <1>1, <2>1
  <1>4. x \in S
    BY <1>2, <1>3, ChainFacts
  <1>5. x \in Block /\ Chain[b] \in SUBSET Block /\ DownClosed(Chain[b])
    BY ChainFacts
  <1>6. Chain[x] \subseteq Chain[b]
    BY <1>5, ChainFacts
  <1>. QED BY <1>4, <1>5, <1>6

\* A chain is its top and the chain of the parent.
LEMMA ChainSplits ==
    ASSUME NEW b \in Block, NEW x \in Chain[b], x # b
    PROVE  Num[b] > 0 /\ Parent[b] \in Block /\ x \in Chain[Parent[b]] /\ Num[x] < Num[b]
  <1>1. Num[b] \in Nat /\ (Num[b] = 0 => Parent[b] = NoBlock)
    BY BlockTreeAssumption
  <1>2. CASE Num[b] = 0
    <2>1. {b} \in SUBSET Block /\ DownClosed({b})
      BY <1>1, <1>2 DEF DownClosed
    <2>2. Chain[b] \subseteq {b}
      BY <2>1, ChainFacts
    <2>. QED BY <2>2
  <1>3. CASE Num[b] > 0
    <2> DEFINE p == Parent[b]
    <2>1. p \in Block /\ Num[p] = Num[b] - 1
      BY <1>3, BlockTreeAssumption
    <2>. HIDE DEF p
    <2>2. {b} \cup Chain[p] \in SUBSET Block /\ p \in Chain[p] /\ DownClosed(Chain[p])
      BY <2>1, ChainFacts
    <2>3. DownClosed({b} \cup Chain[p])
      BY <2>2 DEF DownClosed, p
    <2>4. Chain[b] \subseteq {b} \cup Chain[p]
      BY <2>2, <2>3, ChainFacts
    <2>5. x \in Chain[p]
      BY <2>4
    <2>6. x \in Block /\ Num[x] <= Num[p]
      BY <2>1, <2>5, ChainBelow
    <2>7. Num[x] \in Nat
      BY <2>6, BlockTreeAssumption
    <2>. QED BY <1>1, <1>3, <2>1, <2>5, <2>6, <2>7 DEF p
  <1>. QED BY <1>1, <1>2, <1>3

\* One of two blocks is on the chain of the other.
Comparable(b, c) == b \in Chain[c] \/ c \in Chain[b]

\* The blocks of a chain are comparable.
LEMMA ChainIsLinear ==
    ASSUME NEW b \in Block, NEW x \in Chain[b], NEW y \in Chain[b]
    PROVE  Comparable(x, y)
  <1> DEFINE S == {z \in Chain[b] : Comparable(z, y)}
  <1>1. Chain[b] \subseteq Block /\ b \in Chain[b] /\ DownClosed(Chain[b])
    BY ChainFacts
  <1>2. S \in SUBSET Block /\ b \in S
    BY <1>1 DEF Comparable
  <1>3. DownClosed(S)
    <2> SUFFICES ASSUME NEW z \in S, Parent[z] # NoBlock PROVE Parent[z] \in S
      BY DEF DownClosed
    <2>1. z \in Block /\ y \in Block /\ Parent[z] \in Chain[b] /\ Comparable(z, y)
      BY <1>1 DEF DownClosed
    <2>2. Num[z] > 0 /\ z \in Chain[z] /\ Parent[z] \in Chain[z]
      BY <2>1, ChainFacts, BlockTreeAssumption
    <2>3. CASE z \in Chain[y]
      BY <2>1, <2>2, <2>3, ChainBelow DEF Comparable
    <2>4. CASE y \in Chain[z] /\ y # z
      BY <2>1, <2>4, ChainSplits DEF Comparable
    <2>5. CASE y = z
      BY <2>1, <2>2, <2>5 DEF Comparable
    <2>. QED BY <2>1, <2>3, <2>4, <2>5 DEF Comparable
  <1>4. x \in S
    BY <1>2, <1>3, ChainFacts
  <1>. QED BY <1>4

\* A lower block of a chain is on the chain of a higher one.
LEMMA LowerOnChain ==
    ASSUME NEW b \in Block, NEW x \in Chain[b], NEW y \in Chain[b], Num[x] <= Num[y]
    PROVE  x \in Chain[y]
  <1>1. x \in Block /\ y \in Block /\ x \in Chain[x]
    BY ChainFacts
  <1>2. Comparable(x, y)
    BY ChainIsLinear
  <1>3. CASE y \in Chain[x] /\ y # x
    <2>1. Num[y] < Num[x] /\ Num[x] \in Nat /\ Num[y] \in Nat
      BY <1>1, <1>3, ChainSplits, BlockTreeAssumption
    <2>. QED BY <2>1
  <1>. QED BY <1>1, <1>2, <1>3 DEF Comparable

\* A chain has one block of each height up to its top.
LEMMA ChainHasHeight ==
    ASSUME NEW b \in Block, NEW n \in Nat, n <= Num[b]
    PROVE  \E x \in Chain[b] : Num[x] = n
  <1> DEFINE T == {Num[x] : x \in {y \in Chain[b] : Num[y] >= n}}
  <1>1. /\ Chain[b] \subseteq Block /\ b \in Chain[b] /\ \A x \in Block : Num[x] \in Nat
        /\ \A x \in Chain[b] : Num[x] > 0 => Parent[x] \in Chain[b] /\ Num[Parent[x]] = Num[x] - 1
    BY ChainFacts, BlockTreeAssumption
  <1>2. T \in SUBSET Nat /\ T # {}
    BY <1>1
  <1>3. PICK m \in T : \A k \in T : m <= k
    BY <1>2, LeastNumber
  <1>4. PICK x \in Chain[b] : Num[x] >= n /\ Num[x] = m
    BY <1>3
  <1>5. CASE Num[x] > n
    <2>1. Parent[x] \in Chain[b] /\ Num[Parent[x]] = Num[x] - 1 /\ Num[x] - 1 >= n /\ Num[x] \in Nat
      BY <1>1, <1>4, <1>5
    <2>2. Num[x] - 1 \in T
      BY <2>1
    <2>. QED BY <1>3, <1>4, <2>1, <2>2
  <1>6. Num[x] \in Nat
    BY <1>1
  <1>. QED BY <1>4, <1>5, <1>6

\* A chain has one block of a height.
LEMMA OnePerHeight ==
    ASSUME NEW b \in Block, NEW x \in Chain[b], NEW y \in Chain[b], Num[x] = Num[y]
    PROVE  x = y
  <1>1. x \in Block /\ y \in Block /\ Num[x] \in Nat
    BY ChainFacts, BlockTreeAssumption
  <1>2. x \in Chain[y]
    BY <1>1, LowerOnChain
  <1>3. x # y => Num[x] < Num[y]
    BY <1>1, <1>2, ChainSplits
  <1>. QED BY <1>1, <1>3

------------------------------------------------------------------------------
(* The tracker under the loops.                                            *)

\* The variables of the tracker, the network and the loops.
allLoopVars == <<allVars, loopVars>>

\* The loops change nothing of the tracker, and their tracker does not die.
LEMMA LoopRunsTracker ==
    ASSUME canon \in Block, [LoopNext]_allLoopVars
    PROVE  [Next]_vars /\ crashes' = crashes /\ canon' \in Block
  <1>1. CASE \/ \E k \in Kind, b \in Block : Tag(k, b)
             \/ \E c \in Block : MoveAboveTags(c)
             \/ \E k \in Kind : LoopStep(k)
             \/ UNCHANGED allLoopVars
    <2>1. UNCHANGED vars
      BY <1>1 DEF Tag, MoveAboveTags, Move, LoopStep, SeedWatermark, Advance, Confirm, allVars,
                  allLoopVars
    <2>2. canon' \in Block
      BY <1>1 DEF Tag, MoveAboveTags, Move, LoopStep, SeedWatermark, Advance, Confirm, allVars,
                  envVars, allLoopVars
    <2>. QED BY <2>1, <2>2 DEF vars
  <1>2. ASSUME TrackerMoves PROVE [Next]_vars /\ crashes' = crashes /\ canon' \in Block
    <2>0. Chain[canon] \subseteq Block
      BY ChainFacts
    <2>1. CASE Poll
      <3>1. PICK h \in Heads : PollHead(h) /\ UNCHANGED envVars
        BY <2>1 DEF Poll
      <3>2. h \in Block
        BY <2>0, <3>1 DEF Heads
      <3>. QED BY <3>1, <3>2 DEF Next, PollHead, envVars
    <2>2. CASE Fetch
      <3>1. PICK b \in Chain[canon] : Reconcile(ReconcileAnswer(b)) /\ UNCHANGED envVars
        BY <2>2 DEF Fetch
      <3>2. b \in Block
        BY <2>0, <3>1
      <3>. QED BY <3>1, <3>2 DEF Next, Reconcile, envVars
    <2>3. CASE FetchFault
      BY <2>3 DEF FetchFault, Next, Reconcile
    <2>4. CASE Work
      <3>1. TrackerStep /\ UNCHANGED envVars
        BY <2>4 DEF Work
      <3>2. crashes' = crashes
        BY <3>1 DEF TrackerStep, SeedFromStorage, StartUnseeded, Reconcile, TakeResult, OnReverted,
                    SplitPending, RememberBlock, OnCanonicalBatch, SaveCursor
      <3>. QED BY <3>1, <3>2 DEF Next, envVars
    <2>. QED BY <1>2, <2>1, <2>2, <2>3, <2>4 DEF TrackerMoves
  <1>. QED BY <1>1, <1>2 DEF LoopNext

\* The head of a call that goes on or switches is that of the call under way, or
\* comes from the canonical chain.
Calling == phase \in {"forward", "walk"}

\* That is so for every step of the tracker.
LEMMA HeadIsCanonical ==
    ASSUME StageInv, TrackerMoves, Calling' \/ SwitchStep
    PROVE  canon' = canon /\ (head' \in Heads \/ (Calling /\ head' = head))
  <1>1. CASE Poll
    <2>1. PICK h \in Heads : PollHead(h) /\ UNCHANGED envVars
      BY <1>1 DEF Poll
    <2>2. head' = h
      BY <2>1 DEF PollHead, OnHead, OnFirstHead, OnKnownHead, OnHigherHead, OnLowerHead
    <2>. QED BY <2>1, <2>2 DEF envVars
  <1>2. CASE Fetch
    <2>1. PICK b \in Chain[canon] : Reconcile(ReconcileAnswer(b)) /\ UNCHANGED envVars
      BY <1>2 DEF Fetch
    <2>2. Calling /\ head' = head
      BY <2>1 DEF Reconcile, ReconcileAnswer, ForwardExtend, ForwardMismatch, WalkFetch, WalkShifted,
                  ForwardAsks, WalkAsks, StartWalk, GiveUp, Calling
    <2>. QED BY <2>1, <2>2 DEF envVars
  <1>3. CASE FetchFault
    <2>1. Calling /\ head' = head
      BY <1>3 DEF FetchFault, Reconcile, FetchFails, ForwardAsks, WalkAsks, GiveUp, Calling
    <2>. QED BY <1>3, <2>1 DEF FetchFault
  <1>4. CASE Work
    <2>1. TrackerStep /\ canon' = canon
      BY <1>4 DEF Work, envVars
    <2>2. CASE Reconcile(ReconcileLocal)
      <3>1. Calling /\ head' = head
        BY <2>2 DEF Reconcile, ReconcileLocal, ForwardHeadMismatch, AtHead, StartWalk, ForwardDone,
                    WalkMeets, WalkFloor, WalkGenesis, Switch, Calling
      <3>. QED BY <2>1, <3>1
    <2>3. CASE SeedFromStorage
      <3>1. phase' = "idle" /\ stage' = "poll"
        BY <2>3 DEF SeedFromStorage, LoadKnown, callVars
      <3>. QED BY <3>1 DEF Calling, SwitchStep, Taking
    <2>4. CASE TakeResult
      BY <2>4 DEF TakeResult, Return, Calling, SwitchStep, Taking
    <2>5. CASE \/ StartUnseeded \/ OnReverted \/ SplitPending \/ OnCanonicalBatch
               \/ \E ok \in StoreAnswers : RememberBlock(ok)
               \/ \E ok \in StoreAnswers : SaveCursor(ok)
      <3>1. phase' = phase /\ head' = head /\ (stage' = "revert" => stage = "revert")
        BY <2>5 DEF StartUnseeded, OnReverted, SplitPending, OnCanonicalBatch, RememberBlock,
                    SaveCursor, recVars
      <3>2. ~SwitchStep
        BY <3>1 DEF SwitchStep, Taking
      <3>. QED BY <2>1, <3>1, <3>2 DEF Calling
    <2>. QED BY <2>1, <2>2, <2>3, <2>4, <2>5 DEF TrackerStep
  <1>. QED BY <1>1, <1>2, <1>3, <1>4 DEF TrackerMoves

\* A switch that meets the known chain takes back nothing up to a block that was
\* told and is comparable with the new head.
LEMMA ComparableStays ==
    ASSUME Running, Running', RevertInv, ChainInv, SwitchStep, NEW t \in Told, Comparable(head', t),
           ~(phase = "walk" /\ (BelowWindow \/ AtGenesis))
    PROVE  \A w \in BlocksOf(reverted') : Num[t] < Num[w]
  <1> DEFINE K == BlocksOf(known)
             N == BlocksOf(canonical')
             R == BlocksOf(reverted')
             h == head'
  <1>1. PICK foot \in Heights : SwitchAt(foot)
    BY DEF SwitchStep
  <1>2. SwitchOf(K, BlocksOf(known'), N, R, foot, h)
    BY <1>1, SwitchSets DEF Running
  <1>3. /\ TypeOK /\ known \in Rows /\ tip \in Heights
        /\ KnownIsHashChain /\ h \in Block
    BY <1>1 DEF Running, TypeInv, ReconcilerInv, ReconcilerTypeOK, SwitchAt
  <1>4. /\ Followed \subseteq Block /\ t \in Followed /\ t \in Block
        /\ \A b \in Block : Num[b] \in Heights /\ b # NoBlock
        /\ \A b \in Block : Num[b] > 0 => Parent[b] \in Block /\ Num[Parent[b]] = Num[b] - 1
        /\ \A b \in Block : Num[b] = 0 => Parent[b] = NoBlock
        /\ MaxHeight \in Nat
    BY <1>3, FollowedType, BlockTreeAssumption DEF Followed
  <1>5. /\ h \in N /\ N \subseteq Block /\ N \cap K = {} /\ R = {b \in K : Num[b] >= foot}
        /\ \A b \in N : foot <= Num[b]
        /\ \A b \in N : Num[b] > foot => Parent[b] \in N
    BY <1>2 DEF SwitchOf
  <1> SUFFICES ASSUME NEW w \in R, ~(Num[t] < Num[w]) PROVE FALSE
    OBVIOUS
  <1>6. w \in K /\ w \in Block /\ Num[w] >= foot
    BY <1>5 DEF K, BlocksOf
  <1>7. seeded /\ IsHashChain(known, tip)
    <2>1. BlocksOf(EmptyRows) = {}
      BY BlockTreeAssumption DEF BlocksOf, EmptyRows
    <2>. QED BY <1>3, <1>6, <2>1 DEF KnownIsHashChain, K
  <1>8. FiledByNumber(known) /\ \A b : b \in K <=> b \in Block /\ known[Num[b]] = b
    BY <1>3, <1>7, InBlocksOf DEF IsHashChain, K
  <1>9. t \in K
    <2>1. Num[t] <= tip /\ Num[w] <= Num[t]
      BY <1>4, <1>6 DEF ChainInv, EndsAtTip, ReachesTo
    <2>2. known[Num[t]] # NoBlock
      <3>1. known[Num[w]] # NoBlock /\ Num[w] \in Heights /\ Num[t] \in Heights
        BY <1>4, <1>6, <1>8
      <3>2. CASE Num[w] = Num[t]
        BY <3>1, <3>2
      <3>3. CASE Num[w] < Num[t]
        BY <1>7, <2>1, <3>1, <3>3 DEF IsHashChain, NoGaps
      <3>. QED BY <1>4, <2>1, <3>1, <3>2, <3>3
    <2>3. known[Num[t]] \in Followed /\ Num[known[Num[t]]] = Num[t]
      BY <1>4, <2>2, KnownIsFollowed
    <2>4. known[Num[t]] = t
      BY <1>4, <2>3 DEF ChainInv, Feed!OneChain
    <2>. QED BY <1>4, <1>8, <2>4
  <1>10. CASE t \in Chain[h]
    <2> DEFINE S == {x \in Block : x \in N \/ Num[x] < foot}
    <2>1. S \in SUBSET Block /\ h \in S
      BY <1>5
    <2>2. DownClosed(S)
      <3> SUFFICES ASSUME NEW x \in S, Parent[x] # NoBlock PROVE Parent[x] \in S
        BY DEF DownClosed
      <3>1. Num[x] > 0 /\ Parent[x] \in Block /\ Num[Parent[x]] = Num[x] - 1 /\ Num[x] \in Heights
        BY <1>4
      <3>2. CASE Num[x] <= foot
        BY <1>4, <3>1, <3>2
      <3>3. CASE Num[x] > foot
        BY <1>4, <1>5, <3>1, <3>3
      <3>. QED BY <3>1, <3>2, <3>3
    <2>3. t \in S
      BY <1>3, <1>10, <2>1, <2>2, ChainFacts
    <2>4. t \in N
      BY <1>4, <1>6, <2>3
    <2>. QED BY <1>5, <1>9, <2>4
  <1>11. CASE h \in Chain[t]
    <2> DEFINE S == {x \in Block : x \in K \/ \A j \in K : Num[x] < Num[j]}
    <2>0. \A j \in K : j \in Block /\ Num[j] \in Heights /\ known[Num[j]] = j
      BY <1>4, <1>8
    <2>1. S \in SUBSET Block /\ t \in S
      BY <1>4, <1>9
    <2>2. DownClosed(S)
      <3> SUFFICES ASSUME NEW x \in S, Parent[x] # NoBlock PROVE Parent[x] \in S
        BY DEF DownClosed
      <3>1. Num[x] > 0 /\ Parent[x] \in Block /\ Num[Parent[x]] = Num[x] - 1 /\ Num[x] \in Heights
        BY <1>4
      <3>2. CASE \A j \in K : Num[x] < Num[j]
        BY <1>4, <2>0, <3>1, <3>2
      <3>3. CASE x \in K /\ known[Num[x] - 1] # NoBlock
        <4>1. Parent[x] = known[Num[x] - 1] /\ Num[x] - 1 \in Heights
          BY <1>4, <1>7, <1>8, <3>1, <3>3 DEF IsHashChain, Linked
        <4>2. known[Num[Parent[x]]] = Parent[x]
          BY <3>1, <4>1
        <4>. QED BY <1>8, <3>1, <4>2
      <3>4. CASE x \in K /\ known[Num[x] - 1] = NoBlock
        <4>1. ASSUME NEW j \in K, ~(Num[Parent[x]] < Num[j]) PROVE FALSE
          <5>1. Num[j] \in Heights /\ known[Num[j]] # NoBlock /\ Num[j] <= Num[x] - 1
            BY <1>4, <2>0, <3>1, <4>1
          <5>2. Num[x] - 1 \in Heights /\ Num[x] <= tip
            <6>1. known[Num[x]] # NoBlock
              BY <1>4, <2>0, <3>4
            <6>2. ~(Num[x] > tip)
              BY <1>7, <3>1, <6>1 DEF IsHashChain, EndsAt
            <6>. QED BY <1>3, <1>4, <3>1, <6>2
          <5>3. Num[x] - 1 <= tip
            BY <1>3, <3>1, <5>2
          <5>. QED BY <1>4, <1>7, <3>4, <5>1, <5>2, <5>3 DEF IsHashChain, NoGaps
        <4>. QED BY <3>1, <4>1
      <3>. QED BY <3>2, <3>3, <3>4
    <2>3. h \in S
      BY <1>4, <1>11, <2>1, <2>2, ChainFacts
    <2>4. \A j \in K : Num[h] < Num[j]
      BY <1>5, <2>3
    <2>5. foot > 0 /\ known[foot - 1] # NoBlock
      BY <1>1, <1>7 DEF SwitchAt
    <2>6. foot - 1 \in Heights /\ known[foot - 1] \in Block /\ Num[known[foot - 1]] = foot - 1
      BY <1>3, <1>4, <1>8, <2>5 DEF Rows, FiledByNumber
    <2>7. known[foot - 1] \in K
      BY <1>8, <2>6
    <2>8. Num[h] < foot - 1
      BY <2>4, <2>6, <2>7
    <2>. QED BY <1>3, <1>4, <1>5, <2>6, <2>8
  <1>. QED BY <1>10, <1>11 DEF Comparable

------------------------------------------------------------------------------
(* The table the loops read.                                               *)

\* What the pipeline has is in the table, and so is what RememberBlock was called
\* for.
TableInv ==
    /\ view \subseteq BlocksOf(blocks)
    /\ FiledByNumber(blocks)
    /\ stage \in {"remember", "deliver"} => \A b \in emit \ toRemember : blocks[Num[b]] = b

\* A step of the tracker keeps that, as long as the store works.
LEMMA TableInvStep ==
    ASSUME StoreFails = FALSE, Running, RevertInv, ChainInv, TableInv, crashes' = 0, [Next]_vars
    PROVE  TableInv'
  <1>0. /\ TypeInv /\ StageInv /\ TypeOK /\ blocks \in Rows
        /\ view \subseteq Block /\ emit \subseteq Block
        /\ \A b \in Block : Num[b] \in Heights /\ b # NoBlock
    BY FollowedType DEF Running, TypeInv, TypeOK
  <1>1. ASSUME blocks' = blocks, view' \subseteq view,
               stage' \in {"remember", "deliver"} =>
                  emit' \ toRemember' = {} \/ (stage \in {"remember", "deliver"}
                                              /\ emit' = emit /\ toRemember' = toRemember)
        PROVE  TableInv'
    <2>1. BlocksOf(blocks)' = BlocksOf(blocks)
      BY <1>1 DEF BlocksOf
    <2>. QED BY <1>1, <2>1 DEF TableInv, FiledByNumber
  <1>2. CASE CallStep
    BY <1>1, <1>2 DEF CallStep, storeVars
  <1>3. CASE TakeResult
    BY <1>1, <1>3 DEF TakeResult, storeVars
  <1>4. CASE StartUnseeded \/ OnReverted \/ SplitPending \/ UNCHANGED vars
    BY <1>1, <1>4 DEF StartUnseeded, OnReverted, SplitPending, storeVars, vars, pollVars
  <1>5. CASE \E ok \in StoreAnswers : SaveCursor(ok)
    BY <1>1, <1>5 DEF SaveCursor
  <1>6. CASE OnCanonicalBatch
    <2>1. stage = "deliver" /\ view' = view \cup emit /\ blocks' = blocks /\ stage' = "save"
      BY <1>6 DEF OnCanonicalBatch, storeVars
    <2>2. \A b \in emit : blocks[Num[b]] = b /\ Num[b] \in Heights /\ b \in Block
      BY <1>0, <2>1 DEF TypeInv, TableInv
    <2>3. emit \subseteq BlocksOf(blocks)
      BY <2>2 DEF BlocksOf
    <2>4. BlocksOf(blocks)' = BlocksOf(blocks)
      BY <2>1 DEF BlocksOf
    <2>. QED BY <2>1, <2>3, <2>4 DEF TableInv, FiledByNumber
  <1>7. ASSUME RememberBlock(TRUE) PROVE TableInv'
    <2> DEFINE b == Lowest(toRemember)
    <2>1. b \in toRemember /\ b \in emit /\ b \in Block
      BY <1>0, <1>7, LowestHighest DEF RememberBlock, TypeInv, TypeOK
    <2>. HIDE DEF b
    <2>2. /\ stage = "remember" /\ blocks' = Upsert(blocks, b) /\ toRemember' = toRemember \ {b}
          /\ emit' = emit /\ view' = view
      BY <1>7 DEF RememberBlock, b
    <2>3. \A n \in Heights : blocks'[n] = IF n = Num[b] THEN b ELSE blocks[n]
      BY <1>0, <2>1, <2>2 DEF Upsert, Rows
    <2>4. /\ toRevert = {} /\ InFlight = emit /\ Told = view
      BY <1>0, <2>2 DEF StageInv, InFlight, Told, Leaving
    <2>5. \A c \in view : Num[c] # Num[b]
      <3>1. \A c \in view : Num[c] < Num[b]
        BY <2>1, <2>4 DEF ChainInv, InLayers, Under
      <3>. QED BY <1>0, <2>1, <3>1
    <2>6. \A c \in emit : Num[c] = Num[b] => c = b
      BY <2>1, <2>4 DEF ChainInv, Feed!OneChain, Followed
    <2>7. view' \subseteq BlocksOf(blocks)'
      <3> SUFFICES ASSUME NEW c \in view PROVE c \in BlocksOf(blocks)'
        BY <2>2
      <3>1. c \in Block /\ blocks[Num[c]] = c /\ Num[c] \in Heights
        BY <1>0, InBlocksOf DEF TableInv
      <3>2. blocks'[Num[c]] = c
        BY <2>3, <2>5, <3>1
      <3>. QED BY <3>1, <3>2 DEF BlocksOf
    <2>8. FiledByNumber(blocks)'
      BY <2>1, <2>3 DEF TableInv, FiledByNumber
    <2>9. \A c \in emit' \ toRemember' : blocks'[Num[c]] = c
      <3> SUFFICES ASSUME NEW c \in emit, c = b \/ c \notin toRemember PROVE blocks'[Num[c]] = c
        BY <2>2
      <3>1. Num[c] \in Heights /\ Num[b] \in Heights
        BY <1>0, <2>1
      <3>2. c \notin toRemember => blocks[Num[c]] = c
        BY <2>2 DEF TableInv
      <3>. QED BY <2>3, <2>6, <3>1, <3>2
    <2>. QED BY <2>7, <2>8, <2>9 DEF TableInv
  <1>8. StoreAnswers = {TRUE}
    BY DEF StoreAnswers
  <1>9. CASE OwnStep
    BY <1>4, <1>5, <1>6, <1>7, <1>8, <1>9 DEF OwnStep
  <1>. QED BY <1>2, <1>3, <1>9, RunSteps

------------------------------------------------------------------------------
(* The types of the loops.                                                 *)

\* A step keeps the types.
LEMMA LoopTypeStep == LoopTypeOK /\ [LoopNext]_allLoopVars => LoopTypeOK'
  <1> SUFFICES ASSUME LoopTypeOK, [LoopNext]_allLoopVars PROVE LoopTypeOK'
    OBVIOUS
  <1>0. /\ tagged \in [Kind -> Block \cup {NoBlock}]
        /\ mark \in [Kind -> Heights \cup {NoMark}]
        /\ since \in [Kind -> Heights \cup {NoMark}]
        /\ range \in [Kind -> SUBSET Heights]
        /\ confirmed \in [Kind -> SUBSET Block]
        /\ \A k \in Kind : \A n \in range[k] : n <= mark[k]
        /\ MaxHeight \in Nat /\ \A b \in Block : Num[b] \in Heights
    BY BlockTreeAssumption DEF LoopTypeOK
  <1>1. ASSUME NEW k \in Kind, NEW b \in Block, Tag(k, b) PROVE LoopTypeOK'
    <2>1. tagged' = [tagged EXCEPT ![k] = b] /\ UNCHANGED <<mark, since, range, confirmed>>
      BY <1>1 DEF Tag
    <2>. QED BY <1>0, <2>1 DEF LoopTypeOK
  <1>2. ASSUME NEW c \in Block, MoveAboveTags(c) PROVE LoopTypeOK'
    BY <1>0, <1>2 DEF LoopTypeOK, MoveAboveTags, loopVars
  <1>3. CASE TrackerMoves
    <2>1. /\ confirmed' = [k \in Kind |-> confirmed[k] \ (view \ view')]
          /\ UNCHANGED <<tagged, mark, since, range>>
      BY <1>3 DEF TrackerMoves
    <2>. QED BY <1>0, <2>1 DEF LoopTypeOK
  <1>4. ASSUME NEW k \in Kind, SeedWatermark(k) PROVE LoopTypeOK'
    <2>1. /\ tagged[k] # NoBlock /\ mark[k] = NoMark
          /\ mark' = [mark EXCEPT ![k] = Num[tagged[k]]]
          /\ since' = [since EXCEPT ![k] = Num[tagged[k]]]
          /\ range[k] = {} /\ UNCHANGED <<tagged, range, confirmed>>
      BY <1>4 DEF SeedWatermark, Asks
    <2>2. Num[tagged[k]] \in Heights
      BY <1>0, <2>1
    <2>3. mark' \in [Kind -> Heights \cup {NoMark}] /\ since' \in [Kind -> Heights \cup {NoMark}]
      BY <1>0, <2>1, <2>2
    <2>4. \A j \in Kind : \A n \in range[j] : n <= mark'[j]
      BY <1>0, <2>1
    <2>. QED BY <1>0, <2>1, <2>3, <2>4 DEF LoopTypeOK
  <1>5. ASSUME NEW k \in Kind, Advance(k) PROVE LoopTypeOK'
    <2> DEFINE t == Num[tagged[k]]
               new == (mark[k] + 1) .. t
    <2>1. /\ tagged[k] # NoBlock /\ mark[k] # NoMark /\ t > mark[k]
          /\ mark' = [mark EXCEPT ![k] = t]
          /\ range' = [range EXCEPT ![k] = new]
          /\ UNCHANGED <<tagged, since, confirmed>>
      BY <1>5 DEF Advance, Asks
    <2>2. t \in Heights /\ mark[k] \in Heights
      BY <1>0, <2>1
    <2>3. new \subseteq Heights /\ \A n \in new : n <= t
      BY <1>0, <2>2
    <2>. HIDE DEF t, new
    <2>4. mark' \in [Kind -> Heights \cup {NoMark}] /\ range' \in [Kind -> SUBSET Heights]
      BY <1>0, <2>1, <2>2, <2>3
    <2>5. \A j \in Kind : \A n \in range'[j] : n <= mark'[j]
      BY <1>0, <2>1, <2>3
    <2>. QED BY <1>0, <2>1, <2>4, <2>5 DEF LoopTypeOK
  <1>6. ASSUME NEW k \in Kind, NEW ok \in StoreAnswers, Confirm(k, ok) PROVE LoopTypeOK'
    <2> DEFINE rows == LoadCanonicalBlocksRange(range[k])
    <2>1. rows \subseteq Block
      BY DEF LoadCanonicalBlocksRange
    <2>2. /\ confirmed' = IF ok THEN [confirmed EXCEPT ![k] = confirmed[k] \cup rows] ELSE confirmed
          /\ range' = [range EXCEPT ![k] = {}]
          /\ UNCHANGED <<tagged, mark, since>>
      BY <1>6 DEF Confirm
    <2>. HIDE DEF rows
    <2>3. confirmed' \in [Kind -> SUBSET Block] /\ range' \in [Kind -> SUBSET Heights]
      BY <1>0, <2>1, <2>2
    <2>4. \A j \in Kind : \A n \in range'[j] : n <= mark'[j]
      BY <1>0, <2>2
    <2>. QED BY <1>0, <2>2, <2>3, <2>4 DEF LoopTypeOK
  <1>7. CASE UNCHANGED allLoopVars
    BY <1>0, <1>7 DEF LoopTypeOK, allLoopVars, loopVars
  <1>. QED BY <1>1, <1>2, <1>3, <1>4, <1>5, <1>6, <1>7 DEF LoopNext, LoopStep

\* The watermarks and ranges of the loops are numbers of blocks and what they hand
\* over are blocks, and no range passes its watermark, whatever the tracker and the
\* store do (tracker.go, pollConfirmationOnce).
THEOREM LoopTypeCorrect == LoopSpec => []LoopTypeOK
  <1>1. LoopInit => LoopTypeOK
    BY BlockTreeAssumption DEF LoopInit, LoopTypeOK
  <1>. QED BY <1>1, LoopTypeStep, PTL DEF LoopSpec, allLoopVars

------------------------------------------------------------------------------
(* What the loops hand over.                                               *)

\* The walk of handleReorg gives up at the floor of the window, or at genesis,
\* only before the first block is tagged.
TagsInReach ==
    phase = "walk" /\ (BelowWindow \/ AtGenesis) => \A k \in Kind : tagged[k] = NoBlock

\* The tag is on a block the pipeline keeps and that is canonical, and a call
\* under way is about a head on the same branch.
TagInv(k) ==
    tagged[k] # NoBlock =>
        /\ tagged[k] \in Told
        /\ tagged[k] \in Chain[canon]
        /\ Calling => head \in Block /\ Comparable(head, tagged[k])

\* The watermark lies between its seed and the tag, and the pipeline keeps the
\* tagged chain from the seed on.
MarkInv(k) ==
    IF mark[k] = NoMark
    THEN range[k] = {} /\ confirmed[k] = {}
    ELSE /\ tagged[k] # NoBlock
         /\ since[k] \in Heights
         /\ since[k] <= mark[k]
         /\ mark[k] <= Num[tagged[k]]
         /\ \A n \in range[k] : since[k] < n
         /\ \A b \in Chain[tagged[k]] : Num[b] > since[k] => b \in Told
         /\ confirmed[k] = {b \in Chain[tagged[k]] : Num[b] \in Passed(k)}

\* For every loop.
TagsInv == \A k \in Kind : TagInv(k)
\* For every loop.
MarksInv == \A k \in Kind : MarkInv(k)

\* The inductive invariant of the loops.
LoopInv == LoopTypeOK /\ TagsInv /\ MarksInv

\* A loop that does not move keeps its part as long as the pipeline keeps the
\* tagged chain.
LEMMA MarkStays ==
    ASSUME NEW k \in Kind, MarkInv(k), tagged'[k] = tagged[k], mark'[k] = mark[k],
           since'[k] = since[k], range'[k] = range[k], confirmed'[k] = confirmed[k],
           mark[k] # NoMark => \A b \in Chain[tagged[k]] : Num[b] > since[k] => b \in Told'
    PROVE  MarkInv(k)'
  <1>1. Passed(k)' = Passed(k)
    BY DEF Passed
  <1>. QED BY <1>1 DEF MarkInv

\* The numbers of the blocks, and of what a loop keeps.
LEMMA LoopTypes ==
    ASSUME LoopTypeOK, NEW k \in Kind
    PROVE  /\ tagged[k] # NoBlock => tagged[k] \in Block /\ Num[tagged[k]] \in Heights
           /\ mark[k] # NoMark => mark[k] \in Heights
           /\ range[k] \subseteq Heights /\ \A n \in range[k] : n <= mark[k]
           /\ confirmed[k] \subseteq Block
           /\ MaxHeight \in Nat /\ NoBlock \notin Block /\ NoMark = -1
           /\ \A b \in Block : Num[b] \in Heights
  BY BlockTreeAssumption DEF LoopTypeOK, NoMark

\* From a block the pipeline keeps up to another one it keeps everything.
LEMMA ToldHasNoHoles ==
    ASSUME TypeOK, ChainInv, NEW t \in Told, NEW b \in Told, NEW x \in Chain[b], Num[t] < Num[x]
    PROVE  x \in Told
  <1> DEFINE S == {y \in Block : y \in Told \/ Num[y] <= Num[t]}
  <1>1. /\ Told \subseteq Followed /\ Followed \subseteq Block /\ Told \subseteq Block
        /\ Feed!OneChain(Followed) /\ InLayers
        /\ \A y \in Block : Num[y] \in Heights /\ y # NoBlock
        /\ MaxHeight \in Nat
    BY FollowedType DEF ChainInv, Followed
  <1>2. S \in SUBSET Block /\ b \in S
    BY <1>1
  <1>3. DownClosed(S)
    <2> SUFFICES ASSUME NEW y \in S, Parent[y] # NoBlock PROVE Parent[y] \in S
      BY DEF DownClosed
    <2>1. Num[y] > 0 /\ Parent[y] \in Block /\ Num[Parent[y]] = Num[y] - 1 /\ Num[y] \in Heights
      BY <1>1, BlockTreeAssumption
    <2>2. CASE Num[y] <= Num[t]
      BY <1>1, <2>1, <2>2
    <2>3. CASE y \in Told /\ Num[t] < Num[y]
      <3>1. Parent[y] \in Followed
        BY <1>1, <2>3 DEF Feed!OneChain
      <3>2. CASE Parent[y] \in Told
        BY <2>1, <3>2
      <3>3. CASE Parent[y] \in Held \cup InFlight
        <4>1. Num[y] < Num[Parent[y]]
          BY <1>1, <2>3, <3>3 DEF InLayers, Under
        <4>. QED BY <1>1, <2>1, <4>1
      <3>. QED BY <3>1, <3>2, <3>3 DEF Followed
    <2>. QED BY <1>1, <2>2, <2>3
  <1>4. x \in S
    BY <1>1, <1>2, <1>3, ChainFacts
  <1>. QED BY <1>1, <1>4

\* A tag moves up.
LEMMA TagStep ==
    ASSUME TagsTrail = TRUE, Running, ChainInv, canon \in Block, LoopInv,
           NEW k \in Kind, NEW b \in Block, Tag(k, b)
    PROVE  TagsInv' /\ MarksInv'
  <1>1. /\ b \in Chain[canon] /\ stage = "poll" /\ b \in view
        /\ tagged[k] # NoBlock => tagged[k] \in Chain[b] \ {b}
        /\ tagged' = [tagged EXCEPT ![k] = b]
        /\ UNCHANGED <<allVars, mark, since, range, confirmed>>
    BY DEF Tag
  <1>2. /\ UNCHANGED <<view, phase, head, canon, pending, toRevert, canonical, reverted>>
    BY <1>1 DEF allVars, vars, recVars, callVars, resVars, pollVars, envVars
  <1>3. TypeOK /\ StageInv /\ LoopTypeOK /\ TagsInv /\ MarksInv
    BY DEF Running, TypeInv, LoopInv
  <1>4. phase = "idle" /\ toRevert = {}
    BY <1>1, <1>3 DEF StageInv
  <1>5. Told = view /\ Told' = Told /\ ~Calling /\ ~Calling'
    BY <1>2, <1>4 DEF Told, Leaving, Calling
  <1>6. tagged \in [Kind -> Block \cup {NoBlock}]
    BY <1>3 DEF LoopTypeOK
  <1>7. ASSUME NEW j \in Kind PROVE TagInv(j)'
    <2>1. CASE j = k
      BY <1>1, <1>2, <1>5, <1>6, <2>1 DEF TagInv
    <2>2. CASE j # k
      BY <1>1, <1>2, <1>3, <1>5, <1>6, <2>2 DEF TagInv, TagsInv
    <2>. QED BY <2>1, <2>2
  <1>8. ASSUME NEW j \in Kind, j # k PROVE MarkInv(j)'
    <2>1. tagged'[j] = tagged[j] /\ MarkInv(j)
      BY <1>1, <1>3, <1>6, <1>8 DEF MarksInv
    <2>. QED BY <1>1, <1>5, <2>1, MarkStays DEF MarkInv
  <1>9. ASSUME mark[k] = NoMark PROVE MarkInv(k)'
    BY <1>1, <1>3, <1>9 DEF MarksInv, MarkInv
  <1>10. ASSUME mark[k] # NoMark PROVE MarkInv(k)'
    <2> DEFINE t == tagged[k]
    <2>1. /\ t # NoBlock /\ t \in Block /\ Num[t] \in Heights /\ mark[k] \in Heights
          /\ MaxHeight \in Nat /\ \A x \in Block : Num[x] \in Heights
      BY <1>3, <1>10, LoopTypes DEF MarksInv, MarkInv
    <2>2. /\ since[k] \in Heights /\ since[k] <= mark[k] /\ mark[k] <= Num[t]
          /\ \A n \in range[k] : since[k] < n
          /\ \A x \in Chain[t] : Num[x] > since[k] => x \in Told
          /\ confirmed[k] = {x \in Chain[t] : Num[x] \in Passed(k)}
          /\ t \in Told
      BY <1>3, <1>10, <2>1 DEF MarksInv, MarkInv, TagsInv, TagInv
    <2>3. t \in Chain[b] /\ b \in Chain[b] /\ Chain[b] \subseteq Block /\ tagged'[k] = b
      BY <1>1, <1>6, <2>1, ChainFacts
    <2>. HIDE DEF t
    <2>4. Num[t] <= Num[b] /\ Chain[t] \subseteq Chain[b]
      BY <2>3, ChainBelow
    <2>5. \A x \in Chain[b] : Num[x] <= Num[t] => x \in Chain[t]
      BY <2>3, LowerOnChain
    <2>6. ASSUME NEW x \in Chain[b], Num[x] > since[k] PROVE x \in Told'
      <3>1. CASE Num[x] <= Num[t]
        BY <1>5, <2>2, <2>5, <2>6, <3>1
      <3>2. CASE Num[t] < Num[x]
        BY <1>1, <1>3, <1>5, <2>2, <3>2, ToldHasNoHoles
      <3>. QED BY <2>1, <2>3, <3>1, <3>2
    <2>7. Passed(k)' = Passed(k) /\ \A n \in Passed(k) : n \in Heights /\ n <= mark[k]
      BY <1>1 DEF Passed
    <2>8. \A x \in Chain[b] : Num[x] \in Passed(k) => x \in Chain[t]
      BY <2>1, <2>2, <2>3, <2>5, <2>7
    <2>9. confirmed'[k] = {x \in Chain[b] : Num[x] \in Passed(k)'}
      BY <1>1, <2>2, <2>4, <2>7, <2>8
    <2>10. mark'[k] <= Num[b] /\ b # NoBlock
      BY <1>1, <2>1, <2>2, <2>3, <2>4, BlockTreeAssumption
    <2>. QED BY <1>1, <1>10, <2>2, <2>3, <2>6, <2>9, <2>10 DEF MarkInv
  <1>. QED BY <1>7, <1>8, <1>9, <1>10 DEF TagsInv, MarksInv

\* The canonical head moves above the tags.
LEMMA MoveStep ==
    ASSUME LoopInv, NEW c \in Block, MoveAboveTags(c)
    PROVE  TagsInv' /\ MarksInv'
  <1>1. /\ UNCHANGED <<vars, loopVars>> /\ canon' = c
        /\ \A k \in Kind : tagged[k] # NoBlock => tagged[k] \in Chain[c]
    BY DEF MoveAboveTags, Move
  <1>2. UNCHANGED <<view, phase, head, pending, toRevert, canonical, reverted>>
    BY <1>1 DEF vars, recVars, callVars, resVars, pollVars
  <1>3. Told' = Told /\ (Calling <=> Calling')
    BY <1>2 DEF Told, Leaving, BlocksOf, Calling
  <1>4. TagsInv'
    BY <1>1, <1>2, <1>3 DEF LoopInv, TagsInv, TagInv, loopVars
  <1>5. MarksInv'
    <2> SUFFICES ASSUME NEW k \in Kind PROVE MarkInv(k)'
      BY DEF MarksInv
    <2>. QED BY <1>1, <1>3, MarkStays DEF LoopInv, MarksInv, MarkInv, loopVars
  <1>. QED BY <1>4, <1>5

\* The tracker moves: it takes back nothing of a tagged chain, since the head it
\* switches to is on the same branch.
LEMMA TrackerMovesStep ==
    ASSUME Running, Running', [Next]_vars, RevertInv, ChainInv, TagsInReach,
           canon \in Block, LoopInv, TrackerMoves
    PROVE  TagsInv' /\ MarksInv'
  <1>1. /\ confirmed' = [k \in Kind |-> confirmed[k] \ (view \ view')]
        /\ UNCHANGED <<tagged, mark, since, range>>
    BY DEF TrackerMoves
  <1>2. canon' = canon
    BY DEF TrackerMoves, Poll, Fetch, FetchFault, Work, envVars
  <1>3. TypeOK /\ StageInv /\ LoopTypeOK /\ TagsInv /\ MarksInv
    BY DEF Running, TypeInv, LoopInv
  <1>4. Told \subseteq Block /\ Chain[canon] \subseteq Block
    BY <1>3, FollowedType, ChainFacts
  <1>5. Told = view \ Leaving /\ Told' = view' \ Leaving'
    BY DEF Told
  <1>6. ASSUME NEW k \in Kind, tagged[k] # NoBlock, Calling' \/ SwitchStep
        PROVE  head' \in Block /\ Comparable(head', tagged[k])
    <2>1. head' \in Chain[canon] \/ (Calling /\ head' = head)
      BY <1>3, <1>6, HeadIsCanonical DEF Heads
    <2>2. /\ tagged[k] \in Chain[canon]
          /\ Calling => head \in Block /\ Comparable(head, tagged[k])
      BY <1>3, <1>6 DEF TagsInv, TagInv
    <2>3. CASE head' \in Chain[canon]
      BY <1>4, <2>2, <2>3, ChainIsLinear
    <2>4. CASE Calling /\ head' = head
      BY <2>2, <2>4
    <2>. QED BY <2>1, <2>3, <2>4
  <1>7. ASSUME NEW k \in Kind, tagged[k] # NoBlock, NEW x \in Told, Num[x] <= Num[tagged[k]]
        PROVE  x \in Told'
    <2>1. CASE QuietStep \/ RevertStep \/ SplitStep \/ DeliverStep
      BY <1>5, <2>1 DEF QuietStep, SetsStay, RevertStep, SplitStep, DeliverStep
    <2>2. CASE SwitchStep
      <3>1. Comparable(head', tagged[k]) /\ tagged[k] \in Told
        BY <1>3, <1>6, <1>7, <2>2 DEF TagsInv, TagInv
      <3>2. ~(phase = "walk" /\ (BelowWindow \/ AtGenesis))
        BY <1>7 DEF TagsInReach
      <3>3. \A w \in BlocksOf(reverted') : Num[tagged[k]] < Num[w]
        BY <2>2, <3>1, <3>2, ComparableStays
      <3>4. x \notin BlocksOf(reverted')
        <4>1. x \in Block /\ tagged[k] \in Block /\ Num[x] \in Int /\ Num[tagged[k]] \in Int
          BY <1>4, <3>1, BlockTreeAssumption
        <4>. QED BY <1>7, <3>3, <4>1
      <3>5. view' = view /\ Leaving' \subseteq BlocksOf(reverted')
        BY <2>2 DEF SwitchStep
      <3>. QED BY <1>5, <3>4, <3>5
    <2>. QED BY <2>1, <2>2, Effects
  <1>8. Told \cap (view \ view') = {}
    <2>1. CASE QuietStep \/ SwitchStep \/ SplitStep \/ DeliverStep
      BY <2>1 DEF QuietStep, SetsStay, SwitchStep, SplitStep, DeliverStep
    <2>2. CASE RevertStep
      BY <1>5, <2>2 DEF RevertStep
    <2>. QED BY <2>1, <2>2, Effects
  <1>9. ASSUME NEW k \in Kind PROVE TagInv(k)'
    <2> SUFFICES ASSUME tagged[k] # NoBlock
                 PROVE  /\ tagged[k] \in Told' /\ tagged[k] \in Chain[canon]
                        /\ Calling' => head' \in Block /\ Comparable(head', tagged[k])
      BY <1>1, <1>2 DEF TagInv, Comparable
    <2>1. tagged[k] \in Told /\ tagged[k] \in Chain[canon] /\ Num[tagged[k]] \in Int
      BY <1>3, <1>4, BlockTreeAssumption DEF TagsInv, TagInv
    <2>. QED BY <1>6, <1>7, <2>1
  <1>10. ASSUME NEW k \in Kind PROVE MarkInv(k)'
    <2>0. MarkInv(k)
      BY <1>3 DEF MarksInv
    <2>1. CASE mark[k] = NoMark
      <3>1. confirmed'[k] = {} /\ range'[k] = {} /\ mark'[k] = NoMark
        BY <1>1, <2>0, <2>1 DEF MarkInv
      <3>. QED BY <3>1 DEF MarkInv
    <2>2. CASE mark[k] # NoMark
      <3>1. /\ tagged[k] # NoBlock /\ since[k] \in Heights
            /\ \A b \in Chain[tagged[k]] : Num[b] > since[k] => b \in Told
            /\ confirmed[k] = {b \in Chain[tagged[k]] : Num[b] \in Passed(k)}
        BY <2>0, <2>2 DEF MarkInv
      <3>2. tagged[k] \in Block
        BY <1>3, <3>1, LoopTypes
      <3>3. confirmed[k] \subseteq Told
        <4> SUFFICES ASSUME NEW b \in confirmed[k] PROVE b \in Told
          OBVIOUS
        <4>1. b \in Chain[tagged[k]] /\ Num[b] \in Passed(k)
          BY <3>1
        <4>2. Num[b] > since[k]
          BY <3>1, <4>1, BlockTreeAssumption DEF Passed
        <4>. QED BY <3>1, <4>1, <4>2
      <3>4. confirmed'[k] = confirmed[k]
        BY <1>1, <1>8, <3>3
      <3>5. \A b \in Chain[tagged[k]] : Num[b] > since[k] => b \in Told'
        BY <1>7, <3>1, <3>2, ChainBelow
      <3>. QED BY <1>1, <2>0, <3>4, <3>5, MarkStays
    <2>. QED BY <2>1, <2>2
  <1>. QED BY <1>9, <1>10 DEF TagsInv, MarksInv

\* A loop seeds its watermark, moves it up, or hands over the rows it loaded,
\* which are the tagged blocks with these numbers.
LEMMA LoopStepKeeps ==
    ASSUME StoreFails = FALSE, TableInv, TypeOK, LoopInv, NEW k \in Kind, LoopStep(k)
    PROVE  TagsInv' /\ MarksInv'
  <1>1. LoopTypeOK /\ TagsInv /\ MarksInv /\ MarkInv(k)
    BY DEF LoopInv, MarksInv
  <1>2. UNCHANGED <<allVars, tagged>>
    BY DEF LoopStep, SeedWatermark, Advance, Confirm
  <1>3. UNCHANGED <<view, phase, head, canon, pending, toRevert, canonical, reverted, blocks>>
    BY <1>2 DEF allVars, vars, recVars, callVars, resVars, pollVars, envVars, storeVars
  <1>4. Told' = Told /\ (Calling <=> Calling')
    BY <1>3 DEF Told, Leaving, BlocksOf, Calling
  <1>5. TagsInv'
    BY <1>1, <1>2, <1>3, <1>4 DEF TagsInv, TagInv
  <1>6. /\ mark \in [Kind -> Heights \cup {NoMark}] /\ since \in [Kind -> Heights \cup {NoMark}]
        /\ range \in [Kind -> SUBSET Heights] /\ confirmed \in [Kind -> SUBSET Block]
    BY <1>1 DEF LoopTypeOK
  <1> DEFINE t == tagged[k]
  <1>7. /\ t # NoBlock => t \in Block /\ Num[t] \in Heights
        /\ mark[k] # NoMark => mark[k] \in Heights
        /\ MaxHeight \in Nat /\ NoMark = -1
        /\ \A b \in Block : Num[b] \in Heights
    BY <1>1, LoopTypes
  <1>8. ASSUME NEW j \in Kind, j # k PROVE MarkInv(j)'
    <2>1. /\ mark'[j] = mark[j] /\ since'[j] = since[j] /\ range'[j] = range[j]
      BY <1>6, <1>8 DEF LoopStep, SeedWatermark, Advance, Confirm
    <2>2. confirmed'[j] = confirmed[j]
      BY <1>6, <1>8 DEF LoopStep, SeedWatermark, Advance, Confirm
    <2>. QED BY <1>1, <1>2, <1>4, <2>1, <2>2, MarkStays DEF MarksInv, MarkInv
  <1>9. ASSUME SeedWatermark(k) PROVE MarkInv(k)'
    <2>1. /\ t # NoBlock /\ mark[k] = NoMark /\ range[k] = {} /\ confirmed[k] = {}
          /\ mark'[k] = Num[t] /\ since'[k] = Num[t] /\ range'[k] = {} /\ confirmed'[k] = {}
      BY <1>1, <1>6, <1>9 DEF SeedWatermark, Asks, MarkInv
    <2>2. t \in Block /\ Num[t] \in Heights /\ Chain[t] \subseteq Block
      BY <1>7, <2>1, ChainFacts
    <2>3. \A b \in Chain[t] : ~(Num[b] > Num[t])
      <3>. SUFFICES ASSUME NEW b \in Chain[t] PROVE ~(Num[b] > Num[t])
        OBVIOUS
      <3>1. b \in Block /\ Num[b] <= Num[t]
        BY <2>2, ChainBelow
      <3>2. Num[b] \in Heights
        BY <1>7, <3>1
      <3>. QED BY <1>7, <2>2, <3>1, <3>2
    <2>4. Passed(k)' = {}
      BY <1>7, <2>1, <2>2 DEF Passed
    <2>. QED BY <1>2, <1>7, <2>1, <2>2, <2>3, <2>4 DEF MarkInv
  <1>10. ASSUME Advance(k) PROVE MarkInv(k)'
    <2>1. /\ t # NoBlock /\ mark[k] # NoMark /\ range[k] = {} /\ Num[t] > mark[k]
          /\ mark'[k] = Num[t] /\ since'[k] = since[k] /\ range'[k] = (mark[k] + 1) .. Num[t]
          /\ confirmed'[k] = confirmed[k]
      BY <1>6, <1>10 DEF Advance, Asks
    <2>2. t \in Block /\ Num[t] \in Heights /\ mark[k] \in Heights
      BY <1>7, <2>1
    <2>3. /\ since[k] \in Heights /\ since[k] <= mark[k]
          /\ \A b \in Chain[t] : Num[b] > since[k] => b \in Told
          /\ confirmed[k] = {b \in Chain[t] : Num[b] \in Passed(k)}
      BY <1>1, <2>1 DEF MarkInv
    <2>4. Passed(k)' = Passed(k)
      <3>1. Passed(k) = {n \in Heights : since[k] < n /\ n <= mark[k]}
        BY <2>1 DEF Passed
      <3>2. Passed(k)' = {n \in Heights : since[k] < n /\ n <= Num[t]} \ ((mark[k] + 1) .. Num[t])
        BY <2>1 DEF Passed
      <3>. QED BY <1>7, <2>1, <2>2, <2>3, <3>1, <3>2
    <2>5. \A n \in range'[k] : since[k] < n
      BY <1>7, <2>1, <2>2, <2>3
    <2>6. Num[t] # NoMark /\ since[k] <= Num[t]
      BY <1>7, <2>1, <2>2, <2>3
    <2>7. Num[t] <= Num[t]
      BY <1>7, <2>2
    <2>. QED BY <1>2, <1>4, <2>1, <2>3, <2>4, <2>5, <2>6, <2>7 DEF MarkInv
  <1>11. ASSUME NEW ok \in StoreAnswers, Confirm(k, ok) PROVE MarkInv(k)'
    <2> DEFINE rows == LoadCanonicalBlocksRange(range[k])
    <2>1. ok
      BY DEF StoreAnswers
    <2>2. /\ range[k] # {} /\ range'[k] = {} /\ mark'[k] = mark[k] /\ since'[k] = since[k]
          /\ confirmed'[k] = confirmed[k] \cup rows
      BY <1>6, <1>11, <2>1 DEF Confirm
    <2>3. /\ mark[k] # NoMark /\ t # NoBlock /\ since[k] \in Heights
          /\ since[k] <= mark[k] /\ mark[k] <= Num[t]
          /\ \A n \in range[k] : since[k] < n
          /\ \A b \in Chain[t] : Num[b] > since[k] => b \in Told
          /\ confirmed[k] = {b \in Chain[t] : Num[b] \in Passed(k)}
      BY <1>1, <2>2 DEF MarkInv
    <2>4. /\ t \in Block /\ Num[t] \in Heights /\ mark[k] \in Heights
          /\ range[k] \subseteq Heights /\ \A n \in range[k] : n <= mark[k]
          /\ Chain[t] \subseteq Block
      BY <1>1, <1>7, <2>3, LoopTypes, ChainFacts
    <2>. HIDE DEF t
    <2>5. ASSUME NEW b \in Chain[t], Num[b] \in range[k] PROVE blocks[Num[b]] = b
      <3>1. Num[b] > since[k]
        BY <1>7, <2>3, <2>4, <2>5
      <3>2. b \in view /\ b \in Block
        BY <2>3, <2>4, <3>1 DEF Told
      <3>. QED BY <3>2, InBlocksOf DEF TableInv, TypeOK
    <2>6. ASSUME NEW n \in range[k] PROVE \E b \in Chain[t] : Num[b] = n /\ blocks[n] = b
      <3>1. n \in Nat /\ n <= Num[t]
        BY <1>7, <2>3, <2>4
      <3>2. PICK b \in Chain[t] : Num[b] = n
        BY <2>4, <3>1, ChainHasHeight
      <3>. QED BY <2>5, <3>2
    <2>7. rows = {b \in Chain[t] : Num[b] \in range[k]}
      <3>1. rows = {b \in Block : \E n \in range[k] : blocks[n] = b}
        BY DEF LoadCanonicalBlocksRange
      <3>2. ASSUME NEW b \in rows PROVE b \in Chain[t] /\ Num[b] \in range[k]
        BY <2>6, <3>1
      <3>3. ASSUME NEW b \in Chain[t], Num[b] \in range[k] PROVE b \in rows
        BY <2>4, <2>5, <3>1, <3>3
      <3>. QED BY <3>2, <3>3
    <2>. HIDE DEF rows
    <2>8. Passed(k)' = Passed(k) \cup range[k]
      <3>1. Passed(k)' = {n \in Heights : since[k] < n /\ n <= mark[k]}
        BY <2>2 DEF Passed
      <3>2. Passed(k) = {n \in Heights : since[k] < n /\ n <= mark[k]} \ range[k]
        BY DEF Passed
      <3>. QED BY <2>3, <2>4, <3>1, <3>2
    <2>9. confirmed'[k] = {b \in Chain[t] : Num[b] \in Passed(k)'}
      BY <2>2, <2>3, <2>7, <2>8
    <2>. QED BY <1>2, <1>4, <2>2, <2>3, <2>9 DEF MarkInv, t
  <1>12. MarkInv(k)'
    BY <1>9, <1>10, <1>11 DEF LoopStep
  <1>. QED BY <1>5, <1>8, <1>12 DEF MarksInv

\* The canonical head is a block, and the tracker of the loops does not die.
EnvInv == canon \in Block /\ crashes = 0

\* Under the loops the tracker is a run of HeadTracker.
LEMMA LoopsRunTheTracker == LoopSpec => Spec /\ []EnvInv
  <1>1. LoopInit => Init /\ EnvInv
    BY DEF LoopInit, FollowInit, Init, EnvInv
  <1>2. EnvInv /\ [LoopNext]_allLoopVars => EnvInv' /\ [Next]_vars
    BY LoopRunsTracker DEF EnvInv
  <1>. QED BY <1>1, <1>2, PTL DEF LoopSpec, Spec, allLoopVars

\* Every step keeps it.
LEMMA LoopInvStep ==
    ASSUME TagsTrail = TRUE, StoreFails = FALSE, EnvInv, EnvInv', FollowInv, FollowInv',
           TagsInReach, TableInv, LoopInv, [LoopNext]_allLoopVars
    PROVE  TableInv' /\ LoopInv'
  <1>1. /\ Running /\ Running' /\ RevertInv /\ ChainInv /\ crashes' = 0 /\ canon \in Block
        /\ TypeOK /\ LoopTypeOK
    BY DEF EnvInv, FollowInv, RunInv, Running, TypeInv, LoopInv
  <1>2. [Next]_vars
    BY <1>1, LoopRunsTracker
  <1>3. TableInv'
    BY <1>1, <1>2, TableInvStep
  <1>4. LoopTypeOK'
    BY <1>1, LoopTypeStep
  <1>5. ASSUME \E k \in Kind, b \in Block : Tag(k, b) PROVE TagsInv' /\ MarksInv'
    BY <1>1, <1>5, TagStep
  <1>6. ASSUME \E c \in Block : MoveAboveTags(c) PROVE TagsInv' /\ MarksInv'
    BY <1>6, MoveStep
  <1>7. ASSUME TrackerMoves PROVE TagsInv' /\ MarksInv'
    BY <1>1, <1>2, <1>7, TrackerMovesStep
  <1>8. ASSUME \E k \in Kind : LoopStep(k) PROVE TagsInv' /\ MarksInv'
    BY <1>1, <1>8, LoopStepKeeps
  <1>9. ASSUME UNCHANGED allLoopVars PROVE TagsInv' /\ MarksInv'
    <2>1. UNCHANGED <<vars, canon, tagged, mark, since, range, confirmed>>
      BY <1>9 DEF allLoopVars, allVars, envVars, loopVars
    <2>2. UNCHANGED <<view, phase, head, pending, toRevert, canonical, reverted>>
      BY <2>1 DEF vars, recVars, pollVars
    <2>3. Told' = Told /\ (Calling <=> Calling')
      BY <2>2 DEF Told, Leaving, BlocksOf, Calling
    <2>4. TagsInv'
      BY <2>1, <2>2, <2>3 DEF LoopInv, TagsInv, TagInv
    <2>5. MarksInv'
      <3> SUFFICES ASSUME NEW k \in Kind PROVE MarkInv(k)'
        BY DEF MarksInv
      <3>. QED BY <2>1, <2>3, MarkStays DEF LoopInv, MarksInv, MarkInv
    <2>. QED BY <2>4, <2>5
  <1>10. TagsInv' /\ MarksInv'
    BY <1>5, <1>6, <1>7, <1>8, <1>9 DEF LoopNext
  <1>. QED BY <1>3, <1>4, <1>10 DEF LoopInv

\* Before the first tag.
LEMMA LoopInvStart ==
    ASSUME LoopInit
    PROVE  TableInv /\ LoopInv
  <1>1. TableInv
    BY BlockTreeAssumption DEF LoopInit, FollowInit, Init, TableInv, FiledByNumber, EmptyRows
  <1>2. LoopTypeOK
    BY BlockTreeAssumption DEF LoopInit, LoopTypeOK
  <1>3. TagsInv /\ MarksInv
    BY DEF LoopInit, TagsInv, MarksInv, TagInv, MarkInv
  <1>. QED BY <1>1, <1>2, <1>3 DEF LoopInv

\* While the network tags what the tracker delivered, the store works and no walk
\* leaves the window or passes a tag, each loop hands over exactly the tagged
\* chain from the seed of its watermark on, though the tracker rewrites rows and
\* reverts blocks meanwhile (tracker.go, pollConfirmationOnce).
THEOREM LoopsConfirmTaggedChain ==
    ASSUME TagsTrail = TRUE, StoreFails = FALSE
    PROVE  LoopSpec /\ []StaysInWindow /\ []TagsInReach => []ConfirmsTaggedChain
  <1>1. LoopInit => TableInv /\ LoopInv
    BY LoopInvStart
  <1>2. /\ EnvInv /\ EnvInv' /\ FollowInv /\ FollowInv' /\ TagsInReach
        /\ TableInv /\ LoopInv /\ [LoopNext]_allLoopVars
        => TableInv' /\ LoopInv'
    BY LoopInvStep
  <1>3. LoopInv => ConfirmsTaggedChain
    BY DEF LoopInv, MarksInv, MarkInv, ConfirmsTaggedChain
  <1>. QED BY <1>1, <1>2, <1>3, LoopsRunTheTracker, FollowInvHolds, PTL DEF LoopSpec, allLoopVars

------------------------------------------------------------------------------
(* Endpoints that are up to date, and a window that no block leaves.       *)

\* A call under way is about a head above every tag.
TagsUnderHead == \A k \in Kind : tagged[k] # NoBlock /\ Calling => tagged[k] \in Chain[head]

\* Then a walk meets a tagged block before it reaches the floor.
LEMMA WalkMeetsTags ==
    ASSUME Running, WideInv, LoopInv, TagsUnderHead
    PROVE  TagsInReach
  <1> SUFFICES ASSUME phase = "walk", BelowWindow \/ AtGenesis, NEW k \in Kind, tagged[k] # NoBlock
               PROVE  FALSE
    BY DEF TagsInReach
  <1> DEFINE t == tagged[k]
             S == {x \in Block : path[Num[x]] = x \/ Num[x] < Num[cursor]}
  <1>1. t \in Chain[head] /\ t \in Told
    BY DEF TagsUnderHead, Calling, LoopInv, TagsInv, TagInv
  <1>2. known \in Rows /\ KnownIsHashChain /\ WalkedPathIsUnknown /\ path \in Rows /\ TypeOK
    BY DEF Running, ReconcilerInv, ReconcilerTypeOK, TypeInv
  <1>3. /\ head \in Block /\ cursor \in Block /\ seeded /\ IsHashChain(path, Num[head])
        /\ path[Num[head]] = head /\ path[Num[cursor]] = cursor
        /\ \A n \in Heights : n < Num[cursor] => path[n] = NoBlock
        /\ \A n \in Heights : path[n] # NoBlock => path[n] # known[n]
    BY <1>2 DEF WalkedPathIsUnknown
  <1>4. /\ t \in Block /\ MaxHeight \in Nat
        /\ \A b \in Block : Num[b] \in Heights /\ b # NoBlock
        /\ \A b \in Block : Num[b] > 0 => Parent[b] \in Block /\ Num[Parent[b]] = Num[b] - 1
        /\ \A b \in Block : Num[b] = 0 => Parent[b] = NoBlock
    BY <1>1, <1>2, FollowedType, BlockTreeAssumption
  <1>5. known[Num[t]] = t
    <2>1. t \in BlocksOf(known) /\ FiledByNumber(known)
      BY <1>1, <1>2, <1>3 DEF WideInv, Followed, KnownIsHashChain, IsHashChain
    <2>. QED BY <1>2, <2>1, InBlocksOf
  <1>. HIDE DEF t
  <1>6. S \in SUBSET Block /\ head \in S
    BY <1>3
  <1>7. DownClosed(S)
    <2> SUFFICES ASSUME NEW x \in S, Parent[x] # NoBlock PROVE Parent[x] \in S
      BY DEF DownClosed
    <2>1. Num[x] > 0 /\ Parent[x] \in Block /\ Num[Parent[x]] = Num[x] - 1 /\ Num[x] \in Heights
      BY <1>4
    <2>2. CASE Num[x] <= Num[cursor]
      BY <1>3, <1>4, <2>1, <2>2
    <2>3. CASE Num[x] > Num[cursor]
      <3>1. path[Num[x]] = x /\ Num[cursor] \in Heights /\ Num[x] - 1 \in Heights
        BY <1>3, <1>4, <2>1, <2>3
      <3>2. Num[x] <= Num[head]
        BY <1>3, <1>4, <2>1, <3>1 DEF IsHashChain, EndsAt
      <3>3. path[Num[cursor]] # NoBlock
        BY <1>3, <1>4
      <3>4. path[Num[x] - 1] # NoBlock
        <4>1. CASE Num[cursor] = Num[x] - 1
          BY <3>3, <4>1
        <4>2. CASE Num[cursor] < Num[x] - 1
          <5>1. Num[x] - 1 <= Num[head]
            BY <1>3, <1>4, <2>1, <3>2
          <5>. QED BY <1>3, <3>1, <3>3, <4>2, <5>1 DEF IsHashChain, NoGaps
        <4>. QED BY <1>3, <1>4, <2>1, <2>3, <4>1, <4>2
      <3>5. path[Num[x] - 1] = Parent[x]
        BY <1>3, <1>4, <2>1, <3>1, <3>4 DEF IsHashChain, Linked
      <3>. QED BY <2>1, <3>5
    <2>. QED BY <1>3, <1>4, <2>1, <2>2, <2>3
  <1>8. t \in S
    BY <1>1, <1>3, <1>6, <1>7, ChainFacts DEF t
  <1>9. Num[t] < Num[cursor]
    BY <1>3, <1>4, <1>5, <1>8
  <1>. QED BY <1>3, <1>4, <1>5, <1>9 DEF BelowWindow, AtGenesis, HasAnyBelow, ParentNum

\* A poll of an endpoint that is up to date has the canonical head.
LEMMA UpToDate ==
    ASSUME MaxLag = 0, canon \in Block
    PROVE  Heads \subseteq {canon}
  <1> SUFFICES ASSUME NEW h \in Chain[canon], Num[h] + MaxLag >= Num[canon] PROVE h = canon
    BY DEF Heads
  <1>1. h \in Block /\ Num[h] <= Num[canon] /\ canon \in Chain[canon]
    BY ChainBelow, ChainFacts
  <1>2. Num[h] = Num[canon]
    BY <1>1, BlockTreeAssumption
  <1>. QED BY <1>1, <1>2, OnePerHeight

\* So the head of a call is above every tag.
LEMMA TagsUnderHeadStep ==
    ASSUME TagsTrail = TRUE, MaxLag = 0, EnvInv, Running, LoopInv, TagsUnderHead,
           [LoopNext]_allLoopVars
    PROVE  TagsUnderHead'
  <1>1. TagsInv /\ LoopTypeOK /\ StageInv /\ canon \in Block
    BY DEF LoopInv, Running, EnvInv
  <1>2. ASSUME UNCHANGED <<phase, head, tagged>> PROVE TagsUnderHead'
    BY <1>2 DEF TagsUnderHead, Calling
  <1>3. ASSUME NEW k \in Kind, NEW b \in Block, Tag(k, b) PROVE TagsUnderHead'
    <2>1. stage = "poll" /\ phase' = phase
      BY <1>3 DEF Tag, allVars, vars, recVars
    <2>2. ~Calling'
      BY <1>1, <2>1 DEF StageInv, Calling
    <2>. QED BY <2>2 DEF TagsUnderHead
  <1>4. CASE \/ \E c \in Block : MoveAboveTags(c)
             \/ \E k \in Kind : LoopStep(k)
             \/ UNCHANGED allLoopVars
    <2>1. UNCHANGED <<phase, head, tagged>>
      BY <1>4 DEF MoveAboveTags, Move, LoopStep, SeedWatermark, Advance, Confirm, allLoopVars,
                  allVars, vars, recVars, loopVars
    <2>. QED BY <1>2, <2>1
  <1>5. CASE TrackerMoves
    <2> SUFFICES ASSUME NEW k \in Kind, tagged'[k] # NoBlock, Calling'
                 PROVE  tagged'[k] \in Chain[head']
      BY DEF TagsUnderHead
    <2>1. tagged' = tagged
      BY <1>5 DEF TrackerMoves
    <2>2. head' \in Heads \/ (Calling /\ head' = head)
      BY <1>1, <1>5, HeadIsCanonical
    <2>3. CASE head' \in Heads
      <3>1. head' = canon
        BY <1>1, <2>3, UpToDate
      <3>. QED BY <1>1, <2>1, <3>1 DEF TagsInv, TagInv
    <2>4. CASE Calling /\ head' = head
      BY <2>1, <2>4 DEF TagsUnderHead
    <2>. QED BY <2>2, <2>3, <2>4
  <1>. QED BY <1>3, <1>4, <1>5 DEF LoopNext

\* With endpoints that are up to date and a window as deep as the chain, the loops
\* hand over the tagged chain whatever else happens.
THEOREM WideLoopsConfirmTaggedChain ==
    ASSUME TagsTrail = TRUE, StoreFails = FALSE, MaxLag = 0, MaxDepth >= MaxHeight
    PROVE  LoopSpec => []ConfirmsTaggedChain
  <1>1. LoopInit => TableInv /\ LoopInv /\ TagsUnderHead
    BY LoopInvStart DEF LoopInit, TagsUnderHead
  <1>2. RunInv /\ (crashes = 0 => WideInv) /\ EnvInv /\ LoopInv /\ TagsUnderHead => TagsInReach
    BY WalkMeetsTags DEF RunInv, EnvInv
  <1>3. RunInv /\ (crashes = 0 => WideInv) /\ EnvInv => StaysInWindow /\ (crashes = 0 => ChainInv)
    BY WideStaysInWindow DEF RunInv, EnvInv, WideInv
  <1>4. TypeInv /\ RunInv /\ (crashes = 0 => ChainInv) => FollowInv
    BY DEF FollowInv
  <1>5. /\ EnvInv /\ EnvInv' /\ FollowInv /\ FollowInv' /\ TagsInReach
        /\ TableInv /\ LoopInv /\ [LoopNext]_allLoopVars
        => TableInv' /\ LoopInv'
    BY LoopInvStep
  <1>6. EnvInv /\ RunInv /\ LoopInv /\ TagsUnderHead /\ [LoopNext]_allLoopVars => TagsUnderHead'
    BY TagsUnderHeadStep DEF RunInv, EnvInv
  <1>7. LoopInv => ConfirmsTaggedChain
    BY DEF LoopInv, MarksInv, MarkInv, ConfirmsTaggedChain
  <1>. QED
    BY <1>1, <1>2, <1>3, <1>4, <1>5, <1>6, <1>7, LoopsRunTheTracker, RunInvHolds, WideInvHolds, PTL
       DEF LoopSpec, allLoopVars
==============================================================================
