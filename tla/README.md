# opsentry in TLA+

opsentry follows OP-Stack chains over JSON-RPC, matches contract logs against
rules and sends alerts. These modules specify it from the poll of a chain's head
to the notification, with the services it keeps on the side: the endpoint pool,
the state reader, ABI loading, configuration and reload. TLC checks them on
small instances; TLAPS proves all of the safety properties for every block tree,
configuration and number of goroutines, under the conditions named below.

## Inventory

For each chain one tracker goroutine runs (`cmd/opsentry/main.go`), two
optional confirmation goroutines beside it; all of them share the store, the
RPC pool, the decoder, the rules, the alert manager and the notifiers.

| Part | State | Operations | Talks to | What makes it correct |
|---|---|---|---|---|
| Reconciler (`ingest/reorg.go`) | `known`: number -> block, `tip`, `seeded` | `LoadKnown`, `OnHead` (forward catch-up, walk back) | RPC, one call per block | `known` is one hash chain; each result names exactly what left and what joined it |
| HeadTracker (`ingest/tracker.go`) | `pending` buffer | `seedFromStorage`, `pollOnce` | Reconciler, store, callbacks | the pipeline has the confirmed part of the chain, in order, and hears of each orphan it has, once |
| Confirmation loops (`ingest/tracker.go`) | watermark per tag, in memory | `pollConfirmationOnce` | RPC, rows written by the tracker | every block under the watermark is delivered, no orphan is |
| Store (`storage/`) | tables `cursors`, `blocks`, `alerts`, ABI cache | upserts and loads | all | a restart finds what was delivered |
| LogFetcher (`ingest/logs.go`) | none | `OnCanonicalBatch` | RPC, `onLog` | every log of a delivered block is evaluated |
| Alert manager (`alerts/`) | rows of `alerts` | `Handle` | store | a match fires once |
| Notifiers (`notify/`) | `lastSent` per receiver | `SendEnv` | network | a burst is thinned, nobody is silenced or blocked |
| RPC pool (`rpc/`) | `failedUntil` per endpoint | `available`, `markFailed`, `tryFailover` | network | a healthy endpoint is found |
| State reader (`reads/`) | values cached per block number | `Enrich` | RPC | values belong to the block of the event |
| Decoder (`decode/`) | ABI and monitor per address | `Register`, `Decode` | Sourcify, Etherscan, ABI cache | the ABI is the contract's |
| Rules, configuration (`rules/`, `config/`) | compiled rules, swapped on SIGHUP | `Validate`, `reloadRules` | all | a file that passes the check runs; the last edit takes effect |

The hard behaviours: the chain moves *between two RPC calls* of one
reconciliation; an endpoint may be behind another one or on another branch; a
call may fail at every point; the process may die between any two writes; three
fetchers share one check-then-act deduplication; a cache outlives what it was
filled from; rows are visible to one goroutine before another has handled what
they stand for. `PROJECT.json` lists them as hazards at the lines where they bite.

## Modules

| Module | Models | Composed of |
|---|---|---|
| `BlockTree` | blocks as the code sees them (`pipeline.BlockRef`), tables keyed by number, what a hash chain is | |
| `Reconciler` | `ingest.Reconciler` | `BlockTree` |
| `HeadTracker` | `ingest.HeadTracker`, the tables `blocks` and `cursors` | `Reconciler` |
| `ChainFeed` | abstract: what the log pipeline is promised by whoever feeds it blocks | `BlockTree` |
| `FollowedChain` | a tracker and the network it follows | `HeadTracker` |
| `ConfirmationLoop` | the safe and finalized loops next to a tracker | `FollowedChain` |
| `Wiring` | what `main.go` derives from the monitors: addresses per level, the decoder's tables | |
| `AlertPipeline` | log fetchers, `onLog`, `alerts.Manager`, the table `alerts`, `OnReverted` | `ChainFeed`, `Wiring` |
| `RpcPool` | `rpc.Client`, `rpc.pool` | |
| `Notifier` | `notify.Router` and the throttle | |
| `StateReader` | `reads.Reader` | `ChainFeed` |
| `AbiLoader` | `decode.loadABI`, the proxy lookup, the table `abi_cache` | |
| `Service` | `config.Load`, `Validate`, the start, SIGHUP, the end of the process | `Wiring` |
| `ReconcilerProofs` | the theorems about `Reconciler` | |
| `HeadTrackerProofs` | what a switch does to the tables; what the tracker delivers and reverts; the refinement of `ChainFeed`; restarts | `ReconcilerProofs` |
| `ConfirmationLoopProofs` | what the loops hand over next to the tracker | `HeadTrackerProofs` |
| `AlertPipelineProofs`, `NotifierProofs`, `StateReaderProofs`, `RpcPoolProofs` | the theorems about those modules | |
| `StartupProofs` | the theorems about `Service` and `AbiLoader` | |
| `MC*` | block trees, configurations and instances for TLC | |

`ChainFeed` is the seam. `HeadTracker` implements it (`ImplementsFeed`, the
variable `view` mapped to itself); `AlertPipeline` and `StateReader` take their
blocks from it and need not carry the tracker's state.

**Blocks.** A block is its hash; `Num` and `Parent` are the other fields the
code reads. The assumption on them is what a chain guarantees: a parent is one
lower, and there is one genesis block. `MaxHeight` stands for the largest
`uint64`; no sum in the ingest code exceeds a number of an existing block plus
one. The slices of the code (`fetched`, `ancestryPath`, `Canonical`,
`Reverted`) are ordered by number with one block per number, so they are
functions from heights here.

**Reconciler.** `OnHead` calls the endpoint in two loops. Each answer is a
step: `ForwardExtend`, `ForwardMismatch`, `WalkFetch`, `WalkShifted`; an error is
`FetchFails`. An answer is *any* block of the asked height, which includes
reorgs between calls, failover between endpoints and endpoints on another
branch. The steps without a call (`ForwardDone`, `WalkMeets`, `WalkFloor`,
`WalkGenesis`) record the path and return a result; `record` prunes after each
block, which removes what one pruning at the end removes (`KnownFitsWindow`).
`MaxDepth` is 256 in `main.go`.

**HeadTracker.** `pollOnce` is a sequence of stages: `PollHead`, the steps of
the reconciler, `TakeResult` (buffer and removal of orphans), `OnReverted` per
block, `SplitPending` (threshold), `RememberBlock` per block,
`OnCanonicalBatch`, `SaveCursor`. `pending`, `emit` and `toRevert` are sets:
the code sorts by number before it uses them. `view` is a history variable:
the blocks handed to the pipeline and not reverted since. `Crash` loses
everything but the tables and `view`. It also stands for SIGTERM: the context is
cancelled, every later call of that poll fails and changes nothing. `HeadByTag`
failing is a stuttering step.

**FollowedChain.** The network has a canonical head that grows, reorganises by
at most `MaxReorg` blocks or rolls back; endpoints answer from its chain and are
at most `MaxLag` behind; `BlockByNumber` fails at most `MaxFaults` times.

**ConfirmationLoop.** One poll of a loop is `SeedWatermark`, or `Advance` and
then `Confirm`: between the two the tracker may write rows. `TagsTrail` says
whether the network tags a block only once the tracker has delivered it.

**AlertPipeline.** Each fetcher runs in the goroutine that feeds it: `fast` in the
tracker's, which also calls `OnReverted`. A batch is cut into ranges
(`Range`, `Rest`); `FilterLogs` takes one; each match goes through
`IsDuplicate`, `RecordAlert` and a `Send` per receiver, all separate steps.
A log is one that a rule matches; the others leave no trace. `Fault` bounds
what goes wrong: an error of a call, an endpoint that answers `eth_getLogs`
from another branch, or the death of the process. `Restart` keeps the tables only. A notice that the throttle
drops is a `SendFails`.

The tracker delivers and reverts as `ChainFeed` promises until the first
`Restart`; after it any block may be delivered or reverted, also a second time,
since the refinement is shown for one run of the process. The safe fetcher is
handed any blocks, one per number, at any time: the rows it reads may be of
orphans and may be of blocks the fast fetcher is still to be handed. `lost`
records what a fetcher gives up, `raced` the alerts whose row was there when they
were inserted.

**RpcPool.** `available` takes the lock of one endpoint at a time, so `Scan` and
`Reset` are a step per endpoint, and another caller may mark endpoints in
between. Cooldowns are compared with the time read at the beginning (`Begin`).

**Notifier.** The steps of `throttled.SendEnv` between `Lock` and `Admit` hold
the mutex; `Inner` is the transport, which may take its time, refuse, or hang.

**StateReader.** `Enrich` holds the mutex over its calls: `Enrich`, a `Call` per
read, `Keep`. A value stands for the block it was read from; a read is answered
from any block of the number, or fails and is left out. `RememberBlock` writes the
rows of a batch one by one before `OnCanonicalBatch` hands it to the fast fetcher,
and `PollConfirmationOnce` gives the safe fetcher what rows there are, so it may be
ahead of the fast one. A fetcher goes through its batch upwards (`Remaining`),
with none, one or many events per block.

**AbiLoader.** One `LoadABI` is one `loadABI`, at one start of the process: the
set of calls that fail in it is chosen freely. An ABI stands for the contract it
describes, `Own` for the monitored address. Whether that ABI has one of the events
by which the code recognises a proxy (`announces`) is independent of where the
contract keeps its implementation (`slot`).

**Service.** The operator edits the file, starts, stops and signals the process
at any time. A reload is `TakeHup`, `LoadFile`, `StoreRules` per chain,
`Reloaded`; the channel has room for one signal.

## Runs

| Run | Instance | Shows |
|---|---|---|
| `reconciler` | 12 blocks, 4 branches, heights 0..4, window 2 | the reconciler's invariants, `KnownFitsWindow` and `ReportsTheSwitch` for every call order and answer |
| `tracker` | the same tree, no pruning, `ConfirmDepth` 1, store errors | one run of the process: `DeliveredOrHeldBack`, `NothingStaleInView`, `RevertsOnlyDelivered`, `DeliversInOrder`, `DeliversOnlyBuried`; and `ImplementsFeed`, the refinement |
| `restart` | 8 blocks, 3 branches, two crashes | `ViewIsStored`, `NeverDeliversAgain`, `SkipsOnlyRemembered` |
| `follow` | 12 blocks, window 3, three moves | `DeliveredOrHeldBack` with pruning; `EventuallyCaughtUp` |
| `confirmation_loops` | 8 blocks, three moves, tags that trail | `ConfirmsTaggedChain`, `EventuallyConfirmed` |
| `pipeline` | 4 blocks, one fork, one fast monitor whose logs the fast and the safe fetcher see, one fault or restart | `FiresOnce`, `SentWasRecorded`, `EveryMatchRecorded`; undisturbed: `OrphansRetracted` |
| `early_alert` | the same tree, one safe monitor | violated: `FiresAtItsConfirmation` |
| `rpc_pool` | 2 endpoints, 2 callers, cooldown 2, the steady one fails twice | `NeverEmptyHanded`, `SteadyIsFoundAgain` |
| `notifier` | 2 senders, a throttled and an unthrottled receiver, 2 alerts | `AdmittedApart`, `DropsAreEarned`, `NobodyWaitsForTheTransport` |
| `state_reader` | 4 blocks, one fork, 2 fetchers, 3 events | `PrevIsEarlier`, `StateIsNotOlder`, `NewerOnlyIfOvertaken` |
| `abi_loader` | every kind of proxy, announced by its events or not, one upgrade, 3 starts, any calls failing | `RefreshedIsCurrent`, `SavedIsEnough` |
| `service` | 7 files, 2 edits, 2 starts | `CheckedConfigRuns`, `RoutableAtFirst`, `LastEditTakesEffect` |

**Bounds.** The trees have forks at adjacent and at distant heights, a branch
deeper than the window and one that is shorter, so that every branch of
`handleReorg` is taken, also after a forward step failed. Windows of 2 and 3
stand for 256: the code uses the constant only in comparisons with `tip`.
Two crashes include one in the recovery from another. In `pipeline` a batch of
three blocks is cut by `BatchSize` 2 and batches of the safe fetcher have gaps;
one fault is enough because a fault leaves nothing behind but what it dropped, and
one restart because it stops both fetchers at any two points of their work and the
batches after it repeat blocks. In
`state_reader` three events are enough for the safe fetcher to overtake the fast
one and for a block of the same number to replace another. In
`rpc_pool` the steady endpoint is the heavier one, so that a reset passes it before
it reaches the other: this is where the bound of `SteadyIsFoundAgain`, 4 calls, is
reached. `MaxStreak` is above it. In `notifier` an
interval passes within the clock's range.

**Restart** starts from `ResumeInit`: a store left by a run that stopped between
two polls, with a cursor. From an empty store, a crash before the first
`SaveCursor` restarts the tracker unseeded and none of the restart
properties hold; `PROJECT.json` lists this as a hazard.

**Window.** In `tracker` and `restart` no block leaves the window. With pruning
the properties hold as long as reorgs, rollbacks and lag stay inside the window
(`follow`); a head below it makes `WalkFloor` revert everything.

**Fairness.** `FollowSpec`: weak fairness of the tracker's own steps and of
answers: the ticker of `Run` fires again and again, and each call of an endpoint
returns. Strong fairness of `PollCanon`: the pool orders endpoints by weight and
retries a failed one after its cooldown, so an endpoint that is up to date is
asked again and again if there is one. Nothing is assumed of lagging answers.
`LoopSpec`: the tickers of the loops fire; nothing is assumed of the tracker or
the network. `NotifierSpec`: a goroutine that can run does, and nothing is
assumed of the transport, nor that a goroutine waiting for the mutex is
preferred. `ServiceSpec`: the goroutine that waits for SIGHUP runs when it can.

**Stops.** `notifier`, `state_reader`, `abi_loader` and `service` allow the system
to stop: their bounds count events, or an operator who may do nothing more.

Every property of a passing run has a mutant: a definition marked `Mutant` in
the module, which changes one operation the way a bug would; with it in place
TLC finds that property violated.

## Where the code falls short

*early_alert* is the one that needs no failure: when no monitor of a chain is
fast, the fast fetcher has an empty address list, `eth_getLogs` then returns
every log of the chain, and the decoder knows the safe monitor's contract: its
alert is raised from the newest block. `rulesets/op-stack/base-portal-l1.yaml`
is such a configuration.

The other properties are stated so that they hold, and their conditions are
where the code falls short. TLC finds a counterexample when a condition is
dropped:

- `SkipsOnlyRemembered` allows one loss: rows are written before the batch is
  delivered and `seedFromStorage` loads rows above the cursor, so the logs of
  those blocks are never read when the process dies in between. With
  `StoreFails = TRUE` it fails: an error while seeding is only logged and the
  tracker starts at the head.
- Rows of an orphaned branch are never deleted. After a restart `known` may hold
  blocks of two branches (`Linked(known)` fails in the `restart` instance).
- A head below the lowest known block, from an endpoint that is behind, reverts
  canonical blocks (`WalkFloor`), on a chain without a fork too.
- `ConfirmDepth > MaxDepth` breaks `DeliversOnlyBuried`: a held-back block is
  pruned, is orphaned unnoticed and is delivered. Nothing checks
  `confirmations.fast` against 256.
- `TagsTrail = FALSE` breaks `ConfirmsTaggedChain`: the watermark passes numbers
  that have no row yet, or whose row is an orphan's.
- `lost` in `EveryMatchRecorded`: a failed range is given up, logs are filed under
  the block of their number without comparing hashes, an error of the store drops
  the match, and what is in hand when the process dies is not fetched again.
- `Undisturbed` in `OrphansRetracted`: a notice that is not sent is not sent again.
- `OrphansRetracted` is about what the fast fetcher alone sent: the safe fetcher may
  record an alert for a block after `OnReverted` has loaded that block's alerts, and may be handed
  the row of an orphan; such an alert is never retracted.
- `EveryMatchRecorded` speaks of the monitor the decoder has for an address: of two
  monitors with the same address the last one is kept, the others see nothing.
- `raced` in `FiresOnce`: when two fetchers see the same logs, `IsDuplicate` and
  `RecordAlert` race and the alert goes out once for each. A level without a monitor
  fetches everything, so this is so in every configuration that enables the safe or
  finalized tag and has monitors of one level only, `config.example.yaml` among them.
- `FiresOnce` also means that a block which is orphaned and comes back keeps its
  alerts announced as reverted.
- `DropsAreEarned` does not ask what is dropped: a reverted notice within the
  interval of its firing one is. Nor does it ask that what was admitted arrived: a
  send that fails uses up the interval.
- `NewerOnlyIfOvertaken` names the two ways in which the fast fetcher sees values
  of a later block: the safe one moved the shared reader there first, from rows the
  tracker had written and not yet handed over, or a reorganisation went back below
  it. The other fetchers, which come later, see later values as a rule
  (`StateIsNotOlder` is not equality), and values of an orphan of the same number
  are possible throughout.
- `RefreshedIsCurrent` needs `-refresh-abi`, a start at which no call fails and a
  proxy whose ABI has `Upgraded`, `AdminChanged` or `BeaconUpgraded`. One failed call
  in the proxy lookup puts the proxy's own ABI into the cache, where later starts
  find it, and a proxy without these events always keeps its own.
- `RoutableAtFirst` ends with the first reload: reloaded rules may name
  receivers that the router, built at the start, does not have.

## Proofs

A theorem holds for every value of the constants that satisfies the named
assumptions of its modules: every block tree (`BlockTreeAssumption`), window,
depth, configuration, set of goroutines, receivers and endpoints, and every
bound on faults and crashes.

**Reconciler** (`ReconcilerProofs`): `KnownStaysHashChain`, `WindowStaysBounded`
(`KnownFitsWindow`), `FetchedStaysLinked`, `WalkStaysOffKnown`, and `ResultsTellTheSwitch` for the
action property `ReportsTheSwitch`. `ReconcilerSpec` assumes that `LoadKnown` is
given a hash chain (`Loadable`); the tracker does not keep this contract after a
reorg and a restart (see above), so the theorems speak of a process that
started from an empty store or from rows without orphans.

`KnownIsHashChain` is not inductive: a call that is under way ends by writing its
path into the table. `ReconcilerInv` adds what the path satisfies meanwhile:
while `applyForward` fetches, the known blocks overlaid by the fetched ones are a
hash chain ending at the cursor (`FetchedExtendsKnown`); while `handleReorg`
walks, its path is a hash chain from the cursor to the head none of whose blocks
is known (`WalkedPathIsUnknown`). The lemmas `ExtendChain`, `LowerChain`,
`SpliceChains` and `PruneKeepsChain` say what the table operations preserve; the
single genesis block is needed where the walk ends at block 0, since the code
does not report a block of number 0 as reverted. `WindowInv` is the half of
`KnownFitsWindow` that the hash chain does not give: whatever changes `known` prunes
it by the new tip.

**HeadTracker**. `TrackerTypeCorrect` needs no hypothesis. The others are about
one run of the process (the properties say `crashes = 0`, or the theorem does):

| Theorem | Property | Hypotheses |
|---|---|---|
| `RevertsWereDelivered` | `RevertsOnlyDelivered` | none |
| `NothingStaleStays` | `NothingStaleInView` | none (the property is about wide windows) |
| `DeliveriesAreInOrder` | `DeliversInOrder` | `StaysInWindow` |
| `EverythingDeliveredOrHeldBack` | `DeliveredOrHeldBack` | `StaysInWindow`, `ConfirmDepth <= MaxDepth` |
| `DeliveriesAreBuried` | `DeliversOnlyBuried` | the same, before the first crash |
| `TrackerImplementsFeed` | `ImplementsFeed` | `StaysInWindow`, no crash |
| `WideWindowImplementsFeed` | `ImplementsFeed` | `MaxDepth >= MaxHeight`, no crash |

`StaysInWindow` says that when the walk of `handleReorg` gives up at the floor of
the window, all that was delivered or is held back is still in the window: no
reorganisation is deeper than `MaxDepth`. It is a hypothesis about the network
that the code cannot do without: at the floor it reverts what it knows and
nothing below. `WideStaysInWindow` proves it for a window that no block leaves,
so the last theorem assumes nothing of the endpoints. `ConfirmDepth <= MaxDepth`
is the condition under "Where the code falls short".

A poll is many steps, and between them a block is in none of the properties'
sets. The proofs follow a block through them: *Held* (in the buffer, or about to
be), *InFlight* (split off, not delivered), *Told* (delivered and not about to be
reverted), *Leaving* (about to be reverted); *Followed* is the first three. All
actions come down to five kinds of step on these sets (`Effects`): quiet, switch,
revert, split, deliver. The invariants are then:

- `RevertInv`: what leaves was delivered, and what is known is followed;
- `ChainInv`: what is followed is one unbroken chain that ends at the tip, in
  layers: told under in flight under held. This is `ChainFeed`'s promise before
  the batch is delivered, and it is where `StaysInWindow` is used;
- `HeldInv`: what is held back is known, or fell out of the window in this very
  switch and is deep enough to be delivered next;
- `WideInv`: with a wide window, what is followed is known.

**Restarts** (the last part of `HeadTrackerProofs`). The process may die between
any two steps, any number of times; `ResumeSpec` starts from a store with a cursor.

| Theorem | Property | Hypotheses |
|---|---|---|
| `ViewStaysStored` | `ViewIsStored` | `StoreFails = FALSE`, `StaysInWindow` |
| `NoBlockIsDeliveredAgain` | `NeverDeliversAgain` | the same |
| `GapsAreRemembered` | `SkipsOnlyRemembered` | the same, and `ReachesCursor` |
| `RestartsAreSeamless` | all three | `StoreFails = FALSE`, `MaxDepth` and `SeedWindow` at least `MaxHeight` |

`ReachesCursor` says that a walk which gives up at the floor of the window knows a
block that is not above the cursor. Without it a reorganisation below everything
known switches to a branch whose lower blocks are neither known nor stored (TLC
finds this in the instance of `restart` with `MaxDepth` 1). It is proved, like
`StaysInWindow`, where no block leaves the window. With store errors
the properties are false (see above).

After a restart `known` need not be a hash chain, so `ReconcilerInv` and `ChainInv`
are of no use. `LoadedInv` keeps what survives: rows are filed by number, they end
at the tip, what `applyForward` fetches is linked to the tip and what
`handleReorg` walks is linked to the head. A switch then replaces the rows from a
height on (`RowsSwitch`); every action is one of nine kinds of step on the sets
above, the rows and the tables (`ResumeEffect`). `RowsInv` says that what the
pipeline has is stored, that a followed block is known or below everything known,
and that told, in flight and held lie above each other: so a write of
`RememberBlock` never hits the row of a block the pipeline has. `LinkInv` says where
the parent of a held block is: followed, stored, or not above the cursor.

**ConfirmationLoop** (`ConfirmationLoopProofs`):

| Theorem | Property | Hypotheses |
|---|---|---|
| `LoopTypeCorrect` | `LoopTypeOK` | none |
| `LoopsConfirmTaggedChain` | `ConfirmsTaggedChain` | `TagsTrail`, `StoreFails = FALSE`, `StaysInWindow`, `TagsInReach` |
| `WideLoopsConfirmTaggedChain` | `ConfirmsTaggedChain` | `TagsTrail`, `StoreFails = FALSE`, `MaxLag = 0`, `MaxDepth >= MaxHeight` |

A loop reads numbers from a table that the tracker rewrites between `Advance` and
`Confirm`. The tracker takes back no tagged block: the head it switches to is on
the same branch as the tag (`TagInv`, since the network reorganises above tags
only), and a switch that meets the known chain keeps what is comparable with the
new head (`ComparableStays`). `TableInv` says that what was delivered is stored, so
the rows a loop reads are the tagged chain (`MarkInv`). `TagsInReach` says that a
walk gives up, at the floor or at genesis, only before the first tag. It is needed:
when an endpoint lags behind the window and answers with a lower head, the walk
gives up and reverts tagged blocks (TLC finds this with `MaxLag` 2 and the instance
of `confirmation_loops`). The third theorem needs no such hypothesis, because a
walk from an up-to-date head meets a tagged block first (`WalkMeetsTags`). `Chain`
is defined as the least set with a block that has the parents of its blocks, not
by recursion, so that its facts (`ChainSplits`, `ChainIsLinear`) can be proved by
choosing a set.

**AlertPipeline** (`AlertPipelineProofs`):

| Theorem | Property | Hypotheses |
|---|---|---|
| `PipelineTypeCorrect` | `PipelineTypeOK` | none |
| `WhatIsSentIsRecorded` | `SentWasRecorded` | none |
| `AlertsWaitForTheirLevel` | `FiresAtItsConfirmation` | `UniqueIds`, `LevelsApart` |
| `AlertsFireOnce` | `FiresOnce` | none |
| `OrphansAreRetracted` | `OrphansRetracted` | none |
| `MatchesAreRecorded` | `EveryMatchRecorded` | none |

`UniqueIds` is checked by `config.Validate`. `LevelsApart` (every goroutine has an
address to ask for, no address is watched at two levels) is checked by nobody: it is
what a configuration must satisfy for the property, and `early_alert` is a
configuration without it.

`BaseInv` says that a goroutine works on blocks it was given, that its matches
are of addresses it asks for (`Raised`), that what is being sent has its row, and
that some goroutine given the block raised each row.

`OnceInv` does without conditions on the configuration. `OnceJob`: a goroutine that
is about to insert has never sent the alert, and if the row is there by now, another
goroutine raised it; one that is sending has not tried the receivers that are left.
`Alone`: while a goroutine sends an alert that is not in `raced`, no other ever sent
it or is sending it. The insert is the step that matters: either the row is new,
then nobody sent it or has it in hand (`UnrecordedIsUnsent`), or it came between
check and insert, and the alert is in `raced` from then on.

`MatchInv`: a watched log of a block that was handed over is recorded or given up, or
its block is still to be fetched, or it is among the matches to handle (`Accounted`).
`OrphanInv` adds that the tracker's goroutine works on blocks that are not reverted
and that a notice of an orphan which it alone sent is being retracted.

**Notifier** (`NotifierProofs`): `ThrottleSpacesSends` (`AdmittedApart`) and
`ThrottleDropsAreEarned` (`DropsAreEarned`), for any number of senders.
`NotifierInv` adds that the sender inside holds the mutex, that `lastSent` is the
time of the last notice that passed, and that the time read under the mutex is
not before it.

**StateReader** (`StateReaderProofs`): `ReaderTypeCorrect`, `PrevStaysEarlier`,
`StateStaysNotOlder`, `FastIsOnlyOvertaken` (`NewerOnlyIfOvertaken`). `ReaderInv` adds
that the reads under way are of a number above the kept ones (`ReadingInv`), that the
kept values are of two numbers in order, the later one of an event seen (`KeptInv`),
and that every block the fast fetcher has shown was reverted or is not above what it
has left of its batch (`FastGoesUp`).

**RpcPool** (`RpcPoolProofs`), for every set of endpoints and callers:
`TriesBeforeItFails` (`NeverEmptyHanded`). The list a caller tries may come from a
reset, which is made in several steps while other callers mark endpoints as failed.
`PoolInv` adds that the pool is not empty (`Dial` refuses an empty one, lemma
`SortedIsPool`) and that a reset under way still has an endpoint to reset. A step
of one caller leaves the calls of the others alone (`OwnCall`).

`SteadyEndpointIsFound` (`SteadyIsFoundAgain`): once an endpoint has stopped
failing, at most `1 + (2c - 1)(e - 1)` calls of one caller fail in a row, with `c`
callers and `e` endpoints. `StreakInv` is a count: the calls that failed, the
endpoints a call may still be charged to (`Open`: not cooling down as long as the
steady one, or found already), and for each other caller the endpoints it may still
reset, once in the reset that frees the steady endpoint too (`FreesWith`) and once
in a reset under way that has already passed it (`FreesLate`), never exceed the
bound. Each step pays for what it adds: a failed call with its charge, an endpoint
that opens with a reset that is used up (`BoundedStill`). The second term per
caller is easily overlooked: `available` resets one endpoint after the other, so
the steady one may be marked failed behind a reset that then frees the others. TLC
reaches the bound.

**Service and AbiLoader** (`StartupProofs`): `CheckIsEnough` (`CheckedConfigRuns`),
`FirstRulesAreRoutable` (`RoutableAtFirst`), `RefreshFindsCurrent`
(`RefreshedIsCurrent`, whose conditions on the contract are in the property),
`SavedMonitorIsNotSkipped` (`SavedIsEnough`), without hypotheses. `UpInv` ties the rules and the router of a process that is up to the
configuration it started from; `KeptInv` says that an ABI once saved is in the table
until a start clears it.

**Only model-checked.** Liveness under fairness (`EventuallyCaughtUp`,
`EventuallyConfirmed`, `NobodyWaitsForTheTransport`, `LastEditTakesEffect`) is out
of the prover's reach. Every other property of a passing run is stated by a
theorem; `AlertsWaitForTheirLevel` also proves, for configurations with
`LevelsApart`, the property that `early_alert` refutes without it.

## Not modelled

- Message templates, the environments handed to rules and templates, logging:
  formatting.
- The transports (shoutrrr), YAML decoding, the unpacking of event parameters,
  the evaluation of expressions: external libraries. Their outcome is a choice:
  a send is taken or refused, a file loads or not, a log matches or not.
- Opening the database and its migrations. The Postgres store issues the same
  statements as the SQLite one, which is mapped.
- Metrics and the HTTP endpoints: no decision depends on them. `-list-monitors`
  and `-version` only print.
- `pipeline.Runner` and `Manager.HandleReverted`: not called by the program.
- Several rules per monitor: the fingerprint's rule index tells them apart, and
  they share nothing else.
