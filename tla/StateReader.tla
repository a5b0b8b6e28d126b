----------------------------- MODULE StateReader -----------------------------
(***************************************************************************)
(* reads.Reader: the contract state the rules of one monitor see next to   *)
(* an event.  The values are read once per block number and kept; the      *)
(* fetchers whose logs reach the monitor share the reader, which holds its *)
(* mutex over the calls.                                                   *)
(*                                                                         *)
(* A value stands for the block it was read from.  The tracker writes the  *)
(* rows of a whole batch before the fast fetcher is handed it, keeping the *)
(* promise of ChainFeed; a confirmation fetcher takes its blocks from the  *)
(* rows, up to the head its endpoint tags.                                 *)
(***************************************************************************)
EXTENDS ChainFeed, FiniteSets

CONSTANTS
    Def,            \* the names of the reads of the monitor
    Fetcher,        \* the fetchers that pass the monitor's logs on, "fast" among them
    MaxEvents,      \* bound: how many events there are
    NoState         \* the map is nil

ASSUME StateReaderAssumption == MaxEvents \in Nat /\ "fast" \in Fetcher

VARIABLES
    rows,       \* the "blocks" table
    emit,       \* the blocks of pollOnce's batch remembered so far
    mark,       \* the watermark of each confirmation loop
    batch,      \* the blocks each fetcher has still to go through
    mu,         \* the event being enriched by the holder of the mutex, or NoState
    latest,     \* Reader.latest and latestBlock
    prev,       \* Reader.prev, with the number it was read at
    reverted,   \* history: blocks that left the chain
    seen        \* history: the events and what was put next to them

feedVars   == <<view, rows, emit, mark, reverted>>
readerVars == <<feedVars, batch, mu, latest, prev, seen>>

Missing == "missing"

\* The maps hold a block of their number for each read that succeeded.
ReaderTypeOK ==
    LET State == {NoState} \cup [num : Heights, vals : [Def -> Block \cup {Missing}]]
    IN  /\ latest \in State /\ prev \in State
        /\ \A x \in {latest, prev} : x # NoState =>
             \A d \in Def : x.vals[d] # Missing => Num[x.vals[d]] = x.num

\* An empty table, and watermarks wherever the first poll seeded them.
ReaderInit ==
    /\ FeedInit
    /\ rows = EmptyRows
    /\ emit = {}
    /\ mark \in [Fetcher \ {"fast"} -> Heights]
    /\ batch = [f \in Fetcher |-> {}]
    /\ mu = NoState
    /\ latest = NoState
    /\ prev = NoState
    /\ reverted = {}
    /\ seen = {}

------------------------------------------------------------------------------
(* Where the events come from: the tracker and its confirmation loops.     *)

\* RememberBlock of the next block of the batch, each before any log of it is
\* fetched.  An error of the store is logged.
RememberBlock(b) ==
    /\ batch["fast"] = {}
    /\ \A c \in view \cup emit : Num[c] < Num[b]
    /\ OneChain(view \cup emit \cup {b})
    /\ emit' = emit \cup {b}
    /\ rows' \in {rows, [rows EXCEPT ![Num[b]] = b]}
    /\ UNCHANGED <<view, mark, batch, mu, latest, prev, reverted, seen>>

\* The fast fetcher, in the tracker's goroutine.
OnCanonicalBatch ==
    /\ Deliver(emit)
    /\ emit' = {}
    /\ batch' = [batch EXCEPT !["fast"] = emit]
    /\ UNCHANGED <<rows, mark, mu, latest, prev, reverted, seen>>

OnReverted(b) ==
    /\ batch["fast"] = {} /\ emit = {}
    /\ Revert(b)
    /\ reverted' = reverted \cup {b}
    /\ UNCHANGED <<rows, emit, mark, batch, mu, latest, prev, seen>>

\* The rows above the watermark up to the tagged head; none when the load fails.
PollConfirmationOnce(f, head) ==
    /\ f # "fast"
    /\ batch[f] = {}
    /\ head > mark[f]
    /\ mark' = [mark EXCEPT ![f] = head]
    /\ batch' \in {batch, [batch EXCEPT ![f] =
                            {rows[n] : n \in mark[f] + 1 .. head} \ {NoBlock}]}
    /\ UNCHANGED <<view, rows, emit, mu, latest, prev, reverted, seen>>

\* The last log of the batch was handled.
Finish(f) ==
    /\ batch[f] # {}
    /\ ~ (mu # NoState /\ mu.by = f)
    /\ batch' = [batch EXCEPT ![f] = {}]
    /\ UNCHANGED <<feedVars, mu, latest, prev, seen>>

------------------------------------------------------------------------------
(* Reader.                                                                 *)

\* Mutant: the logs of a batch are not sorted.
RemainingUnsorted(f, b) == batch[f]

\* The logs are in order of number: what may still come after one of block b.
Remaining(f, b) == {c \in batch[f] : Num[b] <= Num[c]}

\* Mutant: the values of a number are read again.
NeedsReadAgain(b) == latest = NoState \/ Num[b] >= latest.num

\* Mutant: the values are read at the first event only.
NeedsReadOnce(b) == latest = NoState

NeedsRead(b) == latest = NoState \/ Num[b] > latest.num

Shown(f, b, state, before) ==
    seen' = seen \cup {[by |-> f, block |-> b, state |-> state, before |-> before]}

\* Enrich of an event of block b: with the values kept, or after reading them.
Enrich(f, b) ==
    /\ mu = NoState
    /\ Cardinality(seen) < MaxEvents
    /\ b \in batch[f]
    /\ batch' = [batch EXCEPT ![f] = Remaining(f, b)]
    /\ IF NeedsRead(b)
       THEN /\ mu' = [by |-> f, block |-> b, todo |-> Def, vals |-> [d \in Def |-> Missing]]
            /\ UNCHANGED seen
       ELSE Shown(f, b, latest, prev) /\ UNCHANGED mu
    /\ UNCHANGED <<feedVars, latest, prev>>

\* Mutant: the calls leave the block number out and are answered from the head.
AnswersAtHead(b) == {c \in Block : Num[c] >= Num[b]}

\* The state an endpoint answers from: it is asked by number.
Answers(b) == BlocksAt(Num[b])

\* call: one eth_call after the other; one that fails, or whose answer does not
\* decode, leaves its name out.
Call(d) ==
    /\ mu # NoState
    /\ d \in mu.todo
    /\ \E v \in Answers(mu.block) \cup {Missing} :
         mu' = [mu EXCEPT !.todo = @ \ {d}, !.vals[d] = v]
    /\ UNCHANGED <<feedVars, batch, latest, prev, seen>>

Keep ==
    /\ mu # NoState /\ mu.todo = {}
    /\ prev' = latest
    /\ latest' = [num |-> Num[mu.block], vals |-> mu.vals]
    /\ Shown(mu.by, mu.block, latest', prev')
    /\ mu' = NoState
    /\ UNCHANGED <<feedVars, batch>>

ReaderNext ==
    \/ \E b \in Block : RememberBlock(b) \/ OnReverted(b)
    \/ OnCanonicalBatch
    \/ \E f \in Fetcher : \/ \E head \in Heights : PollConfirmationOnce(f, head)
                          \/ \E b \in Block : Enrich(f, b)
                          \/ Finish(f)
    \/ \E d \in Def : Call(d)
    \/ Keep

ReaderSpec == ReaderInit /\ [][ReaderNext]_readerVars

------------------------------------------------------------------------------

\* The values an event is compared with are of an earlier block than its own
\* values, so that a rule on a change sees one (reader_test.go,
\* TestReaderShiftsPrevOnNewBlock), although two fetchers take turns and blocks
\* are replaced.
PrevIsEarlier ==
    \A e \in seen : e.before # NoState => e.before.num < e.state.num

\* Next to an event the rules never see values of a block below it.
StateIsNotOlder == \A e \in seen : e.state.num >= Num[e.block]

\* The fast fetcher shows the values of the event's own number, unless an event of
\* the number they are from came before: one that a confirmation fetcher took from
\* the rows the tracker had already written, or one of a block that was reverted
\* since.  Among the events of one chain the fast fetcher alone never mixes numbers.
NewerOnlyIfOvertaken ==
    \A e \in seen :
        /\ e.by = "fast"
        /\ e.state.num # Num[e.block]
        => \E d \in seen : /\ Num[d.block] = e.state.num
                           /\ d.by # "fast" \/ d.block \in reverted
==============================================================================
