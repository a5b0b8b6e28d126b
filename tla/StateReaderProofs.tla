-------------------------- MODULE StateReaderProofs --------------------------
(***************************************************************************)
(* reads.Reader, for every block tree, any number of fetchers and reads,   *)
(* every answer of the endpoints and every order in which the fetchers     *)
(* take turns while the tracker remembers, delivers and reverts blocks and *)
(* the confirmation loops move on.                                         *)
(***************************************************************************)
EXTENDS StateReader, TLAPS

Values(num, vals) ==
    /\ vals \in [Def -> Block \cup {Missing}]
    /\ \A d \in Def : vals[d] # Missing => Num[vals[d]] = num

\* A kept map: values of blocks of its number.
KeptMap(x) ==
    /\ x \in [num : Heights, vals : [Def -> Block \cup {Missing}]]
    /\ Values(x.num, x.vals)

FeedTypes ==
    /\ rows \in Rows
    /\ emit \subseteq Block
    /\ mark \in [Fetcher \ {"fast"} -> Heights]
    /\ batch \in [Fetcher -> SUBSET Block]
    /\ \A e \in seen : e.block \in Block

\* The reads under way are of a block above the kept ones.
ReadingInv ==
    mu # NoState =>
        /\ mu \in [by : Fetcher, block : Block, todo : SUBSET Def,
                  vals : [Def -> Block \cup {Missing}]]
        /\ Values(Num[mu.block], mu.vals)
        /\ latest # NoState => latest.num < Num[mu.block]

\* What is kept was read for an event.
KeptInv ==
    /\ latest # NoState => KeptMap(latest) /\ \E d \in seen : Num[d.block] = latest.num
    /\ prev # NoState => KeptMap(prev) /\ prev.num < latest.num

\* The fast fetcher goes up: a block of an event of its is reverted by now, or not
\* above what is left of the batch.
Passed(b) == b \in reverted \/ (b \in view /\ \A c \in batch["fast"] : Num[b] <= Num[c])

FastGoesUp ==
    /\ batch["fast"] \subseteq view
    /\ mu # NoState /\ mu.by = "fast" => Passed(mu.block)
    /\ \A d \in seen : d.by = "fast" => Passed(d.block)

Promises == PrevIsEarlier /\ StateIsNotOlder /\ NewerOnlyIfOvertaken

ReaderInv ==
    /\ FeedTypes
    /\ ReadingInv
    /\ KeptInv
    /\ FastGoesUp
    /\ Promises

LEMMA ReaderStart == ReaderInit => ReaderInv
  <1> SUFFICES ASSUME ReaderInit PROVE ReaderInv
    OBVIOUS
  <1>1. FeedTypes
    BY DEF ReaderInit, FeedTypes, EmptyRows, Rows
  <1>2. ReadingInv /\ KeptInv /\ Promises
    BY DEF ReaderInit, ReadingInv, KeptInv, Promises, PrevIsEarlier, StateIsNotOlder,
           NewerOnlyIfOvertaken
  <1>3. FastGoesUp
    BY StateReaderAssumption DEF ReaderInit, FastGoesUp
  <1>. QED BY <1>1, <1>2, <1>3 DEF ReaderInv

\* Blocks have numbers.
LEMMA Numbers == \A b \in Block : Num[b] \in Heights /\ Num[b] \in Nat
  <1>1. \A b \in Block : Num[b] \in Heights
    BY BlockTreeAssumption
  <1>2. Heights \subseteq Nat
    BY DEF Heights
  <1>. QED BY <1>1, <1>2

\* A step outside the reader takes nothing away from it: what was passed stays
\* passed, and reverted only grows.
LEMMA OutsideKeepsInv ==
    ASSUME ReaderInv, FeedTypes', UNCHANGED <<mu, latest, prev, seen>>,
           reverted \subseteq reverted', batch'["fast"] \subseteq view',
           \A b \in Block : Passed(b) => Passed(b)'
    PROVE  ReaderInv'
  <1>1. ReadingInv' /\ KeptInv'
    BY DEF ReaderInv, ReadingInv, KeptInv, KeptMap, Values
  <1>2. FastGoesUp'
    <2>1. \A d \in seen : d.by = "fast" => Passed(d.block)'
      BY DEF ReaderInv, FastGoesUp, FeedTypes
    <2>2. mu # NoState /\ mu.by = "fast" => Passed(mu.block)'
      <3>1. mu # NoState => mu.block \in Block
        BY DEF ReaderInv, ReadingInv
      <3>. QED BY <3>1 DEF ReaderInv, FastGoesUp
    <2>. QED BY <2>1, <2>2 DEF FastGoesUp, Passed
  <1>3. Promises'
    BY DEF ReaderInv, Promises, PrevIsEarlier, StateIsNotOlder, NewerOnlyIfOvertaken
  <1>. QED BY <1>1, <1>2, <1>3 DEF ReaderInv

LEMMA TrackerKeepsInv ==
    ASSUME ReaderInv, NEW b \in Block, RememberBlock(b) \/ OnReverted(b)
    PROVE  ReaderInv'
  <1>0. FeedTypes /\ FastGoesUp
    BY DEF ReaderInv
  <1>1. CASE RememberBlock(b)
    <2>1. /\ view' = view /\ batch' = batch /\ mark' = mark /\ reverted' = reverted
          /\ emit' = emit \cup {b} /\ UNCHANGED <<mu, latest, prev, seen>>
          /\ rows' = rows \/ rows' = [rows EXCEPT ![Num[b]] = b]
      BY <1>1 DEF RememberBlock
    <2>2. FeedTypes'
      BY <1>0, <2>1 DEF FeedTypes, Rows
    <2>. QED BY <1>0, <2>1, <2>2, OutsideKeepsInv DEF Passed, FastGoesUp
  <1>2. CASE OnReverted(b)
    <2>1. /\ view' = view \ {b} /\ reverted' = reverted \cup {b} /\ batch["fast"] = {}
          /\ UNCHANGED <<rows, emit, mark, batch, mu, latest, prev, seen>>
      BY <1>2 DEF OnReverted, Revert
    <2>2. FeedTypes'
      BY <1>0, <2>1 DEF FeedTypes
    <2>3. \A c \in Block : Passed(c) => Passed(c)'
      BY <2>1 DEF Passed
    <2>. QED BY <2>1, <2>2, <2>3, OutsideKeepsInv
  <1>. QED BY <1>1, <1>2

\* A batch is above everything that was delivered before.
LEMMA BatchKeepsInv ==
    ASSUME ReaderInv, OnCanonicalBatch
    PROVE  ReaderInv'
  <1>0. FeedTypes /\ FastGoesUp /\ "fast" \in Fetcher
    BY StateReaderAssumption DEF ReaderInv
  <1>1. /\ view' = view \cup emit /\ reverted' = reverted /\ emit' = {}
        /\ batch' = [batch EXCEPT !["fast"] = emit]
        /\ UNCHANGED <<rows, mark, mu, latest, prev, seen>>
        /\ \A b \in emit, c \in view : Num[c] < Num[b]
    BY DEF OnCanonicalBatch, Deliver
  <1>2. FeedTypes' /\ batch'["fast"] = emit
    BY <1>0, <1>1 DEF FeedTypes
  <1>3. ASSUME NEW b \in Block, Passed(b) PROVE Passed(b)'
    <2>1. \A c \in emit : Num[c] \in Nat /\ Num[b] \in Nat
      BY <1>0, Numbers DEF FeedTypes
    <2>. QED BY <1>1, <1>2, <1>3, <2>1 DEF Passed
  <1>. QED BY <1>1, <1>2, <1>3, OutsideKeepsInv

\* The other loops leave the batch of the fast fetcher alone; it only shrinks.
LEMMA LoopKeepsInv ==
    ASSUME ReaderInv, NEW f \in Fetcher,
           (\E head \in Heights : PollConfirmationOnce(f, head)) \/ Finish(f)
    PROVE  ReaderInv'
  <1>0. FeedTypes /\ FastGoesUp /\ "fast" \in Fetcher
    BY StateReaderAssumption DEF ReaderInv
  <1>1. /\ UNCHANGED <<view, rows, emit, reverted, mu, latest, prev, seen>>
        /\ batch'["fast"] \subseteq batch["fast"]
        /\ FeedTypes'
    <2>1. CASE Finish(f)
      <3>1. batch' = [batch EXCEPT ![f] = {}]
            /\ UNCHANGED <<view, rows, emit, mark, reverted, mu, latest, prev, seen>>
        BY <2>1 DEF Finish, feedVars
      <3>. QED BY <1>0, <3>1 DEF FeedTypes
    <2>2. ASSUME NEW head \in Heights, PollConfirmationOnce(f, head)
          PROVE  /\ UNCHANGED <<view, rows, emit, reverted, mu, latest, prev, seen>>
                 /\ batch'["fast"] \subseteq batch["fast"]
                 /\ FeedTypes'
      <3> DEFINE B == {rows[n] : n \in mark[f] + 1 .. head} \ {NoBlock}
      <3>1. /\ f # "fast" /\ mark' = [mark EXCEPT ![f] = head]
            /\ batch' = batch \/ batch' = [batch EXCEPT ![f] = B]
            /\ UNCHANGED <<view, rows, emit, reverted, mu, latest, prev, seen>>
        BY <2>2 DEF PollConfirmationOnce
      <3>2. mark[f] + 1 .. head \subseteq Heights
        BY <1>0, <3>1, BlockTreeAssumption DEF FeedTypes, Heights
      <3>3. B \subseteq Block
        BY <1>0, <3>2 DEF FeedTypes, Rows
      <3>. HIDE DEF B
      <3>. QED BY <1>0, <3>1, <3>3 DEF FeedTypes
    <2>. QED BY <2>1, <2>2
  <1>. QED BY <1>0, <1>1, OutsideKeepsInv DEF Passed, FastGoesUp

\* An event of that number came before, of another fetcher or of a reverted block.
Overtaken(num) == \E d \in seen : Num[d.block] = num /\ (d.by # "fast" \/ d.block \in reverted)

\* What is shown next to an event keeps the three promises.
LEMMA ShowKeeps ==
    ASSUME Promises, reverted' = reverted,
           NEW f, NEW b, NEW state, NEW before, Shown(f, b, state, before),
           before # NoState => before.num < state.num,
           state.num >= Num[b],
           f = "fast" /\ state.num # Num[b] => Overtaken(state.num)
    PROVE  Promises'
  <1> DEFINE new == [by |-> f, block |-> b, state |-> state, before |-> before]
  <1>1. new.by = f /\ new.block = b /\ new.state = state /\ new.before = before
    OBVIOUS
  <1>2. seen' = seen \cup {new}
    BY DEF Shown
  <1>. HIDE DEF new
  <1>. QED BY <1>1, <1>2 DEF Promises, PrevIsEarlier, StateIsNotOlder, NewerOnlyIfOvertaken, Overtaken

\* And leaves a trace of the block and of the fetcher.
LEMMA ShowAdds ==
    ASSUME NEW f, NEW b, NEW state, NEW before, Shown(f, b, state, before)
    PROVE  \E e : seen' = seen \cup {e} /\ e.by = f /\ e.block = b
  <1> DEFINE new == [by |-> f, block |-> b, state |-> state, before |-> before]
  <1>1. seen' = seen \cup {new}
    BY DEF Shown
  <1>2. new.by = f /\ new.block = b
    OBVIOUS
  <1>. HIDE DEF new
  <1>. QED BY <1>1, <1>2

LEMMA EnrichKeepsInv ==
    ASSUME ReaderInv, NEW f \in Fetcher, NEW b \in Block, Enrich(f, b)
    PROVE  ReaderInv'
  <1>0. FeedTypes /\ ReadingInv /\ KeptInv /\ FastGoesUp /\ Promises /\ "fast" \in Fetcher
    BY StateReaderAssumption DEF ReaderInv
  <1>1. /\ UNCHANGED <<view, rows, emit, mark, reverted, latest, prev>>
        /\ mu = NoState /\ b \in batch[f]
        /\ batch' = [batch EXCEPT ![f] = Remaining(f, b)]
    BY DEF Enrich, feedVars
  <1>2. /\ batch' \in [Fetcher -> SUBSET Block]
        /\ batch'["fast"] \subseteq batch["fast"]
        /\ f = "fast" => \A c \in batch'["fast"] : Num[b] <= Num[c]
    BY <1>0, <1>1 DEF FeedTypes, Remaining
  <1>3. /\ batch'["fast"] \subseteq view'
        /\ \A c : Passed(c) => Passed(c)'
        /\ f = "fast" => Passed(b)'
    BY <1>0, <1>1, <1>2 DEF FastGoesUp, Passed
  <1>4. CASE NeedsRead(b)
    <2> DEFINE new == [by |-> f, block |-> b, todo |-> Def, vals |-> [d \in Def |-> Missing]]
    <2>1. mu' = new /\ seen' = seen
      BY <1>4 DEF Enrich
    <2>2. /\ new.block = b /\ new.by = f /\ new.vals = [d \in Def |-> Missing]
          /\ new \in [by : Fetcher, block : Block, todo : SUBSET Def,
                     vals : [Def -> Block \cup {Missing}]]
      OBVIOUS
    <2>. HIDE DEF new
    <2>3. latest # NoState => latest.num < Num[b]
      <3>1. latest # NoState => latest.num \in Nat /\ Num[b] > latest.num
        BY <1>0, <1>4, BlockTreeAssumption DEF NeedsRead, KeptInv, KeptMap, Heights
      <3>. QED BY <3>1, Numbers
    <2>4. ReadingInv'
      BY <1>1, <2>1, <2>2, <2>3 DEF ReadingInv, Values
    <2>5. KeptInv' /\ FeedTypes'
      BY <1>0, <1>1, <1>2, <2>1 DEF KeptInv, KeptMap, Values, FeedTypes
    <2>6. FastGoesUp'
      BY <1>0, <1>3, <2>1, <2>2 DEF FastGoesUp
    <2>7. Promises'
      BY <1>0, <1>1, <2>1 DEF Promises, PrevIsEarlier, StateIsNotOlder, NewerOnlyIfOvertaken
    <2>. QED BY <2>4, <2>5, <2>6, <2>7 DEF ReaderInv
  <1>5. CASE ~NeedsRead(b)
    <2>1. mu' = mu /\ Shown(f, b, latest, prev)
      BY <1>5 DEF Enrich
    <2>2. latest # NoState /\ ~(Num[b] > latest.num)
      BY <1>5 DEF NeedsRead
    <2>3. KeptMap(latest) /\ latest.num \in Nat
      BY <1>0, <2>2, BlockTreeAssumption DEF KeptInv, KeptMap, Heights
    <2>4. latest.num >= Num[b]
      BY <2>2, <2>3, Numbers
    <2>5. ASSUME f = "fast", latest.num # Num[b]
          PROVE  Overtaken(latest.num)
      <3>1. PICK d \in seen : Num[d.block] = latest.num
        BY <1>0, <2>2 DEF KeptInv
      <3>2. ASSUME d.by = "fast", d.block \notin reverted PROVE FALSE
        <4>1. Num[d.block] <= Num[b]
          BY <1>0, <1>1, <2>5, <3>2 DEF FastGoesUp, Passed
        <4>. QED BY <2>3, <2>4, <2>5, <3>1, <4>1, Numbers
      <3>. QED BY <3>1, <3>2 DEF Overtaken
    <2>6. Promises'
      <3>1. prev # NoState => prev.num < latest.num
        BY <1>0 DEF KeptInv
      <3>. QED BY <1>0, <1>1, <2>1, <2>4, <2>5, <3>1, ShowKeeps
    <2>7. PICK e : seen' = seen \cup {e} /\ e.by = f /\ e.block = b
      BY <2>1, ShowAdds
    <2>8. ReadingInv'
      BY <1>1, <2>1 DEF ReadingInv
    <2>9. KeptInv'
      BY <1>0, <1>1, <2>7 DEF KeptInv, KeptMap, Values
    <2>10. FeedTypes'
      BY <1>0, <1>1, <1>2, <2>7 DEF FeedTypes
    <2>11. FastGoesUp'
      BY <1>0, <1>1, <1>3, <2>1, <2>7 DEF FastGoesUp
    <2>. QED BY <2>6, <2>8, <2>9, <2>10, <2>11 DEF ReaderInv
  <1>. QED BY <1>4, <1>5

LEMMA CallKeepsInv ==
    ASSUME ReaderInv, NEW d \in Def, Call(d)
    PROVE  ReaderInv'
  <1>0. FeedTypes /\ ReadingInv /\ KeptInv /\ FastGoesUp /\ Promises
    BY DEF ReaderInv
  <1>1. /\ UNCHANGED <<view, rows, emit, mark, reverted, batch, latest, prev, seen>>
        /\ mu # NoState
    BY DEF Call, feedVars
  <1>2. PICK v \in Answers(mu.block) \cup {Missing} :
          mu' = [mu EXCEPT !.todo = mu.todo \ {d}, !.vals = [mu.vals EXCEPT ![d] = v]]
    BY DEF Call
  <1>3. v \in Block \cup {Missing} /\ (v # Missing => Num[v] = Num[mu.block])
    BY DEF Answers, BlocksAt
  <1>4. /\ Values(Num[mu.block], mu.vals)
        /\ mu \in [by : Fetcher, block : Block, todo : SUBSET Def,
                  vals : [Def -> Block \cup {Missing}]]
    BY <1>0, <1>1 DEF ReadingInv
  <1>5. /\ mu'.block = mu.block /\ mu'.by = mu.by /\ mu'.vals = [mu.vals EXCEPT ![d] = v]
        /\ mu' \in [by : Fetcher, block : Block, todo : SUBSET Def,
                   vals : [Def -> Block \cup {Missing}]]
    BY <1>2, <1>3, <1>4
  <1>6. Values(Num[mu.block], [mu.vals EXCEPT ![d] = v])
    BY <1>3, <1>4 DEF Values
  <1>7. ReadingInv'
    BY <1>0, <1>1, <1>5, <1>6 DEF ReadingInv, Values
  <1>8. KeptInv' /\ FeedTypes' /\ Promises'
    BY <1>0, <1>1 DEF KeptInv, KeptMap, Values, FeedTypes, Promises, PrevIsEarlier,
                      StateIsNotOlder, NewerOnlyIfOvertaken
  <1>9. FastGoesUp'
    BY <1>0, <1>1, <1>5 DEF FastGoesUp, Passed
  <1>. QED BY <1>7, <1>8, <1>9 DEF ReaderInv

LEMMA KeepKeepsInv ==
    ASSUME ReaderInv, Keep
    PROVE  ReaderInv'
  <1>0. FeedTypes /\ ReadingInv /\ KeptInv /\ FastGoesUp /\ Promises
    BY DEF ReaderInv
  <1> DEFINE new == [num |-> Num[mu.block], vals |-> mu.vals]
  <1>1. /\ UNCHANGED <<view, rows, emit, mark, reverted, batch>>
        /\ mu # NoState /\ mu' = NoState
        /\ prev' = latest /\ latest' = new
        /\ Shown(mu.by, mu.block, new, latest)
    BY DEF Keep, feedVars
  <1>2. /\ mu.block \in Block /\ Values(Num[mu.block], mu.vals)
        /\ latest # NoState => latest.num < Num[mu.block]
    BY <1>0, <1>1 DEF ReadingInv
  <1>3. new.num = Num[mu.block] /\ new.vals = mu.vals /\ Num[mu.block] \in Nat
    BY <1>2, Numbers
  <1>4. new \in [num : Heights, vals : [Def -> Block \cup {Missing}]]
    BY <1>2, Numbers DEF Values
  <1>. HIDE DEF new
  <1>5. KeptMap(new)
    BY <1>2, <1>3, <1>4 DEF KeptMap
  <1>6. PICK e : seen' = seen \cup {e} /\ e.by = mu.by /\ e.block = mu.block
    BY <1>1, ShowAdds
  <1>7. KeptInv'
    <2>1. KeptMap(latest') /\ \E d \in seen' : Num[d.block] = latest'.num
      BY <1>1, <1>3, <1>5, <1>6
    <2>2. prev' # NoState => KeptMap(prev') /\ prev'.num < latest'.num
      BY <1>0, <1>1, <1>2, <1>3 DEF KeptInv
    <2>. QED BY <2>1, <2>2 DEF KeptInv, KeptMap, Values
  <1>8. Promises'
    <2>1. new.num >= Num[mu.block]
      BY <1>3
    <2>. QED BY <1>0, <1>1, <1>2, <1>3, <2>1, ShowKeeps
  <1>9. ReadingInv' /\ FeedTypes'
    BY <1>0, <1>1, <1>2, <1>6 DEF ReadingInv, FeedTypes
  <1>10. FastGoesUp'
    BY <1>0, <1>1, <1>6 DEF FastGoesUp, Passed
  <1>. QED BY <1>7, <1>8, <1>9, <1>10 DEF ReaderInv

LEMMA ReaderStep == ReaderInv /\ [ReaderNext]_readerVars => ReaderInv'
  <1> SUFFICES ASSUME ReaderInv, [ReaderNext]_readerVars PROVE ReaderInv'
    OBVIOUS
  <1>1. CASE UNCHANGED readerVars
    BY <1>1 DEF readerVars, feedVars, ReaderInv, FeedTypes, ReadingInv, KeptInv, KeptMap, Values,
                FastGoesUp, Passed, Promises, PrevIsEarlier, StateIsNotOlder,
                NewerOnlyIfOvertaken
  <1>2. CASE ReaderNext
    BY <1>2, TrackerKeepsInv, BatchKeepsInv, LoopKeepsInv, EnrichKeepsInv, CallKeepsInv,
       KeepKeepsInv DEF ReaderNext
  <1>. QED BY <1>1, <1>2

LEMMA ReaderInvHolds == ReaderSpec => []ReaderInv
  BY ReaderStart, ReaderStep, PTL DEF ReaderSpec

\* Reader.latest and Reader.prev hold, for each read that succeeded, a value of a
\* block of the number they are filed under.
THEOREM ReaderTypeCorrect == ReaderSpec => []ReaderTypeOK
  <1>1. ReaderInv => ReaderTypeOK
    BY DEF ReaderInv, KeptInv, KeptMap, Values, ReaderTypeOK
  <1>. QED BY <1>1, ReaderInvHolds, PTL

\* The values an event is compared with are of an earlier block (reader.go,
\* Enrich: latest becomes prev only for a higher number).
THEOREM PrevStaysEarlier == ReaderSpec => []PrevIsEarlier
  <1>1. ReaderInv => PrevIsEarlier
    BY DEF ReaderInv, Promises
  <1>. QED BY <1>1, ReaderInvHolds, PTL

\* An event never sees values of a block below its own (reader.go, Enrich).
THEOREM StateStaysNotOlder == ReaderSpec => []StateIsNotOlder
  <1>1. ReaderInv => StateIsNotOlder
    BY DEF ReaderInv, Promises
  <1>. QED BY <1>1, ReaderInvHolds, PTL

\* The fast fetcher sees values of its own number unless an event of the number they
\* are from came before, through a confirmation loop that had moved on to rows the
\* tracker wrote ahead of the logs, or of a block reverted since (reader.go, Enrich:
\* what is kept is never dropped; logs.go, fetchRange: the logs are sorted).
THEOREM FastIsOnlyOvertaken == ReaderSpec => []NewerOnlyIfOvertaken
  <1>1. ReaderInv => NewerOnlyIfOvertaken
    BY DEF ReaderInv, Promises
  <1>. QED BY <1>1, ReaderInvHolds, PTL
==============================================================================
