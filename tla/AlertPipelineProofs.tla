------------------------- MODULE AlertPipelineProofs -------------------------
(***************************************************************************)
(* From blocks to notifications, for every block tree, configuration, set  *)
(* of goroutines and receivers, whatever fails and whenever the process    *)
(* dies.                                                                   *)
(***************************************************************************)
EXTENDS AlertPipeline, WellFoundedInduction, TLAPS

------------------------------------------------------------------------------
(* The choices of the code: the next match, and the monitor of an address. *)

\* A set of numbers that is not empty has a least one.
LEMMA LeastOf ==
    ASSUME NEW T \in SUBSET Nat, T # {}
    PROVE  \E m \in T : \A n \in T : m <= n
  <1>1. PICK m \in T : \A n \in T : ~ (<<n, m>> \in OpToRel(<, Nat))
    BY NatLessThanWellFounded, WFMin
  <1>2. ASSUME NEW n \in T PROVE m <= n
    <2>1. n \in Nat /\ m \in Nat
      OBVIOUS
    <2>2. n < m => <<n, m>> \in OpToRel(<, Nat)
      BY <2>1 DEF OpToRel
    <2>3. ~(n < m)
      BY <1>1, <2>2, Zenon
    <2>. QED BY <2>1, <2>3
  <1>. QED BY <1>2

\* The matches of a fetcher are handled from the lowest place up.
LEMMA FirstIsIn ==
    ASSUME NEW Q \in SUBSET Alert, Q # {}
    PROVE  First(Q) \in Q
  <1>1. \A a \in Q : Num[a.block] \in Nat /\ a.log \in Nat
    <2>1. \A a \in Q : a.block \in Block /\ a.log \in Log
      BY DEF Alert
    <2>2. Log \subseteq Nat
      BY PipelineAssumption
    <2>3. \A b \in Block : Num[b] \in Nat
      <3>1. MaxHeight \in Nat /\ Num \in [Block -> Heights]
        BY BlockTreeAssumption
      <3>. QED BY <3>1 DEF Heights
    <2>. QED BY <2>1, <2>2, <2>3
  <1> DEFINE T == {Num[a.block] : a \in Q}
  <1>2. PICK n \in T : \A k \in T : n <= k
    <2>1. T \in SUBSET Nat /\ T # {}
      BY <1>1
    <2>. HIDE DEF T
    <2>. QED BY <2>1, LeastOf
  <1> DEFINE low == {a \in Q : Num[a.block] = n}
             L == {a.log : a \in low}
  <1>3. PICK k \in L : \A j \in L : k <= j
    <2>1. L \in SUBSET Nat /\ L # {}
      BY <1>1, <1>2
    <2>. HIDE DEF L
    <2>. QED BY <2>1, LeastOf
  <1>4. PICK a \in low : a.log = k
    BY <1>3
  <1>5. ASSUME NEW c \in Q
        PROVE  \/ Num[a.block] < Num[c.block]
               \/ Num[a.block] = Num[c.block] /\ a.log <= c.log
    <2>1. Num[a.block] = n /\ n <= Num[c.block] /\ n \in Nat /\ Num[c.block] \in Nat
      BY <1>1, <1>2, <1>4
    <2>2. Num[c.block] = n => k <= c.log
      BY <1>3
    <2>. QED BY <1>4, <2>1, <2>2
  <1>6. \E x \in Q : \A c \in Q : \/ Num[x.block] < Num[c.block]
                                  \/ Num[x.block] = Num[c.block] /\ x.log <= c.log
    BY <1>4, <1>5
  <1>. QED BY <1>6 DEF First

\* Decoder.Register leaves one monitor for an address, of that address.
LEMMA MonitorOfIsSpec ==
    ASSUME NEW a, Decodes(Specs, a)
    PROVE  MonitorOf(Specs, a) \in Elements(Specs) /\ MonitorOf(Specs, a).addr = a
  <1> DEFINE D == DOMAIN Specs
             n == Len(Monitors)
             down == {n - i : i \in {i \in D : Specs[i].addr = a}}
  <1>1. n \in Nat /\ D \subseteq 1..n
    <2>1. n \in Nat /\ DOMAIN Monitors = 1..n
      BY PipelineAssumption
    <2>2. D \subseteq DOMAIN Monitors
      BY DEF Specs, MonitorSpecs
    <2>. QED BY <2>1, <2>2
  <1>2. PICK m \in down : \A k \in down : m <= k
    <2>1. down \in SUBSET Nat /\ down # {}
      BY <1>1 DEF Decodes
    <2>. HIDE DEF down
    <2>. QED BY <2>1, LeastOf
  <1>3. PICK i \in D : Specs[i].addr = a /\ m = n - i
    BY <1>2
  <1>4. ASSUME NEW j \in D, Specs[j].addr = a PROVE j <= i
    <2>1. n - i <= n - j
      BY <1>2, <1>3, <1>4
    <2>. QED BY <1>1, <2>1
  <1>5. \E x \in D : Specs[x].addr = a /\ \A j \in D : Specs[j].addr = a => j <= x
    BY <1>3, <1>4
  <1>. QED BY <1>5 DEF MonitorOf, Elements

\* Whatever a fetcher reports is an alert: of a block it was asked about, for the
\* monitor of the log's address, among the addresses it asks for.
Raised(f, a) ==
    /\ Asked(f, LogAddr[a.log]) /\ Decodes(Specs, LogAddr[a.log])
    /\ a.mon = MonitorOf(Specs, LogAddr[a.log]).id

LEMMA MatchesAreAlerts ==
    ASSUME NEW f, NEW R \in SUBSET Block, NEW S
    PROVE  /\ Matches(f, R, S) \subseteq Alert
           /\ \A a \in Matches(f, R, S) : a.block \in R /\ Raised(f, a)
           /\ \A l \in Log : LogBlock[l] \in R \cap S /\ Asked(f, LogAddr[l])
                             /\ Decodes(Specs, LogAddr[l]) =>
                [mon |-> MonitorOf(Specs, LogAddr[l]).id, block |-> LogBlock[l], log |-> l]
                    \in Matches(f, R, S)
  <1>1. ASSUME NEW a \in Matches(f, R, S)
        PROVE  a \in Alert /\ a.block \in R /\ Raised(f, a)
    BY <1>1 DEF Matches, Alert, Raised
  <1>2. ASSUME NEW l \in Log, LogBlock[l] \in R \cap S, Asked(f, LogAddr[l]),
               Decodes(Specs, LogAddr[l])
        PROVE  [mon |-> MonitorOf(Specs, LogAddr[l]).id, block |-> LogBlock[l], log |-> l]
                    \in Matches(f, R, S)
    <2>1. MonitorOf(Specs, LogAddr[l]).id \in {m.id : m \in Elements(Specs)}
      BY <1>2, MonitorOfIsSpec
    <2>. QED BY <1>2, <2>1 DEF Matches
  <1>. QED BY <1>1, <1>2

------------------------------------------------------------------------------
(* What the steps do, one operator per kind of step.                       *)

JobType == [todo : SUBSET Block, queue : SUBSET Alert,
            at : {"next", "record", "send"}, to : SUBSET Receiver]

Types ==
    /\ view \in SUBSET Block
    /\ job \in [Fetcher -> JobType]
    /\ alerts \in SUBSET Alert
    /\ toRetract \in SUBSET Notice
    /\ fired \in [Fetcher -> [Notice -> 0..2]]
    /\ raced \in SUBSET Alert
    /\ lost \in [Fetcher -> SUBSET Alert]
    /\ told \in [Notice -> {"nothing", "firing", "reverted"}]
    /\ given \in [Fetcher -> SUBSET Block]
    /\ faults \in 0..MaxFaults /\ crashes \in Nat

\* A goroutine has a match in hand, and receivers left, while it needs them.
InHand(f) == /\ job[f].at = "send" <=> job[f].to # {}
             /\ job[f].at # "next" => job[f].queue # {}

TypeInv == Types /\ \A f \in Fetcher : InHand(f)

Puts(f, t, q, p, o) ==
    job' = [job EXCEPT ![f] = [todo |-> t, queue |-> q, at |-> p, to |-> o]]

MaybeFault == faults' = faults \/ Fault

Batched(f, S) ==
    /\ job[f] = Idle
    /\ S \in SUBSET Block
    /\ \/ f = "fast" /\ TrackerFree /\ view' = view \cup S
       \/ f # "fast" /\ view' = view
    /\ Puts(f, S, {}, "next", {})
    /\ given' = [given EXCEPT ![f] = given[f] \cup S]
    /\ UNCHANGED <<alerts, toRetract, fired, raced, told, lost, faults, crashes>>

GivesUp(f, M) == lost' = [lost EXCEPT ![f] = lost[f] \cup M]

Fetched(f, Q) ==
    /\ job[f].queue = {}
    /\ Q \in SUBSET Alert
    /\ \A a \in Q : a.block \in job[f].todo /\ Raised(f, a)
    /\ GivesUp(f, Matches(f, Range(job[f].todo), Range(job[f].todo)) \ Q)
    /\ Puts(f, Rest(job[f].todo), Q, "next", {})
    /\ MaybeFault
    /\ UNCHANGED <<view, alerts, toRetract, fired, raced, told, given, crashes>>

Looked(f) ==
    /\ Handles(f)
    /\ First(job[f].queue) \notin alerts
    /\ Puts(f, job[f].todo, job[f].queue, "record", {})
    /\ UNCHANGED <<view, alerts, toRetract, fired, raced, told, given, lost, faults, crashes>>

Dropped(f) ==
    /\ job[f].queue # {}
    /\ \/ First(job[f].queue) \in alerts /\ lost' = lost
       \/ GivesUp(f, {First(job[f].queue)})
    /\ Puts(f, job[f].todo, job[f].queue \ {First(job[f].queue)}, "next", {})
    /\ MaybeFault
    /\ UNCHANGED <<view, alerts, toRetract, fired, raced, told, given, crashes>>

Inserted(f) ==
    /\ job[f].at = "record" /\ job[f].queue # {}
    /\ alerts' = alerts \cup {First(job[f].queue)}
    /\ raced' = raced \cup ({First(job[f].queue)} \cap alerts)
    /\ Puts(f, job[f].todo, job[f].queue, "send", Receiver)
    /\ UNCHANGED <<view, toRetract, fired, told, given, lost, faults, crashes>>

Tried(f, r) ==
    /\ r \in job[f].to /\ job[f].at = "send" /\ job[f].queue # {}
    /\ \/ job[f].to = {r} /\ Puts(f, job[f].todo, job[f].queue \ {First(job[f].queue)},
                                 "next", {})
       \/ job[f].to # {r} /\ Puts(f, job[f].todo, job[f].queue, "send", job[f].to \ {r})
    /\ LET x == <<First(job[f].queue), r>>
       IN  \/ /\ fired' = [fired EXCEPT ![f][x] = IF fired[f][x] = 2 THEN 2 ELSE fired[f][x] + 1]
              /\ told' = [told EXCEPT ![x] = "firing"]
              /\ faults' = faults
           \/ Fault /\ fired' = fired /\ told' = told
    /\ UNCHANGED <<view, alerts, toRetract, raced, given, lost, crashes>>

FetcherStep(f) ==
    \/ \E S : Batched(f, S)
    \/ \E Q : Fetched(f, Q)
    \/ Looked(f) \/ Dropped(f) \/ Inserted(f)
    \/ \E r \in Receiver : Tried(f, r)

Effect ==
    \/ \E f \in Fetcher : FetcherStep(f)
    \/ \E b \in Block : OnReverted(b)
    \/ \E x \in Notice : SendReverted(x)
    \/ Restart
    \/ UNCHANGED pipeVars

\* Only the record of one goroutine is assigned to.
Others(f) == job' = [g \in Fetcher |-> job'[g]] /\ \A g \in Fetcher \ {f} : job'[g] = job[g]

LEMMA OneRecord ==
    ASSUME job \in [Fetcher -> JobType], NEW f \in Fetcher,
           NEW t, NEW q, NEW p, NEW o, Others(f),
           job'[f] = [todo |-> t, queue |-> q, at |-> p, to |-> o]
    PROVE  Puts(f, t, q, p, o)
  BY DEF Others, Puts

\* Every action of a goroutine is one of these.
LEMMA FetcherSteps ==
    ASSUME TypeInv, NEW f \in Fetcher,
           \/ \E S \in SUBSET Block : OnCanonicalBatch(f, S)
           \/ FilterLogs(f) \/ FilterLogsFails(f)
           \/ IsDuplicate(f) \/ RecordAlert(f) \/ HandleFails(f)
           \/ \E r \in Receiver : Send(f, r) \/ SendFails(f, r)
    PROVE  FetcherStep(f)
  <1>1. /\ job[f] \in JobType /\ InHand(f) /\ job \in [Fetcher -> JobType]
        /\ job[f] = [todo |-> job[f].todo, queue |-> job[f].queue,
                     at |-> job[f].at, to |-> job[f].to]
        /\ given \in [Fetcher -> SUBSET Block] /\ faults \in Nat
        /\ lost \in [Fetcher -> SUBSET Alert]
    BY DEF TypeInv, Types, JobType
  <1>2. ASSUME NEW S \in SUBSET Block, OnCanonicalBatch(f, S) PROVE Batched(f, S)
    <2>1. Puts(f, S, {}, "next", {})
      <3>1. job' = [job EXCEPT ![f].todo = S] /\ job[f] = Idle
        BY <1>2 DEF OnCanonicalBatch
      <3>2. Others(f) /\ job'[f] = [job[f] EXCEPT !.todo = S]
        BY <1>1, <3>1 DEF Others
      <3>3. job'[f] = [todo |-> S, queue |-> {}, at |-> "next", to |-> {}]
        BY <3>1, <3>2 DEF Idle
      <3>. QED BY <1>1, <3>2, <3>3, OneRecord
    <2>2. \/ f = "fast" /\ TrackerFree /\ view' = view \cup S
          \/ f # "fast" /\ view' = view
      BY <1>2 DEF OnCanonicalBatch, Delivers, Deliver
    <2>. QED BY <1>1, <1>2, <2>1, <2>2 DEF OnCanonicalBatch, Batched
  <1> DEFINE R == Range(job[f].todo)
  <1>3. R \in SUBSET Block /\ R \subseteq job[f].todo
    BY <1>1 DEF Range, JobType
  <1>4. Fetches(f) => job[f].queue = {} /\ job[f].at = "next" /\ job[f].to = {}
    BY <1>1 DEF Fetches, InHand
  <1>5. ASSUME FilterLogs(f) PROVE \E Q : Fetched(f, Q)
    <2>1. PICK S \in Branches(R) :
            /\ job' = [job EXCEPT ![f].todo = Rest(job[f].todo), ![f].queue = Matches(f, R, S)]
            /\ Loses(f, Matches(f, R, R) \ Matches(f, R, S))
            /\ IF S = R THEN UNCHANGED faults ELSE Fault
      BY <1>5 DEF FilterLogs
    <2> DEFINE Q == Matches(f, R, S)
    <2>2. Q \in SUBSET Alert /\ \A a \in Q : a.block \in R /\ Raised(f, a)
      BY <1>3, MatchesAreAlerts
    <2>3. GivesUp(f, Matches(f, R, R) \ Q)
      BY <2>1 DEF Loses, GivesUp
    <2>4. MaybeFault
      BY <2>1 DEF MaybeFault
    <2>. HIDE DEF Q, R
    <2>5. Puts(f, Rest(job[f].todo), Q, "next", {})
      BY <1>1, <1>4, <1>5, <2>1 DEF FilterLogs, Puts, Q
    <2>. QED BY <1>3, <1>4, <1>5, <2>2, <2>3, <2>4, <2>5 DEF FilterLogs, Fetched, R
  <1>6. ASSUME FilterLogsFails(f) PROVE Fetched(f, {})
    <2>1. Puts(f, Rest(job[f].todo), {}, "next", {})
      <3>1. job' = [job EXCEPT ![f].todo = Rest(job[f].todo)]
        BY <1>6 DEF FilterLogsFails
      <3>2. Others(f) /\ job'[f] = [job[f] EXCEPT !.todo = Rest(job[f].todo)]
        BY <1>1, <3>1 DEF Others
      <3>3. Fetches(f)
        BY <1>6 DEF FilterLogsFails
      <3>4. job'[f] = [todo |-> Rest(job[f].todo), queue |-> {}, at |-> "next", to |-> {}]
        BY <1>1, <1>4, <3>2, <3>3
      <3>. QED BY <1>1, <3>2, <3>4, OneRecord
    <2>2. MaybeFault
      BY <1>6 DEF FilterLogsFails, MaybeFault
    <2>3. GivesUp(f, Matches(f, R, R) \ {})
      <3>1. Loses(f, Matches(f, R, R))
        BY <1>6 DEF FilterLogsFails
      <3>2. Matches(f, R, R) \ {} = Matches(f, R, R)
        OBVIOUS
      <3>. HIDE DEF R
      <3>. QED BY <3>1, <3>2 DEF Loses, GivesUp
    <2>. QED BY <1>4, <1>6, <2>1, <2>2, <2>3 DEF FilterLogsFails, Fetched
  <1>7. Handles(f) => job[f].to = {}
    BY <1>1 DEF Handles, InHand
  <1>8. ASSUME Done(f) PROVE Puts(f, job[f].todo, job[f].queue \ {First(job[f].queue)}, "next", {})
    <2> DEFINE Q == job[f].queue \ {First(job[f].queue)}
    <2>1. job' = [job EXCEPT ![f].queue = Q, ![f].at = "next", ![f].to = {}]
      BY <1>8 DEF Done
    <2>. HIDE DEF Q
    <2>2. /\ Others(f)
          /\ job'[f] = [[[job[f] EXCEPT !.queue = Q] EXCEPT !.at = "next"] EXCEPT !.to = {}]
      BY <1>1, <2>1 DEF Others
    <2>3. job'[f] = [todo |-> job[f].todo, queue |-> Q, at |-> "next", to |-> {}]
      BY <1>1, <2>2
    <2>4. Puts(f, job[f].todo, Q, "next", {})
      BY <1>1, <2>2, <2>3, OneRecord
    <2>. QED BY <2>4 DEF Q
  <1>9. ASSUME IsDuplicate(f) PROVE Looked(f) \/ Dropped(f)
    <2>1. CASE Recorded(First(job[f].queue))
      BY <1>8, <1>9, <2>1 DEF IsDuplicate, Recorded, Dropped, Handles, MaybeFault
    <2>2. CASE ~ Recorded(First(job[f].queue))
      <3>1. Puts(f, job[f].todo, job[f].queue, "record", {})
        BY <1>1, <1>7, <1>9, <2>2 DEF IsDuplicate, Puts
      <3>. QED BY <1>9, <2>2, <3>1 DEF IsDuplicate, Recorded, Looked
    <2>. QED BY <2>1, <2>2
  <1>10. ASSUME RecordAlert(f) PROVE Inserted(f)
    <2>1. Puts(f, job[f].todo, job[f].queue, "send", Receiver)
      <3>1. job' = [job EXCEPT ![f].at = "send", ![f].to = Receiver]
        BY <1>10 DEF RecordAlert
      <3>2. Others(f) /\ job'[f] = [[job[f] EXCEPT !.at = "send"] EXCEPT !.to = Receiver]
        BY <1>1, <3>1 DEF Others
      <3>3. job'[f] = [todo |-> job[f].todo, queue |-> job[f].queue,
                       at |-> "send", to |-> Receiver]
        BY <1>1, <3>2
      <3>. QED BY <1>1, <3>2, <3>3, OneRecord
    <2>. QED BY <1>1, <1>10, <2>1 DEF RecordAlert, Inserted, Insert, InHand
  <1>11. ASSUME HandleFails(f) PROVE Dropped(f)
    <2>1. job[f].queue # {}
      BY <1>1, <1>11 DEF HandleFails, Handles, InHand
    <2>2. MaybeFault /\ GivesUp(f, {First(job[f].queue)})
      BY <1>11 DEF HandleFails, MaybeFault, Loses, GivesUp
    <2>. QED BY <1>8, <1>11, <2>1, <2>2 DEF HandleFails, Dropped
  <1>12. ASSUME NEW r \in Receiver, Send(f, r) \/ SendFails(f, r) PROVE Tried(f, r)
    <2>1. r \in job[f].to /\ Sent(f, r)
      BY <1>12 DEF Send, SendFails
    <2>2. job[f].at = "send" /\ job[f].queue # {}
      BY <1>1, <2>1 DEF InHand
    <2>3. \/ job[f].to = {r} /\ Puts(f, job[f].todo, job[f].queue \ {First(job[f].queue)},
                                   "next", {})
          \/ job[f].to # {r} /\ Puts(f, job[f].todo, job[f].queue, "send", job[f].to \ {r})
      <3>1. CASE job[f].to = {r}
        BY <1>8, <2>1, <3>1 DEF Sent
      <3>2. CASE job[f].to # {r}
        BY <1>1, <2>1, <2>2, <3>2 DEF Sent, Puts
      <3>. QED BY <3>1, <3>2
    <2>4. CASE Send(f, r)
      BY <2>1, <2>2, <2>3, <2>4 DEF Send, Tried
    <2>5. CASE SendFails(f, r)
      BY <2>1, <2>2, <2>3, <2>5 DEF SendFails, Tried
    <2>. QED BY <1>12, <2>4, <2>5
  <1>. QED BY <1>2, <1>5, <1>6, <1>9, <1>10, <1>11, <1>12 DEF FetcherStep

LEMMA StepEffects ==
    ASSUME TypeInv, [PipelineNext]_pipeVars
    PROVE  Effect
  BY FetcherSteps DEF PipelineNext, Effect

LEMMA PutsOne ==
    ASSUME job \in [Fetcher -> JobType], NEW f \in Fetcher,
           NEW t, NEW q, NEW p, NEW o, Puts(f, t, q, p, o)
    PROVE  /\ job'[f].todo = t /\ job'[f].queue = q /\ job'[f].at = p /\ job'[f].to = o
           /\ \A g \in Fetcher : g # f => job'[g] = job[g]
           /\ t \in SUBSET Block /\ q \in SUBSET Alert /\ o \in SUBSET Receiver
              /\ p \in {"next", "record", "send"} => job' \in [Fetcher -> JobType]
  <1>1. job'[f] = [todo |-> t, queue |-> q, at |-> p, to |-> o]
    BY DEF Puts
  <1>2. \A g \in Fetcher : g # f => job'[g] = job[g]
    BY DEF Puts
  <1>3. ASSUME t \in SUBSET Block, q \in SUBSET Alert, o \in SUBSET Receiver,
               p \in {"next", "record", "send"}
        PROVE  job' \in [Fetcher -> JobType]
    <2>1. [todo |-> t, queue |-> q, at |-> p, to |-> o] \in JobType
      BY <1>3 DEF JobType
    <2>. QED BY <2>1 DEF Puts
  <1>. QED BY <1>1, <1>2, <1>3

------------------------------------------------------------------------------
(* Types.                                                                  *)

LEMMA PipelineInitTypes == PipelineInit => TypeInv
  <1>1. Idle \in JobType
    BY DEF Idle, JobType
  <1>2. SUFFICES ASSUME PipelineInit PROVE TypeInv
    OBVIOUS
  <1>3. \A f \in Fetcher : job[f] = Idle
    BY <1>2 DEF PipelineInit
  <1>4. \A f \in Fetcher : InHand(f)
    BY <1>3 DEF InHand, Idle
  <1>5. 0 \in 0..MaxFaults /\ 0 \in Nat
    BY PipelineAssumption
  <1>. QED BY <1>1, <1>2, <1>4, <1>5 DEF PipelineInit, FeedInit, Types, TypeInv

LEMMA FetcherTypes ==
    ASSUME TypeInv, NEW f \in Fetcher, FetcherStep(f)
    PROVE  TypeInv'
  <1>. USE DEF JobType
  <1> DEFINE J == job[f]
  <1>1. /\ J.todo \in SUBSET Block /\ J.queue \in SUBSET Alert
        /\ J.at \in {"next", "record", "send"} /\ J.to \in SUBSET Receiver
    BY DEF TypeInv, Types
  <1>2. /\ job \in [Fetcher -> JobType] /\ faults \in 0..MaxFaults /\ MaxFaults \in Nat
        /\ \A g \in Fetcher : InHand(g)
    BY PipelineAssumption DEF TypeInv, Types
  <1>3. ASSUME NEW t \in SUBSET Block, NEW q \in SUBSET Alert, NEW o \in SUBSET Receiver,
               NEW p \in {"next", "record", "send"}, Puts(f, t, q, p, o),
               p = "send" <=> o # {}, p # "next" => q # {}
        PROVE  job' \in [Fetcher -> JobType] /\ \A g \in Fetcher : InHand(g)'
    <2>1. /\ job'[f].todo = t /\ job'[f].queue = q /\ job'[f].at = p /\ job'[f].to = o
          /\ \A g \in Fetcher : g # f => job'[g] = job[g]
          /\ job' \in [Fetcher -> JobType]
      BY <1>2, <1>3, PutsOne
    <2>. QED BY <1>2, <1>3, <2>1 DEF InHand
  <1>4. MaybeFault => faults' \in 0..MaxFaults
    BY <1>2 DEF MaybeFault, Fault
  <1>11. ASSUME NEW M \in SUBSET Alert, GivesUp(f, M) PROVE lost' \in [Fetcher -> SUBSET Alert]
    BY <1>11 DEF GivesUp, TypeInv, Types
  <1> HIDE DEF JobType
  <1>5. ASSUME NEW S, Batched(f, S) PROVE TypeInv'
    <2>1. job' \in [Fetcher -> JobType] /\ \A g \in Fetcher : InHand(g)'
      BY <1>3, <1>5 DEF Batched
    <2>2. view' \in SUBSET Block
      BY <1>5 DEF Batched, TypeInv, Types
    <2>3. given' \in [Fetcher -> SUBSET Block]
      BY <1>5 DEF Batched, TypeInv, Types
    <2>. QED BY <1>5, <2>1, <2>2, <2>3 DEF Batched, TypeInv, Types
  <1>6. ASSUME NEW Q, Fetched(f, Q) PROVE TypeInv'
    <2>1. Rest(J.todo) \in SUBSET Block
      BY <1>1 DEF Rest
    <2>2. job' \in [Fetcher -> JobType] /\ \A g \in Fetcher : InHand(g)'
      BY <1>3, <1>6, <2>1 DEF Fetched
    <2>3. lost' \in [Fetcher -> SUBSET Alert]
      <3> DEFINE R == Range(J.todo)
      <3>1. R \in SUBSET Block
        BY <1>1 DEF Range
      <3>2. Matches(f, R, R) \ Q \in SUBSET Alert
        BY <3>1, MatchesAreAlerts
      <3>3. GivesUp(f, Matches(f, R, R) \ Q)
        BY <1>6 DEF Fetched
      <3>. HIDE DEF R
      <3>. QED BY <1>11, <3>2, <3>3
    <2>. QED BY <1>4, <1>6, <2>2, <2>3 DEF Fetched, TypeInv, Types
  <1>7. ASSUME Looked(f) PROVE TypeInv'
    <2>1. job' \in [Fetcher -> JobType] /\ \A g \in Fetcher : InHand(g)'
      BY <1>1, <1>3, <1>7 DEF Looked, Handles
    <2>. QED BY <1>7, <2>1 DEF Looked, TypeInv, Types
  <1>8. ASSUME Dropped(f) PROVE TypeInv'
    <2> DEFINE Q == J.queue \ {First(J.queue)}
    <2>2. Q \in SUBSET Alert /\ Puts(f, J.todo, Q, "next", {})
      BY <1>1, <1>8 DEF Dropped
    <2>. HIDE DEF Q
    <2>1. job' \in [Fetcher -> JobType] /\ \A g \in Fetcher : InHand(g)'
      BY <1>1, <1>3, <2>2
    <2>3. lost' \in [Fetcher -> SUBSET Alert]
      <3>1. {First(J.queue)} \in SUBSET Alert
        BY <1>1, <1>8, FirstIsIn DEF Dropped
      <3>2. CASE lost' = lost
        BY <3>2 DEF TypeInv, Types
      <3>. QED BY <1>8, <1>11, <3>1, <3>2 DEF Dropped
    <2>. QED BY <1>4, <1>8, <2>1, <2>3 DEF Dropped, TypeInv, Types
  <1>9. ASSUME Inserted(f) PROVE TypeInv'
    <2>1. job' \in [Fetcher -> JobType] /\ \A g \in Fetcher : InHand(g)'
      BY <1>1, <1>3, <1>9, PipelineAssumption DEF Inserted
    <2>2. First(J.queue) \in Alert
      BY <1>1, <1>9, FirstIsIn DEF Inserted
    <2>3. alerts' \in SUBSET Alert /\ raced' \in SUBSET Alert
      BY <1>9, <2>2 DEF Inserted, TypeInv, Types
    <2>. QED BY <1>9, <2>1, <2>3 DEF Inserted, TypeInv, Types
  <1>10. ASSUME NEW r \in Receiver, Tried(f, r) PROVE TypeInv'
    <2>1. job' \in [Fetcher -> JobType] /\ \A g \in Fetcher : InHand(g)'
      <3>1. CASE J.to = {r}
        BY <1>1, <1>3, <1>10, <3>1 DEF Tried
      <3>2. CASE J.to # {r}
        <4>1. J.to \ {r} # {} /\ J.to \ {r} \in SUBSET Receiver
          BY <1>1, <1>10, <3>2 DEF Tried
        <4>. QED BY <1>1, <1>3, <1>10, <3>2, <4>1 DEF Tried
      <3>. QED BY <3>1, <3>2
    <2> DEFINE x == <<First(J.queue), r>>
    <2>2. x \in Notice
      BY <1>1, <1>10, FirstIsIn DEF Tried, Notice
    <2>3. fired \in [Fetcher -> [Notice -> 0..2]] /\ fired[f][x] \in 0..2
          /\ told \in [Notice -> {"nothing", "firing", "reverted"}]
      BY <2>2 DEF TypeInv, Types
    <2>4. (IF fired[f][x] = 2 THEN 2 ELSE fired[f][x] + 1) \in 0..2
      BY <2>3
    <2>5. /\ fired' \in [Fetcher -> [Notice -> 0..2]]
          /\ told' \in [Notice -> {"nothing", "firing", "reverted"}]
          /\ faults' \in 0..MaxFaults
      <3>1. CASE Fault /\ fired' = fired /\ told' = told
        BY <1>4, <2>3, <3>1 DEF MaybeFault
      <3>2. CASE /\ fired' = [fired EXCEPT ![f][x] = IF fired[f][x] = 2 THEN 2 ELSE fired[f][x] + 1]
                 /\ told' = [told EXCEPT ![x] = "firing"]
                 /\ faults' = faults
        BY <1>2, <2>3, <2>4, <3>2
      <3>. QED BY <1>10, <3>1, <3>2 DEF Tried
    <2>. QED BY <1>10, <2>1, <2>5 DEF Tried, TypeInv, Types
  <1>. QED BY <1>5, <1>6, <1>7, <1>8, <1>9, <1>10 DEF FetcherStep

LEMMA EffectTypes ==
    ASSUME TypeInv, Effect
    PROVE  TypeInv'
  <1>1. /\ faults \in 0..MaxFaults /\ MaxFaults \in Nat
        /\ crashes \in Nat
    BY PipelineAssumption DEF TypeInv, Types
  <1>2. Fault => faults' \in 0..MaxFaults
    BY <1>1 DEF Fault
  <1>3. ASSUME NEW b \in Block, OnReverted(b) PROVE TypeInv'
    <2>1. view' \in SUBSET Block
      BY <1>3 DEF OnReverted, Reverts, Revert, TypeInv, Types
    <2>2. toRetract' \in SUBSET Notice
      BY <1>3 DEF OnReverted, LoadAlertsAtBlock, Notice, TypeInv, Types
    <2>. QED BY <1>2, <1>3, <2>1, <2>2 DEF OnReverted, InHand, TypeInv, Types
  <1>4. ASSUME NEW x \in Notice, SendReverted(x) PROVE TypeInv'
    <2>1. told' \in [Notice -> {"nothing", "firing", "reverted"}]
      BY <1>4 DEF SendReverted, TypeInv, Types
    <2>. QED BY <1>2, <1>4, <2>1 DEF SendReverted, InHand, TypeInv, Types
  <1>5. ASSUME Restart PROVE TypeInv'
    <2>1. Idle \in JobType
      BY DEF Idle, JobType
    <2>2. job' \in [Fetcher -> JobType] /\ \A f \in Fetcher : job'[f] = Idle
      BY <1>5, <2>1 DEF Restart
    <2>3. \A f \in Fetcher : InHand(f)'
      BY <2>2 DEF InHand, Idle
    <2>4. faults' \in 0..MaxFaults /\ crashes' \in Nat
      BY <1>1, <1>2, <1>5 DEF Restart
    <2>5. ASSUME NEW f \in Fetcher
          PROVE  lost[f] \cup job[f].queue \cup Matches(f, job[f].todo, job[f].todo) \in SUBSET Alert
      <3>1. /\ lost[f] \in SUBSET Alert /\ job[f].queue \in SUBSET Alert
            /\ job[f].todo \in SUBSET Block
        BY DEF TypeInv, Types, JobType
      <3>. QED BY <3>1, MatchesAreAlerts
    <2>6. lost' \in [Fetcher -> SUBSET Alert]
      BY <1>5, <2>5 DEF Restart
    <2>. QED BY <1>5, <2>2, <2>3, <2>4, <2>6 DEF Restart, TypeInv, Types
  <1>6. ASSUME UNCHANGED pipeVars PROVE TypeInv'
    BY <1>6 DEF pipeVars, InHand, TypeInv, Types
  <1>. QED BY <1>3, <1>4, <1>5, <1>6, FetcherTypes DEF Effect

\* The locals of the goroutines and the tables keep their types, and a goroutine
\* has a match in hand, and receivers left, exactly while onLog needs them.
THEOREM PipelineTypeCorrect == PipelineSpec => []PipelineTypeOK
  <1>1. TypeInv /\ [PipelineNext]_pipeVars => TypeInv'
    BY StepEffects, EffectTypes
  <1>2. TypeInv => PipelineTypeOK
    BY DEF TypeInv, Types, JobType, InHand, PipelineTypeOK
  <1>. QED BY <1>1, <1>2, PipelineInitTypes, PTL DEF PipelineSpec

------------------------------------------------------------------------------
(* What is in the tables and in the hands of the goroutines.               *)

\* A goroutine works on blocks it was given, its matches are of the addresses it
\* asks for, and what it is sending has its row.
Working(f) ==
    /\ job[f].todo \subseteq given[f]
    /\ \A a \in job[f].queue : a.block \in given[f] /\ Raised(f, a)
    /\ job[f].at = "send" => First(job[f].queue) \in alerts

SentInv ==
    \A x \in Notice :
        (\E f \in Fetcher : fired[f][x] > 0) \/ told[x] = "firing" => x[1] \in alerts

\* Some goroutine that was given the block raised the alert.
RaisedInv == \A a \in alerts : \E f \in Fetcher : Raised(f, a) /\ a.block \in given[f]

BaseInv == TypeInv /\ (\A f \in Fetcher : Working(f)) /\ SentInv /\ RaisedInv

LEMMA InitBase == PipelineInit => BaseInv
  <1> SUFFICES ASSUME PipelineInit PROVE BaseInv
    OBVIOUS
  <1>1. \A f \in Fetcher : job[f] = Idle
    BY DEF PipelineInit
  <1>2. \A f \in Fetcher : Working(f)
    BY <1>1 DEF Working, Idle
  <1>3. SentInv /\ RaisedInv
    BY DEF PipelineInit, SentInv, RaisedInv
  <1>. QED BY <1>2, <1>3, PipelineInitTypes DEF BaseInv

\* No row is ever deleted, and what was handed over was handed over.
LEMMA TablesGrow ==
    ASSUME TypeInv, Effect
    PROVE  alerts \subseteq alerts' /\ \A f \in Fetcher : given[f] \subseteq given'[f]
  <1>1. ASSUME NEW f \in Fetcher, FetcherStep(f)
        PROVE  alerts \subseteq alerts' /\ \A g \in Fetcher : given[g] \subseteq given'[g]
    BY <1>1 DEF FetcherStep, Batched, Fetched, Looked, Dropped, Inserted, Tried, TypeInv, Types
  <1>. QED BY <1>1 DEF Effect, OnReverted, SendReverted, Restart, pipeVars

\* Raised is about the configuration and the logs only, so nothing that grows
\* disturbs what a goroutine that does not move works on.
LEMMA WorkingStays ==
    ASSUME TypeInv, Effect, NEW f \in Fetcher, Working(f), job'[f] = job[f]
    PROVE  Working(f)'
  <1>1. alerts \subseteq alerts' /\ given[f] \subseteq given'[f]
    BY TablesGrow
  <1>. QED BY <1>1 DEF Working, Raised

LEMMA FetcherWorking ==
    ASSUME BaseInv, NEW f \in Fetcher, FetcherStep(f)
    PROVE  Working(f)'
  <1> DEFINE J == job[f]
  <1>1. TypeInv /\ Working(f) /\ job \in [Fetcher -> JobType] /\ given \in [Fetcher -> SUBSET Block]
    BY DEF BaseInv, TypeInv, Types
  <1>2. ASSUME NEW S, Batched(f, S) PROVE Working(f)'
    <2>1. job'[f].todo = S /\ job'[f].queue = {} /\ job'[f].at = "next"
      BY <1>1, <1>2, PutsOne DEF Batched
    <2>2. given'[f] = given[f] \cup S
      BY <1>1, <1>2 DEF Batched
    <2>. QED BY <2>1, <2>2 DEF Working
  <1>3. ASSUME NEW Q, Fetched(f, Q) PROVE Working(f)'
    <2>1. job'[f].todo = Rest(J.todo) /\ job'[f].queue = Q /\ job'[f].at = "next"
      BY <1>1, <1>3, PutsOne DEF Fetched
    <2>2. given' = given /\ \A a \in Q : a.block \in J.todo /\ Raised(f, a)
      BY <1>3 DEF Fetched
    <2>. QED BY <1>1, <2>1, <2>2 DEF Working, Rest, Raised
  <1>4. ASSUME Looked(f) PROVE Working(f)'
    <2>1. job'[f].todo = J.todo /\ job'[f].queue = J.queue /\ job'[f].at = "record"
      BY <1>1, <1>4, PutsOne DEF Looked
    <2>. QED BY <1>1, <1>4, <2>1 DEF Looked, Working, Raised
  <1> DEFINE Q == J.queue \ {First(J.queue)}
  <1>5. ASSUME Puts(f, J.todo, Q, "next", {}), given' = given PROVE Working(f)'
    <2>1. Q \subseteq J.queue
      OBVIOUS
    <2>. HIDE DEF Q
    <2>2. job'[f].todo = J.todo /\ job'[f].queue = Q /\ job'[f].at = "next"
      BY <1>1, <1>5, PutsOne
    <2>. QED BY <1>1, <1>5, <2>1, <2>2 DEF Working, Raised
  <1>6. ASSUME Dropped(f) PROVE Working(f)'
    BY <1>5, <1>6 DEF Dropped
  <1>7. ASSUME Inserted(f) PROVE Working(f)'
    <2>1. job'[f].todo = J.todo /\ job'[f].queue = J.queue
      BY <1>1, <1>7, PutsOne DEF Inserted
    <2>. QED BY <1>1, <1>7, <2>1 DEF Inserted, Working, Raised
  <1>8. ASSUME NEW r \in Receiver, Tried(f, r) PROVE Working(f)'
    <2>1. CASE J.to = {r}
      BY <1>5, <1>8, <2>1 DEF Tried
    <2>2. CASE J.to # {r}
      <3>1. job'[f].todo = J.todo /\ job'[f].queue = J.queue
        BY <1>1, <1>8, <2>2, PutsOne DEF Tried
      <3>. QED BY <1>1, <1>8, <3>1 DEF Tried, Working, Raised
    <2>. QED BY <2>1, <2>2
  <1>. QED BY <1>2, <1>3, <1>4, <1>6, <1>7, <1>8 DEF FetcherStep

LEMMA FetcherLeavesOthers ==
    ASSUME TypeInv, NEW f \in Fetcher, FetcherStep(f)
    PROVE  \A g \in Fetcher : g # f => job'[g] = job[g]
  <1>1. PICK t, q, p, o : Puts(f, t, q, p, o)
    BY DEF FetcherStep, Batched, Fetched, Looked, Dropped, Inserted, Tried
  <1>. QED BY <1>1, PutsOne DEF TypeInv, Types

LEMMA EffectBase ==
    ASSUME BaseInv, Effect
    PROVE  BaseInv'
  <1>1. TypeInv /\ TypeInv'
    BY EffectTypes DEF BaseInv
  <1>2. ASSUME NEW g \in Fetcher PROVE Working(g)'
    <2>1. ASSUME NEW f \in Fetcher, FetcherStep(f) PROVE Working(g)'
      <3>1. CASE g = f
        BY <2>1, <3>1, FetcherWorking
      <3>2. CASE g # f
        BY <1>1, <2>1, <3>2, FetcherLeavesOthers, WorkingStays DEF BaseInv
      <3>. QED BY <3>1, <3>2
    <2>2. CASE Restart
      <3>1. job'[g] = Idle
        BY <2>2 DEF Restart
      <3>. QED BY <3>1 DEF Working, Idle
    <2>3. CASE job' = job
      BY <1>1, <2>3, WorkingStays DEF BaseInv
    <2>. QED BY <2>1, <2>2, <2>3 DEF Effect, OnReverted, SendReverted, pipeVars
  <1>3. SentInv'
    <2>1. CASE fired' = fired /\ told' = told
      BY <1>1, <2>1, TablesGrow DEF BaseInv, SentInv
    <2>2. ASSUME NEW f \in Fetcher, NEW r \in Receiver, Tried(f, r) PROVE SentInv'
      <3>1. alerts' = alerts /\ First(job[f].queue) \in alerts
        BY <2>2 DEF Tried, BaseInv, Working
      <3>2. \A x \in Notice : x # <<First(job[f].queue), r>> =>
                /\ told'[x] = told[x]
                /\ \A g \in Fetcher : fired'[g][x] = fired[g][x]
        <4>1. /\ fired \in [Fetcher -> [Notice -> 0..2]]
              /\ told \in [Notice -> {"nothing", "firing", "reverted"}]
          BY <1>1 DEF TypeInv, Types
        <4>. QED BY <2>2, <4>1 DEF Tried
      <3>. QED BY <3>1, <3>2 DEF BaseInv, SentInv
    <2>3. ASSUME NEW x \in Notice, SendReverted(x) PROVE SentInv'
      <3>1. alerts' = alerts /\ fired' = fired
        BY <2>3 DEF SendReverted
      <3>2. \A y \in Notice : told'[y] = "firing" => told[y] = "firing"
        BY <1>1, <2>3 DEF SendReverted, TypeInv, Types
      <3>. QED BY <3>1, <3>2 DEF BaseInv, SentInv
    <2>. QED BY <2>1, <2>2, <2>3
         DEF Effect, FetcherStep, Batched, Fetched, Looked, Dropped, Inserted, OnReverted,
             Restart, pipeVars
  <1>4. RaisedInv'
    <2>1. CASE alerts' = alerts
      BY <1>1, <2>1, TablesGrow DEF BaseInv, RaisedInv, Raised
    <2>2. ASSUME NEW f \in Fetcher, Inserted(f) PROVE RaisedInv'
      <3> DEFINE a == First(job[f].queue)
      <3>1. a \in job[f].queue
        <4>1. job[f].queue \in SUBSET Alert /\ job[f].queue # {}
          BY <1>1, <2>2 DEF Inserted, TypeInv, Types, JobType
        <4>. QED BY <4>1, FirstIsIn
      <3>2. Raised(f, a) /\ a.block \in given[f]
        BY <3>1 DEF BaseInv, Working
      <3>3. alerts' = alerts \cup {a} /\ given' = given
        BY <2>2 DEF Inserted
      <3>. QED BY <3>2, <3>3 DEF BaseInv, RaisedInv, Raised
    <2>. QED BY <2>1, <2>2
         DEF Effect, FetcherStep, Batched, Fetched, Looked, Dropped, Tried, OnReverted,
             SendReverted, Restart, pipeVars
  <1>. QED BY <1>1, <1>2, <1>3, <1>4 DEF BaseInv

LEMMA PipelineBase == PipelineSpec => []BaseInv
  <1>1. BaseInv /\ [PipelineNext]_pipeVars => BaseInv'
    BY StepEffects, EffectBase DEF BaseInv
  <1>. QED BY <1>1, InitBase, PTL DEF PipelineSpec

\* The row is inserted before the first receiver is tried, so whatever fails and
\* whenever the process dies, an alert that was sent has its row.
THEOREM WhatIsSentIsRecorded == PipelineSpec => []SentWasRecorded
  <1>1. BaseInv => SentWasRecorded
    BY DEF BaseInv, SentInv, SentWasRecorded
  <1>. QED BY <1>1, PipelineBase, PTL

------------------------------------------------------------------------------
(* What the configuration must be like for the levels not to interfere.    *)

\* config.Validate rejects a monitor id that is used twice.
UniqueIds == \A m, n \in Elements(Specs) : m.id = n.id => m = n

\* Every goroutine has an address to ask for, and no address is watched at two
\* levels.  Nothing in the code sees to this: see the run early_alert.
LevelsApart ==
    /\ \A f \in Fetcher : \E m \in Elements(Specs) : Confirmation(m) = f
    /\ \A m, n \in Elements(Specs) : m.addr = n.addr => Confirmation(m) = Confirmation(n)

LEMMA AddressesAsked ==
    ASSUME NEW f
    PROVE  MonitorAddressesByConfirmation(Monitors, ChainID, f)
               = {m.addr : m \in {x \in Elements(Specs) : Confirmation(x) = f}}
  <1>1. Elements(Specs) = {m \in OnChain(Monitors, ChainID) : m.addr # ""}
    BY DEF Specs, MonitorSpecs, Elements, OnChain
  <1>. QED BY <1>1 DEF MonitorAddressesByConfirmation

\* A goroutine raises the alerts of its own level only.
LEMMA RaisedAtItsLevel ==
    ASSUME UniqueIds, LevelsApart, NEW f \in Fetcher, NEW a, Raised(f, a),
           NEW m \in Elements(Specs), m.id = a.mon
    PROVE  Confirmation(m) = f
  <1> DEFINE n == MonitorOf(Specs, LogAddr[a.log])
  <1>1. n \in Elements(Specs) /\ n.addr = LogAddr[a.log] /\ n.id = a.mon
    BY MonitorOfIsSpec DEF Raised
  <1>2. m = n
    BY <1>1 DEF UniqueIds
  <1>3. PICK k \in Elements(Specs) : Confirmation(k) = f /\ k.addr = LogAddr[a.log]
    <2>1. PICK i \in Elements(Specs) : Confirmation(i) = f
      BY DEF LevelsApart
    <2>2. MonitorAddressesByConfirmation(Monitors, ChainID, f) # {}
      BY <2>1, AddressesAsked
    <2>3. LogAddr[a.log] \in MonitorAddressesByConfirmation(Monitors, ChainID, f)
      BY <2>2 DEF Raised, Asked
    <2>. QED BY <2>3, AddressesAsked
  <1>. QED BY <1>1, <1>2, <1>3 DEF LevelsApart

\* With the levels apart, an alert is recorded only for a block that has reached
\* the level its monitor asks for, whatever the endpoints answer.
THEOREM AlertsWaitForTheirLevel ==
    ASSUME UniqueIds, LevelsApart
    PROVE  PipelineSpec => []FiresAtItsConfirmation
  <1>1. BaseInv => FiresAtItsConfirmation
    BY RaisedAtItsLevel DEF BaseInv, RaisedInv, FiresAtItsConfirmation
  <1>. QED BY <1>1, PipelineBase, PTL

------------------------------------------------------------------------------
(* An alert fires once, and twice only through the race.                   *)

\* The alert a goroutine has in hand.
Hand(f) == First(job[f].queue)

Never(f, a) == \A r \in Receiver : fired[f][<<a, r>>] = 0

\* When the row is inserted, it is there only through another goroutine, and the
\* receivers left to try were not tried by this one yet.
OnceJob(f) ==
    /\ job[f].at = "record" =>
         /\ Never(f, Hand(f))
         /\ Hand(f) \in alerts => \E g \in Fetcher \ {f} : Raised(g, Hand(f))
    /\ job[f].at = "send" => \A r \in job[f].to : fired[f][<<Hand(f), r>>] = 0

\* While a goroutine sends an alert that was not inserted twice, it is the only one
\* that ever did.
Alone(f, g) ==
    job[f].at = "send" /\ Hand(f) \notin raced =>
        Never(g, Hand(f)) /\ (job[g].at = "send" => Hand(g) # Hand(f))

OnceInv ==
    /\ FiresOnce
    /\ \A f \in Fetcher : OnceJob(f)
    /\ \A f, g \in Fetcher : f # g => Alone(f, g)

LEMMA HandIsRaised ==
    ASSUME BaseInv, NEW f \in Fetcher, job[f].queue # {}
    PROVE  /\ First(job[f].queue) \in job[f].queue
           /\ First(job[f].queue) \in Alert
           /\ Raised(f, First(job[f].queue))
  <1>1. job[f].queue \in SUBSET Alert
    BY DEF BaseInv, TypeInv, Types, JobType
  <1>2. First(job[f].queue) \in job[f].queue
    BY <1>1, FirstIsIn
  <1>. QED BY <1>1, <1>2 DEF BaseInv, Working

\* A row that is not there was sent by nobody and is in the hands of nobody who sends.
LEMMA UnrecordedIsUnsent ==
    ASSUME BaseInv, NEW a \in Alert, a \notin alerts
    PROVE  \A f \in Fetcher : Never(f, a) /\ (job[f].at = "send" => Hand(f) # a)
  <1> SUFFICES ASSUME NEW f \in Fetcher
               PROVE  Never(f, a) /\ (job[f].at = "send" => Hand(f) # a)
    OBVIOUS
  <1>1. ASSUME NEW r \in Receiver PROVE fired[f][<<a, r>>] = 0
    <2>1. <<a, r>> \in Notice /\ <<a, r>>[1] = a
      BY DEF Notice
    <2>2. fired[f][<<a, r>>] \in 0..2
      BY <2>1 DEF BaseInv, TypeInv, Types
    <2>3. ~ (fired[f][<<a, r>>] > 0)
      BY <2>1 DEF BaseInv, SentInv
    <2>. QED BY <2>2, <2>3
  <1>2. job[f].at = "send" => Hand(f) \in alerts
    BY DEF BaseInv, Working, Hand
  <1>. QED BY <1>1, <1>2 DEF Never

\* A step that sends nothing, inserts nothing and leaves no goroutine sending or
\* recording that was not doing so before with the same alert.
LEMMA QuietKeepsOnce ==
    ASSUME OnceInv, alerts' = alerts, fired' = fired, raced' = raced,
           \A f \in Fetcher : job'[f].at = "next" \/ job'[f] = job[f]
    PROVE  OnceInv'
  <1>1. FiresOnce'
    BY DEF OnceInv, FiresOnce, Asked
  <1>2. ASSUME NEW f \in Fetcher PROVE OnceJob(f)'
    BY DEF OnceInv, OnceJob, Never, Hand, Raised
  <1>3. ASSUME NEW f \in Fetcher, NEW g \in Fetcher, f # g PROVE Alone(f, g)'
    BY <1>3 DEF OnceInv, Alone, Never, Hand
  <1>. QED BY <1>1, <1>2, <1>3 DEF OnceInv

LEMMA LookedKeepsOnce ==
    ASSUME BaseInv, OnceInv, NEW f \in Fetcher, Looked(f)
    PROVE  OnceInv'
  <1>1. TypeInv /\ job \in [Fetcher -> JobType]
    BY DEF BaseInv, TypeInv, Types
  <1>2. /\ job'[f].queue = job[f].queue /\ job'[f].at = "record"
        /\ \A g \in Fetcher : g # f => job'[g] = job[g]
    BY <1>1, PutsOne DEF Looked
  <1>3. /\ alerts' = alerts /\ fired' = fired /\ raced' = raced
        /\ Hand(f) \notin alerts /\ job[f].queue # {}
    BY DEF Looked, Handles, Hand
  <1>4. Hand(f) \in Alert
    BY <1>3, HandIsRaised DEF Hand
  <1>5. FiresOnce'
    BY <1>3 DEF OnceInv, FiresOnce, Asked
  <1>6. OnceJob(f)'
    <2>1. Never(f, Hand(f))
      BY <1>3, <1>4, UnrecordedIsUnsent
    <2>. QED BY <1>2, <1>3, <2>1 DEF OnceJob, Never, Hand
  <1>7. ASSUME NEW g \in Fetcher, g # f PROVE OnceJob(g)'
    BY <1>2, <1>3, <1>7 DEF OnceInv, OnceJob, Never, Hand, Raised
  <1>8. ASSUME NEW g \in Fetcher, NEW k \in Fetcher, g # k PROVE Alone(g, k)'
    BY <1>2, <1>3, <1>8 DEF OnceInv, Alone, Never, Hand
  <1>. QED BY <1>5, <1>6, <1>7, <1>8 DEF OnceInv

\* The insert: either the row is new, and nobody else sends it, or another goroutine
\* inserted it since the check, and the alert counts as raced for.
LEMMA InsertedKeepsOnce ==
    ASSUME BaseInv, OnceInv, NEW f \in Fetcher, Inserted(f)
    PROVE  OnceInv'
  <1> DEFINE h == Hand(f)
  <1>1. TypeInv /\ job \in [Fetcher -> JobType]
    BY DEF BaseInv, TypeInv, Types
  <1>2. /\ job'[f].queue = job[f].queue /\ job'[f].at = "send" /\ job'[f].to = Receiver
        /\ \A g \in Fetcher : g # f => job'[g] = job[g]
    BY <1>1, PutsOne DEF Inserted
  <1>3. /\ alerts' = alerts \cup {h} /\ raced' = raced \cup ({h} \cap alerts) /\ fired' = fired
        /\ job[f].at = "record" /\ job[f].queue # {}
    BY DEF Inserted, Hand
  <1>4. h \in Alert /\ Raised(f, h)
    BY <1>3, HandIsRaised DEF Hand
  <1>5. Never(f, h) /\ (h \in alerts => \E g \in Fetcher \ {f} : Raised(g, h))
    BY <1>3 DEF OnceInv, OnceJob
  <1>6. /\ \A g \in Fetcher : Hand(g)' = Hand(g)
        /\ \A g \in Fetcher : \A a : Never(g, a)' = Never(g, a)
    BY <1>2, <1>3 DEF Hand, Never
  <1>7. FiresOnce'
    <2>1. ASSUME h \in alerts
          PROVE  \E k, g \in Fetcher : k # g /\ Asked(k, LogAddr[h.log]) /\ Asked(g, LogAddr[h.log])
      <3>1. PICK g \in Fetcher \ {f} : Raised(g, h)
        BY <1>5, <2>1
      <3>. QED BY <1>4, <3>1 DEF Raised
    <2>. HIDE DEF h
    <2>2. \A a \in raced' : a \in raced \/ (a = h /\ h \in alerts)
      BY <1>3
    <2>. QED BY <1>3, <2>1, <2>2 DEF OnceInv, FiresOnce, Asked
  <1>8. OnceJob(f)'
    BY <1>2, <1>3, <1>5 DEF OnceJob, Never, Hand
  <1>9. ASSUME NEW g \in Fetcher, g # f PROVE OnceJob(g)'
    <2>1. OnceJob(g) /\ job'[g] = job[g] /\ Hand(g)' = Hand(g)
      BY <1>2, <1>6, <1>9 DEF OnceInv
    <2>2. job[g].at = "record" /\ Hand(g) \in alerts' =>
             \E k \in Fetcher \ {g} : Raised(k, Hand(g))
      <3>. HIDE DEF h
      <3>. QED BY <1>3, <1>4, <1>9, <2>1 DEF OnceJob
    <2>. QED BY <1>3, <2>1, <2>2 DEF OnceJob, Never, Raised
  <1>10. ASSUME NEW g \in Fetcher, NEW k \in Fetcher, g # k PROVE Alone(g, k)'
    <2>1. Alone(g, k) /\ raced \subseteq raced'
      BY <1>3, <1>10 DEF OnceInv
    <2>2. CASE h \in alerts
      <3>1. h \in raced'
        BY <1>3, <2>2
      <3>2. Hand(f)' = h
        BY <1>6
      <3>. HIDE DEF h
      <3>. QED BY <1>2, <1>6, <2>1, <3>1, <3>2 DEF Alone
    <2>3. CASE h \notin alerts
      <3>1. \A j \in Fetcher : Never(j, h) /\ (job[j].at = "send" => Hand(j) # h)
        BY <1>4, <2>3, UnrecordedIsUnsent
      <3>2. Hand(f)' = h
        BY <1>6
      <3>. HIDE DEF h
      <3>3. CASE g = f
        BY <1>2, <1>6, <1>10, <3>1, <3>2, <3>3 DEF Alone
      <3>4. CASE g # f
        BY <1>2, <1>6, <2>1, <3>1, <3>2, <3>4 DEF Alone
      <3>. QED BY <3>3, <3>4
    <2>. QED BY <2>2, <2>3
  <1>. QED BY <1>7, <1>8, <1>9, <1>10 DEF OnceInv

LEMMA TriedKeepsOnce ==
    ASSUME BaseInv, OnceInv, NEW f \in Fetcher, NEW r \in Receiver, Tried(f, r)
    PROVE  OnceInv'
  <1> DEFINE h == Hand(f)
             x == <<h, r>>
  <1>1. TypeInv /\ job \in [Fetcher -> JobType] /\ fired \in [Fetcher -> [Notice -> 0..2]]
    BY DEF BaseInv, TypeInv, Types
  <1>2. /\ r \in job[f].to /\ job[f].at = "send" /\ job[f].queue # {}
        /\ alerts' = alerts /\ raced' = raced
    BY DEF Tried
  <1>3. h \in Alert /\ x \in Notice /\ fired[f][x] = 0 /\ x[1] = h
    <2>1. h \in Alert
      BY <1>2, HandIsRaised DEF Hand
    <2>. QED BY <1>2, <2>1 DEF Notice, OnceInv, OnceJob
  <1>4. \/ job'[f].at = "next"
        \/ job'[f].at = "send" /\ job'[f].queue = job[f].queue /\ job'[f].to = job[f].to \ {r}
    BY <1>1, PutsOne DEF Tried
  <1>5. \A g \in Fetcher : g # f => job'[g] = job[g]
    BY <1>1, PutsOne DEF Tried
  <1>6. \A g \in Fetcher, y \in Notice : g # f \/ y # x => fired'[g][y] = fired[g][y]
    BY <1>1 DEF Tried, Hand
  <1>7. fired'[f][x] \in {0, 1}
    <2>1. fired' = fired \/ fired' = [fired EXCEPT ![f][x] = IF fired[f][x] = 2 THEN 2 ELSE fired[f][x] + 1]
      BY DEF Tried, Hand
    <2>. HIDE DEF x
    <2>. QED BY <1>1, <1>3, <2>1
  <1>8. \A g \in Fetcher, a \in Alert : g # f \/ a # h => (Never(g, a)' <=> Never(g, a))
    <2> SUFFICES ASSUME NEW g \in Fetcher, NEW a \in Alert, g # f \/ a # h, NEW s \in Receiver
                 PROVE  fired'[g][<<a, s>>] = fired[g][<<a, s>>]
      BY DEF Never
    <2>1. <<a, s>> \in Notice /\ (a # h => <<a, s>> # x)
      BY DEF Notice
    <2>. HIDE DEF x
    <2>. QED BY <1>6, <2>1
  <1>9. \A g \in Fetcher : job'[g].at # "next" => Hand(g)' = Hand(g) /\ job'[g].at = job[g].at
    BY <1>2, <1>4, <1>5 DEF Hand
  <1>10. \A g \in Fetcher : job[g].at # "next" => Hand(g) \in Alert
    BY HandIsRaised DEF BaseInv, TypeInv, InHand, Hand
  <1>11. FiresOnce'
    <2>1. \A g \in Fetcher, y \in Notice : fired'[g][y] <= 1
      <3>. HIDE DEF x
      <3>. QED BY <1>6, <1>7 DEF OnceInv, FiresOnce
    <2>2. ASSUME NEW g \in Fetcher, g # f, fired'[g][x] > 0 PROVE h \in raced
      <3>1. fired[g][x] > 0
        BY <1>3, <1>6, <2>2
      <3>2. ~ Never(g, h)
        BY <3>1 DEF Never
      <3>3. Alone(f, g)
        BY <2>2 DEF OnceInv
      <3>. QED BY <1>2, <3>2, <3>3 DEF Alone
    <2>3. ASSUME NEW g \in Fetcher, NEW k \in Fetcher, NEW y \in Notice, g # k,
                 fired'[g][y] > 0, fired'[k][y] > 0
          PROVE  y[1] \in raced'
      <3>1. CASE y = x
        <4>1. g # f \/ k # f
          BY <2>3
        <4>. QED BY <1>2, <1>3, <2>2, <2>3, <3>1, <4>1
      <3>2. CASE y # x
        <4>1. fired[g][y] > 0 /\ fired[k][y] > 0
          BY <1>6, <2>3, <3>2
        <4>. QED BY <1>2, <2>3, <4>1 DEF OnceInv, FiresOnce
      <3>. QED BY <3>1, <3>2
    <2>4. \A a \in raced' : \E g, k \in Fetcher :
             g # k /\ Asked(g, LogAddr[a.log]) /\ Asked(k, LogAddr[a.log])
      BY <1>2 DEF OnceInv, FiresOnce
    <2>. QED BY <2>1, <2>3, <2>4 DEF FiresOnce, Asked
  <1>12. OnceJob(f)'
    <2>1. ASSUME NEW s \in job[f].to, s # r PROVE fired'[f][<<h, s>>] = 0
      <3>1. fired[f][<<h, s>>] = 0 /\ <<h, s>> # x
        BY <1>2, <2>1 DEF OnceInv, OnceJob
      <3>2. s \in Receiver
        BY <1>1 DEF JobType
      <3>3. <<h, s>> \in Notice
        BY <1>3, <3>2 DEF Notice
      <3>. QED BY <1>6, <3>1, <3>3
    <2>2. job'[f].at # "record"
      BY <1>4
    <2>3. job'[f].at = "send" => Hand(f)' = h /\ job'[f].to = job[f].to \ {r}
      BY <1>4 DEF Hand
    <2>. HIDE DEF h
    <2>. QED BY <2>1, <2>2, <2>3 DEF OnceJob
  <1>13. ASSUME NEW g \in Fetcher, g # f PROVE OnceJob(g)'
    <2>1. job'[g] = job[g] /\ OnceJob(g) /\ Hand(g)' = Hand(g)
      BY <1>5, <1>13 DEF OnceInv, Hand
    <2>2. job[g].at # "next" => (Never(g, Hand(g))' <=> Never(g, Hand(g)))
      BY <1>8, <1>10, <1>13, <2>1 DEF Never
    <2>3. ASSUME job[g].at = "send", NEW s \in job[g].to
          PROVE  fired'[g][<<Hand(g), s>>] = 0
      <3>1. Hand(g) \in Alert /\ s \in Receiver
        BY <1>1, <1>10, <2>3 DEF JobType
      <3>2. <<Hand(g), s>> \in Notice
        BY <3>1 DEF Notice
      <3>. QED BY <1>6, <1>13, <2>1, <2>3, <3>2 DEF OnceJob
    <2>. QED BY <1>2, <2>1, <2>2, <2>3 DEF OnceJob, Raised
  <1>14. ASSUME NEW g \in Fetcher, NEW k \in Fetcher, g # k PROVE Alone(g, k)'
    <2> SUFFICES ASSUME job'[g].at = "send", Hand(g)' \notin raced'
                 PROVE  Never(k, Hand(g))' /\ (job'[k].at = "send" => Hand(k)' # Hand(g)')
      BY DEF Alone
    <2>1. /\ job[g].at = "send" /\ Hand(g)' = Hand(g) /\ Hand(g) \notin raced /\ Hand(g) \in Alert
      BY <1>2, <1>9, <1>10
    <2>2. Never(k, Hand(g)) /\ (job[k].at = "send" => Hand(k) # Hand(g))
      BY <1>14, <2>1 DEF OnceInv, Alone
    <2>3. k # f \/ Hand(g) # h
      BY <1>2, <2>2
    <2>4. Never(k, Hand(g))'
      BY <1>8, <2>1, <2>2, <2>3 DEF Never
    <2>5. job'[k].at = "send" => Hand(k)' # Hand(g)'
      BY <1>9, <2>1, <2>2
    <2>. QED BY <2>4, <2>5
  <1>. QED BY <1>11, <1>12, <1>13, <1>14 DEF OnceInv

LEMMA EffectOnce ==
    ASSUME BaseInv, OnceInv, Effect
    PROVE  OnceInv'
  <1>1. TypeInv /\ job \in [Fetcher -> JobType]
    BY DEF BaseInv, TypeInv, Types
  <1>2. CASE Restart
    <2>1. \A f \in Fetcher : job'[f].at = "next"
      BY <1>2 DEF Restart, Idle
    <2>. QED BY <1>2, <2>1, QuietKeepsOnce DEF Restart
  <1>3. ASSUME NEW f \in Fetcher,
               (\E S : Batched(f, S)) \/ (\E Q : Fetched(f, Q)) \/ Dropped(f)
        PROVE  OnceInv'
    <2>1. job'[f].at = "next" /\ \A g \in Fetcher : g # f => job'[g] = job[g]
      <3>1. PICK t, q : Puts(f, t, q, "next", {})
        BY <1>3 DEF Batched, Fetched, Dropped
      <3>. QED BY <1>1, <3>1, PutsOne
    <2>2. alerts' = alerts /\ fired' = fired /\ raced' = raced
      BY <1>3 DEF Batched, Fetched, Dropped
    <2>. QED BY <2>1, <2>2, QuietKeepsOnce
  <1>4. ASSUME NEW f \in Fetcher, FetcherStep(f) PROVE OnceInv'
    BY <1>3, <1>4, LookedKeepsOnce, InsertedKeepsOnce, TriedKeepsOnce DEF FetcherStep
  <1>5. CASE (\E b \in Block : OnReverted(b)) \/ (\E x \in Notice : SendReverted(x))
             \/ UNCHANGED pipeVars
    BY <1>5, QuietKeepsOnce DEF OnReverted, SendReverted, pipeVars
  <1>. QED BY <1>2, <1>4, <1>5 DEF Effect

\* For every configuration: a fetcher sends an alert to a receiver at most once,
\* whenever blocks come back and the process dies, and two fetchers both send it only
\* when both ask for the contract and one looked the fingerprint up before the other
\* inserted it (manager.go, Handle: IsDuplicate and RecordAlert are two statements,
\* and the insert ignores a conflict).
THEOREM AlertsFireOnce == PipelineSpec => []FiresOnce
  <1>1. PipelineInit => OnceInv
    <2> SUFFICES ASSUME PipelineInit PROVE OnceInv
      OBVIOUS
    <2>1. \A f \in Fetcher : job[f].at = "next"
      BY DEF PipelineInit, Idle
    <2>2. FiresOnce
      BY DEF PipelineInit, FiresOnce
    <2>. QED BY <2>1, <2>2 DEF OnceInv, OnceJob, Alone
  <1>2. OnceInv /\ BaseInv /\ [PipelineNext]_pipeVars => OnceInv'
    BY StepEffects, EffectOnce DEF BaseInv
  <1>3. OnceInv => FiresOnce
    BY DEF OnceInv
  <1>. QED BY <1>1, <1>2, <1>3, PipelineBase, PTL DEF PipelineSpec

------------------------------------------------------------------------------
(* As long as nothing goes wrong: retraction.                              *)

LEMMA QuietStep ==
    ASSUME TypeInv, Effect, Undisturbed'
    PROVE  Undisturbed /\ faults' = faults /\ ~ Fault
  <1>1. faults \in Nat
    BY DEF TypeInv, Types
  <1>2. faults' = faults \/ faults' = faults + 1
    BY DEF Effect, FetcherStep, Batched, Fetched, Looked, Dropped, Inserted, Tried,
           OnReverted, SendReverted, Restart, MaybeFault, Fault, pipeVars
  <1>. QED BY <1>1, <1>2 DEF Undisturbed, Fault

\* The tracker's goroutine works on blocks that are not reverted, and a notice that
\* it alone sent and that stands as firing is for such a block or is being retracted.
FastInView ==
    /\ job["fast"].todo \subseteq view
    /\ \A a \in job["fast"].queue : a.block \in view

ByFastAlone(x) == \A f \in Fetcher \ {"fast"} : fired[f][x] = 0

FiringInView ==
    \A x \in Notice : told[x] = "firing" /\ ByFastAlone(x) =>
        x[1].block \in view \/ x \in toRetract

OrphanInv == Undisturbed => FastInView /\ FiringInView

LEMMA EffectOrphan ==
    ASSUME BaseInv, OrphanInv, Effect, Undisturbed'
    PROVE  FastInView' /\ FiringInView'
  <1>1. TypeInv /\ job \in [Fetcher -> JobType] /\ "fast" \in Fetcher
        /\ told \in [Notice -> {"nothing", "firing", "reverted"}]
        /\ fired \in [Fetcher -> [Notice -> 0..2]]
    BY PipelineAssumption DEF BaseInv, TypeInv, Types
  <1>2. FastInView /\ FiringInView /\ faults' = faults /\ ~ Fault
    BY <1>1, QuietStep DEF OrphanInv
  <1>3. ASSUME NEW f \in Fetcher, FetcherStep(f) PROVE FastInView' /\ FiringInView'
    <2> DEFINE J == job[f]
               h == First(J.queue)
    <2>1. f # "fast" => job'["fast"] = job["fast"]
      BY <1>1, <1>3, FetcherLeavesOthers
    <2>2. view \subseteq view' /\ toRetract' = toRetract
      BY <1>3 DEF FetcherStep, Batched, Fetched, Looked, Dropped, Inserted, Tried
    <2>3. FastInView'
      <3>1. CASE f # "fast"
        BY <1>2, <2>1, <2>2, <3>1 DEF FastInView
      <3>2. ASSUME f = "fast", NEW S, Batched(f, S) PROVE FastInView'
        <4>1. job'[f].todo = S /\ job'[f].queue = {}
          BY <1>1, <3>2, PutsOne DEF Batched
        <4>2. S \subseteq view'
          BY <3>2 DEF Batched
        <4>. QED BY <3>2, <4>1, <4>2 DEF FastInView
      <3>3. ASSUME f = "fast", NEW Q, Fetched(f, Q) PROVE FastInView'
        <4>1. job'[f].todo = Rest(J.todo) /\ job'[f].queue = Q
          BY <1>1, <3>3, PutsOne DEF Fetched
        <4>2. \A a \in Q : a.block \in J.todo
          BY <3>3 DEF Fetched
        <4>. QED BY <1>2, <2>2, <3>3, <4>1, <4>2 DEF FastInView, Rest
      <3>4. ASSUME f = "fast",
                   Looked(f) \/ Dropped(f) \/ Inserted(f) \/ \E r \in Receiver : Tried(f, r)
            PROVE  FastInView'
        <4>1. PICK q, p, o : Puts(f, J.todo, q, p, o) /\ q \subseteq J.queue
          <5>1. CASE Looked(f) \/ Inserted(f)
            BY <5>1 DEF Looked, Inserted
          <5>2. CASE Dropped(f) \/ \E r \in Receiver : Tried(f, r)
            <6> DEFINE Q == J.queue \ {h}
            <6>1. Q \subseteq J.queue
              OBVIOUS
            <6>2. \/ Puts(f, J.todo, Q, "next", {})
                  \/ \E o : Puts(f, J.todo, J.queue, "send", o)
              BY <5>2 DEF Dropped, Tried
            <6>. HIDE DEF Q
            <6>. QED BY <6>1, <6>2
          <5>. QED BY <3>4, <5>1, <5>2
        <4>2. job'[f].todo = J.todo /\ job'[f].queue = q
          BY <1>1, <4>1, PutsOne
        <4>. QED BY <1>2, <2>2, <3>4, <4>1, <4>2 DEF FastInView
      <3>. QED BY <1>3, <3>1, <3>2, <3>3, <3>4 DEF FetcherStep
    <2>4. FiringInView'
      <3>1. CASE told' = told /\ fired' = fired
        BY <1>2, <2>2, <3>1 DEF FiringInView, ByFastAlone
      <3>2. ASSUME NEW r \in Receiver, Tried(f, r) PROVE FiringInView'
        <4>0. h \in J.queue /\ h \in Alert
          BY <3>2, HandIsRaised DEF Tried
        <4>1. PICK x \in Notice : x = <<h, r>> /\ x[1] = h
          <5>. HIDE DEF h
          <5>1. <<h, r>> \in Notice /\ <<h, r>>[1] = h
            BY <4>0 DEF Notice
          <5>. QED BY <5>1
        <4>2. /\ fired' = [fired EXCEPT ![f][x] = IF fired[f][x] = 2 THEN 2 ELSE fired[f][x] + 1]
              /\ told' = [told EXCEPT ![x] = "firing"]
          BY <1>2, <3>2, <4>1 DEF Tried
        <4>. HIDE DEF h, J
        <4>3. \A y \in Notice : y # x =>
                told'[y] = told[y] /\ \A g \in Fetcher : fired'[g][y] = fired[g][y]
          BY <1>1, <4>2
        <4>4. f # "fast" => ~ ByFastAlone(x)'
          <5>1. fired[f][x] \in 0..2
            BY <1>1, <4>1
          <5>2. fired'[f][x] # 0
            BY <1>1, <4>1, <4>2, <5>1
          <5>. QED BY <5>2 DEF ByFastAlone
        <4>5. f = "fast" => x[1].block \in view
          BY <1>2, <4>0, <4>1 DEF FastInView, J
        <4>6. ASSUME NEW y \in Notice, told'[y] = "firing", ByFastAlone(y)'
              PROVE  y[1].block \in view' \/ y \in toRetract'
          <5>1. CASE y = x
            BY <2>2, <4>4, <4>5, <4>6, <5>1
          <5>2. CASE y # x
            <6>1. told[y] = "firing" /\ ByFastAlone(y)
              BY <4>3, <4>6, <5>2 DEF ByFastAlone
            <6>. QED BY <1>2, <2>2, <6>1 DEF FiringInView
          <5>. QED BY <5>1, <5>2
        <4>. QED BY <4>6 DEF FiringInView
      <3>. QED BY <1>3, <3>1, <3>2 DEF FetcherStep, Batched, Fetched, Looked, Dropped, Inserted
    <2>. QED BY <2>3, <2>4
  <1>4. ASSUME NEW b \in Block, OnReverted(b) PROVE FastInView' /\ FiringInView'
    <2>1. job["fast"] = Idle /\ toRetract = {} /\ job' = job /\ told' = told /\ fired' = fired
      BY <1>4 DEF OnReverted, TrackerFree
    <2>2. view' = view \ {b} /\ toRetract' = {a \in alerts : a.block = b} \X Receiver
      BY <1>2, <1>4 DEF OnReverted, Reverts, Revert, LoadAlertsAtBlock
    <2>3. FastInView'
      BY <2>1 DEF FastInView, Idle
    <2>4. ASSUME NEW x \in Notice, told[x] = "firing", ByFastAlone(x)
          PROVE  x[1].block \in view' \/ x \in toRetract'
      <3>1. x[1] \in alerts
        BY <2>4 DEF BaseInv, SentInv
      <3>2. x[1].block \in view
        BY <1>2, <2>1, <2>4 DEF FiringInView
      <3>3. x = <<x[1], x[2]>> /\ x[2] \in Receiver
        BY DEF Notice
      <3>. QED BY <2>2, <3>1, <3>2, <3>3
    <2>. QED BY <2>1, <2>3, <2>4 DEF FiringInView, ByFastAlone
  <1>5. ASSUME NEW x \in Notice, SendReverted(x) PROVE FastInView' /\ FiringInView'
    <2>1. /\ view' = view /\ job' = job /\ toRetract' = toRetract \ {x}
          /\ told' = [told EXCEPT ![x] = "reverted"] /\ fired' = fired
      BY <1>2, <1>5 DEF SendReverted
    <2>2. told'[x] = "reverted" /\ \A y \in Notice : y # x => told'[y] = told[y]
      BY <1>1, <2>1
    <2>. QED BY <1>2, <2>1, <2>2 DEF FastInView, FiringInView, ByFastAlone
  <1>6. ~ Restart
    BY <1>2 DEF Restart
  <1>7. ASSUME UNCHANGED pipeVars PROVE FastInView' /\ FiringInView'
    BY <1>2, <1>7 DEF pipeVars, FastInView, FiringInView, ByFastAlone
  <1>. QED BY <1>3, <1>4, <1>5, <1>6, <1>7 DEF Effect

\* For every configuration, as long as nothing fails: whenever the tracker's goroutine
\* is between two callbacks, an alert that only its fetcher sent and that stands as
\* firing is for a block that was not reverted (main.go, OnReverted).
THEOREM OrphansAreRetracted == PipelineSpec => []OrphansRetracted
  <1>1. PipelineInit => OrphanInv
    <2> SUFFICES ASSUME PipelineInit PROVE OrphanInv
      OBVIOUS
    <2>1. job["fast"] = Idle
      BY PipelineAssumption DEF PipelineInit
    <2>2. FastInView
      BY <2>1 DEF FastInView, Idle
    <2>. QED BY <2>2 DEF PipelineInit, OrphanInv, FiringInView
  <1>2. OrphanInv /\ BaseInv /\ [PipelineNext]_pipeVars => OrphanInv'
    BY StepEffects, EffectOrphan DEF BaseInv, OrphanInv
  <1>3. OrphanInv => OrphansRetracted
    BY DEF OrphanInv, FiringInView, ByFastAlone, OrphansRetracted, TrackerFree
  <1>. QED BY <1>1, <1>2, <1>3, PipelineBase, PTL DEF PipelineSpec

------------------------------------------------------------------------------
(* Completeness, whatever goes wrong.                                      *)

\* A log of a block that was handed over is recorded or given up, or its block is
\* still to be fetched, or it is among the matches to handle.
Watches(f, l) == Asked(f, LogAddr[l]) /\ Decodes(Specs, LogAddr[l])

Accounted(f, l) ==
    \/ MatchOf(l) \in alerts \cup lost[f]
    \/ LogBlock[l] \in job[f].todo
    \/ MatchOf(l) \in job[f].queue

MatchInv ==
    \A f \in Fetcher, l \in Log :
        Watches(f, l) /\ LogBlock[l] \in given[f] => Accounted(f, l)

\* What is given up stays given up.
LEMMA LostGrows ==
    ASSUME TypeInv, Effect
    PROVE  \A f \in Fetcher : lost[f] \subseteq lost'[f]
  <1>1. lost \in [Fetcher -> SUBSET Alert]
    BY DEF TypeInv, Types
  <1>2. ASSUME NEW f \in Fetcher, FetcherStep(f) PROVE \A g \in Fetcher : lost[g] \subseteq lost'[g]
    BY <1>1, <1>2
       DEF FetcherStep, Batched, Fetched, Looked, Dropped, Inserted, Tried, GivesUp
  <1>3. CASE Restart
    BY <1>3 DEF Restart
  <1>. QED BY <1>2, <1>3 DEF Effect, OnReverted, SendReverted, pipeVars

LEMMA EffectAccounted ==
    ASSUME BaseInv, MatchInv, Effect, NEW g \in Fetcher, NEW l \in Log, Watches(g, l),
           LogBlock[l] \in given'[g]
    PROVE  Accounted(g, l)'
  <1> DEFINE a == MatchOf(l)
  <1>1. TypeInv /\ job \in [Fetcher -> JobType] /\ given \in [Fetcher -> SUBSET Block]
        /\ lost \in [Fetcher -> SUBSET Alert]
    BY DEF BaseInv, TypeInv, Types
  <1>2. LogBlock[l] \in given[g] => Accounted(g, l)
    BY DEF MatchInv
  <1>3. alerts \subseteq alerts' /\ lost[g] \subseteq lost'[g]
    BY <1>1, TablesGrow, LostGrows
  <1>4. a' = a
    BY DEF MatchOf
  <1>. HIDE DEF a
  <1>5. ASSUME job'[g] = job[g], given'[g] = given[g] PROVE Accounted(g, l)'
    <2>1. Accounted(g, l)
      BY <1>2, <1>5
    <2>. QED BY <1>3, <1>4, <1>5, <2>1 DEF Accounted, a
  <1>6. ASSUME NEW R \in SUBSET Block, LogBlock[l] \in R PROVE a \in Matches(g, R, R)
    BY <1>6, MatchesAreAlerts DEF Watches, a, MatchOf
  <1>7. ASSUME NEW f \in Fetcher, FetcherStep(f) PROVE Accounted(g, l)'
    <2> DEFINE J == job[f]
               h == First(J.queue)
    <2>1. CASE f # g
      <3>1. job'[g] = job[g]
        BY <1>1, <1>7, <2>1, FetcherLeavesOthers
      <3>2. given'[g] = given[g]
        BY <1>1, <1>7, <2>1
           DEF FetcherStep, Batched, Fetched, Looked, Dropped, Inserted, Tried
      <3>. QED BY <1>5, <3>1, <3>2
    <2>2. CASE f = g
      <3>1. ASSUME NEW S, Batched(f, S) PROVE Accounted(g, l)'
        <4>1. job'[f].todo = S /\ given'[f] = given[f] \cup S
          BY <1>1, <3>1, PutsOne DEF Batched
        <4>2. CASE LogBlock[l] \in S
          BY <2>2, <4>1, <4>2 DEF Accounted
        <4>3. CASE LogBlock[l] \in given[g]
          <5>1. J.todo = {} /\ J.queue = {}
            BY <3>1 DEF Batched, Idle
          <5>2. a \in alerts \cup lost[g]
            BY <1>2, <2>2, <4>3, <5>1 DEF Accounted, a
          <5>. QED BY <1>3, <1>4, <5>2 DEF Accounted, a
        <4>. QED BY <2>2, <4>1, <4>2, <4>3
      <3>2. ASSUME given' = given PROVE Accounted(g, l)
        BY <1>2, <3>2
      <3>3. ASSUME NEW Q, Fetched(f, Q) PROVE Accounted(g, l)'
        <4> DEFINE R == Range(J.todo)
        <4>1. job'[f].todo = J.todo \ R /\ job'[f].queue = Q /\ J.queue = {}
          BY <1>1, <3>3, PutsOne DEF Fetched, Rest
        <4>2. lost'[f] = lost[f] \cup (Matches(f, R, R) \ Q)
          BY <1>1, <3>3 DEF Fetched, GivesUp
        <4>3. CASE LogBlock[l] \in R
          <5>1. R \in SUBSET Block
            BY <1>1 DEF JobType, Range
          <5>. HIDE DEF R
          <5>2. a \in Matches(f, R, R)
            BY <1>6, <2>2, <4>3, <5>1
          <5>. QED BY <1>4, <2>2, <4>1, <4>2, <5>2 DEF Accounted, a
        <4>4. CASE LogBlock[l] \notin R
          <5>1. Accounted(g, l)
            BY <3>2, <3>3 DEF Fetched
          <5>2. a \in alerts \cup lost[g] \/ LogBlock[l] \in J.todo
            BY <2>2, <4>1, <5>1 DEF Accounted, a
          <5>. QED BY <1>3, <1>4, <2>2, <4>1, <4>4, <5>2 DEF Accounted, a
        <4>. QED BY <4>3, <4>4
      <3>4. ASSUME NEW p, NEW o, Puts(f, J.todo, J.queue, p, o), given' = given
            PROVE  Accounted(g, l)'
        <4>1. job'[f].todo = J.todo /\ job'[f].queue = J.queue
          BY <1>1, <3>4, PutsOne
        <4>2. Accounted(g, l)
          BY <3>2, <3>4
        <4>. QED BY <1>3, <1>4, <2>2, <4>1, <4>2 DEF Accounted, a
      <3>5. ASSUME Puts(f, J.todo, J.queue \ {h}, "next", {}), given' = given,
                   h \in alerts' \cup lost'[g]
            PROVE  Accounted(g, l)'
        <4>1. job'[f].todo = J.todo /\ job'[f].queue = J.queue \ {h}
          BY <1>1, <3>5, PutsOne
        <4>2. Accounted(g, l)
          BY <3>2, <3>5
        <4>. HIDE DEF h
        <4>. QED BY <1>3, <1>4, <2>2, <3>5, <4>1, <4>2 DEF Accounted, a
      <3>6. ASSUME Looked(f) \/ Inserted(f) PROVE Accounted(g, l)'
        BY <3>4, <3>6 DEF Looked, Inserted
      <3>7. ASSUME Dropped(f) PROVE Accounted(g, l)'
        <4>1. h \in alerts' \cup lost'[g]
          BY <1>1, <1>3, <2>2, <3>7 DEF Dropped, GivesUp
        <4>. QED BY <3>5, <3>7, <4>1 DEF Dropped
      <3>8. ASSUME NEW r \in Receiver, Tried(f, r) PROVE Accounted(g, l)'
        <4>1. h \in alerts' \cup lost'[g]
          BY <3>8 DEF Tried, BaseInv, Working
        <4>. QED BY <3>4, <3>5, <3>8, <4>1 DEF Tried
      <3>. QED BY <1>7, <3>1, <3>3, <3>6, <3>7, <3>8 DEF FetcherStep
    <2>. QED BY <2>1, <2>2
  <1>8. CASE Restart
    <2> DEFINE T == job[g].todo
    <2>1. lost'[g] = lost[g] \cup job[g].queue \cup Matches(g, T, T) /\ given' = given
      BY <1>8 DEF Restart
    <2>2. T \in SUBSET Block
      BY <1>1 DEF JobType
    <2>3. Accounted(g, l)
      BY <1>2, <2>1
    <2>4. LogBlock[l] \in T => a \in Matches(g, T, T)
      BY <1>6, <2>2
    <2>5. a \in alerts' \cup lost'[g]
      BY <1>3, <2>1, <2>3, <2>4 DEF Accounted, a
    <2>. QED BY <1>4, <2>5 DEF Accounted, a
  <1>. QED BY <1>5, <1>7, <1>8 DEF Effect, OnReverted, SendReverted, pipeVars

\* For every configuration and every BatchSize, however the batch has gaps, the
\* fetchers interleave, calls fail and the process dies, a fetcher that is done with
\* its batch has recorded every log of it that it asked for and a monitor watches, or
\* gave it up at one of the four places the code gives up (logs.go, fetchRange;
\* manager.go, Handle).
THEOREM MatchesAreRecorded == PipelineSpec => []EveryMatchRecorded
  <1>1. PipelineInit => MatchInv
    BY DEF PipelineInit, MatchInv
  <1>2. MatchInv /\ BaseInv /\ [PipelineNext]_pipeVars => MatchInv'
    <2> SUFFICES ASSUME MatchInv, BaseInv, [PipelineNext]_pipeVars PROVE MatchInv'
      OBVIOUS
    <2>1. Effect
      BY StepEffects DEF BaseInv
    <2>. QED BY <2>1, EffectAccounted DEF MatchInv, Watches
  <1>3. MatchInv => EveryMatchRecorded
    <2> SUFFICES ASSUME MatchInv, NEW f \in Fetcher, NEW l \in Log,
                        Watches(f, l), job[f] = Idle, LogBlock[l] \in given[f]
                 PROVE  MatchOf(l) \in alerts \cup lost[f]
      BY DEF EveryMatchRecorded, Watches
    <2>1. Accounted(f, l)
      BY DEF MatchInv
    <2>. QED BY <2>1 DEF Accounted, Idle
  <1>. QED BY <1>1, <1>2, <1>3, PipelineBase, PTL DEF PipelineSpec
==============================================================================
