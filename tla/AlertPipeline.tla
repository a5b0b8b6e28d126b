---------------------------- MODULE AlertPipeline ----------------------------
(***************************************************************************)
(* From blocks to notifications, for one chain: the log fetchers, onLog    *)
(* (decode, evaluate, alerts.Manager.Handle, Router.Send), the alerts      *)
(* table, and OnReverted.                                                  *)
(*                                                                         *)
(* Each fetcher works in the goroutine that feeds it: "fast" in the one of *)
(* the tracker, which also calls OnReverted, "safe" and "finalized" in     *)
(* their own.  What they share is the alerts table.  The tracker keeps the *)
(* promise of ChainFeed until the process dies for the first time; then it *)
(* may deliver and revert any block, one whose row was not stored even a   *)
(* second time.  A confirmation loop hands over rows of the blocks table,  *)
(* which may be of blocks that were orphaned, or that the fast fetcher is  *)
(* still to be handed: any blocks, one per number.                         *)
(*                                                                         *)
(* A log here is one that some rule of its monitor matches, with the place *)
(* of the log in the block: the other logs leave no trace.                 *)
(***************************************************************************)
EXTENDS ChainFeed, Wiring

CONSTANTS
    Monitors,       \* the monitors of the configuration, one chain's
    ChainID,        \* that chain
    Fetcher,        \* the goroutines that run, "fast" among them
    Log,            \* log indexes
    LogBlock,       \* the block a log is in
    LogAddr,        \* the contract it is from
    Receiver,       \* the receivers of every rule
    BatchSize,      \* LogFetcher.BatchSize
    MaxFaults       \* bound: how often a call fails or is answered wrongly, or the
                    \* process dies

ASSUME PipelineAssumption ==
    /\ BatchSize \in Nat \ {0}
    /\ Log \subseteq Nat
    /\ LogBlock \in [Log -> Block]
    /\ Monitors \in Seq(Elements(Monitors))
    /\ "fast" \in Fetcher
    /\ Receiver # {}
    /\ MaxFaults \in Nat

VARIABLES
    job,        \* per fetcher: blocks to fetch, matches to handle, where it is
    alerts,     \* the alerts table
    toRetract,  \* the <<alert, receiver>> pairs OnReverted is still to send
    fired,      \* history: how often a fetcher sent an alert to a receiver, up to 2
    raced,      \* history: alerts whose insert found the row that the check had missed
    told,       \* history: the last notice of an alert that a receiver got
    given,      \* history: the blocks handed to each fetcher
    lost,       \* history: the matches each fetcher gave up
    faults, crashes

pipeVars == <<view, job, alerts, toRetract, fired, raced, told, given, lost, faults, crashes>>

Specs == MonitorSpecs(Monitors, ChainID)

\* An alert is its fingerprint: monitor, block and place of the log.
Alert   == [mon : {m.id : m \in Elements(Specs)}, block : Block, log : Log]
Notice  == Alert \X Receiver
Idle    == [todo |-> {}, queue |-> {}, at |-> "next", to |-> {}]

\* The locals of the goroutines and the alerts table have their types, and a
\* goroutine has a match in hand, and receivers left, exactly while it needs them.
PipelineTypeOK ==
    /\ view \subseteq Block
    /\ job \in [Fetcher -> [todo : SUBSET Block, queue : SUBSET Alert,
                            at : {"next", "record", "send"}, to : SUBSET Receiver]]
    /\ \A f \in Fetcher : /\ job[f].at = "send" <=> job[f].to # {}
                          /\ job[f].at # "next" => job[f].queue # {}
    /\ alerts \subseteq Alert
    /\ toRetract \subseteq Notice
    /\ faults \in 0..MaxFaults /\ crashes \in Nat

PipelineInit ==
    /\ FeedInit
    /\ job = [f \in Fetcher |-> Idle]
    /\ alerts = {}
    /\ toRetract = {}
    /\ fired = [f \in Fetcher |-> [x \in Notice |-> 0]]
    /\ raced = {}
    /\ told = [x \in Notice |-> "nothing"]
    /\ given = [f \in Fetcher |-> {}]
    /\ lost = [f \in Fetcher |-> {}]
    /\ faults = 0 /\ crashes = 0

Fault == faults < MaxFaults /\ faults' = faults + 1

------------------------------------------------------------------------------
(* LogFetcher.                                                             *)

\* The tracker's callback returns before the tracker goes on.
TrackerFree == job["fast"] = Idle /\ toRetract = {}

OnePerNumber(S) == \A b, c \in S : Num[b] = Num[c] => b = c

\* What the tracker promises of a batch.
Delivers(S) == IF crashes = 0 THEN Deliver(S) ELSE view' = view \cup S

OnCanonicalBatch(f, S) ==
    /\ job[f] = Idle
    /\ S # {} /\ OnePerNumber(S)
    /\ IF f = "fast" THEN TrackerFree /\ Delivers(S) ELSE UNCHANGED view
    /\ job' = [job EXCEPT ![f].todo = S]
    /\ given' = [given EXCEPT ![f] = @ \cup S]
    /\ UNCHANGED <<alerts, toRetract, fired, raced, told, lost, faults, crashes>>

\* The lowest blocks without a gap, at most BatchSize of them.
Range(S) ==
    LET low == CHOOSE n \in Heights : \E b \in S : Num[b] = n /\ \A c \in S : n <= Num[c]
    IN  {b \in S : /\ Num[b] < low + BatchSize
                   /\ \A n \in low..Num[b] : \E c \in S : Num[c] = n}

\* Mutant: the loop steps over the number after a range.
RestAfterNext(S) ==
    S \ {b \in S : \E r \in Range(S) : Num[b] <= Num[r] + 1}

Rest(S) == S \ Range(S)

\* eth_getLogs without an address means every address.
Asked(f, a) ==
    LET addrs == MonitorAddressesByConfirmation(Monitors, ChainID, f)
    IN  addrs = {} \/ a \in addrs

\* What an endpoint answers from: the blocks asked about, or others of their
\* numbers on one branch.
Branches(R) ==
    {S \in SUBSET Block : {Num[b] : b \in S} = {Num[b] : b \in R} /\ OneChain(S)}

\* A log is filed under the block of the batch that has its number; Decode
\* finds its monitor by address.
Matches(f, R, S) ==
    {a \in [mon : {m.id : m \in Elements(Specs)}, block : R, log : Log] :
        /\ LogBlock[a.log] \in S
        /\ Num[LogBlock[a.log]] = Num[a.block]
        /\ Asked(f, LogAddr[a.log])
        /\ Decodes(Specs, LogAddr[a.log])
        /\ a.mon = MonitorOf(Specs, LogAddr[a.log]).id}

\* A fetcher gives up the matches M.
Loses(f, M) == lost' = [lost EXCEPT ![f] = @ \cup M]

Fetches(f) == job[f].todo # {} /\ job[f].queue = {}

FilterLogs(f) ==
    /\ Fetches(f)
    /\ LET R == Range(job[f].todo)
       IN  \E S \in Branches(R) :
             /\ job' = [job EXCEPT ![f].todo = Rest(job[f].todo), ![f].queue = Matches(f, R, S)]
             /\ Loses(f, Matches(f, R, R) \ Matches(f, R, S))
             /\ IF S = R THEN UNCHANGED faults ELSE Fault
    /\ UNCHANGED <<view, alerts, toRetract, fired, raced, told, given, crashes>>

\* The range is logged and left behind.
FilterLogsFails(f) ==
    /\ Fetches(f)
    /\ Fault
    /\ job' = [job EXCEPT ![f].todo = Rest(job[f].todo)]
    /\ Loses(f, Matches(f, Range(job[f].todo), Range(job[f].todo)))
    /\ UNCHANGED <<view, alerts, toRetract, fired, raced, told, given, crashes>>

------------------------------------------------------------------------------
(* onLog: Handle and Send, one match after the other.                      *)

First(Q) ==
    CHOOSE a \in Q : \A c \in Q : \/ Num[a.block] < Num[c.block]
                                  \/ Num[a.block] = Num[c.block] /\ a.log <= c.log

\* The match is done with: the next one, or the next range.
Done(f) ==
    LET Q == job[f].queue
    IN  job' = [job EXCEPT ![f].queue = Q \ {First(Q)}, ![f].at = "next", ![f].to = {}]

Handles(f) == job[f].queue # {} /\ job[f].at = "next"

\* Mutant: the table is not asked.
IsDuplicateNever(f) ==
    /\ Handles(f)
    /\ job' = [job EXCEPT ![f].at = "record"]
    /\ UNCHANGED <<view, alerts, toRetract, fired, raced, told, given, lost, faults, crashes>>

\* The table has the fingerprint.
Recorded(a) == a \in alerts

IsDuplicate(f) ==
    /\ Handles(f)
    /\ IF Recorded(First(job[f].queue))
       THEN Done(f)
       ELSE job' = [job EXCEPT ![f].at = "record"]
    /\ UNCHANGED <<view, alerts, toRetract, fired, raced, told, given, lost, faults, crashes>>

\* Mutant: the alert is sent first and recorded by nobody.
RecordAlertLater(f) ==
    /\ job[f].at = "record"
    /\ job' = [job EXCEPT ![f].at = "send", ![f].to = Receiver]
    /\ UNCHANGED <<view, alerts, toRetract, fired, raced, told, given, lost, faults, crashes>>

\* ON CONFLICT DO NOTHING: a row that is there does not stop the caller.
Insert(a) == alerts' = alerts \cup {a}

RecordAlert(f) ==
    /\ job[f].at = "record"
    /\ Insert(First(job[f].queue))
    /\ raced' = raced \cup ({First(job[f].queue)} \cap alerts)
    /\ job' = [job EXCEPT ![f].at = "send", ![f].to = Receiver]
    /\ UNCHANGED <<view, toRetract, fired, told, given, lost, faults, crashes>>

\* Handle returns an error of the store: the match is dropped.
HandleFails(f) ==
    /\ Handles(f) \/ job[f].at = "record"
    /\ Fault
    /\ Done(f)
    /\ Loses(f, {First(job[f].queue)})
    /\ UNCHANGED <<view, alerts, toRetract, fired, raced, told, given, crashes>>

\* Mutant: the goroutine waits for more receivers after the last one.
SentWaiting(f, r) == job' = [job EXCEPT ![f].to = job[f].to \ {r}]

Sent(f, r) ==
    IF job[f].to = {r} THEN Done(f) ELSE job' = [job EXCEPT ![f].to = job[f].to \ {r}]

Send(f, r) ==
    /\ r \in job[f].to
    /\ LET x == <<First(job[f].queue), r>>
       IN  /\ fired' = [fired EXCEPT ![f][x] = IF @ = 2 THEN 2 ELSE @ + 1]
           /\ told' = [told EXCEPT ![x] = "firing"]
    /\ Sent(f, r)
    /\ UNCHANGED <<view, alerts, toRetract, raced, given, lost, faults, crashes>>

\* A receiver that cannot be reached does not keep the others from being tried; nor
\* does one whose throttle drops the notice, which looks like a success.
SendFails(f, r) ==
    /\ r \in job[f].to
    /\ Fault
    /\ Sent(f, r)
    /\ UNCHANGED <<view, alerts, toRetract, fired, raced, told, given, lost, crashes>>

------------------------------------------------------------------------------
(* OnReverted.                                                             *)

\* Mutant: rows of the number are found by the block above.
LoadAlertsAboveBlock(b) == {a \in alerts : Num[a.block] = Num[b] + 1}

\* The firing alerts of exactly this block.
LoadAlertsAtBlock(b) == {a \in alerts : a.block = b}

Reverts(b) == IF crashes = 0 THEN Revert(b) ELSE view' = view \ {b}

OnReverted(b) ==
    /\ TrackerFree
    /\ Reverts(b)
    /\ \/ /\ toRetract' = LoadAlertsAtBlock(b) \X Receiver
          /\ UNCHANGED faults
       \/ /\ Fault
          /\ UNCHANGED toRetract
    /\ UNCHANGED <<job, alerts, fired, raced, told, given, lost, crashes>>

SendReverted(x) ==
    /\ x \in toRetract
    /\ toRetract' = toRetract \ {x}
    /\ \/ told' = [told EXCEPT ![x] = "reverted"] /\ UNCHANGED faults
       \/ Fault /\ UNCHANGED told
    /\ UNCHANGED <<view, job, alerts, fired, raced, given, lost, crashes>>

\* The process dies and starts again: only the tables are left.
Restart ==
    /\ Fault
    /\ crashes' = crashes + 1
    /\ job' = [f \in Fetcher |-> Idle]
    /\ toRetract' = {}
    /\ lost' = [f \in Fetcher |-> lost[f] \cup job[f].queue
                                         \cup Matches(f, job[f].todo, job[f].todo)]
    /\ UNCHANGED <<view, alerts, fired, raced, told, given>>

PipelineNext ==
    \/ \E f \in Fetcher :
         \/ \E S \in SUBSET Block : OnCanonicalBatch(f, S)
         \/ FilterLogs(f) \/ FilterLogsFails(f)
         \/ IsDuplicate(f) \/ RecordAlert(f) \/ HandleFails(f)
         \/ \E r \in Receiver : Send(f, r) \/ SendFails(f, r)
    \/ \E b \in Block : OnReverted(b)
    \/ \E x \in Notice : SendReverted(x)
    \/ Restart

PipelineSpec == PipelineInit /\ [][PipelineNext]_pipeVars

------------------------------------------------------------------------------
(* Properties.                                                             *)

\* An alert is sent to a receiver at most once, although its block comes back
\* after a reorganisation or the process starts again (manager_test.go: "second
\* identical match should be deduped").  IsDuplicate and RecordAlert are two calls,
\* so two fetchers that are asked about the same contract may both send it, but only
\* if one looked before the other inserted, and each of them once.
FiresOnce ==
    /\ \A f \in Fetcher, x \in Notice : fired[f][x] <= 1
    /\ \A f, g \in Fetcher, x \in Notice :
         f # g /\ fired[f][x] > 0 /\ fired[g][x] > 0 => x[1] \in raced
    /\ \A a \in raced : \E f, g \in Fetcher :
         f # g /\ Asked(f, LogAddr[a.log]) /\ Asked(g, LogAddr[a.log])

\* Whatever was sent has its row, whenever the process dies, so that a revert
\* finds it and a repetition is recognised.
SentWasRecorded == \A f \in Fetcher, x \in Notice : fired[f][x] > 0 => x[1] \in alerts

\* No call failed, no endpoint was on another branch, the process did not die.
Undisturbed == faults = 0

\* When the tracker's goroutine is between two callbacks, an alert that only its
\* fetcher sent and that stands as firing is for a block that was not reverted, as
\* long as nothing failed (a notice that is not sent is not sent again), although
\* another fetcher may have recorded it meanwhile.
OrphansRetracted ==
    TrackerFree /\ Undisturbed => \A x \in Notice :
        /\ told[x] = "firing"
        /\ \A f \in Fetcher \ {"fast"} : fired[f][x] = 0
        => x[1].block \in view

\* What a log of the contract of a monitor amounts to.
MatchOf(l) == [mon |-> MonitorOf(Specs, LogAddr[l]).id, block |-> LogBlock[l], log |-> l]

\* Once a fetcher is done with its batch, every log of it that it asked for and that
\* a monitor watches is recorded as an alert of that monitor, however the batch was
\* cut into ranges, the fetchers interleave and the process dies.  What is missing
\* was given up at one of four places and nowhere else: in a range whose call
\* failed, in an answer from another branch, at an error of the store, or in the
\* hands of a fetcher when the process died.
EveryMatchRecorded ==
    \A f \in Fetcher, l \in Log :
        /\ job[f] = Idle
        /\ LogBlock[l] \in given[f]
        /\ Asked(f, LogAddr[l])
        /\ Decodes(Specs, LogAddr[l])
        => MatchOf(l) \in alerts \cup lost[f]

\* An alert of a monitor is raised only for a block that has reached the level
\* the monitor asks for (README.md: "per confirmation policy").
FiresAtItsConfirmation ==
    \A a \in alerts : \A m \in Elements(Specs) :
        m.id = a.mon => a.block \in given[Confirmation(m)]
==============================================================================
