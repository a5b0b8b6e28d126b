------------------------------- MODULE Service -------------------------------
(***************************************************************************)
(* The process as a whole: config.Load and Validate, the start in main,    *)
(* the evaluators it makes for each chain, SIGHUP and reloadRules, and the *)
(* end.  The operator edits the file and sends signals at any time; a      *)
(* SIGHUP that finds no handler yet ends the process.                      *)
(*                                                                         *)
(* A configuration is a record [chains, receivers, monitors]; a chain is   *)
(* [id, num, urls], a receiver [id, type], a monitor as in Wiring.         *)
(***************************************************************************)
EXTENDS Wiring, FiniteSets

CONSTANTS
    Files,      \* the contents the file may be given
    Unreadable, \* no file, or one that does not decode
    MaxEdits,   \* bound: how often the file is edited
    MaxStarts   \* bound: how often the process is started

ASSUME ServiceAssumption == {MaxEdits, MaxStarts} \subseteq Nat

VARIABLES
    file,       \* what is in the configuration file
    phase,      \* "down", "starting" (no SIGHUP handler yet), "running"
    cfg,        \* the configuration the process started with
    router,     \* the receivers of the router
    evaluators, \* the rules in use, for each chain that runs
    hupCh,      \* the number of signals in the channel, which has room for one
    reload,     \* the reload under way: Idle, reading the file, or storing
    edits, starts,
    asked,      \* history: a SIGHUP arrived since the last edit and start
    reloaded,   \* history: rules were replaced since the start
    dialed      \* history: the chains whose endpoints answered at the start

serviceVars ==
    <<file, phase, cfg, router, evaluators, hupCh, reload, edits, starts, asked, reloaded, dialed>>

Idle  == [at |-> "idle"]
Types == {"log", "slack", "telegram", "discord", "pagerduty", "webhook", "generic"}

------------------------------------------------------------------------------
(* config.Validate, and what main.go makes of a valid configuration.       *)

Distinct(s) == \A i, j \in DOMAIN s : s[i].id = s[j].id => i = j

Named(s) == \A i \in DOMAIN s : s[i].id # ""

IDs(s) == {s[i].id : i \in DOMAIN s}

ValidChains(chains) ==
    /\ chains # <<>>
    /\ Named(chains) /\ Distinct(chains)
    /\ \A ch \in Elements(chains) : ch.num > 0 /\ ch.urls \subseteq {"http", "https", "ws", "wss"}

ValidMonitor(m, c) ==
    /\ m.chain \in IDs(c.chains)
    /\ m.addr # "malformed"
    /\ m.conf \in {"", "fast", "safe", "finalized"}
    /\ \A r \in Elements(m.rules) : r.to \subseteq IDs(c.receivers)

\* Mutant: the receivers of the rules are not looked up.
ValidateNoReceivers(c) ==
    /\ ValidChains(c.chains)
    /\ Named(c.receivers)
    /\ Named(c.monitors) /\ Distinct(c.monitors)
    /\ \A m \in Elements(c.monitors) : ValidMonitor([m EXCEPT !.rules = <<>>], c)

Validate(c) ==
    /\ ValidChains(c.chains)
    /\ Named(c.receivers)
    /\ Named(c.monitors) /\ Distinct(c.monitors)
    /\ \A m \in Elements(c.monitors) : ValidMonitor(m, c)

Loads(c) == IF c = Unreadable THEN FALSE ELSE Validate(c)

MonitorRules(c, ch) ==
    {[mon |-> m.id, rules |-> m.rules] : m \in OnChain(c.monitors, ch)}

\* Every rule compiles, or there is no evaluator.
Compiles(mrs) == \A mr \in mrs : \A r \in Elements(mr.rules) : r.ok

BuildRouter(c) == \A r \in Elements(c.receivers) : r.type \in Types

\* Mutant: only the first chain's rules are compiled.
CheckConfigFirst(c) ==
    Loads(c) /\ BuildRouter(c) /\ Compiles(MonitorRules(c, c.chains[1].id))

\* opsentry -check.
CheckConfig(c) ==
    /\ Loads(c)
    /\ BuildRouter(c)
    /\ \A ch \in IDs(c.chains) : Compiles(MonitorRules(c, ch))

------------------------------------------------------------------------------

ServiceInit ==
    /\ file \in Files
    /\ phase = "down"
    /\ cfg = Unreadable
    /\ router = {}
    /\ evaluators = <<>>
    /\ hupCh = 0
    /\ reload = Idle
    /\ edits = 0 /\ starts = 0
    /\ asked = FALSE /\ reloaded = FALSE
    /\ dialed = {}

Edit(c) ==
    /\ edits < MaxEdits
    /\ edits' = edits + 1
    /\ file' = c
    /\ asked' = FALSE
    /\ UNCHANGED <<phase, cfg, router, evaluators, hupCh, reload, starts, reloaded, dialed>>

\* The chains that get a tracker: with endpoints, of which one answers, and
\* rules that compile.
Runs(c, up) ==
    {ch.id : ch \in {x \in Elements(c.chains) :
                       x.urls # {} /\ x.id \in up /\ Compiles(MonitorRules(c, x.id))}}

\* main, up to signal.Notify; up are the chains rpc.Dial succeeds for.
Start(up) ==
    /\ phase = "down"
    /\ starts < MaxStarts
    /\ Loads(file) /\ BuildRouter(file)
    /\ phase' = "starting"
    /\ starts' = starts + 1
    /\ cfg' = file
    /\ router' = IDs(file.receivers)
    /\ evaluators' = [ch \in Runs(file, up) |-> MonitorRules(file, ch)]
    /\ reloaded' = FALSE
    /\ dialed' = up
    /\ UNCHANGED <<file, hupCh, reload, edits, asked>>

Ready ==
    /\ phase = "starting"
    /\ phase' = "running"
    /\ UNCHANGED <<file, cfg, router, evaluators, hupCh, reload, edits, starts, asked, reloaded, dialed>>

\* log.Fatalf, SIGTERM or a crash: nothing of this is kept.
Down ==
    /\ phase' = "down"
    /\ hupCh' = 0
    /\ reload' = Idle
    /\ evaluators' = <<>>
    /\ asked' = FALSE
    /\ UNCHANGED <<file, cfg, router, edits, starts, reloaded, dialed>>

Stop == phase # "down" /\ Down

HupTooEarly == phase = "starting" /\ Down

\* Mutant: a channel without room, so a signal is kept only by a waiting reader.
HupUnbuffered ==
    /\ phase = "running"
    /\ hupCh' = IF reload = Idle THEN 1 ELSE hupCh
    /\ asked' = TRUE
    /\ UNCHANGED <<file, phase, cfg, router, evaluators, reload, edits, starts, reloaded, dialed>>

\* signal.Notify does not wait: a signal that finds the channel full is lost.
Hup ==
    /\ phase = "running"
    /\ hupCh' = 1
    /\ asked' = TRUE
    /\ UNCHANGED <<file, phase, cfg, router, evaluators, reload, edits, starts, reloaded, dialed>>

TakeHup ==
    /\ phase = "running"
    /\ hupCh = 1 /\ reload = Idle
    /\ hupCh' = 0
    /\ reload' = [at |-> "load"]
    /\ UNCHANGED <<file, phase, cfg, router, evaluators, edits, starts, asked, reloaded, dialed>>

\* reloadRules: a file that cannot be loaded changes nothing.
LoadFile ==
    /\ reload.at = "load"
    /\ reload' = IF Loads(file) THEN [at |-> "store", new |-> file, left |-> DOMAIN evaluators]
                                ELSE Idle
    /\ UNCHANGED <<file, phase, cfg, router, evaluators, hupCh, edits, starts, asked, reloaded, dialed>>

\* One chain after the other, in no order; one whose rules do not compile keeps
\* what it has.
StoreRules(ch) ==
    /\ reload.at = "store"
    /\ ch \in reload.left
    /\ LET new == MonitorRules(reload.new, ch)
       IN  IF Compiles(new)
           THEN evaluators' = [evaluators EXCEPT ![ch] = new] /\ reloaded' = TRUE
           ELSE UNCHANGED <<evaluators, reloaded>>
    /\ reload' = [reload EXCEPT !.left = @ \ {ch}]
    /\ UNCHANGED <<file, phase, cfg, router, hupCh, edits, starts, asked, dialed>>

Reloaded ==
    /\ reload.at = "store" /\ reload.left = {}
    /\ reload' = Idle
    /\ UNCHANGED <<file, phase, cfg, router, evaluators, hupCh, edits, starts, asked, reloaded, dialed>>

HupLoop == TakeHup \/ LoadFile \/ Reloaded \/ \E ch \in DOMAIN evaluators : StoreRules(ch)

AllChains == UNION {IDs(c.chains) : c \in Files}

ServiceNext ==
    \/ \E c \in Files \cup {Unreadable} : Edit(c)
    \/ \E up \in SUBSET AllChains : Start(up)
    \/ Ready \/ Stop \/ HupTooEarly \/ Hup \/ HupLoop

\* The goroutine that waits for SIGHUP runs when it can.
ServiceSpec == ServiceInit /\ [][ServiceNext]_serviceVars /\ WF_serviceVars(HupLoop)

------------------------------------------------------------------------------

\* A file that opsentry -check accepts loses no chain to its rules: every chain
\* with endpoints that answered at the start runs, and goes on running through
\* reloads of other files.
CheckedConfigRuns ==
    phase # "down" /\ CheckConfig(cfg) =>
        DOMAIN evaluators = {ch.id : ch \in {x \in Elements(cfg.chains) :
                                               x.urls # {} /\ x.id \in dialed}}

Routable ==
    \A ch \in DOMAIN evaluators : \A mr \in evaluators[ch] :
        \A r \in Elements(mr.rules) : r.to \subseteq router

\* Until the first reload every receiver a rule names has a notifier.
RoutableAtFirst == phase # "down" /\ ~reloaded => Routable

\* Each chain uses the rules of the file, unless they do not compile.
RulesOfFile ==
    Loads(file) /\ \A ch \in DOMAIN evaluators :
        Compiles(MonitorRules(file, ch)) => evaluators[ch] = MonitorRules(file, ch)

\* A SIGHUP sent after the last edit is enough, although the channel holds one
\* signal only and a reload may be under way: if the file loads, is not edited
\* again and the process lives on, its rules are in use in the end.
LastEditTakesEffect ==
    (asked /\ Loads(file)) ~> (RulesOfFile \/ ~asked)
==============================================================================
