---------------------------- MODULE StartupProofs ----------------------------
(***************************************************************************)
(* Theorems about what main does before the trackers run and at a SIGHUP:  *)
(* the configuration and its rules (Service), and the ABIs of the monitors *)
(* (AbiLoader).  They hold for every set of files the operator may write,  *)
(* every number of edits, starts and upgrades, and every choice of calls   *)
(* that fail.                                                              *)
(***************************************************************************)
EXTENDS Service, AbiLoader, TLAPS

\* The inductive invariant of a process that is up: its configuration passed
\* config.Load, its chains are those that could be set up from it, whatever was
\* reloaded since, and until the first reload their rules are those of that
\* configuration.
UpInv ==
    phase # "down" =>
        /\ Loads(cfg)
        /\ router = IDs(cfg.receivers)
        /\ DOMAIN evaluators = Runs(cfg, dialed)
        /\ ~reloaded => \A ch \in DOMAIN evaluators : evaluators[ch] = MonitorRules(cfg, ch)

\* Only main sets the chains up; a reload replaces the rules of chains that run.
LEMMA UpInvStep == UpInv /\ [ServiceNext]_serviceVars => UpInv'
  <1> SUFFICES ASSUME UpInv, [ServiceNext]_serviceVars PROVE UpInv'
    OBVIOUS
  <1>1. ASSUME UNCHANGED <<cfg, router, evaluators, dialed, reloaded>>, phase' # "down" => phase # "down"
        PROVE  UpInv'
    BY <1>1 DEF UpInv
  <1>2. ASSUME NEW up \in SUBSET AllChains, Start(up) PROVE UpInv'
    <2>1. /\ Loads(file) /\ cfg' = file /\ router' = IDs(file.receivers) /\ dialed' = up
          /\ evaluators' = [ch \in Runs(file, up) |-> MonitorRules(file, ch)]
      BY <1>2 DEF Start
    <2>. QED BY <2>1 DEF UpInv
  <1>3. ASSUME NEW ch \in DOMAIN evaluators, StoreRules(ch) PROVE UpInv'
    <2>1. UNCHANGED <<phase, cfg, router, dialed>>
      BY <1>3 DEF StoreRules
    <2>2. CASE UNCHANGED <<evaluators, reloaded>>
      BY <1>1, <2>1, <2>2
    <2>3. CASE evaluators' = [evaluators EXCEPT ![ch] = MonitorRules(reload.new, ch)] /\ reloaded'
      BY <2>1, <2>3 DEF UpInv
    <2>. QED BY <1>3, <2>2, <2>3 DEF StoreRules
  <1>4. CASE Stop \/ HupTooEarly
    BY <1>4 DEF Stop, HupTooEarly, Down, UpInv
  <1>5. CASE Ready \/ Hup \/ TakeHup \/ LoadFile \/ Reloaded
    BY <1>1, <1>5 DEF Ready, Hup, TakeHup, LoadFile, Reloaded
  <1>6. CASE \E c \in Files \cup {Unreadable} : Edit(c)
    BY <1>1, <1>6 DEF Edit
  <1>7. CASE UNCHANGED serviceVars
    BY <1>1, <1>7 DEF serviceVars
  <1>. QED BY <1>2, <1>3, <1>4, <1>5, <1>6, <1>7 DEF ServiceNext, HupLoop

LEMMA UpInvHolds == ServiceSpec => []UpInv
  <1>1. ServiceInit => UpInv
    BY DEF ServiceInit, UpInv
  <1>. QED BY <1>1, UpInvStep, PTL DEF ServiceSpec

\* Every chain of a configuration that opsentry -check accepts runs if one of its
\* endpoints answered, however the file is edited and reloaded afterwards.
THEOREM CheckIsEnough == ServiceSpec => []CheckedConfigRuns
  <1>1. UpInv => CheckedConfigRuns
    <2> SUFFICES ASSUME UpInv, phase # "down", CheckConfig(cfg)
                 PROVE  Runs(cfg, dialed) = {ch.id : ch \in {x \in Elements(cfg.chains) :
                                                        x.urls # {} /\ x.id \in dialed}}
      BY DEF CheckedConfigRuns, UpInv
    <2>1. \A x \in Elements(cfg.chains) : Compiles(MonitorRules(cfg, x.id))
      BY DEF CheckConfig, IDs, Elements
    <2>. QED BY <2>1 DEF Runs
  <1>. QED BY <1>1, UpInvHolds, PTL

\* Validate lets no rule through whose receiver is not in the file, and main makes
\* a notifier of each receiver: until the first reload an alert finds its
\* receivers.
THEOREM FirstRulesAreRoutable == ServiceSpec => []RoutableAtFirst
  <1>1. UpInv => RoutableAtFirst
    <2> SUFFICES ASSUME UpInv, phase # "down", ~reloaded, NEW ch \in DOMAIN evaluators,
                        NEW mr \in evaluators[ch], NEW r \in Elements(mr.rules)
                 PROVE  r.to \subseteq router
      BY DEF RoutableAtFirst, Routable
    <2>1. /\ Validate(cfg) /\ router = IDs(cfg.receivers) /\ mr \in MonitorRules(cfg, ch)
      BY DEF UpInv, Loads
    <2>2. PICK m \in Elements(cfg.monitors) : mr = [mon |-> m.id, rules |-> m.rules]
      BY <2>1 DEF MonitorRules, OnChain
    <2>3. r \in Elements(m.rules)
      BY <2>2
    <2>4. ValidMonitor(m, cfg)
      BY <2>1 DEF Validate
    <2>. QED BY <2>1, <2>3, <2>4 DEF ValidMonitor
  <1>. QED BY <1>1, UpInvHolds, PTL

------------------------------------------------------------------------------
(* AbiLoader.                                                              *)

\* The last start that was asked to refresh found the implementation of its time.
LEMMA RefreshStep == RefreshedIsCurrent /\ [AbiNext]_abiVars => RefreshedIsCurrent'
  <1> SUFFICES ASSUME RefreshedIsCurrent, [AbiNext]_abiVars PROVE RefreshedIsCurrent'
    OBVIOUS
  <1>1. CASE Upgrade \/ UNCHANGED abiVars
    BY <1>1 DEF RefreshedIsCurrent, Resolvable, Upgrade, abiVars
  <1>2. ASSUME NEW refresh \in BOOLEAN, NEW failed \in SUBSET Call, LoadABI(refresh, failed)
        PROVE  RefreshedIsCurrent'
    <2> SUFFICES ASSUME refresh, failed = {}, Resolvable, listed, impl \in Verified
                 PROVE  loaded' = impl
      BY <1>2 DEF LoadABI, RefreshedIsCurrent, Resolvable
    <2>1. Fetch(failed) = Own
      BY DEF Fetch, Sourcify
    <2>2. LooksLikeProxy(Own) /\ ReadImplementationAddress(failed)
      BY DEF LooksLikeProxy, ReadImplementationAddress, Resolvable
    <2>3. Resolve(Own, failed) = impl
      BY <2>2 DEF Resolve
    <2>4. ~Hit(Cleared(refresh), failed)
      BY DEF Hit, Cleared
    <2>. QED BY <1>2, <2>1, <2>3, <2>4 DEF LoadABI
  <1>. QED BY <1>1, <1>2 DEF AbiNext

\* A start with -refresh-abi at which no call fails ends with the ABI of the
\* implementation of that moment, whatever is in the table, for a proxy whose own ABI
\* has one of the events looksLikeProxy knows and whose slot is one of the three; a
\* proxy without these events keeps its own ABI (proxy.go, looksLikeProxy).
THEOREM RefreshFindsCurrent == AbiSpec => []RefreshedIsCurrent
  <1>1. AbiInit => RefreshedIsCurrent
    BY DEF AbiInit, RefreshedIsCurrent
  <1>. QED BY <1>1, RefreshStep, PTL DEF AbiSpec

\* What was saved and not cleared is still in the table: a start whose calls fail
\* saves nothing over it.
KeptInv == SavedIsEnough /\ (kept => cache # NoABI)

LEMMA KeptStep == KeptInv /\ [AbiNext]_abiVars => KeptInv'
  <1> SUFFICES ASSUME KeptInv, [AbiNext]_abiVars PROVE KeptInv'
    OBVIOUS
  <1>1. CASE Upgrade \/ UNCHANGED abiVars
    BY <1>1 DEF KeptInv, SavedIsEnough, Upgrade, abiVars
  <1>2. ASSUME NEW refresh \in BOOLEAN, NEW failed \in SUBSET Call, LoadABI(refresh, failed)
        PROVE  KeptInv'
    <2> DEFINE row == Cleared(refresh)
               hit == Hit(row, failed)
               abi == Resolve(Fetch(failed), failed)
    <2>1. /\ loaded' = IF hit THEN row ELSE abi
          /\ cache' = IF hit THEN row ELSE Saved(row, abi, failed)
      BY <1>2 DEF LoadABI
    <2>2. start'.read => "load" \notin failed
      BY <1>2 DEF LoadABI
    <2>3. kept' => (kept /\ ~refresh) \/ (~hit /\ abi # NoABI /\ "save" \notin failed)
      BY <1>2 DEF LoadABI
    <2>4. hit <=> row # NoABI /\ "load" \notin failed
      BY DEF Hit
    <2>5. Saved(row, abi, failed) = IF abi = NoABI \/ "save" \in failed THEN row ELSE abi
      BY DEF Saved
    <2>6. kept /\ ~refresh => row # NoABI
      BY DEF KeptInv, Cleared
    <2>. HIDE DEF row, hit, abi
    <2>. QED BY <2>1, <2>2, <2>3, <2>4, <2>5, <2>6 DEF KeptInv, SavedIsEnough
  <1>. QED BY <1>1, <1>2 DEF AbiNext

\* An ABI that was saved once keeps its monitor alive at every later start that
\* can read the table, whichever services are down.
THEOREM SavedMonitorIsNotSkipped == AbiSpec => []SavedIsEnough
  <1>1. AbiInit => KeptInv
    BY DEF AbiInit, KeptInv, SavedIsEnough
  <1>2. KeptInv => SavedIsEnough
    BY DEF KeptInv
  <1>. QED BY <1>1, <1>2, KeptStep, PTL DEF AbiSpec
==============================================================================
