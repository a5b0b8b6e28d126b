------------------------------ MODULE AbiLoader ------------------------------
(***************************************************************************)
(* ABIDecoder.loadABI for a monitor with "abi: sourcify", over many starts *)
(* of the process: the cache table, Sourcify, the Etherscan fallback, and  *)
(* the search for the implementation behind a proxy.  Every call made on   *)
(* the way may fail; which ones do in a start is chosen freely.            *)
(*                                                                         *)
(* An ABI stands for the contract it describes.  "erc20" and inline ABIs   *)
(* need no call and no state.                                              *)
(***************************************************************************)
EXTENDS Integers

CONSTANTS
    Verified,   \* the implementations whose ABI Sourcify has
    MaxImpl,    \* bound: the implementations a proxy goes through
    MaxBoots    \* bound: how many times the process starts

ASSUME AbiAssumption == {MaxImpl, MaxBoots} \subseteq Nat /\ Verified \subseteq 1..MaxImpl

VARIABLES
    announces,  \* whether its own ABI has Upgraded, AdminChanged or BeaconUpgraded
    slot,       \* where the contract keeps its implementation; "plain": no proxy
    listed,     \* whether Sourcify has the contract itself
    hasKey,     \* whether ETHERSCAN_API_KEY is set
    impl,       \* the implementation now behind the proxy
    cache,      \* the row of abi_cache
    loaded,     \* what the decoder has, NoABI if the monitor was skipped
    start,      \* the last start: its flag, whether no call failed, impl then
    boots,      \* how many starts there were
    kept        \* history: an ABI was saved and not cleared since

abiVars == <<announces, slot, listed, hasKey, impl, cache, loaded, start, boots, kept>>

NoABI   == -1
Own     == 0    \* the ABI found at the monitored address itself
Call    == {"load", "sourcify", "etherscan", "eip1967", "zeppelinos", "beacon",
            "implementation", "sourcify impl", "save"}

AbiInit ==
    /\ announces \in BOOLEAN
    /\ slot \in {"plain", "eip1967", "zeppelinos", "beacon", "another"}
    /\ listed \in BOOLEAN
    /\ hasKey \in BOOLEAN
    /\ impl = 1
    /\ cache = NoABI
    /\ loaded = NoABI
    /\ start = [refresh |-> FALSE, smooth |-> FALSE, read |-> FALSE, impl |-> 1]
    /\ boots = 0
    /\ kept = FALSE

\* The proxy gets another implementation.
Upgrade ==
    /\ slot # "plain"
    /\ impl < MaxImpl
    /\ impl' = impl + 1
    /\ UNCHANGED <<announces, slot, listed, hasKey, cache, loaded, start, boots, kept>>

\* The two services that know ABIs by address.
Sourcify(failed)  == listed /\ "sourcify" \notin failed
Etherscan(failed) == hasKey /\ "etherscan" \notin failed

Fetch(failed) == IF Sourcify(failed) \/ Etherscan(failed) THEN Own ELSE NoABI

\* A proxy is recognised by the events of its own ABI, not by its storage.
LooksLikeProxy(abi) == abi = Own /\ announces

\* A storage read that fails counts as an empty slot; the beacon is asked last,
\* and then called.
ReadImplementationAddress(failed) ==
    /\ slot \in {"eip1967", "zeppelinos", "beacon"}
    /\ slot \notin failed
    /\ slot = "beacon" => "implementation" \notin failed

\* The implementation is looked up on Sourcify only.  Whatever goes wrong, the
\* ABI of the proxy is used.
Resolve(abi, failed) ==
    IF /\ LooksLikeProxy(abi)
       /\ ReadImplementationAddress(failed)
       /\ impl \in Verified /\ "sourcify impl" \notin failed
    THEN impl ELSE abi

\* Mutant: the flag is read and nothing cleared.
ClearedNever(refresh) == cache

\* -refresh-abi.
Cleared(refresh) == IF refresh THEN NoABI ELSE cache

\* Mutant: what could not be fetched is saved as well.
SavedAlways(row, abi, failed) == IF "save" \in failed THEN row ELSE abi

Saved(row, abi, failed) == IF abi = NoABI \/ "save" \in failed THEN row ELSE abi

\* LoadCachedABI finds a row.
Hit(row, failed) == row # NoABI /\ "load" \notin failed

\* A row is used without asking anybody; a miss, or an error of the table, goes
\* the long way and saves what it finds.
LoadABI(refresh, failed) ==
    /\ boots < MaxBoots
    /\ boots' = boots + 1
    /\ start' = [refresh |-> refresh, smooth |-> failed = {}, read |-> "load" \notin failed,
                 impl |-> impl]
    /\ LET row == Cleared(refresh)
           hit == Hit(row, failed)
           abi == Resolve(Fetch(failed), failed)
       IN  /\ loaded' = IF hit THEN row ELSE abi
           /\ cache' = IF hit THEN row ELSE Saved(row, abi, failed)
           /\ kept' = \/ kept /\ ~refresh
                      \/ ~hit /\ abi # NoABI /\ "save" \notin failed
    /\ UNCHANGED <<announces, slot, listed, hasKey, impl>>

AbiNext == Upgrade \/ \E refresh \in BOOLEAN, failed \in SUBSET Call : LoadABI(refresh, failed)

AbiSpec == AbiInit /\ [][AbiNext]_abiVars

------------------------------------------------------------------------------

\* Whether the contract can be decoded with the ABI of its implementation: it says
\* that it is a proxy and keeps the implementation in a slot the code knows.
Resolvable == announces /\ slot \in {"eip1967", "zeppelinos", "beacon"}

\* A start with -refresh-abi at which every call succeeds ends with the ABI of
\* the implementation of that moment, whatever earlier starts left in the table,
\* if the proxy announces itself and Sourcify has both contracts
\* (main.go: "forces refetch from Sourcify").
RefreshedIsCurrent ==
    /\ boots > 0
    /\ start.refresh
    /\ start.smooth
    /\ Resolvable /\ listed
    /\ start.impl \in Verified
    => loaded = start.impl

\* A monitor whose ABI was saved once is not skipped at a later start, whichever
\* services are down, as long as the table can be read.
SavedIsEnough == kept /\ start.read => loaded # NoABI
==============================================================================
