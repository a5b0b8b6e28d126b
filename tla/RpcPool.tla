------------------------------- MODULE RpcPool -------------------------------
(***************************************************************************)
(* rpc.Client and rpc.pool: the endpoints of one chain, tried in the order *)
(* of their weights, those that failed left out until their cooldown is    *)
(* over.  The goroutines of the chain call it concurrently; available      *)
(* takes the lock of one endpoint at a time, so that a scan or a reset of  *)
(* one caller interleaves with what the others do.                         *)
(***************************************************************************)
EXTENDS Integers, Sequences, FiniteSets

CONSTANTS
    Endpoint,   \* the endpoints of the configuration, numbered in its order
    Weight,     \* EndpointSpec.Weight
    Caller,     \* the goroutines
    Cooldown,   \* defaultCooldown
    Steady,     \* an endpoint that fails at most MaxBlips times
    MaxBlips,
    MaxClock,   \* bound: how long the model runs
    MaxStreak   \* bound of the history variable

ASSUME PoolAssumption ==
    /\ Endpoint \subseteq Nat /\ IsFiniteSet(Endpoint)
    /\ IsFiniteSet(Caller)
    /\ Weight \in [Endpoint -> Int]
    /\ Cooldown \in Nat \ {0}
    /\ Steady \in Endpoint
    /\ {MaxBlips, MaxClock, MaxStreak} \subseteq Nat

VARIABLES
    pooled,         \* the endpoints Dial could reach
    failedUntil,    \* Endpoint.failedUntil
    clock,
    call,           \* the call each caller is in
    blips,          \* how often Steady has failed
    streak          \* history: calls of a caller that failed in a row since then

poolVars == <<pooled, failedUntil, clock, call, blips, streak>>

Out == [at |-> "out", now |-> 0, left |-> <<>>, found |-> <<>>, failed |-> FALSE]

Heavier(x, y) == Weight[x] > Weight[y] \/ (Weight[x] = Weight[y] /\ x < y)

\* The endpoints sorted by weight, those of one weight in their order.
Sorted(S) ==
    [i \in 1..Cardinality(S) |->
        CHOOSE e \in S : Cardinality({x \in S : Heavier(x, e)}) = i - 1]

\* Dial leaves out what it cannot reach, and fails if that is everything.
PoolInit ==
    /\ pooled \in {Sorted(S) : S \in {S \in SUBSET Endpoint : Steady \in S}}
    /\ failedUntil = [e \in Endpoint |-> 0]
    /\ clock = 0
    /\ call = [c \in Caller |-> Out]
    /\ blips = 0
    /\ streak = [c \in Caller |-> 0]

Tick ==
    /\ clock < MaxClock
    /\ clock' = clock + 1
    /\ UNCHANGED <<pooled, failedUntil, call, blips, streak>>

------------------------------------------------------------------------------
(* available: now is read once, then each endpoint in turn.                *)

Begin(c) ==
    /\ call[c].at = "out"
    /\ call' = [call EXCEPT ![c] = [Out EXCEPT !.at = "scan", !.now = clock, !.left = pooled]]
    /\ UNCHANGED <<pooled, failedUntil, clock, blips, streak>>

Scan(c) ==
    /\ call[c].at = "scan"
    /\ call[c].left # <<>>
    /\ LET e == Head(call[c].left)
       IN  call' = [call EXCEPT ![c].left = Tail(@),
                                ![c].found = IF call[c].now >= failedUntil[e]
                                             THEN Append(@, e) ELSE @]
    /\ UNCHANGED <<pooled, failedUntil, clock, blips, streak>>

\* Mutant: nothing available is nothing returned.
ScannedEmpty(c) ==
    /\ call[c].at = "scan"
    /\ call[c].left = <<>>
    /\ call' = [call EXCEPT ![c].at = "try"]
    /\ UNCHANGED <<pooled, failedUntil, clock, blips, streak>>

\* With nothing found all cooldowns are forgotten.
Scanned(c) ==
    /\ call[c].at = "scan"
    /\ call[c].left = <<>>
    /\ call' = [call EXCEPT ![c] = IF @.found = <<>>
                                   THEN [@ EXCEPT !.at = "reset", !.left = pooled]
                                   ELSE [@ EXCEPT !.at = "try"]]
    /\ UNCHANGED <<pooled, failedUntil, clock, blips, streak>>

Reset(c) ==
    /\ call[c].at = "reset"
    /\ failedUntil' = [failedUntil EXCEPT ![Head(call[c].left)] = 0]
    /\ call' = [call EXCEPT ![c] = IF Len(@.left) = 1
                                   THEN [@ EXCEPT !.at = "try", !.left = <<>>, !.found = pooled]
                                   ELSE [@ EXCEPT !.left = Tail(call[c].left)]]
    /\ UNCHANGED <<pooled, clock, blips, streak>>

------------------------------------------------------------------------------
(* tryFailover: what the endpoint answers is up to it.                     *)

Tries(c) == call[c].at = "try" /\ call[c].found # <<>>

Answered(c) ==
    /\ Tries(c)
    /\ call' = [call EXCEPT ![c] = Out]
    /\ streak' = [streak EXCEPT ![c] = 0]
    /\ UNCHANGED <<pooled, failedUntil, clock, blips>>

\* The context is cancelled: no endpoint is blamed.
Cancelled(c) ==
    /\ Tries(c)
    /\ call' = [call EXCEPT ![c] = Out]
    /\ UNCHANGED <<pooled, failedUntil, clock, blips, streak>>

\* Mutant: an endpoint that is marked is not marked again.
MarkFailedOnce(e) ==
    failedUntil' = [failedUntil EXCEPT ![e] = IF @ = 0 THEN clock + Cooldown ELSE @]

MarkFailed(e) == failedUntil' = [failedUntil EXCEPT ![e] = clock + Cooldown]

EndpointFails(c) ==
    /\ Tries(c)
    /\ LET e == Head(call[c].found)
       IN  /\ MarkFailed(e)
           /\ call' = [call EXCEPT ![c].found = Tail(@), ![c].failed = TRUE]
           /\ IF e = Steady
              THEN /\ blips < MaxBlips
                   /\ blips' = blips + 1
                   /\ streak' = [d \in Caller |-> 0]
              ELSE UNCHANGED <<blips, streak>>
    /\ UNCHANGED <<pooled, clock>>

\* The call returns an error.
AllFailed(c) ==
    /\ call[c].at = "try" /\ call[c].found = <<>>
    /\ call' = [call EXCEPT ![c] = Out]
    /\ streak' = [streak EXCEPT ![c] = IF @ = MaxStreak THEN @ ELSE @ + 1]
    /\ UNCHANGED <<pooled, failedUntil, clock, blips>>

Step(c) ==
    \/ Begin(c) \/ Scan(c) \/ Scanned(c) \/ Reset(c)
    \/ Answered(c) \/ Cancelled(c) \/ EndpointFails(c) \/ AllFailed(c)

PoolNext == Tick \/ \E c \in Caller : Step(c)

PoolSpec == PoolInit /\ [][PoolNext]_poolVars

------------------------------------------------------------------------------

\* A call that returns an error has tried an endpoint: the pool never hands out
\* an empty list, whatever the other callers mark and reset meanwhile.
NeverEmptyHanded ==
    \A c \in Caller :
        call[c].at = "try" /\ call[c].found = <<>> => call[c].failed

\* Once the steady endpoint has stopped failing, only so many calls of a caller
\* fail in a row, although it is still cooling down and all the others fail all
\* the time: the call under way, one per other endpoint that is not cooling down,
\* and two more when each of the other callers resets it: at the end of a reset
\* that had passed the steady endpoint, and in one that frees that endpoint too.
SteadyIsFoundAgain ==
    \A c \in Caller :
        streak[c] <= 1 + (2 * Cardinality(Caller) - 1) * (Cardinality(Endpoint) - 1)
==============================================================================
