---------------------------- MODULE FollowedChain ----------------------------
(***************************************************************************)
(* A head tracker and the chain it follows.  The modules below take an     *)
(* answer of the endpoints to be any block at all; here the network has a  *)
(* canonical head that moves, endpoints answer from the chain of that head *)
(* and may be a little behind it, and calls fail now and then.  This is    *)
(* what it takes to say that the tracker catches up.                       *)
(***************************************************************************)
EXTENDS HeadTracker

CONSTANTS
    MaxMoves,   \* bound: how often the canonical head moves
    MaxReorg,   \* a move leaves at most so many blocks behind
    MaxLag,     \* an endpoint is at most so many blocks behind
    MaxFaults   \* bound: how many calls of BlockByNumber fail

ASSUME EnvironmentAssumption == {MaxMoves, MaxReorg, MaxLag, MaxFaults} \subseteq Nat

VARIABLES
    canon,      \* the canonical head
    moves,      \* how often it has moved
    faults      \* how many calls have failed

envVars == <<canon, moves, faults>>
allVars == <<vars, envVars>>

\* With a block the set has its parent.
DownClosed(S) == \A x \in S : Parent[x] \in S \cup {NoBlock}

\* A block and the blocks under it: the least such set.
Chain ==
    [b \in Block |->
        {c \in Block : \A S \in SUBSET Block : b \in S /\ DownClosed(S) => c \in S}]

FollowInit ==
    /\ Init
    /\ canon \in Block
    /\ moves = 0
    /\ faults = 0

\* The chain grows, or is reorganised, or is rolled back.
Move(c) ==
    /\ moves < MaxMoves
    /\ c # canon
    /\ \E a \in Chain[c] \cap Chain[canon] : Num[a] + MaxReorg >= Num[canon]
    /\ canon' = c
    /\ moves' = moves + 1
    /\ UNCHANGED <<vars, faults>>

\* What HeadByTag may answer.
Heads == {h \in Chain[canon] : Num[h] + MaxLag >= Num[canon]}

Poll == \E h \in Heads : PollHead(h) /\ UNCHANGED envVars

PollCanon == PollHead(canon) /\ UNCHANGED envVars

\* BlockByNumber answers from the chain as it is now.
Fetch == \E b \in Chain[canon] : Reconcile(ReconcileAnswer(b)) /\ UNCHANGED envVars

\* The endpoint has a block of the height that is asked for.
HasAnswer == ENABLED Fetch

\* It fails, or has no block of that height because the chain was rolled back.
FetchFault ==
    /\ Reconcile(FetchFails)
    /\ IF HasAnswer THEN faults < MaxFaults /\ faults' = faults + 1
                    ELSE UNCHANGED faults
    /\ UNCHANGED <<canon, moves>>

Work == TrackerStep /\ UNCHANGED envVars

FollowNext ==
    \/ \E c \in Block : Move(c)
    \/ Poll
    \/ Fetch
    \/ FetchFault
    \/ Work

\* The ticker fires again and again, every call of an endpoint returns, and the
\* endpoint that is up to date is asked again and again.
FollowSpec ==
    /\ FollowInit
    /\ [][FollowNext]_allVars
    /\ WF_allVars(Work)
    /\ WF_allVars(Fetch)
    /\ WF_allVars(FetchFault)
    /\ SF_allVars(PollCanon)

------------------------------------------------------------------------------

\* Every block of the canonical chain that is in the window and deep enough was
\* delivered, and nothing that was delivered is on another branch.
CaughtUp ==
    /\ \A b \in Chain[canon] :
         (Num[b] + ConfirmDepth <= Num[canon] /\ HasAnyBelow(Num[b] + 1)) => b \in view
    /\ \A b \in view : b \in Chain[canon] \/ canon \in Chain[b]

\* Once the chain holds still the tracker catches up with it for good, whatever
\* reorganisations, lagging answers and failed calls it met before: no branch of
\* the walk leaves it stuck, and no orphan is forgotten.
EventuallyCaughtUp == <>[]CaughtUp
==============================================================================
