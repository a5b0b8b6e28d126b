\* Moves, lag and failed calls, then quiet: the tracker catches up.
SPECIFICATION FollowSpec
CONSTANTS
    Block <- MCBlock
    NoBlock = "none"
    Num <- MCNum
    Parent <- MCParent
    MaxHeight = 4
    MaxDepth = 3
    ConfirmDepth = 1
    SeedWindow = 4
    StoreFails = FALSE
    MaxCrashes = 0
    MaxMoves = 3
    MaxReorg = 2
    MaxLag = 1
    MaxFaults = 1
INVARIANTS
    DeliveredOrHeldBack
PROPERTIES
    EventuallyCaughtUp
