\* Tags that trail the tracker, reorganisations above them.
SPECIFICATION LoopSpec
CONSTANTS
    Block <- ForkBlock
    NoBlock = "none"
    Num <- ForkNum
    Parent <- ForkParent
    MaxHeight = 3
    MaxDepth = 3
    ConfirmDepth = 0
    SeedWindow = 3
    StoreFails = FALSE
    MaxCrashes = 0
    MaxMoves = 3
    MaxReorg = 2
    MaxLag = 1
    MaxFaults = 0
    Kind = {"safe"}
    TagsTrail = TRUE
INVARIANTS
    LoopTypeOK
    ConfirmsTaggedChain
PROPERTIES
    EventuallyConfirmed
