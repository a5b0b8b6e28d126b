\* The process dies up to twice, at any point.
SPECIFICATION ResumeSpec
CONSTANTS
    Block <- ForkBlock
    NoBlock = "none"
    Num <- ForkNum
    Parent <- ForkParent
    MaxHeight = 3
    MaxDepth = 3
    ConfirmDepth = 1
    SeedWindow = 3
    StoreFails = FALSE
    MaxCrashes = 2
INVARIANTS
    ViewIsStored
    NeverDeliversAgain
    SkipsOnlyRemembered
