\* One run of the process, no block leaves the window.
SPECIFICATION Spec
CONSTANTS
    Block <- MCBlock
    NoBlock = "none"
    Num <- MCNum
    Parent <- MCParent
    MaxHeight = 4
    MaxDepth = 4
    ConfirmDepth = 1
    SeedWindow = 4
    StoreFails = TRUE
    MaxCrashes = 0
INVARIANTS
    TypeOK
    DeliveredOrHeldBack
    NothingStaleInView
    RevertsOnlyDelivered
    DeliversInOrder
    DeliversOnlyBuried
PROPERTIES
    ImplementsFeed
