\* Every call order and every RPC answer, with a window of two blocks so that
\* pruning, the floor of the window and the walk to genesis all happen.
SPECIFICATION ReconcilerSpec
CONSTANTS
    Block <- MCBlock
    NoBlock = "none"
    Num <- MCNum
    Parent <- MCParent
    MaxHeight = 4
    MaxDepth = 2
INVARIANTS
    KnownFitsWindow
    KnownIsHashChain
    FetchedExtendsKnown
    WalkedPathIsUnknown
PROPERTIES
    ReportsTheSwitch
