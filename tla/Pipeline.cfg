\* One fast monitor, as in the configurations that are shipped: the safe fetcher has no
\* address of its own, asks for every contract and sees the same logs.  One thing goes
\* wrong at any point, or the process dies there.
SPECIFICATION PipelineSpec
CONSTANTS
    Block <- ForkedBlock
    NoBlock = "none"
    Num <- ForkedNum
    Parent <- ForkedParent
    MaxHeight = 2
    Monitors <- OnlyFast
    ChainID = "base"
    Fetcher = {"fast", "safe"}
    Log <- Logs
    LogBlock <- LogsBlock
    LogAddr <- LogsAddr
    Receiver = {"r1"}
    BatchSize = 2
    MaxFaults = 1
INVARIANTS
    PipelineTypeOK
    FiresOnce
    SentWasRecorded
    OrphansRetracted
    EveryMatchRecorded
