\* The only monitor asks for the safe level.
SPECIFICATION PipelineSpec
CONSTANTS
    Block <- ForkedBlock
    NoBlock = "none"
    Num <- ForkedNum
    Parent <- ForkedParent
    MaxHeight = 2
    Monitors <- OnlySafe
    ChainID = "base"
    Fetcher = {"fast", "safe"}
    Log <- Logs
    LogBlock <- LogsBlock
    LogAddr <- LogsAddr
    Receiver = {"r1"}
    BatchSize = 2
    MaxFaults = 0
INVARIANT
    FiresAtItsConfirmation
