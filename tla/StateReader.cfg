\* Two fetchers, a reorganisation, one read.
SPECIFICATION ReaderSpec
CONSTANTS
    Block <- ForkedBlock
    NoBlock = "none"
    Num <- ForkedNum
    Parent <- ForkedParent
    MaxHeight = 2
    Def = {"paused"}
    Fetcher = {"fast", "safe"}
    MaxEvents = 3
    NoState = NoState
INVARIANTS
    ReaderTypeOK
    PrevIsEarlier
    StateIsNotOlder
    NewerOnlyIfOvertaken
CHECK_DEADLOCK FALSE
