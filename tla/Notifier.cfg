\* Two goroutines, two alerts; the notices are all sent at last, so the system stops.
SPECIFICATION NotifierSpec
CONSTANTS
    Sender = {"base", "celo"}
    Receiver = {"slack", "log"}
    MinInterval <- Intervals
    Alert = {"a1", "a2"}
    MaxFails = 1
    MaxClock = 3
INVARIANTS
    AdmittedApart
    DropsAreEarned
PROPERTIES
    NobodyWaitsForTheTransport
CHECK_DEADLOCK FALSE
