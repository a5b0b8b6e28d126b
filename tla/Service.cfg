\* The operator may stop editing and starting at any time.
SPECIFICATION ServiceSpec
CONSTANTS
    Files <- AllFiles
    Unreadable = Unreadable
    MaxEdits = 2
    MaxStarts = 2
INVARIANTS
    CheckedConfigRuns
    RoutableAtFirst
PROPERTIES
    LastEditTakesEffect
CHECK_DEADLOCK FALSE
