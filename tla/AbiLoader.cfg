\* Three starts around an upgrade; the process need not start again.
SPECIFICATION AbiSpec
CONSTANTS
    Verified = {1, 2}
    MaxImpl = 2
    MaxBoots = 3
INVARIANTS
    RefreshedIsCurrent
    SavedIsEnough
CHECK_DEADLOCK FALSE
