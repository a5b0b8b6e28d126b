\* Two callers.  The steady endpoint is the heavier one, so that a reset passes it
\* before it comes to the other, and it fails twice: the bound of
\* SteadyIsFoundAgain, 4 calls, is reached.
SPECIFICATION PoolSpec
CONSTANTS
    Endpoint = {1, 2}
    Weight <- Weights
    Caller = {"tracker", "safe"}
    Cooldown = 2
    Steady = 2
    MaxBlips = 2
    MaxClock = 4
    MaxStreak = 6
INVARIANTS
    NeverEmptyHanded
    SteadyIsFoundAgain
