SPECIFICATION FairSpec
CONSTANTS
    Sites = {"rms-decode", "silu-decode"}
    Budget = 3
INVARIANT WindowIsRequestSteps
CHECK_DEADLOCK FALSE
