SPECIFICATION FairSpec
CONSTANTS
    Sites = {"rms-decode", "silu-decode"}
    Budget = 3
INVARIANTS TypeOK OneVerdict RemovedWhenDone ExecutedIsGenuine
PROPERTY RecordedIsReported
CHECK_DEADLOCK FALSE
