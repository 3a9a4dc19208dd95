SPECIFICATION FairSpec
CONSTANTS
    p1 = p1
    p2 = p2
    p3 = p3
    Procs <- MCProcs
    PidOf <- MCPidOf
    OneNamespace = TRUE
    SeedFiles = {"graph", "kernel"}
    Marker = ".paiton-seed"
    Own = "own"
    Warm = Warm
    NoDir = NoDir
INVARIANTS TypeOK SeenWhole SeedArrives
PROPERTIES WarmUntouched SeedNeverStops
CHECK_DEADLOCK FALSE
