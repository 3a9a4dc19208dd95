SPECIFICATION Spec
CONSTANTS
    p1 = p1
    p2 = p2
    p3 = p3
    Procs <- MCProcs
    PidOf <- MCPidOf
    OneNamespace = FALSE
    SeedFiles = {"graph", "kernel"}
    Marker = ".paiton-seed"
    Own = "own"
    Warm = Warm
    NoDir = NoDir
INVARIANT SeenWhole
CHECK_DEADLOCK FALSE
