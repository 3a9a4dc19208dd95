SPECIFICATION Spec
CONSTANTS
    Procs = {p1, p2, p3}
    Values = {v1, v2}
    Garbage = Garbage
    NoValue = NoValue
    NoProc = NoProc
    MaxCalls = 4
    MaxFaults = 2
INVARIANTS TypeOK KnownValueStands
PROPERTIES RefinesWriteOnce
CHECK_DEADLOCK FALSE
