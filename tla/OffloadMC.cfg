SPECIFICATION FairSpec
CONSTANTS
    Requests = {"r1", "r2"}
    Prompts = {"p1", "p2"}
    Asks <- MCAsks
    Blocks = {1, 2}
    Slots = {1, 2}
    Windows = {0, 2}
    ChunkTokens = 2
    PromptTokens = 2
    MaxTokens = 5
    StepTokens = {3}
    MaxJobs = 7
    MaxResets = 1
INVARIANTS TypeOK HostTruth GpuTruth FencesExact JobsTracked ClosedOnce
PROPERTY Served
CHECK_DEADLOCK FALSE
