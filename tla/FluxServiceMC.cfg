SPECIFICATION FairSpec
CONSTANTS
    Engines = {"paiton", "stock"}
    MaxRequests = 6
INVARIANTS TypeOK AnswerMatches OneEngineLoaded
PROPERTY NodeReturns
CHECK_DEADLOCK FALSE
