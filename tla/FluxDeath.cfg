SPECIFICATION Spec
CONSTANTS
    Engines = {"paiton", "stock"}
    MaxRequests = 4
PROPERTY DeathIsReported
CHECK_DEADLOCK FALSE
