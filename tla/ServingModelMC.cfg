SPECIFICATION FairSpec
CONSTANTS
    Launchers = {l1, l2}
    Copied = {"config"}
    Linked = {"weights"}
    NoDir = NoDir
    NoProc = NoProc
    MaxBegins = 2
    MaxFaults = 2
INVARIANTS TypeOK PublishedWhole ReceiptsBindGoodCopies ServedIsVerified
PROPERTY PublishedIsUsable
CHECK_DEADLOCK FALSE
