SPECIFICATION Spec
CONSTANTS
    Launchers = {l1, l2}
    Copied = {"config"}
    Linked = {"weights"}
    NoDir = NoDir
    NoProc = NoProc
    MaxBegins = 2
    MaxFaults = 2
INVARIANT ReceiptsBindTrustedDigests
CHECK_DEADLOCK FALSE
