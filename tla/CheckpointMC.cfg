SPECIFICATION Spec
CONSTANTS
    Launchers = {l1, l2}
    Files = {"config", "weights"}
    Weights = {"weights"}
    Rounds = 2
    MaxBegins = 2
    MaxEdits = 2
INVARIANTS TypeOK ReceiptsBindGoodBytes PlansBindGoodBytes OnlyLateEditsEscape
CHECK_DEADLOCK FALSE
