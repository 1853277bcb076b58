SPECIFICATION Spec
CONSTANTS
    N = 3
    Rounds = 2
    NumLeaves = 3
    Options <- SharedOptions
    SameOptions = TRUE
    Verdicts = {"continue", "stop"}
    MayCrash = FALSE
INVARIANTS
    LockStep
    FailuresAgree
    NobodyIsLeftWaiting
    NoSpuriousFailure
