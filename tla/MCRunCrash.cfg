SPECIFICATION FairSpec
CONSTANTS
    N = 2
    Rounds = 3
    NumLeaves = 2
    Options <- MixedOptions
    SameOptions = FALSE
    Verdicts = {"continue", "stop", "abort", "raise", "reset"}
    MayCrash = TRUE
INVARIANTS
    SameOutcome
    CheckpointIsWorldWide
    StopsWhenStagnant
PROPERTIES
    EveryRankEnds
