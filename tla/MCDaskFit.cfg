SPECIFICATION FairSpec
CONSTANTS
    Fits = {"f", "g"}
    Workers = {"w0", "w1", "w2"}
    NRanks = 3
    Plans <- OneOrTwoFits
    Worker <- OneEach
    Shared = TRUE
    Interrupts = {"train", "await"}
    MaxFaults <- TwoThenOne
INVARIANTS
    ModelMeansEveryRank
    CancelFindsEverySession
    AbandonedRanksAreCancelled
PROPERTIES
    EveryFitEnds
    WorkersAreFreed
