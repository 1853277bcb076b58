CONSTANTS
    N = 2
    Timeout = 0
    MaxElements = 2
    Schedules <- DivergingSchedules
    Faults = {"crash", "vanish", "cancel", "slow", "corrupt", "duplicate"}
    MaxFaults = 1
SPECIFICATION FairSpec
INVARIANTS
    OrderedReduction
    SameCallEverywhere
    EpochsAgree
PROPERTIES
    NoRankHangs
