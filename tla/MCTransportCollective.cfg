CONSTANTS
    N = 3
    Timeout = 0
    MaxElements = 2
    Schedules <- EpochSchedule
    Faults = {"crash", "vanish", "cancel", "slow"}
    MaxFaults = 2
SPECIFICATION Spec
INVARIANTS
    EveryRankReturns
PROPERTIES
    ImplementsAllReduce
