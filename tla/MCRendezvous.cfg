CONSTANTS
    N = 3
    Processes <- ThreeProcesses
    Worlds <- AnyThree
    MaxCrashes = 1
SPECIFICATION FairSpec
INVARIANTS
    JoinedWorldIsWhole
    EveryoneJoins
PROPERTIES
    NobodyWaitsForever
\* Every process may have finished.
CHECK_DEADLOCK FALSE
