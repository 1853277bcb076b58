SPECIFICATION Spec
CONSTANTS
    Procs = {p1, p2}
    Data = {d1, d2}
    MaxCut = 2
    MaxPrograms = 3
SYMMETRY Symmetry
INVARIANTS
    CacheIsOfOneSource
    LoadsItsOwnBuild
    PublishedIsWhole
    TrustedLoadsSucceed
