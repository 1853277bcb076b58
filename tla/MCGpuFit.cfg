CONSTANTS
    v1 = v1
    Values <- MCValues
    Slots = 1
    MaxOps = 2
    MaxRounds = 3
    MaxSplits = 2
    Totals = {1, 2, 3}
    Cadences <- MCCadences
SPECIFICATION FitSpec
INVARIANTS
    GrownFromTheEnsemble
    NoModelOverflows
PROPERTIES
    HostStaysOutOfTheWay
