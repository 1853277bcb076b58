CONSTANTS
    N = 3
    Timeout = 0
    MaxElements = 1
    Self = 0
    MaxClock = 1
    MaxEpoch = 1
    MaxSeq = 2
SPECIFICATION Spec
INVARIANTS
    NumberNeverReused
PROPERTIES
    NeverRejoins
    FirstCauseKept
