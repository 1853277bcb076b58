CONSTANTS
    v1 = v1
    v2 = v2
    Values <- MCValues
    Slots = 2
    MaxOps = 4
SPECIFICATION Spec
SYMMETRY Symmetry
INVARIANTS
    NeverRefused
PROPERTIES
    HostNeverRaces
    ImplementsSyncDevice
