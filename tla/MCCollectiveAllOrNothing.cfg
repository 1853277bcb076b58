CONSTANTS
    N = 3
    Timeout = 0
    MaxElements = 2
    Schedules <- HistogramSchedule
    Faults = {"slow"}
    MaxFaults = 0
SPECIFICATION Spec
INVARIANTS
    AllOrNothing
