CONSTANTS
    Low = 9
    Lines = 13
    Start = 3
    PollLimit = 9
    MaxDrift = 1
    Byte = 3
    Initials <- MCInitials
    Limit = 7
    MaxClock = 14
SPECIFICATION Spec
INVARIANTS
    StartsAtRasterStart
    ElapsedExact
PROPERTIES
    BeamCoherent
    WaitEnds
CHECK_DEADLOCK FALSE
