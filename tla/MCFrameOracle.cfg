CONSTANTS
    DisplayWidth = 40
    DisplayHeight = 2
    MaxObjects = 3
    MaxPriority = 2
    Hints = {"auto", "sprite", "planar"}
    Jobs <- MCJobs
SPECIFICATION Spec
INVARIANTS
    TopmostShown
    PlanesExact
    FramesAgree
CHECK_DEADLOCK FALSE
