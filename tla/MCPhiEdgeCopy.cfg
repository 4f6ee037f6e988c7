CONSTANTS
    reg = reg
    temp = temp
    none = none
    NSlots = 4
    Fixed <- MCFixed
    Temp = temp
    NoSlot = none
    Value <- MCValue
    Edges <- MCEdges
    Frames <- MCFrames
SPECIFICATION Spec
INVARIANTS
    EdgeTransferCorrect
    NeverStuck
    TemporaryFree
PROPERTIES
    ImplementsParallelCopy
