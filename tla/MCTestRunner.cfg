CONSTANTS
    VectorStart = 0
    VectorEnd = 8
    CodeStart = 10
    CodeEnd = 18
    DataStart = 18
    DataEnd = 22
    StackStart = 22
    StackEnd = 32
    GuardSize = 2
    Capacity = 2
    MaxInstructions = 3
    MaxAccesses = 2
    Addresses <- MCAddresses
    Stacks <- MCStacks
    Suites <- MCSuites
SPECIFICATION Spec
INVARIANTS
    VerdictSound
    ReportExact
CHECK_DEADLOCK FALSE
