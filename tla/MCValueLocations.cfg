CONSTANTS
    x = x
    y = y
    z = z
    none = none
    MaxBlocks = 12
    MaxStatements = 5
    Assigns <- MCAssigns
    Conditions <- MCConditions
    NoBlock = none
    NoEdge = none
    Width = 3
    Locals <- MCLocals
    ParameterCount = 1
    Declarations <- MCDeclarations
    ResultOf <- MCResult
    RegisterCount = 3
    FirstSaved = 1
SPECIFICATION PlaceSpec
INVARIANTS
    AllocationSucceeds
    OperandsInPlace
    WrittenRegistersSaved
CHECK_DEADLOCK FALSE
