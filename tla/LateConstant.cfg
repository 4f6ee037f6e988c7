CONSTANTS
    x = x
    y = y
    z = z
    none = none
    MaxBlocks = 12
    MaxStatements = 5
    Assigns <- LateAssigns
    Conditions <- MCConditions
    NoBlock = none
    NoEdge = none
    Width = 3
    Locals <- MCLocals
    ParameterCount = 1
    Declarations <- LateDeclarations
    ResultOf <- MCResult
    RegisterCount = 8
    FirstSaved = 3
SPECIFICATION PlaceSpec
INVARIANT EmissionSucceeds
CHECK_DEADLOCK FALSE
