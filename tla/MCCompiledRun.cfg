CONSTANTS
    x = x
    y = y
    none = none
    MaxBlocks = 12
    MaxStatements = 4
    Assigns <- MCAssigns
    Conditions <- MCConditions
    NoBlock = none
    NoEdge = none
    Width = 3
    Locals <- MCLocals
    ParameterCount = 1
    Declarations <- MCDeclarations
    ResultOf <- MCResult
    Arguments <- MCArguments
SPECIFICATION CompileSpec
INVARIANTS
    DefinitionsDominateUses
    AgreesWithEvaluator
    LocalsFollowed
PROPERTIES
    RemovalEnds
CHECK_DEADLOCK FALSE
