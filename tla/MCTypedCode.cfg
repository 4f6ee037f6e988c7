CONSTANTS
    Width = 4
    Half = 3
    Byte = 2
    Authors <- MCAuthors
    MaxScalars = 3
    MaxAddresses = 2
    MaxPoolEntries = 2
    MaxPoolBytes = 2
    MaxNodes = 6
    MaxStatements = 3
    MaxFrames = 2
    Samples <- MCSamples
    QuickLimit = 2
    ShiftLimit = 2
    Registers = 8
SPECIFICATION ValuesSpec
INVARIANTS
    ParsedAsWritten
    ConstantsExact
    MeaningKept
    StackCodeAgrees
    ConstantFormsAgree
CHECK_DEADLOCK FALSE
