CONSTANTS
    Sources <- MCSources
    Profiles <- MCProfiles
    SystemDma <- MCSystemDma
    Samples = 2
    Retries = 1
SPECIFICATION Spec
INVARIANTS
    MasksRestored
PROPERTIES
    BatchUndisturbed
    BlitterQuiet
    CasesSound
    SessionEnds
CHECK_DEADLOCK FALSE
