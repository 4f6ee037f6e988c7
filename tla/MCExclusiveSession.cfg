CONSTANTS
    ChipBlocks <- MCChipBlocks
    FastBlocks <- MCFastBlocks
    SpriteCount = 2
    ChannelCount = 2
SPECIFICATION Spec
INVARIANTS
    DmaMemoryHeld
    AllReturned
    ReportSound
CHECK_DEADLOCK FALSE
