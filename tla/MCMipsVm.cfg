SPECIFICATION MCSpec
CONSTANTS
    B = 2
    TargetBits = 6
    Reg = {0, 1, 2, 31}
    Instr <- AllInstr
    Values <- EdgeValues
    Memories <- EdgeMemories
INVARIANTS
    RegisterFile
    NarrowAccess
    UnalignedWords
    HiLoExact
    ShiftsAndCounts
PROPERTY
    DelaySlot
CHECK_DEADLOCK FALSE
