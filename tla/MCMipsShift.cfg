SPECIFICATION MCSpec
CONSTANTS
    B = 2
    TargetBits = 6
    Reg = {0, 1, 2, 31}
    Instr <- AllInstr
    Values <- EdgeValues
    Memories <- EdgeMemories
INVARIANT
    ShiftByZero
CHECK_DEADLOCK FALSE
