SPECIFICATION Spec
CONSTANTS
    PREFIX = 4
    Size <- MCSize
    Chunking = "hints"
INVARIANTS
    NoHintLost
    HintsDelivered
    BufferInRange
PROPERTY
    WriteReturns
CHECK_DEADLOCK FALSE
