SPECIFICATION Spec
CONSTANTS
    PREFIX = 4
    Size <- MCSize
    Chunking = "any"
INVARIANTS
    HintsDelivered
CHECK_DEADLOCK FALSE
