SPECIFICATION Spec
CONSTANTS
    WORD = 2
    KEY = 2
    LOCAL_SIZE = 2
    PAGE_SIZE = 4
    MEM_SIZE = 16
    HEAP_START = 4
    U8 = 8
    Byte = {0, 1, 2, 3}
    Preimage <- MCPreimage
    PCs = {0}
    DataWords = {0, 2}
    StoreWords <- MCStoreWords
    Descriptors = {0, 1, 3, 5, 7, 10}
    Lengths = {1, 3}
    MapSizes = {0}
    GuestOps = {"memory", "preimage"}
    MaxStep = 6
INVARIANTS
    PreimageStream
PROPERTIES
    StepWitnessed
    OracleInputSuffices
CHECK_DEADLOCK FALSE
