SPECIFICATION Spec
CONSTANTS
    WORD = 2
    KEY = 2
    LOCAL_SIZE = 2
    PAGE_SIZE = 4
    MEM_SIZE = 32
    HEAP_START = 8
    U8 = 8
    Byte = {0, 1, 2, 3}
    Preimage <- MCPreimage
    PCs = {0, 4}
    DataWords = {0, 2}
    StoreWords <- MCStoreWords
    Descriptors = {3, 7, 8, 9}
    Lengths = {3}
    MapSizes = {1, 4, 7, 31}
    GuestOps = {"memory", "other", "mmap"}
    MaxStep = 4
INVARIANTS
    MmapDisjoint
PROPERTIES
    StepWitnessed
    DescriptorModes
    ExitIsFinal
CHECK_DEADLOCK FALSE
