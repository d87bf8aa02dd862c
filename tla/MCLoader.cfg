SPECIFICATION LoaderSpec
CONSTANTS
    PAGE_SIZE_WORDS = 4
    MAX_PAGE_COUNT = 8
    Word = {0, 1, 2, 3, 4, 5}
    Touched = {0, 1, 2, 3, 4, 5, 6, 8, 9, 12, 13, 16, 20, 24, 25, 26, 27, 28, 30, 31}
    RangeData <- MCRangeData
    Elf <- MCElf
    PatchKinds <- MCPatchKinds
    RET = 4
    STACK_PTR = 24
    StackArgs <- MCStackArgs
    Random <- MCRandom
    Stored <- MCStored
    ReadFrom = {0, 3, 9, 30}
    ReadCount = {0, 1, 2, 5, 9, 27, 28, 29, 31}
INVARIANTS
    ImageLoaded
    HashesAgree
    ReaderExact
PROPERTIES
    MemorySpec
    LoopsEnd
CHECK_DEADLOCK FALSE
