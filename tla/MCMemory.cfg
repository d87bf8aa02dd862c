SPECIFICATION Spec
CONSTANTS
    PAGE_SIZE_WORDS = 4
    MAX_PAGE_COUNT = 4
    Word = {0, 1}
    Touched = {1, 3, 6}
    RangeData <- MCRangeData
INVARIANTS
    TypeOK
    LastPageResident
    InvalidPageInvalidBranch
    HashesFresh
PROPERTY
    FlatMemorySpec
