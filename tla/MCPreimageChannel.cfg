SPECIFICATION Spec
CONSTANTS
    Hints = {"h0", "h1"}
    Keys = {"k0", "k1"}
    Size <- MCSize
    HeaderSize = 2
    KeySize = 2
    Capacity = 3
    HoldServerEnds = FALSE
    MaxOps = 5
INVARIANTS
    AnswerMatchesKey
    HintHandledFirst
    NoTornPrefix
    QuietBetweenCalls
PROPERTIES
    ImplementsService
    CallsReturn
    ServerDrains
    ExitReleasesClient
CHECK_DEADLOCK FALSE
