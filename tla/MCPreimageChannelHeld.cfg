SPECIFICATION Spec
CONSTANTS
    Hints = {"h0", "h1"}
    Keys = {"k0", "k1"}
    Size <- MCSize
    HeaderSize = 2
    KeySize = 2
    Capacity = 3
    HoldServerEnds = TRUE
    MaxOps = 3
PROPERTY
    ExitReleasesClient
CHECK_DEADLOCK FALSE
