SPECIFICATION Spec
CONSTANTS
    StartSteps = {1}
    ExitSteps = {1, 3, 4}
    StopAt <- MCStopAt
    ProofAt <- MCProofAt
    SnapshotAt <- MCSnapshotAt
    ProofFormats = {"none", "numbered"}
    SnapshotFormats = {"none", "fixed"}
    Outputs = {"none", "file"}
    CheckEvery = 2
    HasServer = TRUE
    FitsBuffer = FALSE
INVARIANTS
    TypeOK
    OutputsWritten
    StopsWhereAsked
    ServerExitNoticed
PROPERTY
    RunEnds
CHECK_DEADLOCK FALSE
