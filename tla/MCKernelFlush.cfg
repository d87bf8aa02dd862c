SPECIFICATION Spec
CONSTANTS
    StartSteps = {1}
    ExitSteps = {1, 3, 4}
    StopAt <- MCStopAt
    ProofAt <- MCProofAt
    SnapshotAt <- MCSnapshotAt
    ProofFormats = {"none", "numbered"}
    SnapshotFormats = {"none", "fixed"}
    Outputs = {"none", "file"}
    CheckEvery = 2
    HasServer = TRUE
    FitsBuffer = TRUE
INVARIANT
    OutputsWritten
CHECK_DEADLOCK FALSE
