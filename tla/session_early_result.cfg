SPECIFICATION Spec
CONSTANTS
    NFiles = 1
    Chunks = 1
    Window = 2
    Stubborn <- NoFiles
INVARIANTS
    EarlyResultMeansCompleted
CHECK_DEADLOCK FALSE
