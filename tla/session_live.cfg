SPECIFICATION FairSpec
CONSTANTS
    NFiles = 1
    Chunks = 0
    Window = 1
    Stubborn <- NoFiles
PROPERTIES
    SenderEnds
    ReceiverEnds
CHECK_DEADLOCK FALSE
