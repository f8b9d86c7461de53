SPECIFICATION Spec
CONSTANTS
    NFiles = 2
    Chunks = 1
    Window = 1
    Stubborn <- FirstFile
INVARIANTS
    TypeOK
    CompletedMeansDelivered
    PublishedOnlyAsVerifiedBatch
    DiskNeedsConsent
    EndedBatchIsAllOrNothing
    OutcomeIsShown
    BlameIsReal
PROPERTIES
    CommitIsFinal
    ImplementsHandover
CHECK_DEADLOCK FALSE
