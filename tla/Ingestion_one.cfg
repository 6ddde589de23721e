\* One document, two tasks that may meet on it.
SPECIFICATION Spec
CONSTANTS
    Docs = {d1}
    Runs = {r1, r2}
    NoDoc = NoDoc
    MaxConcurrent = 2
    Batches = 2
    RetryAfter = 0
    UploadedMaxAge = 1
    ProcessingTimeout = 1
    BatchLimit = 1
    MaxTriggers = 2
    MaxCrashes = 1
INVARIANTS
    TypeOK
    CompletedHasChunks
    GuardIsExact
    SlotsAreConserved
    ClaimedNotCompleted
PROPERTIES
    ImplementsLifecycle
    Settles
