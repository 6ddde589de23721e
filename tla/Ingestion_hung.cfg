\* A run that hangs after its first batch keeps its row out of reach of rule 3.
SPECIFICATION HangingSpec
CONSTANTS
    Docs = {d1}
    Runs = {r1}
    NoDoc = NoDoc
    MaxConcurrent = 1
    Batches = 1
    RetryAfter = 0
    UploadedMaxAge = 1
    ProcessingTimeout = 1
    BatchLimit = 1
    MaxTriggers = 1
    MaxCrashes = 1
PROPERTY HungRunFails
