\* Every small document of each format, and a cancellation at every await.
SPECIFICATION Spec
CONSTANTS
    SegmentTarget = 4
    MaxTags = 4
    MaxItems = 3
    MaxRows = 2
    MaxCells = 2
    MaxLines = 5
    Documents <- SmallDocuments
INVARIANTS
    TypeOK
    TextIsDelivered
    LinesAreKept
    SegmentsAreCut
    ClosedBeforeRemoved
PROPERTY
    EverythingIsReleased
CHECK_DEADLOCK FALSE
