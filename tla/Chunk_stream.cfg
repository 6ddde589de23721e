\* Every document of up to MaxText units, cut into segments in every way.
SPECIFICATION Spec
CONSTANTS
    ChunkSize = 3
    ChunkOverlap = 1
    MinChunkSize = 2
    MaxSentences = 2
    MaxLines = 3
    FlushChars = 4
    MaxText <- Longest
    Lengths = {1, 3}
    NoPage = NoPage
    Kinds <- AllKinds
    Paged = {"sentence"}
    UnitsOf <- Units
    SegmentsOf <- Segments
    SeparatorOf <- Separator
INVARIANTS
    TypeOK
    ChunksAreSlices
    OnlySeparatorsAreLost
    PagesAreRight
    ChunksAdvance
    NoOversizedChunk
    FragmentsAreFolded
    HeadingsAreKept
CHECK_DEADLOCK FALSE
