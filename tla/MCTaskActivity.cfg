CONSTANTS
    Limit = 8
    ChunkSizes <- MCChunkSizes
    MaxBytes = 12
SPECIFICATION FairAttempt
INVARIANTS
    NoWriterLeft
    BeatsThroughout
    CancellationKept
    TailExact
PROPERTIES
    AttemptEnds
