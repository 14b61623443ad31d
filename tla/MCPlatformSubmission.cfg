CONSTANTS
    None = None
    Durations <- MCDurations
    RetryAfters <- MCRetryAfters
    Operation <- MCOperation
    MaxCalls = 2
SPECIFICATION FairSpec
INVARIANTS
    AmbiguousNotReplayed
PROPERTIES
    CallEnds
    ImplementsAdmission
