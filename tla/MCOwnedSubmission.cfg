CONSTANTS
    None = None
    MaxExec <- MCMaxExec
SPECIFICATION FairSpec
INVARIANTS
    UnsentStaysUnsent
    ReplyNotLost
PROPERTIES
    InterruptionEnds
