CONSTANTS
    a = a
    b = b
    c = c
    None = None
    Node <- MCNode
    Inputs <- MCInputs
    MaxCrashes = 2
SPECIFICATION FairSpec
INVARIANTS
    DataflowConsistent
    NothingOpenAtEnd
    FailureIsFirst
PROPERTIES
    LevelBarrier
    ImplementsDataflow
    Terminates
    ChildrenStop
