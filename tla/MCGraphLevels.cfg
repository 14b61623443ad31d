CONSTANTS
    a = a
    b = b
    c = c
    Nil = Nil
    Node <- MCNode
    Foreign = c
    MaxCalls = 2
    MaxWraps = 2
    ResultWraps <- MCResultWraps
SYMMETRY MCOwn
SPECIFICATION CaptureSpec
INVARIANTS
    LevelsAreEarliest
    CycleIsReal
    ValuesArrive
