CONSTANTS
    c1 = c1
    c2 = c2
    j1 = j1
    j2 = j2
    j3 = j3
    s1 = s1
    mine = mine
    theirs = theirs
    Nothing = Nothing
    Calls = {c1, c2}
    Executors = {"braket", "ibm", "rigetti", "qvm"}
    MaxRetained = 1
    NQpus = 2
    Shots = {3, 4}
    StartupTimeout = 3
    PollInterval = 2
    Interruptions = 3
    Jobs = {j1, j2, j3}
    Engines = {"cudaq", "lightning", "qilisdk"}
    Settings <- MCSettings
    UserToken = mine
SPECIFICATION FairSpec
INVARIANTS
    IdentityTold
    CleanupStarts
    CancelJustified
    NothingStranded
    RunsAsConfigured
    QualifiedOnce
PROPERTIES
    HandlesKept
    AbandonedReturns
