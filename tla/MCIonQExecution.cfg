CONSTANTS
    Routes <- MCRoutes
SPECIFICATION FairIonQ
INVARIANTS
    CancelOnlyAbandoned
PROPERTIES
    InterruptedJobCancelled
    CutWaitEnds
