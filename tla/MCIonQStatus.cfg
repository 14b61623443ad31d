CONSTANTS
    Routes <- MCRoutes
SPECIFICATION IonQSpec
INVARIANTS
    UnknownStatusCancelled
CHECK_DEADLOCK FALSE
