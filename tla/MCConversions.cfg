CONSTANTS
    NBins = 3
    Parts = 4
    ShotNumbers = {0, 3, 5, 8}
    WordWires = 2
    Instructions <- MCInstructions
    Beginnings <- MCBeginnings
    MaxWritten = 4
    FluentGates <- MCFluentGates
    MaxApplied = 3
SPECIFICATION Spec
INVARIANTS
    ImportFaithful
    KeysFaithful
    CountsExact
