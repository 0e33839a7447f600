CONSTANTS
    Writer = {p, q}
    None = None
    MaxEvents = 2
    MaxFiles = 2
    MaxLines = 3
    MaxPowerFailures = 1
SPECIFICATION Spec
SYMMETRY Symmetry
INVARIANTS
    TornOnlyLast
    AckedDurable
    NoHole
