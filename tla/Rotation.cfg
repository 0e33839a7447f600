CONSTANTS
    Retained = 2
    MaxGen = 3
    MaxPieces = 2
    MaxCuts = 1
    MaxCrashes = 1
SPECIFICATION Spec
INVARIANTS
    NothingSkipped
    NothingJumped
    PositionIsBoundary
PROPERTIES
    GapHasCause
    CatchesUp
