CONSTANTS
    Retained = 2
    MaxGen = 3
    MaxPieces = 2
    MaxCuts = 0
    MaxCrashes = 0
SPECIFICATION Spec
PROPERTIES
    LosslessScope
