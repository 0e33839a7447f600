SPECIFICATION Spec
CONSTANTS
    TypeOrder <- Order
    Decimals = {"0", "1", "7", "8", "1000"}
    Themes <- AllThemes
    Vectors <- AllVectors
INVARIANTS
    Unanimous
    OrderFree
    EvidenceKept
    NothingBorrowed
    ClaimsOnEvidence
    TransitionFaithful
    ArgvExact
CHECK_DEADLOCK FALSE
