SPECIFICATION Spec
CONSTANTS
    TypeOrder <- Order
    Decimals = {"0", "1", "7", "8", "1000"}
    Themes <- SynonymThemes
    Vectors <- AllVectors
INVARIANT SynonymsUnanimous
CHECK_DEADLOCK FALSE
