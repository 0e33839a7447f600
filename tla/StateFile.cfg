CONSTANTS
    Process = {p, q}
    None = None
    MaxLines = 2
    MaxEnds = 1
    MaxDeaths = 2
    MaxInodes = 2
SPECIFICATION Spec
INVARIANTS
    OneCollector
    NeverAhead
    AnsweredSurvives
    LeftoversBounded
PROPERTIES
    AtomicReplacement
    SavedAtLast
