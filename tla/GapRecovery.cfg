CONSTANTS
    None = None
    KeptIncidents = 2
    MaxLineage = 3
    MaxOffset = 2
    MaxCrashes = 3
SPECIFICATION Spec
INVARIANTS
    RestartExplained
    HistoryIsAChain
    NothingJoined
    NothingBehind
PROPERTIES
    GapRecorded
    GapsSettle
CHECK_DEADLOCK FALSE
