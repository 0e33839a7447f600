SPECIFICATION Spec
CONSTANTS
    i1 = i1
    i2 = i2
    i3 = i3
    i4 = i4
    n1 = n1
    None = None
    Id = {i1, i2, i3}
    Node = {}
    AuditTimeOf <- NoAuditTime
    IdBytes <- IdOnes
    NodeBytes <- NodeOnes
    Lines <- IsolationLines
    MaxPendingEvents = 1
    MaxRecordsPerEvent = 2
    MaxPendingBytes = 3
    Timeout = 2
    OneMinute = 2
    MaxLines = 4
    LastArrival = 2
    MaxNow = 4
INVARIANTS
    TypeOK
    LimitsHold
    NoTaintedGroup
    TaintRemembered
    ExactlyOnce
PROPERTIES
    SafeNeverRegresses
    FenceRenewal
