SPECIFICATION Spec
CONSTANTS
    i1 = i1
    i2 = i2
    i3 = i3
    i4 = i4
    n1 = n1
    None = None
    Id = {i1, i2, i3, i4}
    Node = {n1}
    AuditTimeOf <- AuditTimes
    IdBytes <- IdOnes
    NodeBytes <- NodeOnes
    Lines <- WatermarkLines
    MaxPendingEvents = 4
    MaxRecordsPerEvent = 3
    MaxPendingBytes = 9
    Timeout = 2
    OneMinute = 2
    MaxLines = 4
    LastArrival = 1
    MaxNow = 3
INVARIANTS
    WatermarkJustified
    MixedMarked
