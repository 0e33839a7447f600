SPECIFICATION DSpec
CONSTANTS
    i1 = i1
    i2 = i2
    None = None
    Id = {i1, i2}
    Node = {}
    AuditTimeOf <- NoAuditTime
    IdBytes <- Ones
    NodeBytes <- NoNodes
    Lines <- CrashLines
    MaxPendingEvents = 2
    MaxRecordsPerEvent = 2
    MaxPendingBytes = 3
    Timeout = 1
    OneMinute = 2
    MaxLines = 2
    LastArrival = 1
    MaxNow = 2
    MaxCrashes = 1
    MaxShutdowns = 1
PROPERTY
    EventuallyDurable
