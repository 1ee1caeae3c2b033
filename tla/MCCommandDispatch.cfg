SPECIFICATION CommandsSpec
CONSTANTS
    d1 = d1
    p1 = p1
    p2 = p2
    p3 = p3
    Devices = {d1}
    Tenants = {"t"}
    TenantOf <- MCTenantOf
    Senders <- MCSenders
    MaxConnections = 1
    MaxConnectionsPerTenant = 1
    MaxDevices = 1
    MaxPending = 2
    MaxPendingPerTenant = 1
    MaxPendingPerDevice = 2
    MaxQueued = 1
    PresenceTtl = 5
    MaxGeneration = 2
    MaxTime = 2
    Ids = {"i"}
    IdOf <- SameId
    PrintOf <- OtherPrint
    TargetOf <- MCTargetOf
    ExpiryOf <- OneExpiry
    CommandTtl = 1
    Retention = 1
    MaxEntries = 1
INVARIANTS
    OneDispatchPerWindow
    ExpiredNeverWritten
    QueuedIsHeld
    ErrorMeansUnsent
    TenantSlotsHold
PROPERTIES
    ProgressForward
