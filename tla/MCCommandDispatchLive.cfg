SPECIFICATION CommandsLive
CONSTANTS
    d1 = d1
    p1 = p1
    p2 = p2
    p3 = p3
    Devices = {d1}
    Tenants = {"t"}
    TenantOf <- MCTenantOf
    Senders <- MCSenders
    MaxConnections = 1
    MaxConnectionsPerTenant = 1
    MaxDevices = 1
    MaxPending = 2
    MaxPendingPerTenant = 2
    MaxPendingPerDevice = 2
    MaxQueued = 1
    PresenceTtl = 5
    MaxGeneration = 1
    MaxTime = 1
    Ids = {"i", "j"}
    IdOf <- OwnId
    PrintOf <- SamePrint
    TargetOf <- MCTargetOf
    ExpiryOf <- NoExpiries
    CommandTtl = 1
    Retention = 1
    MaxEntries = 1
PROPERTIES
    EveryCallReturns
    QueuedResolves
