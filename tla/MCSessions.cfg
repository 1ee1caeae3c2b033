SPECIFICATION LiveSpec
CONSTANTS
    d1 = d1
    d2 = d2
    e1 = e1
    Devices <- MCDevices
    Tenants <- MCTenants
    TenantOf <- MCTenantOf
    Senders = {}
    MaxConnections = 2
    MaxConnectionsPerTenant = 1
    MaxDevices = 2
    MaxPending = 1
    MaxPendingPerTenant = 1
    MaxPendingPerDevice = 1
    MaxQueued = 1
    PresenceTtl = 0
    MaxGeneration = 3
    MaxTime = 1
INVARIANTS
    OneLiveOwner
    PresenceTruthful
    RegistryExact
PROPERTIES
    CancelledLeaves
