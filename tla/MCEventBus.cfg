SPECIFICATION Spec
CONSTANTS
  e1 = e1
  e2 = e2
  hook = hook
  audit = audit
  t1 = t1
  t2 = t2
  AllTenants = AllTenants
  Events = {e1, e2}
  Tenants = {t1, t2}
  Sinks = {hook, audit}
  RequiredSinks = {hook}
  TenantOf <- MCTenantOf
  Bytes <- MCBytes
  MaxCount <- MCMaxCount
  MaxBytes <- MCMaxBytes
  Concurrency <- MCConcurrency
  MaxAttempts <- MCMaxAttempts
  GlobalMaxCount = 2
  GlobalMaxBytes = 3
  TenantMaxCount = 1
  TenantMaxBytes = 2
  MaxFanout = 2
  MaxSinksPerTenant = 2
  MaxRoutes = 2
  InitialRoutes <- MCInitialRoutes
  RouteUpdates <- MCRouteUpdates
  RestoreBatches <- MCRestoreBatches
  MaxRevision = 1
INVARIANTS Accounting OneLanePerDelivery SnapshotRestorable SnapshotKeepsAttempts
\* Stopped workers and a closed gate leave the bus at rest.
PROPERTIES ContractSpec
CHECK_DEADLOCK FALSE
