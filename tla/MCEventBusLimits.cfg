SPECIFICATION Spec
CONSTANTS
  e1 = e1
  e2 = e2
  e3 = e3
  hook = hook
  audit = audit
  t1 = t1
  t2 = t2
  AllTenants = AllTenants
  Events = {e1, e2, e3}
  Tenants = {t1, t2}
  Sinks = {hook, audit}
  RequiredSinks = {hook}
  TenantOf <- MCTenantOf
  Bytes <- MCBytes
  MaxCount <- MCMaxCount
  MaxBytes <- MCMaxBytes
  Concurrency <- MCConcurrency
  MaxAttempts <- MCMaxAttempts
  GlobalMaxCount = 2
  GlobalMaxBytes = 3
  TenantMaxCount = 2
  TenantMaxBytes = 2
  MaxFanout = 2
  MaxSinksPerTenant = 2
  MaxRoutes = 2
  InitialRoutes <- MCInitialRoutes
  RouteUpdates = {}
  RestoreBatches <- MCRestoreBatches
  MaxRevision = 0
INVARIANTS WithinLimits RequiredNeverDropped
\* Stopped workers and a closed gate leave the bus at rest.
CHECK_DEADLOCK FALSE
