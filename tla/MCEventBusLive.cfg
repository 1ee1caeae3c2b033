SPECIFICATION FairSpec
CONSTANTS
  e1 = e1
  e2 = e2
  e3 = e3
  hook = hook
  t1 = t1
  AllTenants = AllTenants
  Events = {e1, e2, e3}
  Tenants = {t1}
  Sinks = {hook}
  RequiredSinks = {hook}
  TenantOf <- MCTenantOf
  Bytes <- MCBytes
  MaxCount <- MCMaxCount
  MaxBytes <- MCMaxCount
  Concurrency <- MCConcurrency
  MaxAttempts <- MCMaxAttempts
  GlobalMaxCount = 3
  GlobalMaxBytes = 3
  TenantMaxCount = 3
  TenantMaxBytes = 3
  MaxFanout = 1
  MaxSinksPerTenant = 1
  MaxRoutes = 1
  InitialRoutes <- MCInitialRoutes
  RouteUpdates = {}
  RestoreBatches = {}
  MaxRevision = 0
PROPERTIES RequiredConfirmed
CHECK_DEADLOCK FALSE
