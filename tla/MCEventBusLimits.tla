-------------------------- MODULE MCEventBusLimits --------------------------
(***************************************************************************)
(* The bus at its limits: three events, of which each limit (global,       *)
(* tenant, sink; count and bytes) refuses some combination.                *)
(***************************************************************************)
EXTENDS EventBus, TLC

CONSTANTS e1, e2, e3, hook, audit, t1, t2

MCTenantOf == (e1 :> t1) @@ (e2 :> t1) @@ (e3 :> t2)
MCBytes == (e1 :> 1) @@ (e2 :> 2) @@ (e3 :> 1)
MCMaxCount == (hook :> 2) @@ (audit :> 1)
MCMaxBytes == (hook :> 2) @@ (audit :> 2)
MCConcurrency == (hook :> 1) @@ (audit :> 1)
MCMaxAttempts == [s \in Sinks |-> 1]

MCInitialRoutes == <<[tenant |-> AllTenants, sinks |-> <<hook, audit>>]>>

SpoolOf(e) == [event |-> e, pending |-> {hook}, attempts |-> [s \in Sinks |-> 0]]
MCRestoreBatches == {{SpoolOf(e1), SpoolOf(e3)}, {SpoolOf(e2), SpoolOf(e3)}, {SpoolOf(e2)}}
=============================================================================
