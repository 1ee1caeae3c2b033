----------------------------- MODULE MCEventBus -----------------------------
(***************************************************************************)
(* Instances of EventBus.  Two events of two tenants and two sinks: hook   *)
(* is required, audit is best effort with room for one event, so that      *)
(* audit is skipped and hook may refuse.  Route updates move events between*)
(* sinks while deliveries are outstanding.                                 *)
(***************************************************************************)
EXTENDS EventBus, TLC

CONSTANTS e1, e2, hook, audit, t1, t2

MCTenantOf == (e1 :> t1) @@ (e2 :> t2)
MCBytes == (e1 :> 1) @@ (e2 :> 2)
MCMaxCount == (hook :> 2) @@ (audit :> 1)
MCMaxBytes == (hook :> 3) @@ (audit :> 2)
MCConcurrency == (hook :> 2) @@ (audit :> 1)
MCMaxAttempts == (hook :> 1) @@ (audit :> 2)

Route(t, s) == [tenant |-> t, sinks |-> s]
MCInitialRoutes == <<Route(AllTenants, <<hook, audit>>)>>
MCRouteUpdates == {<<Route(t1, <<audit>>), Route(AllTenants, <<hook>>)>>,
                   <<Route(t2, <<hook>>)>>,
                   <<Route(t1, <<hook, hook>>)>>}

SpoolOf(e, n) == [event |-> e, pending |-> {hook},
                  attempts |-> (hook :> n) @@ (audit :> 0)]
MCRestoreBatches == {{SpoolOf(e1, 1)}, {SpoolOf(e1, 0), SpoolOf(e2, 1)},
                     {SpoolOf(e2, 0), [SpoolOf(e1, 0) EXCEPT !.pending = {audit}]}}
=============================================================================
