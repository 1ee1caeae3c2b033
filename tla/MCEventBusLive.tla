--------------------------- MODULE MCEventBusLive ---------------------------
(***************************************************************************)
(* Three events compete for one required sink that delivers one at a time. *)
(***************************************************************************)
EXTENDS EventBus, TLC

CONSTANTS e1, e2, e3, hook, t1

MCTenantOf == [e \in Events |-> t1]
MCBytes == [e \in Events |-> 1]
MCMaxCount == [s \in Sinks |-> 3]
MCConcurrency == [s \in Sinks |-> 1]
MCMaxAttempts == [s \in Sinks |-> 1]
MCInitialRoutes == <<[tenant |-> AllTenants, sinks |-> <<hook>>]>>
=============================================================================
