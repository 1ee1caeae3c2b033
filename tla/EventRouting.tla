---------------------------- MODULE EventRouting ----------------------------
(***************************************************************************)
(* Routing tables of the event bus (runtime/src/event.rs, compile_routes   *)
(* and CompiledRoutes).  A route sends the events of one tenant, or of all *)
(* tenants, to a list of sinks.                                            *)
(***************************************************************************)
EXTENDS Naturals, Sequences, FiniteSets

CONSTANTS
  Tenants, Sinks,      \* tenant ids, sink ids of the bus
  AllTenants,          \* RouteDefinition.tenant = None
  MaxFanout,           \* Limits.max_fanout_per_event
  MaxSinksPerTenant,   \* Limits.max_sinks_per_tenant
  MaxRoutes            \* Limits.max_routing_filters

ASSUME RoutingConstants ==
  /\ AllTenants \notin Tenants
  /\ {MaxFanout, MaxSinksPerTenant, MaxRoutes} \subseteq Nat

SinkIds(s) == {s[i] : i \in 1..Len(s)}

RouteDefinition ==
  [tenant : Tenants \cup {AllTenants}, sinks : Seq(Sinks)]

FanoutFits(n) == n <= MaxFanout /\ n <= MaxSinksPerTenant

RoutesFor(defs, t) ==
  UNION {SinkIds(defs[i].sinks) : i \in {j \in 1..Len(defs) : defs[j].tenant = t}}

\* A route's own list: not empty, no duplicate and within the fan-out.
RouteValid(r) ==
  /\ r.sinks # <<>>
  /\ FanoutFits(Len(r.sinks))
  /\ Cardinality(SinkIds(r.sinks)) = Len(r.sinks)
  /\ SinkIds(r.sinks) \subseteq Sinks

NamedTenants(defs) == {defs[i].tenant : i \in 1..Len(defs)} \ {AllTenants}

EffectiveSinks(defs, t) == RoutesFor(defs, t) \cup RoutesFor(defs, AllTenants)

\* The global routes alone, and each tenant's routes joined with them.
FanoutBounded(defs) ==
  /\ FanoutFits(Cardinality(RoutesFor(defs, AllTenants)))
  /\ \A t \in NamedTenants(defs) : FanoutFits(Cardinality(EffectiveSinks(defs, t)))

RoutesValid(defs) ==
  /\ defs # <<>> /\ Len(defs) <= MaxRoutes
  /\ \A i \in 1..Len(defs) : RouteValid(defs[i])
  /\ FanoutBounded(defs)

\* compile_routes: tenants without a route of their own are not in the table.
CompileRoutes(defs) ==
  [global  |-> RoutesFor(defs, AllTenants),
   tenants |-> [t \in NamedTenants(defs) |-> EffectiveSinks(defs, t)]]

\* CompiledRoutes::for_tenant
ForTenant(table, t) ==
  IF t \in DOMAIN table.tenants THEN table.tenants[t] ELSE table.global
=============================================================================
