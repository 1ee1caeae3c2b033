------------------------------ MODULE Sessions ------------------------------
(***************************************************************************)
(* The live session registry (runtime sessions.rs) and the connection task *)
(* that owns each session's lease and the receiving end of its command     *)
(* channel (transports tcp.rs).                                            *)
(*                                                                         *)
(* A session is named by its generation, the number register_with gives    *)
(* it.  Every method that takes the registry lock is one step.  What runs  *)
(* outside it is split: a sender clones an endpoint under the lock, looks  *)
(* at its cancel token, and only then reserves slots and sends; a          *)
(* connection task drops its receiver before its lease.                    *)
(*                                                                         *)
(* The tenant slots are reference counted in the code: the tenant entry    *)
(* holds a weak reference, endpoints and queued commands strong ones, and  *)
(* a registration that finds no live semaphore makes a new one.  slotsOf   *)
(* names the semaphore an endpoint holds by the generation that made it.   *)
(* The byte budgets are kept beside the slots in the same way and are      *)
(* represented by them.                                                    *)
(***************************************************************************)
EXTENDS Integers, FiniteSets, Sequences

CONSTANTS
    Devices, Tenants, TenantOf,
    Senders,              \* callers that dispatch commands, one at a time each
    MaxConnections, MaxConnectionsPerTenant, MaxDevices,
    MaxPending, MaxPendingPerTenant, MaxPendingPerDevice, MaxQueued,
    PresenceTtl,
    MaxGeneration,        \* bound: registrations in a behaviour
    MaxTime               \* bound: the clock

ASSUME SessionConstants ==
    /\ TenantOf \in [Devices -> Tenants]
    /\ IsFiniteSet(Devices) /\ IsFiniteSet(Tenants) /\ IsFiniteSet(Senders)
    /\ 0 \notin Senders /\ 0 \notin Devices
    /\ {MaxConnections, MaxConnectionsPerTenant, MaxDevices, MaxPending,
        MaxPendingPerTenant, MaxPendingPerDevice, MaxQueued, PresenceTtl,
        MaxGeneration, MaxTime} \subseteq Nat

VARIABLES
    generation,   \* SessionState.generation
    sessions,     \* device -> generation of its live session, 0 when none
    ordered,      \* ordered_sessions
    tenants,      \* tenant -> its TenantState
    presence,     \* device -> its Presence
    now,          \* now_ms()
    deviceOf,     \* generation -> the device it was registered for
    slotsOf,      \* generation -> the tenant semaphore its endpoint holds
    ready,        \* generations whose CommandAdmission.ready is set
    cancelled,    \* generations whose token is cancelled
    task,         \* generation -> state of its connection task
    queue,        \* generation -> commands in its channel, by sender
    writing,      \* generation -> the command its task holds, 0 when none
    handle        \* sender -> the endpoint it cloned and how far it got

registry == <<generation, sessions, ordered, tenants, presence, deviceOf, slotsOf>>
channels == <<queue, writing, handle>>
sessionVars == <<registry, now, ready, cancelled, task, channels>>

Generations == 1..MaxGeneration
NoHandle == [generation |-> 0, step |-> "idle"]
NoPresence == [state |-> "absent", generation |-> 0, seen |-> 0]
NoTenant == [here |-> FALSE, connections |-> 0, slots |-> 0]

Live == {d \in Devices : sessions[d] # 0}
LiveOf(t) == {d \in Live : TenantOf[d] = t}
Known == {d \in Devices : presence[d].state # "absent"}

(***************************************************************************)
(* Reference counts of the tenant semaphores.  A command in a channel or   *)
(* in a task's hands owns a permit, which owns the semaphore.              *)
(***************************************************************************)
Commands(g) ==
    {queue[g][i] : i \in 1..Len(queue[g])} \cup (IF writing[g] = 0 THEN {} ELSE {writing[g]})

Outstanding(g) == Cardinality(Commands(g))

CommandsOn(slots) == UNION {Commands(g) : g \in {h \in Generations : slotsOf[h] = slots}}

Strong(slots) ==
    /\ slots # 0
    /\ \/ \E d \in Live : slotsOf[sessions[d]] = slots
       \/ \E p \in Senders : handle[p].generation # 0 /\ slotsOf[handle[p].generation] = slots
       \/ CommandsOn(slots) # {}

-----------------------------------------------------------------------------
(***************************************************************************)
(* The presence table.                                                     *)
(***************************************************************************)
Stale(entry) == entry.state = "offline" /\ entry.seen < now - PresenceTtl

Pruned(table) ==
    [d \in Devices |-> IF Stale(table[d]) THEN NoPresence ELSE table[d]]

OldestOffline(table) ==
    {d \in Devices : /\ table[d].state = "offline"
                     /\ \A e \in Devices :
                           table[e].state = "offline" => table[d].seen <= table[e].seen}

Size(table) == Cardinality({d \in Devices : table[d].state # "absent"})

\* Mutant: the oldest entry is evicted whether or not it is connected.
PresenceSlotsAnyOldest(table, d) ==
    LET pruned == Pruned(table)
    IN  IF table[d].state # "absent" \/ Size(table) < MaxDevices THEN {table}
        ELSE IF Size(pruned) < MaxDevices THEN {pruned}
        ELSE {[pruned EXCEPT ![o] = NoPresence] :
                 o \in {e \in Devices : \A f \in Devices : pruned[e].seen <= pruned[f].seen}}

\* The tables ensure_presence_slot may leave for device d; none when it fails.
PresenceSlots(table, d) ==
    LET pruned == Pruned(table)
    IN  IF table[d].state # "absent" \/ Size(table) < MaxDevices THEN {table}
        ELSE IF Size(pruned) < MaxDevices THEN {pruned}
        ELSE {[pruned EXCEPT ![o] = NoPresence] : o \in OldestOffline(pruned)}

\* The tenant table after the prune of a registration that needs a new entry.
TenantsIfFull(t) ==
    IF tenants[t].here \/ Cardinality({u \in Tenants : tenants[u].here}) < MaxDevices
    THEN tenants
    ELSE [u \in Tenants |-> IF tenants[u].connections > 0 \/ Strong(tenants[u].slots)
                            THEN tenants[u] ELSE NoTenant]

-----------------------------------------------------------------------------
SessionsInit ==
    /\ generation = 0
    /\ sessions = [d \in Devices |-> 0]
    /\ ordered = {}
    /\ tenants = [t \in Tenants |-> NoTenant]
    /\ presence = [d \in Devices |-> NoPresence]
    /\ now = 0
    /\ deviceOf = [g \in Generations |-> 0]
    /\ slotsOf = [g \in Generations |-> 0]
    /\ ready = {}
    /\ cancelled = {}
    /\ task = [g \in Generations |-> "none"]
    /\ queue = [g \in Generations |-> << >>]
    /\ writing = [g \in Generations |-> 0]
    /\ handle = [p \in Senders |-> NoHandle]

-----------------------------------------------------------------------------
(***************************************************************************)
(* register_with.  The transport's finalize callback may refuse.  A        *)
(* refusal after the presence and tenant tables were trimmed leaves them   *)
(* trimmed.                                                                *)
(***************************************************************************)
RoomFor(d) == sessions[d] # 0 \/ Cardinality(Live) < MaxConnections

TenantAdmits(table, d) ==
    LET t == TenantOf[d]
    IN  /\ table[t].here \/ Cardinality({u \in Tenants : table[u].here}) < MaxDevices
        /\ sessions[d] # 0 \/ table[t].connections < MaxConnectionsPerTenant

\* Mutant: a takeover is counted as one more connection of its tenant.
JoinedTwice(table, d, g) ==
    LET t == TenantOf[d]
    IN  [table EXCEPT ![t] =
            [here |-> TRUE, connections |-> @.connections + 1,
             slots |-> IF Strong(@.slots) THEN @.slots ELSE g]]

\* Mutant: every registration makes its tenant a new semaphore.
JoinedFreshSlots(table, d, g) ==
    LET t == TenantOf[d]
    IN  [table EXCEPT ![t] =
            [here |-> TRUE,
             connections |-> @.connections + (IF sessions[d] = 0 THEN 1 ELSE 0),
             slots |-> g]]

Joined(table, d, g) ==
    LET t == TenantOf[d]
    IN  [table EXCEPT ![t] =
            [here |-> TRUE,
             connections |-> @.connections + (IF sessions[d] = 0 THEN 1 ELSE 0),
             slots |-> IF Strong(@.slots) THEN @.slots ELSE g]]

Register(d, tcp) ==
    LET g == generation + 1
        table == TenantsIfFull(TenantOf[d])
    IN  /\ g \in Generations
        /\ RoomFor(d)
        /\ \E slots \in PresenceSlots(presence, d) :
              presence' = [slots EXCEPT ![d] =
                              [state |-> "connected", generation |-> g, seen |-> now]]
        /\ TenantAdmits(table, d)
        /\ tenants' = Joined(table, d, g)
        /\ generation' = g
        /\ sessions' = [sessions EXCEPT ![d] = g]
        /\ ordered' = ordered \cup {d}
        /\ deviceOf' = [deviceOf EXCEPT ![g] = d]
        /\ slotsOf' = [slotsOf EXCEPT ![g] = tenants'[TenantOf[d]].slots]
        /\ ready' = IF tcp THEN ready \cup {g} ELSE ready
        /\ cancelled' = cancelled \cup ({sessions[d]} \ {0})
        /\ task' = [task EXCEPT ![g] = "open"]
        /\ UNCHANGED <<now, channels>>

RegisterRefused(d) ==
    /\ RoomFor(d)
    /\ presence' \in PresenceSlots(presence, d)
    /\ tenants' = TenantsIfFull(TenantOf[d])
    /\ UNCHANGED <<generation, sessions, ordered, deviceOf, slotsOf, now, ready,
                   cancelled, task, channels>>

\* disconnect and disconnect_matching: the sessions of the devices in D.
Disconnect(D) ==
    /\ cancelled' = cancelled \cup {sessions[d] : d \in D \cap Live}
    /\ UNCHANGED <<registry, now, ready, task, channels>>

Touch(d) ==
    /\ LET kept == [presence EXCEPT ![d] = IF Stale(@) THEN NoPresence ELSE @]
       IN  IF kept[d].state # "absent"
           THEN presence' = [presence EXCEPT ![d].seen = now]
           ELSE \/ \E slots \in PresenceSlots(kept, d) :
                      presence' = [slots EXCEPT ![d] =
                                      [state |-> "offline", generation |-> 0, seen |-> now]]
                \/ /\ PresenceSlots(kept, d) = {}
                   /\ presence' = kept
    /\ UNCHANGED <<generation, sessions, ordered, tenants, deviceOf, slotsOf, now,
                   ready, cancelled, task, channels>>

\* presence and connection prune one entry, registry_counts the whole table.
ReadPresence(D) ==
    /\ presence' = [d \in Devices |-> IF d \in D THEN Pruned(presence)[d] ELSE presence[d]]
    /\ UNCHANGED <<generation, sessions, ordered, tenants, deviceOf, slotsOf, now,
                   ready, cancelled, task, channels>>

\* set_command_ready by the holder of lease g.
SetCommandReady(g, value) ==
    /\ task[g] = "open"
    /\ sessions[deviceOf[g]] = g
    /\ ready' = IF value THEN ready \cup {g} ELSE ready \ {g}
    /\ UNCHANGED <<registry, now, cancelled, task, channels>>

-----------------------------------------------------------------------------
(***************************************************************************)
(* The sender: lookup and the ready check, the token check, the reserving  *)
(* of slots and try_send.  A sender stands for the command it sends, so it *)
(* starts again only when that command has left its channel.               *)
(***************************************************************************)
Busy == UNION {Commands(g) : g \in Generations}

Lookup(p, d) ==
    /\ handle[p] = NoHandle
    /\ p \notin Busy
    /\ d \in Live
    /\ sessions[d] \in ready
    /\ handle' = [handle EXCEPT ![p] = [generation |-> sessions[d], step |-> "cloned"]]
    /\ UNCHANGED <<registry, now, ready, cancelled, task, queue, writing>>

CheckCancel(p) ==
    /\ handle[p].step = "cloned"
    /\ handle[p].generation \notin cancelled
    /\ handle' = [handle EXCEPT ![p].step = "checked"]
    /\ UNCHANGED <<registry, now, ready, cancelled, task, queue, writing>>

HasSlots(g) ==
    /\ Outstanding(g) < MaxPendingPerDevice
    /\ Cardinality(CommandsOn(slotsOf[g])) < MaxPendingPerTenant
    /\ Cardinality(Busy) < MaxPending

TrySend(p) ==
    LET g == handle[p].generation
    IN  /\ handle[p].step = "checked"
        /\ HasSlots(g)
        /\ task[g] = "open"
        /\ Len(queue[g]) < MaxQueued
        /\ queue' = [queue EXCEPT ![g] = Append(@, p)]
        /\ handle' = [handle EXCEPT ![p] = NoHandle]
        /\ UNCHANGED <<registry, now, ready, cancelled, task, writing>>

-----------------------------------------------------------------------------
(***************************************************************************)
(* The connection task.                                                    *)
(***************************************************************************)
Receive(g) ==
    /\ task[g] = "open"
    /\ writing[g] = 0
    /\ queue[g] # << >>
    /\ writing' = [writing EXCEPT ![g] = Head(queue[g])]
    /\ queue' = [queue EXCEPT ![g] = Tail(@)]
    /\ UNCHANGED <<registry, now, ready, cancelled, task, handle>>

\* The item goes out of scope at the end of the select arm.
FinishWrite(g) ==
    /\ writing[g] # 0
    /\ writing' = [writing EXCEPT ![g] = 0]
    /\ UNCHANGED <<registry, now, ready, cancelled, task, queue, handle>>

\* The task leaves its loop: cancelled, stopped, peer gone, write failed.
CloseChannel(g) ==
    /\ task[g] = "open"
    /\ task' = [task EXCEPT ![g] = "closed"]
    /\ queue' = [queue EXCEPT ![g] = << >>]
    /\ writing' = [writing EXCEPT ![g] = 0]
    /\ UNCHANGED <<registry, now, ready, cancelled, handle>>

\* Mutant: the lease removes whatever session its device has.
DropLeaseUnfenced(g) ==
    LET d == deviceOf[g]
    IN  /\ task[g] = "closed"
        /\ task' = [task EXCEPT ![g] = "gone"]
        /\ sessions' = [sessions EXCEPT ![d] = 0]
        /\ ordered' = ordered \ {d}
        /\ cancelled' = cancelled \cup {g}
        /\ tenants' = [tenants EXCEPT ![TenantOf[d]].connections = IF @ = 0 THEN 0 ELSE @ - 1]
        /\ presence' = [presence EXCEPT ![d] =
                           [state |-> "offline", generation |-> 0, seen |-> now]]
        /\ UNCHANGED <<generation, deviceOf, slotsOf, now, ready, channels>>

\* Mutant: a lease whose token was cancelled leaves the clean-up to others.
DropLeaseIfUncancelled(g) ==
    LET d == deviceOf[g]
    IN  /\ task[g] = "closed"
        /\ task' = [task EXCEPT ![g] = "gone"]
        /\ IF sessions[d] = g /\ g \notin cancelled
           THEN /\ sessions' = [sessions EXCEPT ![d] = 0]
                /\ ordered' = ordered \ {d}
                /\ cancelled' = cancelled \cup {g}
                /\ tenants' = [tenants EXCEPT ![TenantOf[d]].connections =
                                  IF @ = 0 THEN 0 ELSE @ - 1]
                /\ presence' = [presence EXCEPT ![d] =
                                   [state |-> "offline", generation |-> 0, seen |-> now]]
           ELSE UNCHANGED <<sessions, ordered, cancelled, tenants, presence>>
        /\ UNCHANGED <<generation, deviceOf, slotsOf, now, ready, channels>>

DropLease(g) ==
    LET d == deviceOf[g]
    IN  /\ task[g] = "closed"
        /\ task' = [task EXCEPT ![g] = "gone"]
        /\ \/ /\ sessions[d] = g
              /\ sessions' = [sessions EXCEPT ![d] = 0]
              /\ ordered' = ordered \ {d}
              /\ cancelled' = cancelled \cup {g}
              /\ tenants' = [tenants EXCEPT ![TenantOf[d]].connections =
                                IF @ = 0 THEN 0 ELSE @ - 1]
              /\ presence' = [presence EXCEPT ![d] =
                                 IF @.state = "absent" THEN @
                                 ELSE [state |-> "offline", generation |-> 0, seen |-> now]]
           \/ /\ sessions[d] # g
              /\ UNCHANGED <<sessions, ordered, cancelled, tenants, presence>>
        /\ UNCHANGED <<generation, deviceOf, slotsOf, now, ready, channels>>

Tick ==
    /\ now < MaxTime
    /\ now' = now + 1
    /\ UNCHANGED <<registry, ready, cancelled, task, channels>>

-----------------------------------------------------------------------------
\* What the control plane selects: one device, a tenant's devices, or all.
Selections ==
    {{d} : d \in Devices} \cup {{d \in Devices : TenantOf[d] = t} : t \in Tenants} \cup {Devices}

\* The registry and its connection tasks; CommandDispatch adds the senders.
Next ==
    \/ \E d \in Devices, tcp \in BOOLEAN : Register(d, tcp)
    \/ \E d \in Devices : RegisterRefused(d)
    \/ \E D \in Selections : Disconnect(D)
    \/ \E d \in Devices : Touch(d)
    \/ \E D \in Selections : ReadPresence(D)
    \/ \E g \in Generations, value \in BOOLEAN : SetCommandReady(g, value)
    \/ \E g \in Generations : CloseChannel(g)
    \/ \E g \in Generations : DropLease(g)
    \/ Tick

Spec == SessionsInit /\ [][Next]_sessionVars

(***************************************************************************)
(* A task polls its cancel token before anything else, and its writes are  *)
(* timed, so a cancelled task ends; dropping the lease is its last step.   *)
(***************************************************************************)
LiveSpec ==
    /\ Spec
    /\ \A g \in Generations :
          /\ WF_sessionVars(g \in cancelled /\ CloseChannel(g))
          /\ WF_sessionVars(DropLease(g))

-----------------------------------------------------------------------------
\* The variables stay in their types.
SessionsTypeOK ==
    /\ generation \in 0..MaxGeneration
    /\ sessions \in [Devices -> 0..MaxGeneration]
    /\ ordered \subseteq Devices
    /\ tenants \in [Tenants -> [here : BOOLEAN, connections : Nat, slots : 0..MaxGeneration]]
    /\ presence \in [Devices -> [state : {"absent", "offline", "connected"},
                                 generation : 0..MaxGeneration, seen : Nat]]
    /\ now \in Nat
    /\ deviceOf \in [Generations -> Devices \cup {0}]
    /\ slotsOf \in [Generations -> 0..MaxGeneration]
    /\ ready \subseteq Generations
    /\ cancelled \subseteq Generations
    /\ task \in [Generations -> {"none", "open", "closed", "gone"}]
    /\ queue \in [Generations -> Seq(Senders)]
    /\ writing \in [Generations -> Senders \cup {0}]
    /\ handle \in [Senders -> [generation : 0..MaxGeneration,
                               step : {"idle", "cloned", "checked"}]]

\* One owner per device: whatever takeovers and late lease drops interleave, a
\* task whose token is not cancelled owns the registered session of its device,
\* and a registered session still has the task that will remove it.
OneLiveOwner ==
    \A g \in Generations :
       /\ task[g] \in {"open", "closed"} /\ g \notin cancelled => sessions[deviceOf[g]] = g
       /\ \A d \in Devices :
             sessions[d] = g => deviceOf[g] = d /\ task[g] \in {"open", "closed"}

\* The presence table tells the truth about live sessions: a device is shown as
\* connected, with that generation, exactly while the registry holds its session,
\* through takeovers, evictions at max_devices and expiry.
PresenceTruthful ==
    \A d \in Devices :
       /\ presence[d].state = "connected" <=> sessions[d] # 0
       /\ presence[d].generation = sessions[d]

\* The derived tables agree with the sessions and respect their limits: the
\* ordered index lists exactly the live devices, a tenant's count is the number of
\* its live sessions, and connections, tenants and presence stay within bounds.
RegistryExact ==
    /\ ordered = Live
    /\ \A t \in Tenants :
          /\ tenants[t].connections = Cardinality(LiveOf(t))
          /\ tenants[t].connections <= MaxConnectionsPerTenant
          /\ LiveOf(t) # {} => tenants[t].here
    /\ Cardinality(Live) <= MaxConnections
    /\ Cardinality(Known) <= MaxDevices
    /\ Cardinality({t \in Tenants : tenants[t].here}) <= MaxDevices

\* A tenant never has more commands outstanding than its limit, over all its
\* connections old and new: a takeover does not hand out a second set of slots
\* while the task of the replaced session still holds commands of the first.
TenantSlotsHold ==
    \A t \in Tenants :
       Cardinality(UNION {Commands(g) : g \in {h \in Generations :
                             deviceOf[h] # 0 /\ TenantOf[deviceOf[h]] = t}})
          <= MaxPendingPerTenant

\* A session whose token is cancelled, by takeover or revocation, leaves the
\* registry: its device is then free or owned by a newer session.
CancelledLeaves ==
    \A g \in Generations : g \in cancelled ~> \A d \in Devices : sessions[d] # g
====
