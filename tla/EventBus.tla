------------------------------ MODULE EventBus ------------------------------
(***************************************************************************)
(* The bounded event bus (runtime/src/event.rs): admission of device       *)
(* events, one delivery lane per sink, retries, the sink pause, restore,   *)
(* the spool snapshot and route replacement.                               *)
(*                                                                         *)
(* Every method works under one mutex, so one method is one action; the    *)
(* interleavings are those of publishers, of one worker per sink with      *)
(* several deliveries in flight, of route updates and of shutdown.         *)
(* Metrics, timestamps and the u64 operation numbers are left out: a task  *)
(* is the operation number.  A refused call changes nothing and is not an  *)
(* action.                                                                 *)
(***************************************************************************)
EXTENDS Integers, Sequences, FiniteSets, EventRouting

CONSTANTS
  Events, TenantOf, Bytes,             \* event ids, their tenant and JSON size
  RequiredSinks,                       \* sinks in mode ConfirmedRequired
  MaxCount, MaxBytes, Concurrency, MaxAttempts,   \* SinkDefinition, per sink
  GlobalMaxCount, GlobalMaxBytes,      \* Limits.global_event_max_*
  TenantMaxCount, TenantMaxBytes,      \* Limits.event_queue_max_*_per_tenant
  InitialRoutes, RouteUpdates,         \* route lists given to the bus
  RestoreBatches,                      \* sets of spool records given to restore
  MaxRevision                          \* bound on routing revisions

ASSUME BusConstants ==
  /\ IsFiniteSet(Events) /\ IsFiniteSet(Sinks)
  /\ TenantOf \in [Events -> Tenants]
  /\ Bytes \in [Events -> Nat \ {0}]
  /\ RequiredSinks \subseteq Sinks
  /\ MaxCount \in [Sinks -> Nat \ {0}]
  /\ MaxBytes \in [Sinks -> Nat \ {0}]
  /\ Concurrency \in [Sinks -> Nat \ {0}]
  /\ \A s \in Sinks : Concurrency[s] <= MaxCount[s]
  /\ MaxAttempts \in [Sinks -> Nat \ {0}]
  /\ {GlobalMaxCount, GlobalMaxBytes, TenantMaxCount, TenantMaxBytes} \subseteq Nat
  /\ MaxRevision \in Nat
  /\ InitialRoutes \in Seq(RouteDefinition)
  /\ RouteUpdates \subseteq Seq(RouteDefinition)
  /\ RoutesValid(InitialRoutes)
  /\ RestoreBatches \subseteq
       SUBSET [event : Events, pending : SUBSET Sinks, attempts : [Sinks -> Nat]]
  /\ \A b \in RestoreBatches : IsFiniteSet(b)

VARIABLES
  accepting, workers,           \* State.accepting, EventBus.workers / stop
  routes, revision,             \* State.routes, State.routing_revision
  active, remaining, required,  \* State.active and ActiveEvent's sets
  operations, attempts,         \* ActiveEvent.operations, ActiveEvent.attempts
  ready, delayed, due,          \* SinkState.ready and .delayed; due = delayed
                                \* records whose deadline has passed, in order
  usedCount, usedBytes,         \* SinkState.used_count, SinkState.used_bytes
  inflight, tasks,              \* SinkState.inflight and run_sink's JoinSet
  failures, paused,             \* consecutive_failures, paused_until
  activeBytes, pendingRequired, \* State.active_bytes, State.pending_required
  tenantCount, tenantBytes,     \* State.tenants
  promised, acked               \* history: required sinks owed at acceptance,
                                \* sinks that have acknowledged since

controlVars == <<accepting, workers>>
routeVars   == <<routes, revision>>
eventVars   == <<active, remaining, required>>
laneVars    == <<ready, delayed, due>>
sinkUsage   == <<usedCount, usedBytes>>
healthVars  == <<failures, paused>>
totalVars   == <<activeBytes, pendingRequired, tenantCount, tenantBytes>>
historyVars == <<promised, acked>>

vars == <<controlVars, routeVars, eventVars, operations, attempts, laneVars,
          sinkUsage, inflight, tasks, healthVars, totalVars, historyVars>>

PauseThreshold == 3   \* consecutive failures that pause a required sink

Lesser(a, b) == IF a <= b THEN a ELSE b

Record(e, n) == [event |-> e, attempt |-> n]
Records == [event : Events, attempt : Nat]
Tasks == [event : Events, sink : Sinks, attempt : Nat]

Init ==
  /\ accepting = TRUE
  /\ workers = "new"
  /\ routes = CompileRoutes(InitialRoutes)
  /\ revision = 0
  /\ active = {}
  /\ remaining = [e \in Events |-> {}]
  /\ required = [e \in Events |-> {}]
  /\ operations = [e \in Events |-> {}]
  /\ attempts = [e \in Events |-> [s \in Sinks |-> 0]]
  /\ ready = [s \in Sinks |-> <<>>]
  /\ delayed = [s \in Sinks |-> {}]
  /\ due = [s \in Sinks |-> <<>>]
  /\ usedCount = [s \in Sinks |-> 0]
  /\ usedBytes = [s \in Sinks |-> 0]
  /\ inflight = [s \in Sinks |-> 0]
  /\ tasks = {}
  /\ failures = [s \in Sinks |-> 0]
  /\ paused = [s \in Sinks |-> "no"]
  /\ activeBytes = 0
  /\ pendingRequired = 0
  /\ tenantCount = [t \in Tenants |-> 0]
  /\ tenantBytes = [t \in Tenants |-> 0]
  /\ promised = [e \in Events |-> {}]
  /\ acked = [e \in Events |-> {}]


\* Total size of a set of events, counted byte by byte.
ByteSlots(E) == UNION {{e} \X (1..Bytes[e]) : e \in E}
BytesOf(E) == Cardinality(ByteSlots(E))

\* The pairs <<e, s>> with s in f[e]: responsibilities of events to sinks.
Pairs(E, f) == UNION {{e} \X f[e] : e \in E}

-----------------------------------------------------------------------------
(***************************************************************************)
(* publish                                                                 *)
(***************************************************************************)
\* Comparing the count as it is before the record is added, too late by one.
RoomAtLimit(s, e) ==
  /\ usedCount[s] <= MaxCount[s]
  /\ usedBytes[s] + Bytes[e] <= MaxBytes[s]

HasRoom(s, e) ==
  /\ usedCount[s] < MaxCount[s]
  /\ usedBytes[s] + Bytes[e] <= MaxBytes[s]

GlobalRoom(e) ==
  /\ Cardinality(active) < GlobalMaxCount
  /\ activeBytes + Bytes[e] <= GlobalMaxBytes

TenantRoom(e) ==
  /\ tenantCount[TenantOf[e]] + 1 <= TenantMaxCount
  /\ tenantBytes[TenantOf[e]] + Bytes[e] <= TenantMaxBytes

\* Skipping the preflight: a full required sink is then skipped like any other.
NoPreflight(targets, e) == TRUE

\* Every required sink is checked before the first queue is touched.
RequiredHaveRoom(targets, e) ==
  \A s \in targets \cap RequiredSinks : HasRoom(s, e)

\* One record of e's size more for each sink in S.
ChargeSinks(S, e) ==
  /\ usedCount' = [s \in Sinks |-> usedCount[s] + (IF s \in S THEN 1 ELSE 0)]
  /\ usedBytes' = [s \in Sinks |-> usedBytes[s] + (IF s \in S THEN Bytes[e] ELSE 0)]

Publish(e) ==
  LET targets   == ForTenant(routes, TenantOf[e])
      available == {s \in targets : HasRoom(s, e)}
  IN /\ accepting
     /\ e \notin active
     /\ targets # {}
     /\ GlobalRoom(e)
     /\ TenantRoom(e)
     /\ RequiredHaveRoom(targets, e)
     /\ available # {}
     /\ ready' = [s \in Sinks |-> IF s \in available THEN Append(ready[s], Record(e, 0))
                                                      ELSE ready[s]]
     /\ ChargeSinks(available, e)
     /\ active' = active \cup {e}
     /\ remaining' = [remaining EXCEPT ![e] = available]
     /\ required' = [required EXCEPT ![e] = available \cap RequiredSinks]
     /\ attempts' = [attempts EXCEPT ![e] = [s \in Sinks |-> 0]]
     /\ activeBytes' = activeBytes + Bytes[e]
     /\ pendingRequired' = pendingRequired + Cardinality(targets \cap RequiredSinks)
     /\ tenantCount' = [tenantCount EXCEPT ![TenantOf[e]] = @ + 1]
     /\ tenantBytes' = [tenantBytes EXCEPT ![TenantOf[e]] = @ + Bytes[e]]
     /\ promised' = [promised EXCEPT ![e] = targets \cap RequiredSinks]
     /\ acked' = [acked EXCEPT ![e] = {}]
     /\ UNCHANGED <<controlVars, routeVars, operations, delayed, due, inflight,
                    tasks, healthVars>>

-----------------------------------------------------------------------------
(***************************************************************************)
(* The spool snapshot and restore.  A batch is the set of records of one   *)
(* snapshot; restore checks running totals record by record, which only    *)
(* grow, so what it decides is whether the final totals are within bounds. *)
(***************************************************************************)
\* Recording every sink still to be served, best effort ones included.
SpoolRemaining(e) ==
  [event |-> e, pending |-> remaining[e], attempts |-> attempts[e]]

SpoolRecord(e) ==
  [event |-> e, pending |-> required[e], attempts |-> attempts[e]]

SpoolSnapshot == {SpoolRecord(e) : e \in {f \in active : required[f] # {}}}

BatchEvents(batch) == {r.event : r \in batch}
EventsOfTenant(E, t) == {e \in E : TenantOf[e] = t}
RecordOf(batch, e) == CHOOSE r \in batch : r.event = e
PendingAt(batch, s) == {r.event : r \in {q \in batch : s \in q.pending}}

\* What the bus holds, as far as restore's preflight looks at it.
Usage ==
  [events |-> active, bytes |-> activeBytes,
   tenantCount |-> tenantCount, tenantBytes |-> tenantBytes,
   sinkCount |-> usedCount, sinkBytes |-> usedBytes]

EmptyUsage ==
  [events |-> {}, bytes |-> 0,
   tenantCount |-> [t \in Tenants |-> 0], tenantBytes |-> [t \in Tenants |-> 0],
   sinkCount |-> [s \in Sinks |-> 0], sinkBytes |-> [s \in Sinks |-> 0]]

RecordValid(r) ==
  /\ r.pending # {}
  /\ Cardinality(r.pending) <= MaxFanout
  /\ r.pending \subseteq RequiredSinks

RestoreFits(batch, base) ==
  LET all == BatchEvents(batch)
  IN /\ Cardinality(base.events) + Cardinality(batch) <= GlobalMaxCount
     /\ \A r \in batch : RecordValid(r)
     /\ \A q, r \in batch : q.event = r.event => q = r
     /\ all \cap base.events = {}
     /\ base.bytes + BytesOf(all) <= GlobalMaxBytes
     /\ \A t \in {TenantOf[e] : e \in all} :
          /\ base.tenantCount[t] + Cardinality(EventsOfTenant(all, t)) <= TenantMaxCount
          /\ base.tenantBytes[t] + BytesOf(EventsOfTenant(all, t)) <= TenantMaxBytes
     /\ \A s \in UNION {r.pending : r \in batch} :
          /\ base.sinkCount[s] + Cardinality(PendingAt(batch, s)) <= MaxCount[s]
          /\ base.sinkBytes[s] + BytesOf(PendingAt(batch, s)) <= MaxBytes[s]

\* The records of a batch in the order in which they stand in the spool.
Orders(batch) ==
  {q \in [1..Cardinality(batch) -> batch] : \A i, j \in DOMAIN q : q[i] = q[j] => i = j}

RestoredLane(order, s) ==
  LET own == SelectSeq(order, LAMBDA r : s \in r.pending)
  IN [i \in 1..Len(own) |-> Record(own[i].event, own[i].attempts[s])]

(***************************************************************************)
(* restore admits the whole batch or nothing.  The server calls it on the  *)
(* bus built by new_paused, before the workers start.                      *)
(***************************************************************************)
Restore(batch) ==
  LET all   == BatchEvents(batch)
      pend  == [e \in all |-> RecordOf(batch, e).pending]
  IN /\ workers = "new"
     /\ batch # {}
     /\ RestoreFits(batch, Usage)
     /\ \E order \in Orders(batch) :
          ready' = [s \in Sinks |-> ready[s] \o RestoredLane(order, s)]
     /\ usedCount' = [s \in Sinks |-> usedCount[s] + Cardinality(PendingAt(batch, s))]
     /\ usedBytes' = [s \in Sinks |-> usedBytes[s] + BytesOf(PendingAt(batch, s))]
     /\ active' = active \cup all
     /\ remaining' = [e \in Events |-> IF e \in all THEN pend[e] ELSE remaining[e]]
     /\ required' = [e \in Events |-> IF e \in all THEN pend[e] ELSE required[e]]
     /\ attempts' = [e \in Events |-> IF e \in all THEN RecordOf(batch, e).attempts
                                                   ELSE attempts[e]]
     /\ activeBytes' = activeBytes + BytesOf(all)
     /\ pendingRequired' = pendingRequired + Cardinality(Pairs(all, pend))
     /\ tenantCount' = [t \in Tenants |-> tenantCount[t] + Cardinality(EventsOfTenant(all, t))]
     /\ tenantBytes' = [t \in Tenants |-> tenantBytes[t] + BytesOf(EventsOfTenant(all, t))]
     /\ promised' = [e \in Events |-> IF e \in all THEN pend[e] ELSE promised[e]]
     /\ acked' = [e \in Events |-> IF e \in all THEN {} ELSE acked[e]]
     /\ UNCHANGED <<controlVars, routeVars, operations, delayed, due, inflight,
                    tasks, healthVars>>

-----------------------------------------------------------------------------
(***************************************************************************)
(* Workers: start_workers, run_sink's filling loop and take_ready.         *)
(***************************************************************************)
StartWorkers ==
  /\ workers = "new"
  /\ workers' = "running"
  /\ UNCHANGED <<accepting, routeVars, eventVars, operations, attempts, laneVars,
                 sinkUsage, inflight, tasks, healthVars, totalVars, historyVars>>

TasksOf(s) == {t \in tasks : t.sink = s}

\* Ready work alone decides: a due retry waits for an idle slot.
DemandOnly(s) ==
  LET free == Concurrency[s] - inflight[s] - Len(ready[s])
  IN IF free < 0 THEN 0 ELSE free

\* Due retries promoted in one call: the free slots, and always at least one.
PromotionBudget(s) ==
  LET free == Concurrency[s] - inflight[s] - Len(ready[s])
  IN IF free < 1 THEN 1 ELSE free

\* paused_until is in the future, or it has passed and the probe is in flight.
HeldByPause(s) ==
  \/ paused[s] = "cooling"
  \/ paused[s] = "elapsed" /\ inflight[s] # 0

TakeReady(s) ==
  LET promoted == Lesser(PromotionBudget(s), Len(due[s]))
      lane     == ready[s] \o SubSeq(due[s], 1, promoted)
      r        == Head(lane)
  IN /\ workers = "running"
     /\ Cardinality(TasksOf(s)) < Concurrency[s]
     /\ ~HeldByPause(s)
     /\ lane # <<>>
     /\ ready' = [ready EXCEPT ![s] = Tail(lane)]
     /\ due' = [due EXCEPT ![s] = SubSeq(@, promoted + 1, Len(@))]
     /\ inflight' = [inflight EXCEPT ![s] = @ + 1]
     /\ operations' = [operations EXCEPT ![r.event] = @ \cup {s}]
     /\ tasks' = tasks \cup {[event |-> r.event, sink |-> s, attempt |-> r.attempt]}
     /\ UNCHANGED <<controlVars, routeVars, eventVars, attempts, delayed,
                    sinkUsage, healthVars, totalVars, historyVars>>

\* The deadline of a delayed record passes.
RetryDue(s, r) ==
  /\ r \in delayed[s]
  /\ delayed' = [delayed EXCEPT ![s] = @ \ {r}]
  /\ due' = [due EXCEPT ![s] = Append(@, r)]
  /\ UNCHANGED <<controlVars, routeVars, eventVars, operations, attempts, ready,
                 sinkUsage, inflight, tasks, healthVars, totalVars, historyVars>>

\* paused_until passes; it stays set until a delivery succeeds.
PauseElapses(s) ==
  /\ paused[s] = "cooling"
  /\ paused' = [paused EXCEPT ![s] = "elapsed"]
  /\ UNCHANGED <<controlVars, routeVars, eventVars, operations, attempts, laneVars,
                 sinkUsage, inflight, tasks, failures, totalVars, historyVars>>

-----------------------------------------------------------------------------
(***************************************************************************)
(* complete_detailed: the end of one delivery.  The result is the sink's   *)
(* answer; a timeout or a panic of the sink is reported as retryable.  Its *)
(* fences are the first three conjuncts.  tooOld says that max_age has     *)
(* been reached.  Attempts are counted up to MaxAttempts, failures up to   *)
(* PauseThreshold: beyond these the code makes no difference.              *)
(***************************************************************************)
Results == {"ok", "retryable", "permanent"}

NextAttempt(t) == Lesser(t.attempt + 1, MaxAttempts[t.sink])

Retries(t, result, tooOld) ==
  result = "retryable" /\ t.attempt + 1 < MaxAttempts[t.sink] /\ ~tooOld

\* Dropping what may not be retried, required or not.
RetryOnly(t, result, tooOld) == Retries(t, result, tooOld)

\* A required delivery that failed is never given up.
KeepsOwnership(t, result, tooOld) ==
  Retries(t, result, tooOld) \/ (result # "ok" /\ t.sink \in RequiredSinks)

NoteHealth(s, result) ==
  LET f == Lesser(failures[s] + 1, PauseThreshold)
      pauses == s \in RequiredSinks /\ (result = "permanent" \/ f >= PauseThreshold)
  IN /\ failures' = [failures EXCEPT ![s] = IF result = "ok" THEN 0 ELSE f]
     /\ paused' = [paused EXCEPT ![s] = IF result = "ok" THEN "no"
                                        ELSE IF pauses THEN "cooling" ELSE @]

\* The delivery leaves the lanes although it is still owed.
RequeueNowhere(t) == UNCHANGED <<delayed, eventVars, sinkUsage, totalVars>>

\* The record goes back with the attempt it came with.
RequeueSameAttempt(t) ==
  /\ delayed' = [delayed EXCEPT ![t.sink] = @ \cup {Record(t.event, t.attempt)}]
  /\ UNCHANGED <<eventVars, sinkUsage, totalVars>>

\* The record goes back to the sink's delayed queue with its attempt.
Requeue(t) ==
  /\ delayed' = [delayed EXCEPT ![t.sink] = @ \cup {Record(t.event, NextAttempt(t))}]
  /\ UNCHANGED <<eventVars, sinkUsage, totalVars>>

\* Freeing the sink's slot but not the event's share of the totals.
ForgetTotals(e) == UNCHANGED <<activeBytes, tenantCount, tenantBytes>>

\* The last responsibility of an event returns its share of the totals.
ReleaseEvent(e) ==
  /\ activeBytes' = activeBytes - Bytes[e]
  /\ tenantCount' = [tenantCount EXCEPT ![TenantOf[e]] = @ - 1]
  /\ tenantBytes' = [tenantBytes EXCEPT ![TenantOf[e]] = @ - Bytes[e]]

Release(t) ==
  LET e == t.event
      s == t.sink
  IN /\ usedCount' = [usedCount EXCEPT ![s] = @ - 1]
     /\ usedBytes' = [usedBytes EXCEPT ![s] = @ - Bytes[e]]
     /\ remaining' = [remaining EXCEPT ![e] = @ \ {s}]
     /\ required' = [required EXCEPT ![e] = @ \ {s}]
     /\ pendingRequired' = pendingRequired - (IF s \in required[e] THEN 1 ELSE 0)
     /\ IF remaining[e] = {s}
        THEN active' = active \ {e} /\ ReleaseEvent(e)
        ELSE UNCHANGED <<active, activeBytes, tenantCount, tenantBytes>>
     /\ UNCHANGED delayed

Complete(t, result, tooOld) ==
  LET e == t.event
      s == t.sink
  IN /\ e \in active /\ s \in remaining[e] /\ s \in operations[e]
     /\ ~(s \in required[e] /\ pendingRequired = 0)
     /\ workers = "running"
     /\ t \in tasks
     /\ tasks' = tasks \ {t}
     /\ inflight' = [inflight EXCEPT ![s] = @ - 1]
     /\ operations' = [operations EXCEPT ![e] = @ \ {s}]
     /\ attempts' = IF result # "ok" \/ Cardinality(remaining[e]) > 1
                    THEN [attempts EXCEPT ![e][s] = NextAttempt(t)]
                    ELSE attempts
     /\ NoteHealth(s, result)
     /\ IF KeepsOwnership(t, result, tooOld) THEN Requeue(t) ELSE Release(t)
     /\ acked' = IF result = "ok" THEN [acked EXCEPT ![e] = @ \cup {s}] ELSE acked
     /\ UNCHANGED <<controlVars, routeVars, ready, due, promised>>

-----------------------------------------------------------------------------
(***************************************************************************)
(* Control and shutdown.                                                   *)
(***************************************************************************)
ReplaceRoutes(rev, defs) ==
  /\ rev > revision
  /\ RoutesValid(defs)
  /\ routes' = CompileRoutes(defs)
  /\ revision' = rev
  /\ UNCHANGED <<controlVars, eventVars, operations, attempts, laneVars, sinkUsage,
                 inflight, tasks, healthVars, totalVars, historyVars>>

CloseAdmission ==
  /\ accepting
  /\ accepting' = FALSE
  /\ UNCHANGED <<workers, routeVars, eventVars, operations, attempts, laneVars,
                 sinkUsage, inflight, tasks, healthVars, totalVars, historyVars>>

\* stop_workers aborts every delivery; what was in flight stays owed.
StopWorkers ==
  /\ workers = "running"
  /\ workers' = "stopped"
  /\ tasks' = {}
  /\ UNCHANGED <<accepting, routeVars, eventVars, operations, attempts, laneVars,
                 sinkUsage, inflight, healthVars, totalVars, historyVars>>

Next ==
  \/ \E e \in Events : Publish(e)
  \/ \E b \in RestoreBatches : Restore(b)
  \/ StartWorkers
  \/ \E s \in Sinks : TakeReady(s) \/ PauseElapses(s)
  \/ \E s \in Sinks : \E r \in delayed[s] : RetryDue(s, r)
  \/ \E t \in tasks, result \in Results, tooOld \in BOOLEAN : Complete(t, result, tooOld)
  \/ \E rev \in 1..MaxRevision, defs \in RouteUpdates : ReplaceRoutes(rev, defs)
  \/ CloseAdmission
  \/ StopWorkers

Spec == Init /\ [][Next]_vars

(***************************************************************************)
(* Fairness: run_sink is woken by a notification, a finished delivery or a *)
(* timer whenever take_ready has something to do; timers expire; every     *)
(* delivery ends because it is under a timeout; and a sink that is asked   *)
(* again and again for the same event acknowledges it in the end.          *)
(***************************************************************************)
EndDelivery(e, s, results) ==
  \E t \in TasksOf(s), result \in results, tooOld \in BOOLEAN :
     t.event = e /\ Complete(t, result, tooOld)

Fairness ==
  \A s \in Sinks :
    /\ WF_vars(TakeReady(s))
    /\ WF_vars(PauseElapses(s))
    /\ \A e \in Events :
         /\ WF_vars(\E r \in delayed[s] : r.event = e /\ RetryDue(s, r))
         /\ WF_vars(EndDelivery(e, s, Results))
         /\ SF_vars(EndDelivery(e, s, {"ok"}))

FairSpec == Spec /\ Fairness

-----------------------------------------------------------------------------
(***************************************************************************)
(* What the bus promises of required deliveries.                           *)
(***************************************************************************)
Contract == INSTANCE RequiredDelivery WITH
  Receivers <- RequiredSinks,
  open <- accepting,
  owed <- required,
  confirmed <- [e \in Events |-> acked[e] \cap RequiredSinks]

ContractSpec == Contract!Spec

-----------------------------------------------------------------------------
(***************************************************************************)
(* Properties                                                              *)
(***************************************************************************)
\* Types of the bus state.
TypeOK ==
  /\ accepting \in BOOLEAN
  /\ workers \in {"new", "running", "stopped"}
  /\ revision \in Nat
  /\ active \subseteq Events
  /\ remaining \in [Events -> SUBSET Sinks]
  /\ required \in [Events -> SUBSET Sinks]
  /\ operations \in [Events -> SUBSET Sinks]
  /\ attempts \in [Events -> [Sinks -> Nat]]
  /\ ready \in [Sinks -> Seq(Records)]
  /\ delayed \in [Sinks -> SUBSET Records]
  /\ due \in [Sinks -> Seq(Records)]
  /\ usedCount \in [Sinks -> Nat]
  /\ usedBytes \in [Sinks -> Nat]
  /\ inflight \in [Sinks -> Nat]
  /\ tasks \subseteq Tasks
  /\ failures \in [Sinks -> 0..PauseThreshold]
  /\ paused \in [Sinks -> {"no", "cooling", "elapsed"}]
  /\ activeBytes \in Nat
  /\ pendingRequired \in Nat
  /\ tenantCount \in [Tenants -> Nat]
  /\ tenantBytes \in [Tenants -> Nat]
  /\ promised \in [Events -> SUBSET Sinks]
  /\ acked \in [Events -> SUBSET Sinks]

EventsAt(s) == {e \in active : s \in remaining[e]}

(***************************************************************************)
(* Every counter that admission looks at equals what the active events     *)
(* really hold, after any mix of publishing, restoring, retrying, dropping *)
(* and completing: a leak here would refuse events for ever, or admit      *)
(* beyond the limits.                                                      *)
(***************************************************************************)
Accounting ==
  /\ pendingRequired = Cardinality(Pairs(active, required))
  /\ activeBytes = BytesOf(active)
  /\ \A t \in Tenants :
       /\ tenantCount[t] = Cardinality(EventsOfTenant(active, t))
       /\ tenantBytes[t] = BytesOf(EventsOfTenant(active, t))
  /\ \A s \in Sinks :
       /\ usedCount[s] = Cardinality(EventsAt(s))
       /\ usedBytes[s] = BytesOf(EventsAt(s))
       /\ inflight[s] = Cardinality({e \in active : s \in operations[e]})

\* Numbers of records of event e in the lanes of sink s.
QueuedIn(lane, e) == Cardinality({i \in 1..Len(lane) : lane[i].event = e})
DelayedIn(s, e) == Cardinality({r \in delayed[s] : r.event = e})
InFlight(s, e) == IF s \in operations[e] THEN 1 ELSE 0
LaneRecords(s, e) ==
  QueuedIn(ready[s], e) + QueuedIn(due[s], e) + DelayedIn(s, e) + InFlight(s, e)

(***************************************************************************)
(* Each outstanding delivery is in exactly one place: the ready queue, the *)
(* retry queue or one task in flight.  None is lost between queues and     *)
(* none is in flight twice at the same time; and nothing is queued for an  *)
(* event that no longer owes it.                                           *)
(***************************************************************************)
OneLanePerDelivery ==
  /\ \A e \in Events, s \in Sinks :
       LaneRecords(s, e) = (IF e \in active /\ s \in remaining[e] THEN 1 ELSE 0)
  /\ workers = "running" =>
       \A e \in Events, s \in Sinks :
         Cardinality({t \in tasks : t.event = e /\ t.sink = s}) = InFlight(s, e)

(***************************************************************************)
(* An accepted event keeps every required sink of its route as a           *)
(* responsibility until that sink has acknowledged it: no retry limit, age *)
(* limit, permanent failure, route change or stop of the workers drops it. *)
(***************************************************************************)
RequiredNeverDropped ==
  \A e \in Events : promised[e] \subseteq required[e] \cup acked[e]

(***************************************************************************)
(* required is exactly the required part of remaining, and an event is     *)
(* active as long as it has a delivery left.                               *)
(***************************************************************************)
RequiredOwned ==
  \A e \in Events :
    /\ required[e] = remaining[e] \cap RequiredSinks
    /\ e \in active <=> remaining[e] # {}

\* Routes lead to sinks of this bus.
RoutesTyped == \A t \in Tenants : ForTenant(routes, t) \subseteq Sinks

(***************************************************************************)
(* The inductive strengthening of RequiredNeverDropped.                    *)
(***************************************************************************)
ResponsibilityInv ==
  /\ active \subseteq Events
  /\ remaining \in [Events -> SUBSET Sinks]
  /\ required \in [Events -> SUBSET Sinks]
  /\ promised \in [Events -> SUBSET Sinks]
  /\ acked \in [Events -> SUBSET Sinks]
  /\ RoutesTyped
  /\ RequiredOwned
  /\ RequiredNeverDropped

\* The configured bounds of publish and restore hold at all times.
WithinLimits ==
  /\ Cardinality(active) <= GlobalMaxCount /\ activeBytes <= GlobalMaxBytes
  /\ \A t \in Tenants :
       tenantCount[t] <= TenantMaxCount /\ tenantBytes[t] <= TenantMaxBytes
  /\ \A s \in Sinks :
       /\ usedCount[s] <= MaxCount[s] /\ usedBytes[s] <= MaxBytes[s]
       /\ inflight[s] <= Concurrency[s]

(***************************************************************************)
(* Whatever the bus holds can be spooled and restored into an empty bus    *)
(* with the same limits: the snapshot passes restore's preflight.  This    *)
(* has to hold across route changes that admit under another table.        *)
(***************************************************************************)
SnapshotRestorable == RestoreFits(SpoolSnapshot, EmptyUsage)

\* The snapshot of a queued delivery carries the attempts already made.
SnapshotKeepsAttempts ==
  \A s \in RequiredSinks :
    \A r \in delayed[s] \cup {ready[s][i] : i \in 1..Len(ready[s])}
                        \cup {due[s][i] : i \in 1..Len(due[s])} :
      attempts[r.event][s] = r.attempt

(***************************************************************************)
(* While the workers run, every required delivery is confirmed in the end, *)
(* however many new events are published meanwhile: take_ready promotes at *)
(* least one due retry per call, a pause always ends in a probe, and       *)
(* neither max_attempts nor max_age stops the attempts.                    *)
(***************************************************************************)
RequiredConfirmed ==
  \A e \in Events, s \in RequiredSinks :
    (s \in required[e] /\ workers = "running")
       ~> (s \notin required[e] \/ workers = "stopped")
=============================================================================
