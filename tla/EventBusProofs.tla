--------------------------- MODULE EventBusProofs ---------------------------
(***************************************************************************)
(* Proofs about EventBus, for any finite sets of events and sinks, any     *)
(* limits and any routes.                                                  *)
(***************************************************************************)
EXTENDS EventBus, FiniteSetTheorems, TLAPS

\* compile_routes only lets through routes to sinks it knows.
LEMMA CompiledRoutesTyped ==
  ASSUME NEW defs \in Seq(RouteDefinition), RoutesValid(defs), NEW t \in Tenants
  PROVE  ForTenant(CompileRoutes(defs), t) \subseteq Sinks
<1>1. \A u : RoutesFor(defs, u) \subseteq Sinks
  BY DEF RoutesFor, RoutesValid, RouteValid
<1>2. \A u : EffectiveSinks(defs, u) \subseteq Sinks
  BY <1>1 DEF EffectiveSinks
<1>. QED  BY <1>1, <1>2 DEF ForTenant, CompileRoutes

\* Each record restored by restore stands for the event it is about.
LEMMA RestoredPending ==
  ASSUME NEW batch \in RestoreBatches, RestoreFits(batch, Usage), NEW e \in BatchEvents(batch)
  PROVE  /\ RecordOf(batch, e) \in batch /\ e \in Events /\ e \notin active
         /\ RecordOf(batch, e).event = e
         /\ RecordOf(batch, e).pending # {}
         /\ RecordOf(batch, e).pending \subseteq RequiredSinks
<1>1. \E q \in batch : q.event = e
  BY DEF BatchEvents
<1>2. RecordOf(batch, e) \in batch /\ RecordOf(batch, e).event = e
  BY <1>1 DEF RecordOf
<1>3. e \in Events
  BY <1>1, BusConstants
<1>4. e \notin active
  BY DEF RestoreFits, Usage
<1>. QED  BY <1>2, <1>3, <1>4 DEF RestoreFits, RecordValid

\* The empty bus satisfies the invariant.
LEMMA InitResponsibility == Init => ResponsibilityInv
<1>. SUFFICES ASSUME Init PROVE ResponsibilityInv
  OBVIOUS
<1>1. RoutesTyped
  BY CompiledRoutesTyped, BusConstants DEF Init, RoutesTyped
<1>. QED  BY <1>1 DEF Init, ResponsibilityInv, RequiredOwned, RequiredNeverDropped

\* publish takes on all required sinks of the route, or refuses.
LEMMA PublishResponsibility ==
  ASSUME ResponsibilityInv, NEW e \in Events, Publish(e)
  PROVE  ResponsibilityInv'
<1>. DEFINE targets == ForTenant(routes, TenantOf[e])
<1>. DEFINE available == {s \in targets : HasRoom(s, e)}
<1>1. targets \subseteq Sinks
  BY BusConstants DEF ResponsibilityInv, RoutesTyped
<1>2. available \cap RequiredSinks = targets \cap RequiredSinks
  BY DEF Publish, RequiredHaveRoom
<1>3. /\ active' = active \cup {e}
      /\ remaining' = [remaining EXCEPT ![e] = available]
      /\ required' = [required EXCEPT ![e] = available \cap RequiredSinks]
      /\ promised' = [promised EXCEPT ![e] = targets \cap RequiredSinks]
      /\ acked' = [acked EXCEPT ![e] = {}]
      /\ routes' = routes
      /\ available # {}
  BY DEF Publish, routeVars
<1>. HIDE DEF targets, available
<1>4. available \subseteq Sinks
  BY <1>1 DEF available
<1>5. RoutesTyped'
  BY <1>3 DEF ResponsibilityInv, RoutesTyped
<1>6. RequiredOwned'
  BY <1>3, <1>4 DEF ResponsibilityInv, RequiredOwned
<1>7. RequiredNeverDropped'
  BY <1>2, <1>3 DEF ResponsibilityInv, RequiredNeverDropped
<1>. QED  BY <1>1, <1>3, <1>4, <1>5, <1>6, <1>7 DEF ResponsibilityInv

\* restore takes on exactly the pending sinks of every record.
LEMMA RestoreResponsibility ==
  ASSUME ResponsibilityInv, NEW batch \in RestoreBatches, Restore(batch)
  PROVE  ResponsibilityInv'
<1>. DEFINE all == BatchEvents(batch)
<1>. DEFINE pend(e) == RecordOf(batch, e).pending
<1>1. all \subseteq Events
  BY BusConstants DEF BatchEvents
<1>2. ASSUME NEW e \in all PROVE pend(e) # {} /\ pend(e) \subseteq RequiredSinks
  <2>1. RestoreFits(batch, Usage)
    BY DEF Restore
  <2>. QED  BY <2>1, RestoredPending
<1>3. /\ active' = active \cup all
      /\ remaining' = [e \in Events |-> IF e \in all THEN pend(e) ELSE remaining[e]]
      /\ required' = [e \in Events |-> IF e \in all THEN pend(e) ELSE required[e]]
      /\ promised' = [e \in Events |-> IF e \in all THEN pend(e) ELSE promised[e]]
      /\ acked' = [e \in Events |-> IF e \in all THEN {} ELSE acked[e]]
      /\ routes' = routes
  BY DEF Restore, routeVars
<1>. HIDE DEF all, pend
<1>4. RequiredSinks \subseteq Sinks
  BY BusConstants
<1>5. RoutesTyped'
  BY <1>3 DEF ResponsibilityInv, RoutesTyped
<1>6. RequiredOwned'
  BY <1>1, <1>2, <1>3 DEF ResponsibilityInv, RequiredOwned
<1>7. RequiredNeverDropped'
  BY <1>3 DEF ResponsibilityInv, RequiredNeverDropped
<1>. QED  BY <1>1, <1>2, <1>3, <1>4, <1>5, <1>6, <1>7 DEF ResponsibilityInv

\* A completion ends a required responsibility only when the sink acknowledged.
LEMMA CompleteResponsibility ==
  ASSUME ResponsibilityInv, NEW t \in tasks, NEW result \in Results, NEW tooOld \in BOOLEAN,
         Complete(t, result, tooOld)
  PROVE  ResponsibilityInv'
<1>. DEFINE e == t.event
<1>. DEFINE s == t.sink
<1>1. e \in Events /\ s \in Sinks /\ s \in remaining[e] /\ e \in active
  BY DEF Complete, ResponsibilityInv
<1>2. promised' = promised /\ routes' = routes
  BY DEF Complete, routeVars
<1>3. RoutesTyped'
  BY <1>2 DEF ResponsibilityInv, RoutesTyped
<1>4. CASE KeepsOwnership(t, result, tooOld)
  <2>1. UNCHANGED <<active, remaining, required>>
    BY <1>4 DEF Complete, Requeue, eventVars
  <2>2. acked' = IF result = "ok" THEN [acked EXCEPT ![e] = @ \cup {s}] ELSE acked
    BY DEF Complete
  <2>3. acked' \in [Events -> SUBSET Sinks] /\ \A f \in Events : acked[f] \subseteq acked'[f]
    BY <1>1, <2>2 DEF ResponsibilityInv
  <2>4. RequiredOwned' /\ RequiredNeverDropped'
    BY <1>2, <2>1, <2>3 DEF ResponsibilityInv, RequiredOwned, RequiredNeverDropped
  <2>. QED  BY <1>2, <1>3, <2>1, <2>3, <2>4 DEF ResponsibilityInv
<1>5. CASE ~KeepsOwnership(t, result, tooOld)
  <2>1. /\ remaining' = [remaining EXCEPT ![e] = @ \ {s}]
        /\ required' = [required EXCEPT ![e] = @ \ {s}]
        /\ active' = IF remaining[e] = {s} THEN active \ {e} ELSE active
    BY <1>5 DEF Complete, Release
  <2>2. acked' = IF result = "ok" THEN [acked EXCEPT ![e] = @ \cup {s}] ELSE acked
    BY DEF Complete
  <2>3. s \in RequiredSinks => result = "ok"
    BY <1>5 DEF KeepsOwnership
  <2>4. acked' \in [Events -> SUBSET Sinks] /\ \A f \in Events : acked[f] \subseteq acked'[f]
    BY <1>1, <2>2 DEF ResponsibilityInv
  <2>5. s \in RequiredSinks => s \in acked'[e]
    BY <1>1, <2>2, <2>3 DEF ResponsibilityInv
  <2>6. RequiredOwned'
    BY <1>1, <2>1 DEF ResponsibilityInv, RequiredOwned
  <2>7. RequiredNeverDropped'
    <3>. SUFFICES ASSUME NEW f \in Events, NEW x \in promised[f]
                  PROVE  x \in required'[f] \cup acked'[f]
      BY <1>2 DEF RequiredNeverDropped
    <3>1. x \in required[f] \/ x \in acked[f]
      BY DEF ResponsibilityInv, RequiredNeverDropped
    <3>2. CASE x \in acked[f]
      BY <3>2, <2>4
    <3>3. CASE x \in required[f] /\ f = e /\ x = s
      BY <3>3, <2>5 DEF ResponsibilityInv, RequiredOwned
    <3>4. CASE x \in required[f] /\ (f # e \/ x # s)
      BY <3>4, <2>1, <1>1 DEF ResponsibilityInv
    <3>. QED  BY <3>1, <3>2, <3>3, <3>4
  <2>. QED  BY <1>1, <1>2, <1>3, <2>1, <2>4, <2>6, <2>7 DEF ResponsibilityInv
<1>. QED  BY <1>4, <1>5

\* Every other action leaves responsibilities as they are.
LEMMA NextResponsibility == ResponsibilityInv /\ [Next]_vars => ResponsibilityInv'
<1>. SUFFICES ASSUME ResponsibilityInv, [Next]_vars PROVE ResponsibilityInv'
  OBVIOUS
<1>. DEFINE Same == UNCHANGED <<active, remaining, required, promised, acked>>
<1>1. Same /\ routes' = routes => ResponsibilityInv'
  BY DEF ResponsibilityInv, RoutesTyped, RequiredOwned, RequiredNeverDropped
<1>2. CASE \E e \in Events : Publish(e)
  BY <1>2, PublishResponsibility
<1>3. CASE \E b \in RestoreBatches : Restore(b)
  BY <1>3, RestoreResponsibility
<1>4. CASE \E t \in tasks, result \in Results, tooOld \in BOOLEAN : Complete(t, result, tooOld)
  BY <1>4, CompleteResponsibility
<1>5. ASSUME NEW rev \in 1..MaxRevision, NEW defs \in RouteUpdates, ReplaceRoutes(rev, defs)
      PROVE  ResponsibilityInv'
  <2>1. defs \in Seq(RouteDefinition) /\ RoutesValid(defs)
    BY <1>5, BusConstants DEF ReplaceRoutes
  <2>2. RoutesTyped'
    BY <1>5, <2>1, CompiledRoutesTyped DEF ReplaceRoutes, RoutesTyped
  <2>3. Same
    BY <1>5 DEF ReplaceRoutes, eventVars, historyVars
  <2>. QED  BY <2>2, <2>3 DEF ResponsibilityInv, RequiredOwned, RequiredNeverDropped
<1>6. CASE StartWorkers \/ CloseAdmission \/ StopWorkers
  BY <1>1, <1>6 DEF StartWorkers, CloseAdmission, StopWorkers, eventVars, historyVars, routeVars
<1>7. ASSUME NEW s \in Sinks, TakeReady(s) \/ PauseElapses(s) PROVE ResponsibilityInv'
  BY <1>1, <1>7 DEF TakeReady, PauseElapses, eventVars, historyVars, routeVars
<1>8. ASSUME NEW s \in Sinks, NEW r \in delayed[s], RetryDue(s, r) PROVE ResponsibilityInv'
  BY <1>1, <1>8 DEF RetryDue, eventVars, historyVars, routeVars
<1>9. CASE UNCHANGED vars
  BY <1>1, <1>9 DEF vars, eventVars, historyVars, routeVars
<1>. QED
  BY <1>2, <1>3, <1>4, <1>5, <1>6, <1>7, <1>8, <1>9 DEF Next

\* The responsibility invariant holds in every state of the bus.
THEOREM ResponsibilityInvariant == Spec => []ResponsibilityInv
BY InitResponsibility, NextResponsibility, PTL DEF Spec

(***************************************************************************)
(* No accepted required delivery is ever dropped without an                *)
(* acknowledgement, for any number of events and sinks and any limits.     *)
(***************************************************************************)
THEOREM RequiredIsNeverDropped == Spec => []RequiredNeverDropped
<1>1. ResponsibilityInv => RequiredNeverDropped
  BY DEF ResponsibilityInv
<1>. QED  BY <1>1, ResponsibilityInvariant, PTL

-----------------------------------------------------------------------------
(***************************************************************************)
(* Refinement: each step of the bus is a step of RequiredDelivery or none. *)
(***************************************************************************)
Confirmed == [e \in Events |-> acked[e] \cap RequiredSinks]

\* The empty bus owes nothing.
LEMMA InitContract == Init => Contract!Init
<1>. SUFFICES ASSUME Init PROVE Contract!Init
  OBVIOUS
<1>1. Confirmed = [e \in Events |-> {}]
  BY DEF Init, Confirmed
<1>. QED  BY <1>1 DEF Init, Contract!Init, Confirmed

\* publish is Accept with the required sinks of the route.
LEMMA PublishContract ==
  ASSUME ResponsibilityInv, NEW e \in Events, Publish(e)
  PROVE  \E R \in SUBSET RequiredSinks : Contract!Accept(e, R)
<1>. DEFINE R == {s \in ForTenant(routes, TenantOf[e]) : HasRoom(s, e)} \cap RequiredSinks
<1>1. R \in SUBSET RequiredSinks
  OBVIOUS
<1>2. accepting /\ accepting' = accepting
  BY DEF Publish, controlVars
<1>3. required[e] = {}
  BY DEF Publish, ResponsibilityInv, RequiredOwned
<1>4. required' = [required EXCEPT ![e] = R]
  BY DEF Publish
<1>5. acked' = [acked EXCEPT ![e] = {}]
  BY DEF Publish
<1>6. Confirmed' = [Confirmed EXCEPT ![e] = {}]
  BY <1>5 DEF Confirmed, ResponsibilityInv
<1>. HIDE DEF R
<1>. QED  BY <1>1, <1>2, <1>3, <1>4, <1>6 DEF Contract!Accept, Confirmed

\* restore is Adopt with the pending sinks of the batch.
LEMMA RestoreContract ==
  ASSUME ResponsibilityInv, NEW batch \in RestoreBatches, Restore(batch)
  PROVE  \E E \in SUBSET Events : \E f \in [E -> SUBSET RequiredSinks] : Contract!Adopt(f)
<1>. DEFINE all == BatchEvents(batch)
<1>. DEFINE f == [e \in all |-> RecordOf(batch, e).pending]
<1>1. all \subseteq Events
  BY BusConstants DEF BatchEvents
<1>2. ASSUME NEW e \in all
      PROVE  RecordOf(batch, e).pending \subseteq RequiredSinks /\ e \notin active
  <2>1. RestoreFits(batch, Usage)
    BY DEF Restore
  <2>. QED  BY <2>1, RestoredPending
<1>3. /\ required' = [e \in Events |-> IF e \in all THEN f[e] ELSE required[e]]
      /\ acked' = [e \in Events |-> IF e \in all THEN {} ELSE acked[e]]
      /\ accepting' = accepting
  BY DEF Restore, controlVars
<1>4. f \in [all -> SUBSET RequiredSinks] /\ DOMAIN f = all
  BY <1>2
<1>. HIDE DEF all, f
<1>5. \A e \in all : required[e] = {}
  BY <1>1, <1>2 DEF ResponsibilityInv, RequiredOwned
<1>6. Confirmed' = [e \in Events |-> IF e \in all THEN {} ELSE Confirmed[e]]
  BY <1>3 DEF Confirmed, ResponsibilityInv
<1>7. Contract!Adopt(f)
  BY <1>3, <1>4, <1>5, <1>6 DEF Contract!Adopt, Confirmed
<1>. QED  BY <1>1, <1>4, <1>7

\* A completion is Confirm when a required sink acknowledged, else no step.
LEMMA CompleteContract ==
  ASSUME ResponsibilityInv, NEW t \in tasks, NEW result \in Results, NEW tooOld \in BOOLEAN,
         Complete(t, result, tooOld)
  PROVE  \/ \E e \in Events, r \in RequiredSinks : Contract!Confirm(e, r)
         \/ UNCHANGED <<accepting, required, Confirmed>>
<1>. DEFINE e == t.event
<1>. DEFINE s == t.sink
<1>1. e \in Events /\ s \in Sinks /\ s \in remaining[e]
  BY DEF Complete, ResponsibilityInv
<1>2. accepting' = accepting
  BY DEF Complete, controlVars
<1>3. acked' = IF result = "ok" THEN [acked EXCEPT ![e] = @ \cup {s}] ELSE acked
  BY DEF Complete
<1>4. CASE KeepsOwnership(t, result, tooOld)
  <2>1. required' = required
    BY <1>4 DEF Complete, Requeue, eventVars
  <2>2. result # "ok"
    BY <1>4 DEF KeepsOwnership, Retries
  <2>. QED  BY <1>2, <1>3, <2>1, <2>2 DEF Confirmed
<1>5. CASE ~KeepsOwnership(t, result, tooOld) /\ s \in RequiredSinks
  <2>1. required' = [required EXCEPT ![e] = @ \ {s}]
    BY <1>5 DEF Complete, Release
  <2>2. result = "ok" /\ s \in required[e]
    BY <1>1, <1>5 DEF KeepsOwnership, ResponsibilityInv, RequiredOwned
  <2>3. Confirmed' = [Confirmed EXCEPT ![e] = @ \cup {s}]
    BY <1>1, <1>3, <1>5, <2>2 DEF Confirmed, ResponsibilityInv
  <2>4. Contract!Confirm(e, s)
    BY <1>2, <2>1, <2>2, <2>3 DEF Contract!Confirm, Confirmed
  <2>. QED  BY <1>1, <1>5, <2>4
<1>6. CASE ~KeepsOwnership(t, result, tooOld) /\ s \notin RequiredSinks
  <2>1. required' = [required EXCEPT ![e] = @ \ {s}]
    BY <1>6 DEF Complete, Release
  <2>2. required' = required
    BY <1>1, <1>6, <2>1 DEF ResponsibilityInv, RequiredOwned
  <2>3. Confirmed' = Confirmed
    BY <1>1, <1>3, <1>6 DEF Confirmed, ResponsibilityInv
  <2>. QED  BY <1>2, <2>2, <2>3
<1>. QED  BY <1>4, <1>5, <1>6

\* Every step of the bus is allowed by the contract.
LEMMA NextContract ==
  ResponsibilityInv /\ [Next]_vars => [Contract!Next]_(Contract!vars)
<1>. SUFFICES ASSUME ResponsibilityInv, [Next]_vars PROVE [Contract!Next]_(Contract!vars)
  OBVIOUS
<1>. DEFINE Same == UNCHANGED <<accepting, required, Confirmed>>
<1>1. Same => UNCHANGED Contract!vars
  BY DEF Contract!vars, Confirmed
<1>2. CASE \E e \in Events : Publish(e)
  BY <1>2, PublishContract DEF Contract!Next
<1>3. CASE \E b \in RestoreBatches : Restore(b)
  BY <1>3, RestoreContract DEF Contract!Next
<1>4. CASE \E t \in tasks, result \in Results, tooOld \in BOOLEAN : Complete(t, result, tooOld)
  BY <1>1, <1>4, CompleteContract DEF Contract!Next
<1>5. CASE CloseAdmission
  <2>1. Contract!Close
    BY <1>5 DEF CloseAdmission, Contract!Close, eventVars, historyVars
  <2>. QED  BY <2>1 DEF Contract!Next
<1>6. CASE StartWorkers \/ StopWorkers
  BY <1>1, <1>6 DEF StartWorkers, StopWorkers, eventVars, historyVars, Confirmed
<1>7. ASSUME NEW s \in Sinks, TakeReady(s) \/ PauseElapses(s) PROVE Same
  BY <1>7 DEF TakeReady, PauseElapses, controlVars, eventVars, historyVars, Confirmed
<1>8. ASSUME NEW s \in Sinks, NEW r \in delayed[s], RetryDue(s, r) PROVE Same
  BY <1>8 DEF RetryDue, controlVars, eventVars, historyVars, Confirmed
<1>9. ASSUME NEW rev \in 1..MaxRevision, NEW defs \in RouteUpdates, ReplaceRoutes(rev, defs)
      PROVE  Same
  BY <1>9 DEF ReplaceRoutes, controlVars, eventVars, historyVars, Confirmed
<1>10. CASE UNCHANGED vars
  BY <1>1, <1>10 DEF vars, controlVars, eventVars, historyVars, Confirmed
<1>. QED
  BY <1>1, <1>2, <1>3, <1>4, <1>5, <1>6, <1>7, <1>8, <1>9, <1>10 DEF Next

(***************************************************************************)
(* The bus implements RequiredDelivery: queues, retries, pauses, limits,   *)
(* route changes and worker stops are invisible to who relies on it.       *)
(***************************************************************************)
THEOREM BusImplementsContract == Spec => ContractSpec
BY InitContract, NextContract, ResponsibilityInvariant, PTL DEF Spec, ContractSpec, Contract!Spec
=============================================================================
