-------------------------- MODULE LifecycleProofs --------------------------
(***************************************************************************)
(* Proofs about Lifecycle, for any finite set of callers.                  *)
(***************************************************************************)
EXTENDS Lifecycle, FiniteSetTheorems, TLAPS

\* A set of callers is finite, and it is empty exactly when it counts zero.
LEMMA CountedFinite ==
  /\ IsFiniteSet(Counted)
  /\ Cardinality(Counted) \in Nat
  /\ Cardinality(Counted) = 0 <=> Counted = {}
<1>1. Counted \subseteq Callers
  BY DEF Counted
<1>2. IsFiniteSet(Counted)
  BY <1>1, CallersFinite, FS_Subset
<1>. QED  BY <1>2, FS_CardinalityType, FS_EmptySet

\* begin_admission's increment and release_admission's decrement move the
\* counted set by one caller.
LEMMA CountedMoves ==
  ASSUME NEW c \in Callers, TypeOK
  PROVE  /\ c \notin Counted => Cardinality(Counted \cup {c}) = Cardinality(Counted) + 1
         /\ c \in Counted => Cardinality(Counted \ {c}) = Cardinality(Counted) - 1
BY CountedFinite, FS_AddElement, FS_RemoveElement

\* The program starts in the inductive invariant.
LEMMA InitIInv == Init => IInv
<1>. SUFFICES ASSUME Init PROVE IInv
  OBVIOUS
<1>1. TypeOK
  BY DEF Init, TypeOK, States, CallerSteps, QuiescerSteps
<1>2. Counted = {}
  BY DEF Init, Counted
<1>3. AdmissionsExact
  BY <1>2, FS_EmptySet DEF Init, AdmissionsExact
<1>4. QuiesceOrder
  BY DEF Init, QuiesceOrder, Closed
<1>. QED  BY <1>1, <1>3, <1>4 DEF IInv

\* Every atomic step of the callers and of begin_quiesce keeps it.
LEMMA NextIInv == IInv /\ [Next]_vars => IInv'
<1>. SUFFICES ASSUME IInv, [Next]_vars PROVE IInv'
  OBVIOUS
<1>. USE DEF IInv
<1>1. CASE MarkRunning
  <2>1. TypeOK'
    BY <1>1 DEF MarkRunning, TypeOK, States
  <2>2. Counted' = Counted
    BY <1>1 DEF MarkRunning, Counted
  <2>3. AdmissionsExact'
    BY <1>1, <2>2 DEF MarkRunning, AdmissionsExact
  <2>4. QuiesceOrder'
    BY <1>1 DEF MarkRunning, QuiesceOrder, Closed, TypeOK, QuiescerSteps
  <2>. QED  BY <2>1, <2>3, <2>4
<1>2. ASSUME NEW c \in Callers, EnterGate(c) PROVE IInv'
  <2>1. TypeOK'
    BY <1>2 DEF EnterGate, TypeOK, CallerSteps
  <2>2. c \notin Counted /\ Counted' = Counted \cup {c}
    BY <1>2 DEF EnterGate, Counted, TypeOK
  <2>3. AdmissionsExact'
    BY <1>2, <2>2, CountedMoves DEF EnterGate, AdmissionsExact
  <2>4. QuiesceOrder'
    BY <1>2 DEF EnterGate, QuiesceOrder, Closed, TypeOK
  <2>. QED  BY <2>1, <2>3, <2>4
<1>3. ASSUME NEW c \in Callers, RecheckState(c) PROVE IInv'
  <2>1. TypeOK'
    BY <1>3 DEF RecheckState, SecondLoadPasses, TypeOK, CallerSteps
  <2>2. Counted' = Counted
    BY <1>3 DEF RecheckState, SecondLoadPasses, Counted, TypeOK
  <2>3. AdmissionsExact'
    BY <1>3, <2>2 DEF RecheckState, AdmissionsExact
  <2>4. QuiesceOrder'
    BY <1>3 DEF RecheckState, SecondLoadPasses, QuiesceOrder, Closed, TypeOK
  <2>. QED  BY <2>1, <2>3, <2>4
<1>4. ASSUME NEW c \in Callers, ReleaseAdmission(c) PROVE IInv'
  <2>1. c \in Counted /\ Counted' = Counted \ {c}
    BY <1>4 DEF ReleaseAdmission, Counted, TypeOK
  <2>2. admissions \in Nat \ {0}
    BY <2>1, CountedFinite DEF AdmissionsExact
  <2>3. TypeOK'
    BY <1>4, <2>2 DEF ReleaseAdmission, Decremented, TypeOK, CallerSteps
  <2>4. AdmissionsExact'
    BY <1>4, <2>1, CountedMoves DEF ReleaseAdmission, Decremented, AdmissionsExact
  <2>5. QuiesceOrder'
    BY <1>4 DEF ReleaseAdmission, QuiesceOrder, Closed, TypeOK
  <2>. QED  BY <2>3, <2>4, <2>5
<1>5. ASSUME NEW c \in Callers, NotifyReleased(c) PROVE IInv'
  <2>1. TypeOK'
    BY <1>5 DEF NotifyReleased, NotifyWaiters, NotifiedExists, TypeOK, CallerSteps
  <2>2. Counted' = Counted
    BY <1>5 DEF NotifyReleased, Counted, TypeOK
  <2>3. AdmissionsExact'
    BY <1>5, <2>2 DEF NotifyReleased, AdmissionsExact
  <2>4. QuiesceOrder'
    BY <1>5 DEF NotifyReleased, QuiesceOrder, Closed, TypeOK
  <2>. QED  BY <2>1, <2>3, <2>4
<1>6. CASE BeginQuiesce
  <2>1. TypeOK'
    BY <1>6 DEF BeginQuiesce, TypeOK, States, QuiescerSteps
  <2>2. Counted' = Counted
    BY <1>6 DEF BeginQuiesce, Counted
  <2>3. AdmissionsExact'
    BY <1>6, <2>2 DEF BeginQuiesce, AdmissionsExact
  <2>4. QuiesceOrder'
    BY <1>6 DEF BeginQuiesce, QuiesceOrder, Closed
  <2>. QED  BY <2>1, <2>3, <2>4
<1>7. CASE QuiescerNext
  <2>1. Counted' = Counted /\ admissions' = admissions /\ caller' = caller
    BY <1>7 DEF QuiescerNext, ArmNotified, CheckAdmissions, PollNotified, Wake, FinishQuiesce, Counted
  <2>2. AdmissionsExact'
    BY <2>1 DEF AdmissionsExact
  <2>3. TypeOK'
    BY <1>7 DEF QuiescerNext, ArmNotified, CheckAdmissions, PollNotified, Wake, FinishQuiesce, TypeOK,
                States, QuiescerSteps
  <2>4. admissions = 0 => \A c \in Callers : caller[c] # "admitted"
    BY CountedFinite DEF AdmissionsExact, Counted
  <2>5. QuiesceOrder'
    BY <1>7, <2>4 DEF QuiescerNext, ArmNotified, CheckAdmissions, NoGuardLeft, PollNotified, Wake,
                      FinishQuiesce, QuiesceOrder, Closed
  <2>. QED  BY <2>2, <2>3, <2>5
<1>8. CASE MarkSpooling \/ MarkDrained
  <2>1. Counted' = Counted
    BY <1>8 DEF MarkSpooling, MarkDrained, Counted
  <2>2. TypeOK' /\ QuiesceOrder'
    BY <1>8 DEF MarkSpooling, MarkDrained, TypeOK, States, QuiesceOrder, Closed
  <2>3. AdmissionsExact'
    BY <1>8, <2>1 DEF MarkSpooling, MarkDrained, AdmissionsExact
  <2>. QED  BY <2>2, <2>3
<1>9. CASE UNCHANGED vars
  BY <1>9 DEF vars, TypeOK, AdmissionsExact, Counted, QuiesceOrder, Closed
<1>. QED
  BY <1>1, <1>2, <1>3, <1>4, <1>5, <1>6, <1>7, <1>8, <1>9 DEF Next, CallerNext

\* The inductive invariant holds in every state of the gate.
THEOREM GateInvariant == Spec => []IInv
BY InitIInv, NextIInv, PTL DEF Spec

\* Type correctness: in particular active_admissions is never decremented below zero.
THEOREM TypeCorrect == Spec => []TypeOK
<1>1. IInv => TypeOK
  BY DEF IInv
<1>. QED  BY <1>1, GateInvariant, PTL

(***************************************************************************)
(* No operation holds an admission guard once begin_quiesce has returned,  *)
(* for any number of callers and any interleaving with begin_admission.    *)
(***************************************************************************)
THEOREM GateIsClosed == Spec => []GateClosed
<1>1. IInv => GateClosed
  BY DEF IInv, QuiesceOrder, GateClosed
<1>. QED  BY <1>1, GateInvariant, PTL

\* active_admissions is exact, so begin_quiesce waits for precisely the open guards.
THEOREM AdmissionsAreExact == Spec => []AdmissionsExact
<1>1. IInv => AdmissionsExact
  BY DEF IInv
<1>. QED  BY <1>1, GateInvariant, PTL
=============================================================================
