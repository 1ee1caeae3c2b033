----------------------------- MODULE Lifecycle -----------------------------
(***************************************************************************)
(* The process lifecycle and its admission gate (runtime/src/lifecycle.rs).*)
(*                                                                         *)
(* Every operation that creates work (device ingress, session              *)
(* registration, commands, control changes) holds an AdmissionGuard.       *)
(* begin_admission takes three atomic steps: a first load of the state, an *)
(* increment of active_admissions and a second load.  begin_quiesce closes *)
(* the gate and waits until no guard is left.  Each atomic access is one   *)
(* action here, because it is their interleaving that can go wrong.        *)
(***************************************************************************)
EXTENDS Integers, FiniteSets

CONSTANT Callers        \* tasks that ask for admission

ASSUME CallersFinite == IsFiniteSet(Callers)

VARIABLES
  state,      \* Lifecycle.state
  admissions, \* Lifecycle.active_admissions
  caller,     \* where each caller stands in begin_admission / AdmissionGuard
  stale,      \* callers whose first load may still return the old Running
  quiescer,   \* where the task in begin_quiesce stands
  woken       \* the Notified future of begin_quiesce has been notified

vars == <<state, admissions, caller, stale, quiescer, woken>>

States == {"Starting", "Running", "Quiescing", "Draining", "Spooling", "Drained"}

(***************************************************************************)
(* "counted": the increment is done and the second load is pending.        *)
(* "refused": the second load failed and the increment is to be undone.    *)
(* "notifying": fetch_sub returned 1 and notify_waiters is to be called.   *)
(***************************************************************************)
CallerSteps == {"idle", "counted", "admitted", "refused", "notifying"}
QuiescerSteps == {"idle", "arm", "check", "loaded", "await", "drain", "done"}

\* Callers whose increment of active_admissions is in the counter.
Counted == {c \in Callers : caller[c] \in {"counted", "admitted", "refused"}}

Init ==
  /\ state = "Starting"
  /\ admissions = 0
  /\ caller = [c \in Callers |-> "idle"]
  /\ stale = {}
  /\ quiescer = "idle"
  /\ woken = FALSE

-----------------------------------------------------------------------------
(***************************************************************************)
(* notify_waiters completes every Notified future that already exists, even*)
(* one that has not been awaited yet.                                      *)
(***************************************************************************)
NotifiedExists == quiescer \in {"check", "loaded", "await"}
NotifiedPolled == quiescer = "await"

\* Only a future that is already being awaited would be notified.
NotifyPolledOnly == woken' = (woken \/ NotifiedPolled)

NotifyWaiters == woken' = (woken \/ NotifiedExists)

MarkRunning ==
  /\ state = "Starting"
  /\ state' = "Running"
  /\ UNCHANGED <<admissions, caller, stale, quiescer, woken>>

(***************************************************************************)
(* begin_admission: the first load is only an acquire load, so it may      *)
(* return a Running that has just been replaced; then the increment.       *)
(***************************************************************************)
EnterGate(c) ==
  /\ caller[c] = "idle"
  /\ state = "Running" \/ c \in stale
  /\ admissions' = admissions + 1
  /\ caller' = [caller EXCEPT ![c] = "counted"]
  /\ UNCHANGED <<state, stale, quiescer, woken>>

\* Trusting the first load instead of loading the state again.
TrustFirstLoad(c) == TRUE

\* What the second, sequentially consistent, load decides.
SecondLoadPasses(c) == state = "Running"

RecheckState(c) ==
  /\ caller[c] = "counted"
  /\ caller' = [caller EXCEPT ![c] = IF SecondLoadPasses(c) THEN "admitted"
                                                            ELSE "refused"]
  /\ stale' = IF state = "Running" THEN stale ELSE stale \ {c}
  /\ UNCHANGED <<state, admissions, quiescer, woken>>

\* The refusal does not undo the increment.
KeptByRefusal(c) == admissions - (IF caller[c] = "refused" THEN 0 ELSE 1)

\* active_admissions.fetch_sub(1)
Decremented(c) == admissions - 1

(***************************************************************************)
(* release_admission, from begin_admission's refusal or from the guard's   *)
(* Drop; the task that takes the counter to zero then notifies.            *)
(***************************************************************************)
ReleaseAdmission(c) ==
  /\ caller[c] \in {"admitted", "refused"}
  /\ admissions' = Decremented(c)
  /\ caller' = [caller EXCEPT ![c] = IF admissions = 1 THEN "notifying"
                                                       ELSE "idle"]
  /\ UNCHANGED <<state, stale, quiescer, woken>>

NotifyReleased(c) ==
  /\ caller[c] = "notifying"
  /\ caller' = [caller EXCEPT ![c] = "idle"]
  /\ NotifyWaiters
  /\ UNCHANGED <<state, admissions, stale, quiescer>>

-----------------------------------------------------------------------------
\* begin_quiesce closes the gate with a compare-exchange.
BeginQuiesce ==
  /\ quiescer = "idle"
  /\ state = "Running"
  /\ state' = "Quiescing"
  /\ stale' = Callers
  /\ quiescer' = "arm"
  /\ UNCHANGED <<admissions, caller, woken>>

\* let notified = self.changed.notified()
ArmNotified ==
  /\ quiescer = "arm"
  /\ quiescer' = "check"
  /\ woken' = FALSE
  /\ UNCHANGED <<state, admissions, caller, stale>>

\* active_admissions.load() == 0
NoGuardLeft == admissions = 0

CheckAdmissions ==
  /\ quiescer = "check"
  /\ quiescer' = IF NoGuardLeft THEN "drain" ELSE "loaded"
  /\ UNCHANGED <<state, admissions, caller, stale, woken>>

\* notified.await is polled for the first time.
PollNotified ==
  /\ quiescer = "loaded"
  /\ quiescer' = "await"
  /\ UNCHANGED <<state, admissions, caller, stale, woken>>

\* notified.await returns
Wake ==
  /\ quiescer = "await"
  /\ woken
  /\ quiescer' = "arm"
  /\ UNCHANGED <<state, admissions, caller, stale, woken>>

FinishQuiesce ==
  /\ quiescer = "drain"
  /\ state = "Quiescing"
  /\ state' = "Draining"
  /\ quiescer' = "done"
  /\ UNCHANGED <<admissions, caller, stale, woken>>

MarkSpooling ==
  /\ state = "Draining"
  /\ state' = "Spooling"
  /\ UNCHANGED <<admissions, caller, stale, quiescer, woken>>

MarkDrained ==
  /\ state \in {"Draining", "Spooling"}
  /\ state' = "Drained"
  /\ UNCHANGED <<admissions, caller, stale, quiescer, woken>>

-----------------------------------------------------------------------------
CallerNext(c) ==
  \/ EnterGate(c)
  \/ RecheckState(c)
  \/ ReleaseAdmission(c)
  \/ NotifyReleased(c)

QuiescerNext == ArmNotified \/ CheckAdmissions \/ PollNotified \/ Wake \/ FinishQuiesce

Next ==
  \/ MarkRunning
  \/ \E c \in Callers : CallerNext(c)
  \/ BeginQuiesce
  \/ QuiescerNext
  \/ MarkSpooling
  \/ MarkDrained

Spec == Init /\ [][Next]_vars

(***************************************************************************)
(* Fairness: an admitted operation is bounded by its own timeouts and then *)
(* drops its guard, and the tokio scheduler keeps polling the task in      *)
(* begin_quiesce.  Nothing is assumed about when callers arrive.           *)
(***************************************************************************)
Fairness ==
  /\ \A c \in Callers : WF_vars(RecheckState(c) \/ ReleaseAdmission(c)
                                                \/ NotifyReleased(c))
  /\ WF_vars(QuiescerNext)

FairSpec == Spec /\ Fairness

-----------------------------------------------------------------------------
\* Types of the state and of the program counters.
TypeOK ==
  /\ state \in States
  /\ admissions \in Nat
  /\ caller \in [Callers -> CallerSteps]
  /\ stale \subseteq Callers
  /\ quiescer \in QuiescerSteps
  /\ woken \in BOOLEAN

Closed == state \in {"Draining", "Spooling", "Drained"}

(***************************************************************************)
(* Once the state has left Quiescing no operation holds a guard, so what   *)
(* shutdown snapshots from then on is not changed by new work:             *)
(* begin_admission rechecks the state after it has incremented the counter *)
(* and begin_quiesce reads the counter after it has changed the state.     *)
(***************************************************************************)
GateClosed == Closed => \A c \in Callers : caller[c] # "admitted"

\* active_admissions counts the callers between increment and decrement.
AdmissionsExact == admissions = Cardinality(Counted)

(***************************************************************************)
(* What makes GateClosed inductive: from the moment begin_quiesce has read *)
(* zero there is no guard, and the state is no longer Running.             *)
(***************************************************************************)
QuiesceOrder ==
  /\ quiescer # "idle" => state \notin {"Starting", "Running"}
  /\ Closed => quiescer = "done"
  /\ quiescer \in {"drain", "done"} => \A c \in Callers : caller[c] # "admitted"

IInv == TypeOK /\ AdmissionsExact /\ QuiesceOrder

(***************************************************************************)
(* begin_quiesce always terminates: the wakeup of the last guard is not    *)
(* lost because the Notified future exists before the counter is read.     *)
(***************************************************************************)
QuiesceTerminates == (state = "Quiescing") ~> Closed
=============================================================================
