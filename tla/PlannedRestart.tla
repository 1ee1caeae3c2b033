--------------------------- MODULE PlannedRestart ---------------------------
(***************************************************************************)
(* The server's start and planned shutdown (apps/netbaiot-server/src/      *)
(* server.rs, run) around the event bus and the restart spool.             *)
(*                                                                         *)
(* The bus is seen through its contract (RequiredDelivery): owed is what   *)
(* it holds, a sink may confirm as long as the workers run, and spooling   *)
(* takes a snapshot while confirmations go on.  Lifecycle shows that after *)
(* begin_quiesce nothing more is accepted.  The MQTT broker's own snapshot *)
(* is one step that succeeds, is retried or ends in a structural fault.    *)
(***************************************************************************)
EXTENDS RestartSpool

VARIABLES
  phase,       \* where run() stands
  owed,        \* required responsibilities in the bus
  recovered,   \* RecoveryBatch.committed_files: the generation, 0 if none
  mqttFault,   \* mqtt_structural_failure
  accepted,    \* history: everything ever accepted
  done,        \* history: everything confirmed to the bus
  lost,        \* history: what crashes took that no snapshot held
  secured,     \* history: what a recovered or committed snapshot protects
  dirty        \* history: a call of this process failed after its rename

serverVars  == <<phase, owed, recovered, mqttFault>>
historyVars == <<accepted, done, lost, secured, dirty>>
vars == <<spoolVars, serverVars, historyVars>>

Phases == {"down", "starting", "running", "quiesced", "draining", "spooling",
           "committing", "retry_wait", "spooled", "cleanup", "removing", "cleaned"}

\* Phases in which the sink workers run.
Delivering == {"running", "quiesced", "draining", "spooling", "committing", "retry_wait"}

Init ==
  /\ SpoolInit
  /\ phase = "down"
  /\ owed = {}
  /\ recovered = 0
  /\ mqttFault = FALSE
  /\ accepted = {}
  /\ done = {}
  /\ lost = {}
  /\ secured = {}
  /\ dirty = FALSE

-----------------------------------------------------------------------------
\* spool.recover and events.restore; a snapshot that is not valid blocks startup.
Recover ==
  /\ phase = "down"
  /\ current # Torn
  /\ phase' = "starting"
  /\ owed' = Recoverable(current)
  /\ secured' = Recoverable(current)
  /\ recovered' = GenerationOf(current)
  /\ mqttFault' = FALSE
  /\ dirty' = FALSE
  /\ UNCHANGED <<spoolVars, accepted, done, lost>>

\* A later step of startup fails (a bind, a configuration): run returns.
StartupFails ==
  /\ phase = "starting"
  /\ phase' = "down"
  /\ owed' = {}
  /\ ProcessEnds
  /\ UNCHANGED <<recovered, mqttFault, historyVars>>

\* start_owned_workers and mark_running.
MarkRunning ==
  /\ phase = "starting"
  /\ phase' = "running"
  /\ UNCHANGED <<spoolVars, owed, recovered, mqttFault, historyVars>>

Accept(w) ==
  /\ phase = "running"
  /\ w \notin accepted
  /\ accepted' = accepted \cup {w}
  /\ owed' = owed \cup {w}
  /\ UNCHANGED <<spoolVars, phase, recovered, mqttFault, done, lost, secured, dirty>>

Confirm(w) ==
  /\ phase \in Delivering
  /\ w \in owed
  /\ owed' = owed \ {w}
  /\ done' = done \cup {w}
  /\ UNCHANGED <<spoolVars, phase, recovered, mqttFault, accepted, lost, secured, dirty>>

-----------------------------------------------------------------------------
\* begin_quiesce, close_admission and the end of the network owners.
Quiesce ==
  /\ phase = "running"
  /\ phase' = "quiesced"
  /\ UNCHANGED <<spoolVars, owed, recovered, mqttFault, historyVars>>

\* The MQTT commit loop ends; a retryable storage error only repeats it.
MqttCommitEnds(fault) ==
  /\ phase = "quiesced"
  /\ phase' = "draining"
  /\ mqttFault' = fault
  /\ UNCHANGED <<spoolVars, owed, recovered, historyVars>>

\* Stopping because the wait ended, whatever is left.
StopWaited == phase' = "cleanup"

\* stop_workers, and on to the cleanup of the recovered snapshot.
StopDrained == owed = {} /\ phase' = "cleanup"

\* wait_required_drained returns true.
Drained ==
  /\ phase \in {"draining", "retry_wait"}
  /\ StopDrained
  /\ UNCHANGED <<spoolVars, owed, recovered, mqttFault, historyVars>>

\* A failed commit is not tried again.
WaitsOnce == {"draining"}

\* Waits that end in an attempt to spool: the drain window and each retry delay.
WaitsBeforeSpooling == {"draining", "retry_wait"}

\* wait_required_drained times out: mark_spooling, or the next attempt.
DrainTimeout ==
  /\ phase \in WaitsBeforeSpooling
  /\ phase' = "spooling"
  /\ UNCHANGED <<spoolVars, owed, recovered, mqttFault, historyVars>>

\* commit_required_to_spool: nothing pending, or a snapshot and its commit.
SpoolNothing ==
  /\ phase = "spooling"
  /\ StopDrained
  /\ UNCHANGED <<spoolVars, owed, recovered, mqttFault, historyVars>>

\* Only what no snapshot on disk holds yet.
PendingUnsecured == owed \ secured

\* spool_snapshot: every required responsibility, recovered ones included.
PendingRequired == owed

SpoolSnapshot ==
  /\ phase = "spooling"
  /\ owed # {}
  /\ CommitStart(PendingRequired)
  /\ phase' = "committing"
  /\ UNCHANGED <<owed, recovered, mqttFault, historyVars>>

CommitReturns ==
  /\ phase = "committing"
  /\ call.step = "none"
  /\ phase' = IF outcome = "ok" THEN "spooled" ELSE "retry_wait"
  /\ secured' = IF outcome = "ok" THEN Recoverable(current) ELSE secured
  /\ UNCHANGED <<spoolVars, owed, recovered, mqttFault, accepted, done, lost, dirty>>

\* remove_committed, when this process had recovered a snapshot.
RemoveRecovered ==
  /\ phase = "cleanup"
  /\ recovered # 0
  /\ RemoveStart(recovered)
  /\ phase' = "removing"
  /\ UNCHANGED <<owed, recovered, mqttFault, historyVars>>

NothingRecovered ==
  /\ phase = "cleanup"
  /\ recovered = 0
  /\ phase' = "cleaned"
  /\ UNCHANGED <<spoolVars, owed, recovered, mqttFault, historyVars>>

RemoveReturns ==
  /\ phase = "removing"
  /\ call.step = "none"
  /\ outcome = "ok"
  /\ phase' = "cleaned"
  /\ UNCHANGED <<spoolVars, owed, recovered, mqttFault, historyVars>>

\* An error of remove_committed is returned by run: the process ends.
RemoveFails ==
  /\ phase = "removing"
  /\ call.step = "none"
  /\ outcome = "error"
  /\ phase' = "down"
  /\ owed' = {}
  /\ ProcessEnds
  /\ UNCHANGED <<recovered, mqttFault, historyVars>>

\* mark_drained and the end of the process; a structural MQTT fault blocks it.
Exit ==
  /\ phase \in {"spooled", "cleaned"}
  /\ ~mqttFault
  /\ phase' = "down"
  /\ owed' = {}
  /\ ProcessEnds
  /\ UNCHANGED <<recovered, mqttFault, historyVars>>

\* The spool call of this process goes on.
SpoolGoesOn ==
  /\ phase # "down"
  /\ SpoolStep
  /\ dirty' = (dirty \/ (call.step = "sync_dir" /\ outcome' = "error"))
  /\ UNCHANGED <<serverVars, accepted, done, lost, secured>>

-----------------------------------------------------------------------------
\* The process is killed; the bus and everything no snapshot protects are gone.
Kill ==
  /\ phase # "down"
  /\ phase' = "down"
  /\ ProcessEnds
  /\ owed' = {}
  /\ lost' = lost \cup (owed \ secured)
  /\ UNCHANGED <<recovered, mqttFault, accepted, done, secured, dirty>>

\* Accepted, not confirmed and not taken by a crash.
Outstanding == accepted \ (done \cup lost)

(***************************************************************************)
(* The machine loses power, with or without a running process; what the    *)
(* surviving snapshot does not hold is gone.                               *)
(***************************************************************************)
PowerCut ==
  /\ PowerLoss
  /\ phase' = "down"
  /\ owed' = {}
  /\ lost' = lost \cup (Outstanding \ Recoverable(current'))
  /\ UNCHANGED <<recovered, mqttFault, accepted, done, secured, dirty>>

Next ==
  \/ Recover \/ StartupFails \/ MarkRunning
  \/ \E w \in Work : Accept(w) \/ Confirm(w)
  \/ Quiesce
  \/ \E fault \in BOOLEAN : MqttCommitEnds(fault)
  \/ Drained \/ DrainTimeout
  \/ SpoolNothing \/ SpoolSnapshot \/ CommitReturns
  \/ RemoveRecovered \/ NothingRecovered \/ RemoveReturns \/ RemoveFails
  \/ Exit
  \/ SpoolGoesOn
  \/ Kill \/ PowerCut

Spec == Init /\ [][Next]_vars

-----------------------------------------------------------------------------
\* Types of the server's and of the spool's state.
TypeOK ==
  /\ SpoolTypeOK
  /\ phase \in Phases
  /\ recovered \in Nat
  /\ mqttFault \in BOOLEAN /\ dirty \in BOOLEAN
  /\ \A S \in {owed, accepted, done, lost, secured} : S \subseteq Work

(***************************************************************************)
(* A planned restart loses nothing.  Whatever was accepted and not         *)
(* confirmed is in the bus of the running process, or, when the process is *)
(* down, in the snapshot that the next start will recover.  A kill takes   *)
(* only what was accepted since the last recovered or committed snapshot.  *)
(***************************************************************************)
NothingLost ==
  Outstanding \subseteq IF phase = "down" THEN Recoverable(current) ELSE owed

(***************************************************************************)
(* While the process runs, what it recovered and what it committed stays   *)
(* on disk until it is confirmed, whichever step of a commit or a cleanup  *)
(* is interrupted.                                                         *)
(***************************************************************************)
SecuredOnDisk ==
  phase # "down" => (owed \cap secured) \subseteq Recoverable(current)

(***************************************************************************)
(* run() ends only when everything still owed is in a snapshot whose       *)
(* directory entry was synced: a power cut after the exit loses nothing.   *)
(***************************************************************************)
ExitDurable ==
  phase \in {"spooled", "cleaned"}
    => owed \subseteq Recoverable(current) \cap Recoverable(durable)

\* Neither a crash nor a power loss leaves a snapshot that blocks startup.
NeverTorn == current # Torn /\ durable # Torn

(***************************************************************************)
(* A shutdown that drained everything leaves no snapshot behind, so that   *)
(* the next start does not deliver confirmed events again; the exception   *)
(* is a commit that failed after its rename.                               *)
(***************************************************************************)
DrainedLeavesNoSpool == (phase = "cleaned" /\ ~dirty) => current = NoFile

(***************************************************************************)
(* The inductive strengthening of NothingLost: a commit in progress holds  *)
(* at least what is owed at every step, and a cleanup only ever runs when  *)
(* nothing is owed.                                                        *)
(***************************************************************************)
CommitCovers ==
  /\ call.step \in {"write", "sync", "rename", "sync_dir"} => phase = "committing"
  /\ call.step \in {"unlink", "sync_unlink"} => phase = "removing"
  /\ call.step \in {"write", "sync", "rename"}
       => call.image \in Images /\ owed \subseteq call.image.records
  /\ call.step \in {"sync", "rename"}
       => temp \in Images /\ temp.records = call.image.records
  /\ call.step = "sync_dir" => owed \subseteq Recoverable(current)
  /\ (phase = "committing" /\ call.step = "none" /\ outcome = "ok")
       => owed \subseteq Recoverable(current) \cap Recoverable(durable)
  /\ phase \in {"cleanup", "removing", "cleaned"} => owed = {}
  /\ phase = "starting" => owed \subseteq secured

\* Snapshots hold nothing that was not accepted.
OnlyAccepted ==
  /\ owed \subseteq accepted /\ secured \subseteq accepted
  /\ \A file \in {current, durable, temp, call.image} : Recoverable(file) \subseteq accepted

IInv ==
  TypeOK /\ CommitCovers /\ OnlyAccepted /\ NothingLost /\ SecuredOnDisk /\ ExitDurable

-----------------------------------------------------------------------------
(***************************************************************************)
(* Fairness for the shutdown: run() goes on when it can, and storage that  *)
(* is tried again and again works in the end.  Sinks need not confirm.     *)
(***************************************************************************)
ServerStep ==
  \/ Drained \/ DrainTimeout \/ SpoolNothing \/ SpoolSnapshot \/ CommitReturns
  \/ RemoveRecovered \/ NothingRecovered \/ RemoveReturns \/ RemoveFails \/ Exit
  \/ MqttCommitEnds(FALSE) \/ MqttCommitEnds(TRUE)

Fairness ==
  /\ WF_vars(ServerStep)
  /\ WF_vars(SpoolGoesOn)
  /\ \A s \in Steps : SF_vars(call.step = s /\ SpoolGoesOn /\ outcome' # "error")

FairSpec == Spec /\ Fairness

\* Snapshots the spool's own limits let through.
Storable(w) == w \in Fitting /\ ~TooManyRecords(w)

(***************************************************************************)
(* A planned shutdown of a server that owes no more than the spool's       *)
(* limits hold ends, with sinks that never confirm and storage that fails  *)
(* now and then, unless the MQTT snapshot is structurally at fault or the  *)
(* directory or the generations are used up.  Over the limits every commit *)
(* is refused, and the server stays, retrying, until sinks confirm enough. *)
(***************************************************************************)
ShutdownEnds ==
  (phase = "quiesced" /\ Storable(owed)) ~> (phase = "down" \/ mqttFault \/ DirectoryRefuses)
=============================================================================
