------------------------ MODULE PlannedRestartProofs ------------------------
(***************************************************************************)
(* Proofs about PlannedRestart, for any set of responsibilities, any       *)
(* number of restarts and any pattern of storage failures and crashes.     *)
(***************************************************************************)
EXTENDS PlannedRestart, TLAPS

\* What recovery reads from a file is a set of responsibilities.
LEMMA RecoverableTyped ==
  ASSUME NEW file \in Images \cup {NoFile, Torn}
  PROVE  /\ Recoverable(file) \subseteq Work
         /\ GenerationOf(file) \in Nat
         /\ file \in Images => Recoverable(file) = file.records
BY SpoolConstants DEF Recoverable, GenerationOf, Images

\* A power loss keeps the file, or tears one that was not synced.
LEMMA PowerLossTyped ==
  ASSUME NEW file \in Images \cup {NoFile, Torn}, NEW after \in AfterPowerLoss(file)
  PROVE  after \in Images \cup {NoFile, Torn}
BY DEF AfterPowerLoss

\* A commit leaves at most one temporary file, within the directory's room.
LEMMA StrayTyped ==
  ASSUME stray \in 0..MaxStray
  PROVE  StrayAtEnd \subseteq 0..MaxStray
BY SpoolConstants DEF StrayAtEnd, OneMoreStray

\* No process has run: nothing is owed and nothing is on disk.
LEMMA InitIInv == Init => IInv
<1>. SUFFICES ASSUME Init PROVE IInv
  OBVIOUS
<1>. USE DEF Init, SpoolInit, Idle
<1>1. SpoolTypeOK
  BY SpoolConstants DEF SpoolTypeOK, Steps
<1>. HIDE DEF SpoolInit
<1>5. TypeOK
  BY <1>1 DEF TypeOK, Phases
<1>. USE DEF SpoolInit
<1>2. CommitCovers
  BY DEF CommitCovers
<1>3. OnlyAccepted
  BY DEF OnlyAccepted, Recoverable
<1>4. NothingLost /\ SecuredOnDisk /\ ExitDurable
  BY DEF NothingLost, SecuredOnDisk, ExitDurable, Outstanding
<1>. QED  BY <1>2, <1>3, <1>4, <1>5 DEF IInv

\* The end of the process leaves the named snapshot alone.
LEMMA ProcessEndsTyped ==
  ASSUME TypeOK, ProcessEnds
  PROVE  SpoolTypeOK' /\ current' = current /\ call'.step = "none"
BY SpoolConstants, StrayTyped DEF TypeOK, SpoolTypeOK, ProcessEnds, Idle, Steps

\* Each step of a spool call keeps the types of the disk.
LEMMA SpoolStepTyped ==
  ASSUME TypeOK, CommitCovers, SpoolStep
  PROVE  SpoolTypeOK'
<1>. USE DEF TypeOK, SpoolTypeOK
<1>1. CASE WriteTemp
  BY <1>1 DEF WriteTemp, Goto, CommitCovers, Steps
<1>2. CASE SyncTemp
  <2>1. temp \in Images
    BY <1>2 DEF SyncTemp, CommitCovers
  <2>2. [temp EXCEPT !.synced = TRUE] \in Images
    BY <2>1 DEF Images
  <2>. QED  BY <1>2, <2>2 DEF SyncTemp, SyncContents, Goto, Steps
<1>3. CASE RenameTemp
  BY <1>3 DEF RenameTemp, CommitCovers, Goto, Steps
<1>4. CASE SyncDirectory
  BY <1>4 DEF SyncDirectory, Return, Idle, Steps
<1>5. CASE StepFails
  BY <1>5, SpoolConstants, StrayTyped DEF StepFails, Return, Idle, Steps
<1>6. CASE Unlink
  BY <1>6 DEF Unlink, Goto, Steps
<1>. QED  BY <1>1, <1>2, <1>3, <1>4, <1>5, <1>6 DEF SpoolStep

\* Each step of a spool call keeps what is owed covered by the files.
LEMMA SpoolGoesOnIInv ==
  ASSUME IInv, SpoolGoesOn
  PROVE  IInv'
<1>. USE DEF IInv
<1>1. /\ UNCHANGED <<phase, owed, recovered, mqttFault, accepted, done, lost, secured>>
      /\ phase # "down"
  BY DEF SpoolGoesOn, serverVars
<1>2. SpoolTypeOK'
  BY SpoolStepTyped DEF SpoolGoesOn
<1>3. dirty' \in BOOLEAN
  BY DEF SpoolGoesOn
<1>4. TypeOK'
  BY <1>1, <1>2, <1>3 DEF TypeOK
<1>5. NothingLost'
  BY <1>1 DEF NothingLost, Outstanding
<1>A. OnlyAccepted'
  <2>1. ASSUME NEW file \in {current', durable', temp', call'.image}
        PROVE  Recoverable(file) \subseteq accepted
    <3>1. CASE file \in {current, durable, temp, call.image, NoFile}
      BY <3>1 DEF OnlyAccepted, Recoverable
    <3>2. CASE SyncTemp /\ file = temp'
      <4>1. temp \in Images
        BY <3>2 DEF SyncTemp, CommitCovers
      <4>2. file \in Images /\ file.records = temp.records
        BY <3>2, <4>1 DEF SyncTemp, SyncContents, Images
      <4>3. Recoverable(file) = Recoverable(temp)
        BY <4>1, <4>2, RecoverableTyped
      <4>. QED  BY <4>3 DEF OnlyAccepted
    <3>. QED
      BY <3>1, <3>2 DEF SpoolGoesOn, SpoolStep, WriteTemp, SyncTemp, RenameTemp, SyncDirectory,
                        StepFails, Unlink, Goto, Return, Idle, TypeOK, SpoolTypeOK
  <2>. QED  BY <1>1, <2>1 DEF OnlyAccepted
<1>6. ASSUME CommitCovers', (owed \cap secured) \subseteq Recoverable(current'),
             phase \notin {"spooled", "cleaned"}
      PROVE  IInv'
  BY <1>1, <1>A, <1>4, <1>5, <1>6 DEF SecuredOnDisk, ExitDurable
<1>7. (owed \cap secured) \subseteq Recoverable(current)
  BY <1>1 DEF SecuredOnDisk
<1>8. CASE WriteTemp
  <2>1. phase = "committing" /\ current' = current /\ call'.step = "sync" /\ temp' = call.image
        /\ call'.image = call.image
    BY <1>8 DEF WriteTemp, Goto, CommitCovers, TypeOK, SpoolTypeOK
  <2>2. CommitCovers'
    BY <1>1, <1>8, <2>1 DEF WriteTemp, CommitCovers
  <2>. QED  BY <1>6, <1>7, <2>1, <2>2
<1>9. CASE SyncTemp
  <2>1. phase = "committing" /\ current' = current /\ call'.step = "rename"
        /\ call'.image = call.image /\ temp' = [temp EXCEPT !.synced = TRUE]
    BY <1>9 DEF SyncTemp, SyncContents, Goto, CommitCovers, TypeOK, SpoolTypeOK
  <2>2. temp \in Images /\ temp.records = call.image.records
    BY <1>9 DEF SyncTemp, CommitCovers
  <2>3. temp' \in Images /\ temp'.records = temp.records
    BY <2>1, <2>2 DEF Images
  <2>4. CommitCovers'
    BY <1>1, <1>9, <2>1, <2>2, <2>3 DEF SyncTemp, CommitCovers
  <2>. QED  BY <1>6, <1>7, <2>1, <2>4
<1>10. CASE RenameTemp
  <2>1. phase = "committing" /\ current' = temp /\ call'.step = "sync_dir"
    BY <1>10 DEF RenameTemp, Goto, CommitCovers, TypeOK, SpoolTypeOK
  <2>2. temp \in Images /\ owed \subseteq temp.records
    BY <1>10 DEF RenameTemp, CommitCovers
  <2>3. owed \subseteq Recoverable(current')
    BY <2>1, <2>2, RecoverableTyped
  <2>4. CommitCovers'
    BY <1>1, <2>1, <2>3 DEF CommitCovers
  <2>. QED  BY <1>6, <2>1, <2>3, <2>4
<1>11. CASE SyncDirectory
  <2>1. current' = current /\ durable' = current /\ call'.step = "none"
    BY <1>11 DEF SyncDirectory, Return, Idle
  <2>2. phase \in {"committing", "removing"} /\ (phase = "committing" => call.step = "sync_dir")
    BY <1>11 DEF SyncDirectory, CommitCovers
  <2>3. CommitCovers'
    BY <1>1, <2>1, <2>2 DEF CommitCovers
  <2>. QED  BY <1>6, <1>7, <2>1, <2>2, <2>3
<1>12. CASE StepFails
  <2>1. current' = current /\ call'.step = "none" /\ outcome' = "error"
    BY <1>12 DEF StepFails, Return, Idle
  <2>2. phase \in {"committing", "removing"}
    BY <1>12 DEF StepFails, CommitCovers, TypeOK, SpoolTypeOK, Steps
  <2>3. CommitCovers'
    BY <1>1, <2>1, <2>2 DEF CommitCovers
  <2>. QED  BY <1>6, <1>7, <2>1, <2>2, <2>3
<1>13. CASE Unlink
  <2>1. phase = "removing" /\ owed = {} /\ call'.step = "sync_unlink"
    BY <1>13 DEF Unlink, Goto, CommitCovers, TypeOK, SpoolTypeOK
  <2>2. CommitCovers'
    BY <1>1, <2>1 DEF CommitCovers
  <2>. QED  BY <1>6, <2>1, <2>2
<1>. QED
  BY <1>8, <1>9, <1>10, <1>11, <1>12, <1>13 DEF SpoolGoesOn, SpoolStep

\* Starting and accepting: what is recovered is owed again, new work is owed.
LEMMA RunningIInv ==
  ASSUME IInv, \/ Recover \/ MarkRunning \/ Quiesce
               \/ \E w \in Work : Accept(w) \/ Confirm(w)
               \/ \E fault \in BOOLEAN : MqttCommitEnds(fault)
  PROVE  IInv'
<1>. USE DEF IInv
<1>1. CASE Recover
  <2>1. Recoverable(current) \subseteq Work /\ GenerationOf(current) \in Nat
    BY RecoverableTyped DEF TypeOK, SpoolTypeOK
  <2>2. TypeOK'
    BY <1>1, <2>1 DEF Recover, TypeOK, SpoolTypeOK, spoolVars, diskVars, Phases
  <2>3. call.step = "none"
    BY <1>1 DEF Recover, CommitCovers, TypeOK, SpoolTypeOK, Steps
  <2>4. CommitCovers' /\ SecuredOnDisk' /\ ExitDurable'
    BY <1>1, <2>3 DEF Recover, CommitCovers, SecuredOnDisk, ExitDurable, spoolVars, diskVars
  <2>5. NothingLost'
    BY <1>1 DEF Recover, NothingLost, Outstanding
  <2>6. OnlyAccepted'
    BY <1>1 DEF Recover, OnlyAccepted, spoolVars, diskVars
  <2>. QED  BY <2>2, <2>4, <2>5, <2>6
<1>2. CASE MarkRunning \/ Quiesce \/ \E fault \in BOOLEAN : MqttCommitEnds(fault)
  <2>1. /\ UNCHANGED <<spoolVars, owed, recovered, historyVars>>
        /\ mqttFault' \in BOOLEAN
        /\ phase \in {"starting", "running", "quiesced"}
        /\ phase' \in {"running", "quiesced", "draining"}
    BY <1>2 DEF MarkRunning, Quiesce, MqttCommitEnds, TypeOK
  <2>2. TypeOK'
    BY <2>1 DEF TypeOK, SpoolTypeOK, spoolVars, diskVars, historyVars, Phases
  <2>3. CommitCovers' /\ SecuredOnDisk' /\ ExitDurable' /\ NothingLost'
    BY <2>1 DEF CommitCovers, SecuredOnDisk, ExitDurable, NothingLost, Outstanding,
                spoolVars, diskVars, historyVars
  <2>4. OnlyAccepted'
    BY <2>1 DEF OnlyAccepted, spoolVars, diskVars, historyVars
  <2>. QED  BY <2>2, <2>3, <2>4
<1>3. ASSUME NEW w \in Work, Accept(w) PROVE IInv'
  <2>1. TypeOK'
    BY <1>3 DEF Accept, TypeOK, SpoolTypeOK, spoolVars, diskVars
  <2>2. call.step = "none"
    BY <1>3 DEF Accept, CommitCovers, TypeOK, SpoolTypeOK, Steps
  <2>3. CommitCovers' /\ ExitDurable' /\ NothingLost'
    BY <1>3, <2>2 DEF Accept, CommitCovers, ExitDurable, NothingLost, Outstanding, spoolVars,
                      diskVars
  <2>4. SecuredOnDisk'
    BY <1>3 DEF Accept, SecuredOnDisk, OnlyAccepted, spoolVars, diskVars
  <2>5. OnlyAccepted'
    BY <1>3 DEF Accept, OnlyAccepted, spoolVars, diskVars
  <2>. QED  BY <2>1, <2>3, <2>4, <2>5
<1>4. ASSUME NEW w \in Work, Confirm(w) PROVE IInv'
  <2>1. TypeOK'
    BY <1>4 DEF Confirm, TypeOK, SpoolTypeOK, spoolVars, diskVars
  <2>2. CommitCovers' /\ SecuredOnDisk' /\ ExitDurable' /\ NothingLost'
    BY <1>4 DEF Confirm, Delivering, CommitCovers, SecuredOnDisk, ExitDurable, NothingLost,
                Outstanding, spoolVars, diskVars
  <2>3. OnlyAccepted'
    BY <1>4 DEF Confirm, OnlyAccepted, spoolVars, diskVars
  <2>. QED  BY <2>1, <2>2, <2>3
<1>. QED  BY <1>1, <1>2, <1>3, <1>4

\* The shutdown of run(): spooling covers what is owed, cleanup owes nothing.
LEMMA ShutdownIInv ==
  ASSUME IInv, \/ Drained \/ DrainTimeout \/ SpoolNothing \/ SpoolSnapshot \/ CommitReturns
               \/ RemoveRecovered \/ NothingRecovered \/ RemoveReturns
  PROVE  IInv'
<1>. USE DEF IInv
<1>1. CASE Drained \/ DrainTimeout \/ SpoolNothing \/ NothingRecovered \/ RemoveReturns
  <2>1. /\ UNCHANGED <<spoolVars, owed, recovered, mqttFault, historyVars>>
        /\ phase \notin {"down", "committing"} /\ phase' \in {"cleanup", "spooling", "cleaned"}
        /\ phase' \in {"cleanup", "cleaned"} => owed = {}
        /\ call.step = "none"
    BY <1>1 DEF Drained, DrainTimeout, SpoolNothing, NothingRecovered, RemoveReturns, StopDrained,
                WaitsBeforeSpooling, CommitCovers, TypeOK, SpoolTypeOK, Steps
  <2>2. TypeOK'
    BY <2>1 DEF TypeOK, SpoolTypeOK, spoolVars, diskVars, historyVars, Phases
  <2>3. CommitCovers' /\ SecuredOnDisk' /\ ExitDurable' /\ NothingLost' /\ OnlyAccepted'
    BY <2>1 DEF CommitCovers, SecuredOnDisk, ExitDurable, NothingLost, Outstanding, OnlyAccepted,
                spoolVars, diskVars, historyVars
  <2>. QED  BY <2>2, <2>3
<1>2. CASE SpoolSnapshot
  <2>1. /\ UNCHANGED <<diskVars, owed, recovered, mqttFault, historyVars>>
        /\ phase = "spooling" /\ phase' = "committing" /\ call.step = "none"
    BY <1>2 DEF SpoolSnapshot, CommitStart
  <2>2. GenerationOf(current) \in Nat
    BY RecoverableTyped DEF TypeOK, SpoolTypeOK
  <2>3. PICK image \in Images :
          /\ image.records = owed
          /\ \/ call' = call /\ outcome' = "error"
             \/ call' = [step |-> "write", image |-> image] /\ outcome' = "none"
    <3>. DEFINE image == Image(GenerationOf(current) + 1, owed, FALSE)
    <3>1. image \in Images /\ image.records = owed
      BY <2>2 DEF Image, Images, TypeOK
    <3>2. \/ call' = call /\ outcome' = "error"
          \/ call' = [step |-> "write", image |-> image] /\ outcome' = "none"
      BY <1>2 DEF SpoolSnapshot, CommitStart, PendingRequired
    <3>. HIDE DEF image
    <3>. QED  BY <3>1, <3>2
  <2>5. call'.step \in {"none", "write"} /\ (call'.step = "write"
           => call'.image \in Images /\ call'.image.records = owed)
    BY <2>1, <2>3
  <2>6. call' \in [step : Steps, image : Images \cup {NoFile}]
    BY <2>3 DEF TypeOK, SpoolTypeOK, Steps
  <2>7. TypeOK'
    BY <2>1, <2>3, <2>6 DEF TypeOK, SpoolTypeOK, diskVars, historyVars, Phases
  <2>8. CommitCovers'
    BY <2>1, <2>3, <2>5 DEF CommitCovers
  <2>9. SecuredOnDisk' /\ ExitDurable' /\ NothingLost'
    BY <2>1 DEF SecuredOnDisk, ExitDurable, NothingLost, Outstanding, diskVars, historyVars
  <2>10. Recoverable(call'.image) \subseteq accepted
    BY <2>3, RecoverableTyped DEF OnlyAccepted
  <2>11. OnlyAccepted'
    BY <2>1, <2>10 DEF OnlyAccepted, diskVars, historyVars
  <2>. QED  BY <2>7, <2>8, <2>9, <2>11
<1>3. CASE CommitReturns
  <2>1. /\ UNCHANGED <<spoolVars, owed, recovered, mqttFault, accepted, done, lost, dirty>>
        /\ phase = "committing" /\ call.step = "none"
        /\ phase' = IF outcome = "ok" THEN "spooled" ELSE "retry_wait"
        /\ secured' = IF outcome = "ok" THEN Recoverable(current) ELSE secured
    BY <1>3 DEF CommitReturns
  <2>2. Recoverable(current) \subseteq Work /\ Recoverable(current) \subseteq accepted
    BY RecoverableTyped DEF TypeOK, SpoolTypeOK, OnlyAccepted
  <2>3. TypeOK'
    BY <2>1, <2>2 DEF TypeOK, SpoolTypeOK, spoolVars, diskVars, Phases
  <2>4. CommitCovers' /\ SecuredOnDisk' /\ ExitDurable' /\ NothingLost'
    BY <2>1 DEF CommitCovers, SecuredOnDisk, ExitDurable, NothingLost, Outstanding, spoolVars,
                diskVars
  <2>5. OnlyAccepted'
    BY <2>1, <2>2 DEF OnlyAccepted, spoolVars, diskVars
  <2>. QED  BY <2>3, <2>4, <2>5
<1>4. CASE RemoveRecovered
  <2>1. /\ UNCHANGED <<diskVars, owed, recovered, mqttFault, historyVars>>
        /\ phase = "cleanup" /\ phase' = "removing" /\ owed = {} /\ call.step = "none"
    BY <1>4 DEF RemoveRecovered, RemoveStart, CommitCovers
  <2>2. \/ call' = call /\ outcome' = "error"
        \/ /\ call'.step \in {"unlink", "sync_unlink"} /\ call'.image = NoFile
           /\ call' \in [step : Steps, image : {NoFile}] /\ outcome' = "none"
    BY <1>4 DEF RemoveRecovered, RemoveStart, Steps
  <2>3. TypeOK'
    BY <2>1, <2>2 DEF TypeOK, SpoolTypeOK, diskVars, historyVars, Phases
  <2>4. CommitCovers'
    BY <2>1, <2>2 DEF CommitCovers
  <2>5. SecuredOnDisk' /\ ExitDurable' /\ NothingLost'
    BY <2>1 DEF SecuredOnDisk, ExitDurable, NothingLost, Outstanding, diskVars, historyVars
  <2>6. Recoverable(call'.image) \subseteq accepted
    BY <2>2 DEF OnlyAccepted, Recoverable
  <2>7. OnlyAccepted'
    BY <2>1, <2>6 DEF OnlyAccepted, diskVars, historyVars
  <2>. QED  BY <2>3, <2>4, <2>5, <2>7
<1>. QED  BY <1>1, <1>2, <1>3, <1>4

\* The process ends, by itself or by a kill: the snapshot holds what is left.
LEMMA EndIInv ==
  ASSUME IInv, StartupFails \/ RemoveFails \/ Exit \/ Kill
  PROVE  IInv'
<1>. USE DEF IInv
<1>1. /\ ProcessEnds /\ phase # "down" /\ phase' = "down" /\ owed' = {}
      /\ UNCHANGED <<recovered, mqttFault, accepted, done, secured, dirty>>
  BY DEF StartupFails, RemoveFails, Exit, Kill, historyVars
<1>2. \/ lost' = lost /\ owed \subseteq Recoverable(current)
      \/ lost' = lost \cup (owed \ secured)
  BY DEF StartupFails, RemoveFails, Exit, Kill, CommitCovers, SecuredOnDisk, ExitDurable,
         historyVars
<1>3. SpoolTypeOK' /\ current' = current /\ call'.step = "none"
  BY <1>1, ProcessEndsTyped
<1>4. TypeOK'
  BY <1>1, <1>2, <1>3 DEF TypeOK, Phases
<1>5. CommitCovers' /\ SecuredOnDisk' /\ ExitDurable'
  BY <1>1, <1>3 DEF CommitCovers, SecuredOnDisk, ExitDurable
<1>6. NothingLost'
  <2>1. Outstanding \subseteq owed /\ (owed \cap secured) \subseteq Recoverable(current)
    BY <1>1 DEF NothingLost, SecuredOnDisk
  <2>2. Outstanding' \subseteq Recoverable(current)
    BY <1>1, <1>2, <2>1 DEF Outstanding
  <2>. QED  BY <1>1, <1>3, <2>2 DEF NothingLost
<1>7. OnlyAccepted'
  BY <1>1 DEF ProcessEnds, Idle, OnlyAccepted, Recoverable
<1>. QED  BY <1>4, <1>5, <1>6, <1>7

\* A power cut is charged with what it takes.
LEMMA PowerCutIInv ==
  ASSUME IInv, PowerCut
  PROVE  IInv'
<1>. USE DEF IInv
<1>1. PICK file \in {current, durable} : current' \in AfterPowerLoss(file)
  BY DEF PowerCut, PowerLoss
<1>2. current' \in Images \cup {NoFile, Torn} /\ durable' = current'
  BY <1>1, PowerLossTyped DEF PowerCut, PowerLoss, TypeOK, SpoolTypeOK
<1>3. /\ phase' = "down" /\ owed' = {} /\ temp' = NoFile /\ call' = Idle /\ outcome' = "none"
      /\ stray' \in StrayAtEnd
      /\ lost' = lost \cup (Outstanding \ Recoverable(current'))
      /\ UNCHANGED <<recovered, mqttFault, accepted, done, secured, dirty>>
  BY DEF PowerCut, PowerLoss
<1>4. Outstanding \subseteq Work
  BY DEF Outstanding, TypeOK
<1>5. SpoolTypeOK'
  BY <1>2, <1>3, SpoolConstants, StrayTyped DEF TypeOK, SpoolTypeOK, Idle, Steps
<1>6. TypeOK'
  BY <1>3, <1>4, <1>5 DEF TypeOK, Phases
<1>7. CommitCovers' /\ SecuredOnDisk' /\ ExitDurable'
  BY <1>3 DEF CommitCovers, SecuredOnDisk, ExitDurable, Idle
<1>8. NothingLost'
  BY <1>3 DEF NothingLost, Outstanding
<1>9. Recoverable(current') \subseteq accepted
  BY <1>1 DEF AfterPowerLoss, OnlyAccepted, Recoverable
<1>10. OnlyAccepted'
  BY <1>2, <1>3, <1>9 DEF OnlyAccepted, Idle, Recoverable
<1>. QED  BY <1>6, <1>7, <1>8, <1>10

\* Every step keeps the inductive invariant.
LEMMA NextIInv == IInv /\ [Next]_vars => IInv'
<1>. SUFFICES ASSUME IInv, [Next]_vars PROVE IInv'
  OBVIOUS
<1>1. CASE UNCHANGED vars
  <2>1. TypeOK'
    BY <1>1 DEF IInv, TypeOK, SpoolTypeOK, vars, spoolVars, diskVars, serverVars, historyVars
  <2>2. CommitCovers' /\ OnlyAccepted' /\ NothingLost' /\ SecuredOnDisk' /\ ExitDurable'
    BY <1>1 DEF IInv, CommitCovers, OnlyAccepted, NothingLost, SecuredOnDisk, ExitDurable,
                Outstanding, vars, spoolVars, diskVars, serverVars, historyVars
  <2>. QED  BY <2>1, <2>2 DEF IInv
<1>. QED
  BY <1>1, RunningIInv, ShutdownIInv, SpoolGoesOnIInv, EndIInv, PowerCutIInv DEF Next

\* The inductive invariant holds across any number of restarts.
THEOREM RestartInvariant == Spec => []IInv
BY InitIInv, NextIInv, PTL DEF Spec

(***************************************************************************)
(* Across any number of planned restarts, kills and failed commits, what   *)
(* was accepted and neither confirmed nor lost by a crash is in the bus or *)
(* in the snapshot the next start recovers.                                *)
(***************************************************************************)
THEOREM NothingIsLost == Spec => []NothingLost
<1>1. IInv => NothingLost
  BY DEF IInv
<1>. QED  BY <1>1, RestartInvariant, PTL

\* Recovered and committed responsibilities stay on disk until confirmed.
THEOREM SecuredStaysOnDisk == Spec => []SecuredOnDisk
<1>1. IInv => SecuredOnDisk
  BY DEF IInv
<1>. QED  BY <1>1, RestartInvariant, PTL

\* run() ends only with everything it owes in a synced snapshot.
THEOREM ExitIsDurable == Spec => []ExitDurable
<1>1. IInv => ExitDurable
  BY DEF IInv
<1>. QED  BY <1>1, RestartInvariant, PTL
=============================================================================
