---------------------------- MODULE RestartSpool ----------------------------
(***************************************************************************)
(* The EventBus restart spool on disk (runtime/src/spool.rs and            *)
(* runtime/src/recovery_io.rs): commit, recover and remove_committed, one  *)
(* action per file-system call, each of which may fail.                    *)
(*                                                                         *)
(* An image is a snapshot file: its generation, the responsibilities it    *)
(* records and whether its contents were synced.  current is what the      *)
(* directory shows to a process; durable is what the directory is known to *)
(* hold after its last sync, so a power loss may bring that back.  The     *)
(* Unix commit path is modelled (rename, then directory fsync).            *)
(*                                                                         *)
(* The limits on a snapshot are those of commit_serializable_sync: the     *)
(* number of its records, one per event, and the bytes of a record and of  *)
(* the file.  Fitting holds the snapshots within the byte limits; one with *)
(* fewer responsibilities is no larger (the digits of a retry count are    *)
(* not told apart).                                                        *)
(***************************************************************************)
EXTENDS Naturals, FiniteSets

CONSTANTS
  Work,            \* required responsibilities: an event and one of its sinks
  EventOf,         \* the event of a responsibility; a snapshot has a record for each
  MaxRecords,      \* spool_max_records
  Fitting,         \* what the record, segment and spool byte limits let through
  NoFile, Torn,    \* no snapshot; a file that fails validation
  MaxStray,        \* entries after which a commit finds no temporary capacity
  MaxGeneration    \* the last generation; the code's bound is that of u64

VARIABLES
  current, durable,   \* the named snapshot, seen now / after the last dir sync
  temp,               \* the private temporary file of the running commit
  stray,              \* abandoned temporary files
  call,               \* the running spool call and its next step
  outcome             \* what the last call returned

diskVars  == <<current, durable, temp, stray>>
spoolVars == <<diskVars, call, outcome>>

Image(g, w, s) == [generation |-> g, records |-> w, synced |-> s]
Images == [generation : Nat, records : SUBSET Work, synced : BOOLEAN]

ASSUME SpoolConstants ==
  /\ NoFile # Torn /\ NoFile \notin Images /\ Torn \notin Images
  /\ MaxStray \in Nat /\ MaxGeneration \in Nat /\ MaxRecords \in Nat
  /\ DOMAIN EventOf = Work
  /\ Fitting \subseteq SUBSET Work
  /\ \A w \in Fitting : SUBSET w \subseteq Fitting

Steps == {"none", "write", "sync", "rename", "sync_dir", "unlink", "sync_unlink"}

Idle == [step |-> "none", image |-> NoFile]

SpoolInit ==
  /\ current = NoFile
  /\ durable = NoFile
  /\ temp = NoFile
  /\ stray = 0
  /\ call = Idle
  /\ outcome = "none"

\* Responsibilities that recover would hand to the bus.
Recoverable(file) == IF file \in {NoFile, Torn} THEN {} ELSE file.records

GenerationOf(file) == IF file \in {NoFile, Torn} THEN 0 ELSE file.generation

-----------------------------------------------------------------------------
\* A step of the running call; the call goes on with step s.
Goto(s) == call' = [call EXCEPT !.step = s] /\ UNCHANGED outcome

Return(result) == call' = Idle /\ outcome' = result

(***************************************************************************)
(* commit_serializable_sync.  Too many records, an unreadable snapshot, a  *)
(* directory full of temporary files or the last generation is refused     *)
(* before anything is written.  A snapshot over a byte limit is refused    *)
(* while it is written: only StepFails can follow, however often the same  *)
(* snapshot is tried.                                                      *)
(***************************************************************************)
TooManyRecords(w) == Cardinality({EventOf[x] : x \in w}) > MaxRecords

DirectoryRefuses ==
  current = Torn \/ stray >= MaxStray \/ GenerationOf(current) >= MaxGeneration

CommitRefused(w) == TooManyRecords(w) \/ DirectoryRefuses

CommitStart(w) ==
  /\ call.step = "none"
  /\ IF CommitRefused(w)
     THEN UNCHANGED call /\ outcome' = "error"
     ELSE call' = [step |-> "write", image |-> Image(GenerationOf(current) + 1, w, FALSE)]
          /\ outcome' = "none"
  /\ UNCHANGED diskVars

WriteTemp ==
  /\ call.step = "write"
  /\ call.image.records \in Fitting
  /\ temp' = call.image
  /\ Goto("sync")
  /\ UNCHANGED <<current, durable, stray>>

\* Renaming what was written without file.sync_all().
SkipSync == temp' = temp

SyncContents == temp' = [temp EXCEPT !.synced = TRUE]

SyncTemp ==
  /\ call.step = "sync"
  /\ SyncContents
  /\ Goto("rename")
  /\ UNCHANGED <<current, durable, stray>>

RenameTemp ==
  /\ call.step = "rename"
  /\ current' = temp
  /\ temp' = NoFile
  /\ Goto("sync_dir")
  /\ UNCHANGED <<durable, stray>>

SyncDirectory ==
  /\ call.step \in {"sync_dir", "sync_unlink"}
  /\ durable' = current
  /\ Return("ok")
  /\ UNCHANGED <<current, temp, stray>>

OneMoreStray == IF stray < MaxStray THEN stray + 1 ELSE stray

\* The temporary files the running commit may leave; while it writes, its file may
\* exist in part.
StrayAtEnd ==
  IF temp # NoFile THEN {OneMoreStray}
  ELSE IF call.step = "write" THEN {stray, OneMoreStray}
  ELSE {stray}

(***************************************************************************)
(* A failing step ends the call.  The temporary file is removed, or stays  *)
(* behind when that fails too; a rename that has happened is not undone.   *)
(***************************************************************************)
StepFails ==
  /\ call.step # "none"
  /\ temp' = NoFile
  /\ stray' \in {stray} \cup StrayAtEnd
  /\ Return("error")
  /\ UNCHANGED <<current, durable>>

-----------------------------------------------------------------------------
\* Expecting the snapshot that this process would have written.
NextGeneration(g) == current.generation = g + 1

\* remove_committed compares the generation on disk with the recovered one.
GenerationMatches(g) == current.generation = g

RemoveStart(g) ==
  /\ call.step = "none"
  /\ IF current \in {NoFile, Torn}
     THEN UNCHANGED call /\ outcome' = "error"
     ELSE call' = [step |-> IF GenerationMatches(g) THEN "unlink" ELSE "sync_unlink",
                   image |-> NoFile]
          /\ outcome' = "none"
  /\ UNCHANGED diskVars

Unlink ==
  /\ call.step = "unlink"
  /\ current' = NoFile
  /\ Goto("sync_unlink")
  /\ UNCHANGED <<durable, temp, stray>>

SpoolStep ==
  \/ WriteTemp
  \/ SyncTemp
  \/ RenameTemp
  \/ SyncDirectory
  \/ StepFails
  \/ Unlink

-----------------------------------------------------------------------------
\* Whatever a power loss may do to the contents of a file.
AfterPowerLoss(file) ==
  IF file \in {NoFile, Torn} \/ file.synced THEN {file} ELSE {file, Torn}

\* The process ends: the files stay as they are, a temporary file as garbage.
ProcessEnds ==
  /\ temp' = NoFile
  /\ stray' \in StrayAtEnd
  /\ call' = Idle
  /\ outcome' = "none"
  /\ UNCHANGED <<current, durable>>

\* The machine ends: an entry that was not synced may be the old one again.
PowerLoss ==
  /\ temp' = NoFile
  /\ stray' \in StrayAtEnd
  /\ call' = Idle
  /\ outcome' = "none"
  /\ \E file \in {current, durable} : current' \in AfterPowerLoss(file)
  /\ durable' = current'

SpoolTypeOK ==
  /\ current \in Images \cup {NoFile, Torn}
  /\ durable \in Images \cup {NoFile, Torn}
  /\ temp \in Images \cup {NoFile}
  /\ stray \in 0..MaxStray
  /\ call \in [step : Steps, image : Images \cup {NoFile}]
  /\ outcome \in {"none", "ok", "error"}
=============================================================================
