--------------------------- MODULE CommandDispatch ---------------------------
(***************************************************************************)
(* Command dispatch: CommandService.send with its process-local dedup      *)
(* registry, the router's send_admitted over the session registry, the     *)
(* CommandProgress each dispatch gets, and the TCP connection task that    *)
(* takes commands from its channel and writes them (runtime commands.rs,   *)
(* transports tcp.rs).                                                     *)
(*                                                                         *)
(* Each sender makes one call, so a sender also names the attempt and its  *)
(* fresh CommandProgress.  Calls share a command id when IdOf agrees and   *)
(* have the same contents when PrintOf agrees too.                         *)
(***************************************************************************)
EXTENDS Sessions

CONSTANTS
    Ids, IdOf, PrintOf, TargetOf,
    ExpiryOf,            \* the expires_at each call supplies, or NoExpiry
    CommandTtl,          \* command_ttl_ms: the expiry a call without one gets
    Retention,           \* command_dedup_ttl_ms
    MaxEntries           \* command_dedup_max_entries

NoExpiry == -1

ASSUME CommandConstants ==
    /\ IdOf \in [Senders -> Ids]
    /\ TargetOf \in [Senders -> Devices]
    /\ DOMAIN PrintOf = Senders
    /\ ExpiryOf \in [Senders -> Nat \cup {NoExpiry}]
    /\ \A p, q \in Senders : PrintOf[p] = PrintOf[q] => ExpiryOf[p] = ExpiryOf[q]
    /\ CommandTtl \in Nat \ {0} /\ Retention \in Nat /\ MaxEntries \in Nat

VARIABLES
    entries,     \* id -> its CommandEntry
    call,        \* sender -> where its call of send is
    waitsFor,    \* sender -> the owner whose watch channel it subscribed to
    answer,      \* sender -> what its call returned
    progress,    \* sender -> its CommandProgress state
    expiresAt,   \* sender -> its CommandProgress.expires_at
    sentAt,      \* history: when try_send accepted the command, -1 before
    wire         \* history: commands whose bytes the task began to write

callVars == <<entries, call, waitsFor, answer>>
dispatchVars == <<sessionVars, callVars, progress, expiresAt, sentAt, wire>>

NoEntry == [state |-> "none", owner |-> 0, until |-> 0]

-----------------------------------------------------------------------------
(***************************************************************************)
(* CommandProgress: what its operations make of a state, at time now.      *)
(***************************************************************************)
\* Mutant: expiry also overwrites a transfer that has begun.
ExpiredAnyUnsent(s, deadline) ==
    IF s \in {"queued", "dispatching"} /\ now >= deadline THEN "expired" ELSE s

Expired(s, deadline) == IF s = "queued" /\ now >= deadline THEN "expired" ELSE s

\* begin_transfer, and whether it lets the transport write.
Begun(s, deadline) ==
    IF Expired(s, deadline) = "queued" THEN "dispatching" ELSE Expired(s, deadline)

MayWrite(s, deadline) == Expired(s, deadline) \in {"queued", "dispatching", "sent"}

\* Mutant: only a command whose transfer began is marked when it is dropped.
AbandonedQueuedKept(s, deadline) ==
    IF Expired(s, deadline) = "dispatching" THEN "failed" ELSE Expired(s, deadline)

\* Mutant: dropping the box also fails a command that was sent.
AbandonedSent(s, deadline) ==
    IF Expired(s, deadline) \in {"queued", "dispatching", "sent"} THEN "failed"
    ELSE Expired(s, deadline)

Abandoned(s, deadline) ==
    IF Expired(s, deadline) \in {"queued", "dispatching"} THEN "failed" ELSE Expired(s, deadline)

\* update: receipt and expiry are final; Sent needs a transfer that began.
Updated(s, next) ==
    IF s \in {"received", "expired"} \/ (next = "sent" /\ s \notin {"dispatching", "failed"})
    THEN s ELSE next

\* The boxes in P are dropped (Drop for QueuedCommand).
DropBoxes(P) ==
    progress' = [p \in Senders |-> IF p \in P THEN Abandoned(progress[p], expiresAt[p])
                                   ELSE progress[p]]

-----------------------------------------------------------------------------
CommandsInit ==
    /\ SessionsInit
    /\ entries = [i \in Ids |-> NoEntry]
    /\ call = [p \in Senders |-> "idle"]
    /\ waitsFor = [p \in Senders |-> 0]
    /\ answer = [p \in Senders |-> "none"]
    /\ progress = [p \in Senders |-> "none"]
    /\ expiresAt = [p \in Senders |-> 0]
    /\ sentAt = [p \in Senders |-> -1]
    /\ wire = {}

(***************************************************************************)
(* One pass of send's loop under the dedup lock: prune, then hit, conflict,*)
(* wait, refuse or reserve.                                                *)
(***************************************************************************)
Retained(i) == ~(entries[i].state = "accepted" /\ entries[i].until <= now)

\* Mutant: the prune also drops the reservation of a call still in flight.
PrunedEntriesAll == [i \in Ids |-> IF entries[i].until <= now THEN NoEntry ELSE entries[i]]

PrunedEntries == [i \in Ids |-> IF Retained(i) THEN entries[i] ELSE NoEntry]

AtRegistry(p) == call[p] \in {"idle", "looping"}

Answer(p, what) ==
    /\ answer' = [answer EXCEPT ![p] = what]
    /\ call' = [call EXCEPT ![p] = "done"]

Hit(p) ==
    LET e == PrunedEntries[IdOf[p]]
    IN  /\ AtRegistry(p)
        /\ e.state = "accepted"
        /\ PrintOf[e.owner] = PrintOf[p]
        /\ progress' = [progress EXCEPT ![e.owner] = Expired(@, expiresAt[e.owner])]
        /\ Answer(p, "receipt")
        /\ entries' = PrunedEntries
        /\ UNCHANGED <<sessionVars, waitsFor, expiresAt, sentAt, wire>>

Conflict(p) ==
    LET e == PrunedEntries[IdOf[p]]
    IN  /\ AtRegistry(p)
        /\ e.state # "none"
        /\ PrintOf[e.owner] # PrintOf[p]
        /\ Answer(p, "error")
        /\ entries' = PrunedEntries
        /\ UNCHANGED <<sessionVars, waitsFor, progress, expiresAt, sentAt, wire>>

Subscribe(p) ==
    LET e == PrunedEntries[IdOf[p]]
    IN  /\ AtRegistry(p)
        /\ e.state = "inflight"
        /\ PrintOf[e.owner] = PrintOf[p]
        /\ call' = [call EXCEPT ![p] = "waiting"]
        /\ waitsFor' = [waitsFor EXCEPT ![p] = e.owner]
        /\ entries' = PrunedEntries
        /\ UNCHANGED <<sessionVars, answer, progress, expiresAt, sentAt, wire>>

Full == Cardinality({i \in Ids : PrunedEntries[i].state # "none"}) >= MaxEntries

Overloaded(p) ==
    /\ AtRegistry(p)
    /\ PrunedEntries[IdOf[p]].state = "none"
    /\ Full
    /\ Answer(p, "error")
    /\ entries' = PrunedEntries
    /\ UNCHANGED <<sessionVars, waitsFor, progress, expiresAt, sentAt, wire>>

\* The expiry a dispatch would get; a supplied one lies within the maximum.
Deadline(p) == IF ExpiryOf[p] = NoExpiry THEN now + CommandTtl ELSE ExpiryOf[p]
ValidDeadline(p) == now < Deadline(p) /\ Deadline(p) <= now + CommandTtl

Invalid(p) ==
    /\ AtRegistry(p)
    /\ PrunedEntries[IdOf[p]].state = "none"
    /\ ~Full
    /\ ~ValidDeadline(p)
    /\ Answer(p, "error")
    /\ entries' = PrunedEntries
    /\ UNCHANGED <<sessionVars, waitsFor, progress, expiresAt, sentAt, wire>>

Reserve(p) ==
    /\ AtRegistry(p)
    /\ PrunedEntries[IdOf[p]].state = "none"
    /\ ~Full
    /\ ValidDeadline(p)
    /\ entries' = [PrunedEntries EXCEPT ![IdOf[p]] =
                      [state |-> "inflight", owner |-> p, until |-> 0]]
    /\ call' = [call EXCEPT ![p] = "sending"]
    /\ progress' = [progress EXCEPT ![p] = "queued"]
    /\ expiresAt' = [expiresAt EXCEPT ![p] = Deadline(p)]
    /\ UNCHANGED <<sessionVars, waitsFor, answer, sentAt, wire>>

\* Mutant: done is signalled only when the dispatch was accepted.
SignalledIfAccepted(owner) == call[owner] = "done" /\ answer[owner] = "receipt"

Signalled(owner) == call[owner] = "done"

\* changed() returns once the owner has recorded its outcome.
Wake(p) ==
    /\ call[p] = "waiting"
    /\ Signalled(waitsFor[p])
    /\ call' = [call EXCEPT ![p] = "looping"]
    /\ UNCHANGED <<sessionVars, entries, waitsFor, answer, progress, expiresAt, sentAt, wire>>

\* The wait is the call's only await: its future may be dropped there.
DropCall(p) ==
    /\ call[p] = "waiting"
    /\ Answer(p, "cancelled")
    /\ UNCHANGED <<sessionVars, entries, waitsFor, progress, expiresAt, sentAt, wire>>

-----------------------------------------------------------------------------
(***************************************************************************)
(* send_admitted, and the recording of its outcome under the dedup lock.   *)
(***************************************************************************)
LookupTarget(p) ==
    /\ call[p] = "sending"
    /\ now < expiresAt[p]
    /\ Lookup(p, TargetOf[p])
    /\ UNCHANGED <<callVars, progress, expiresAt, sentAt, wire>>

CheckToken(p) ==
    /\ CheckCancel(p)
    /\ UNCHANGED <<callVars, progress, expiresAt, sentAt, wire>>

Enqueue(p) ==
    /\ TrySend(p)
    /\ call' = [call EXCEPT ![p] = "sent"]
    /\ sentAt' = [sentAt EXCEPT ![p] = now]
    /\ UNCHANGED <<entries, waitsFor, answer, progress, expiresAt, wire>>

\* Draining, offline, not ready, forbidden, codec error, no slot, channel closed.
Refuse(p) ==
    /\ call[p] = "sending"
    /\ call' = [call EXCEPT ![p] = "refused"]
    /\ handle' = [handle EXCEPT ![p] = NoHandle]
    /\ DropBoxes({p})
    /\ UNCHANGED <<registry, now, ready, cancelled, task, queue, writing,
                   entries, waitsFor, answer, expiresAt, sentAt, wire>>

\* Mutant: a refused dispatch is recorded like an accepted one.
RecordAlways(p) ==
    /\ call[p] \in {"sent", "refused"}
    /\ entries' = [entries EXCEPT ![IdOf[p]] =
                      [state |-> "accepted", owner |-> p, until |-> now + Retention]]
    /\ Answer(p, "receipt")
    /\ UNCHANGED <<sessionVars, waitsFor, progress, expiresAt, sentAt, wire>>

Record(p) ==
    /\ \/ /\ call[p] = "sent"
          /\ entries' = [entries EXCEPT ![IdOf[p]] =
                            [state |-> "accepted", owner |-> p, until |-> now + Retention]]
          /\ Answer(p, "receipt")
       \/ /\ call[p] = "refused"
          /\ entries' = [entries EXCEPT ![IdOf[p]] = NoEntry]
          /\ Answer(p, "error")
    /\ UNCHANGED <<sessionVars, waitsFor, progress, expiresAt, sentAt, wire>>

-----------------------------------------------------------------------------
(***************************************************************************)
(* The TCP task around its channel.  An item that begin_transfer refuses   *)
(* is dropped at the end of the arm like one that was written.             *)
(***************************************************************************)
TakeItem(g) ==
    /\ Receive(g)
    /\ LET p == writing'[g]
       IN  /\ progress' = [progress EXCEPT ![p] = Begun(@, expiresAt[p])]
           /\ wire' = IF MayWrite(progress[p], expiresAt[p]) THEN wire \cup {p} ELSE wire
    /\ UNCHANGED <<callVars, expiresAt, sentAt>>

MarkSent(g) ==
    /\ writing[g] # 0
    /\ progress[writing[g]] = "dispatching"
    /\ progress' = [progress EXCEPT ![writing[g]] = Updated(@, "sent")]
    /\ UNCHANGED <<sessionVars, callVars, expiresAt, sentAt, wire>>

EndItem(g) ==
    /\ writing[g] # 0
    /\ progress[writing[g]] # "dispatching"
    /\ FinishWrite(g)
    /\ DropBoxes({writing[g]})
    /\ UNCHANGED <<callVars, expiresAt, sentAt, wire>>

EndTask(g) ==
    /\ CloseChannel(g)
    /\ DropBoxes(Commands(g))
    /\ UNCHANGED <<callVars, expiresAt, sentAt, wire>>

SessionStep ==
    /\ \/ \E d \in Devices : Register(d, TRUE)
       \/ \E d \in Devices : Disconnect({d})
       \/ \E g \in Generations : DropLease(g)
       \/ Tick
    /\ UNCHANGED <<callVars, progress, expiresAt, sentAt, wire>>

CallStep(p) ==
    \/ Hit(p) \/ Conflict(p) \/ Subscribe(p) \/ Overloaded(p) \/ Invalid(p)
    \/ Reserve(p)
    \/ Wake(p) \/ LookupTarget(p) \/ CheckToken(p) \/ Enqueue(p) \/ Refuse(p) \/ Record(p)

CommandsNext ==
    \/ \E p \in Senders : CallStep(p)
    \/ \E p \in Senders : DropCall(p)
    \/ \E g \in Generations : TakeItem(g)
    \/ \E g \in Generations : MarkSent(g)
    \/ \E g \in Generations : EndItem(g)
    \/ \E g \in Generations : EndTask(g)
    \/ SessionStep

CommandsSpec == CommandsInit /\ [][CommandsNext]_dispatchVars

(***************************************************************************)
(* A call that started runs on: everything in it but the wait for its      *)
(* owner is synchronous.  An open task polls its channel, and its writes   *)
(* are timed.                                                              *)
(***************************************************************************)
CommandsLive ==
    /\ CommandsSpec
    /\ \A p \in Senders : WF_dispatchVars(call[p] # "idle" /\ CallStep(p))
    /\ \A g \in Generations :
          /\ WF_dispatchVars(TakeItem(g))
          /\ WF_dispatchVars(MarkSent(g) \/ EndItem(g) \/ (writing[g] # 0 /\ EndTask(g)))

-----------------------------------------------------------------------------
\* Within the retention window a command id is dispatched at most once: however
\* identical calls overlap, wait for one another or follow one another, two
\* dispatches of one id lie at least command_dedup_ttl_ms apart.
OneDispatchPerWindow ==
    \A p, q \in Senders :
       (p # q /\ IdOf[p] = IdOf[q] /\ sentAt[p] >= 0 /\ sentAt[q] >= 0)
          => sentAt[p] - sentAt[q] >= Retention \/ sentAt[q] - sentAt[p] >= Retention

\* A command shown as expired never reached the wire: expiry and the start of a
\* transfer exclude each other, whichever of a reader and the task comes first.
ExpiredNeverWritten == \A p \in Senders : progress[p] = "expired" => p \notin wire

\* A dispatched command that still shows as queued is in the channel of a task
\* that will take it or drop it: nothing shows Queued after its session is gone.
QueuedIsHeld ==
    \A p \in Senders :
       sentAt[p] >= 0 /\ progress[p] = "queued" =>
          \E g \in Generations : task[g] = "open" /\ p \in Commands(g)

\* A call that returned an error of its own dispatch put nothing in a channel or on
\* the wire, and a caller that got a receipt shares one accepted dispatch: so the
\* retry the caller may make after an error cannot double a delivery.
ErrorMeansUnsent ==
    \A p \in Senders :
       /\ answer[p] = "error" => p \notin wire /\ sentAt[p] = -1
       /\ answer[p] = "receipt" =>
             \E q \in Senders : IdOf[q] = IdOf[p] /\ PrintOf[q] = PrintOf[p] /\ sentAt[q] >= 0

\* On a TCP session, whose task reports nothing but Sent, what a progress shows never
\* goes back: an expired command stays expired, dropping the box of a written one
\* does not turn Sent into Failed, and a failed one can only be overtaken by evidence
\* that it was sent.  (update itself lets Failed overwrite Sent; only the MQTT
\* connections report Failed, and they are outside this module.)
ProgressForward ==
    [][\A p \in Senders :
          /\ progress[p] = "expired" => progress'[p] = "expired"
          /\ progress[p] = "sent" => progress'[p] = "sent"
          /\ progress[p] = "failed" => progress'[p] \in {"failed", "sent"}
          /\ progress[p] = "dispatching" => progress'[p] \in {"dispatching", "sent", "failed"}]_dispatchVars

\* Every call of send that starts returns: a duplicate never waits for an owner
\* that has already finished or failed.
EveryCallReturns == \A p \in Senders : call[p] # "idle" ~> call[p] = "done"

\* An accepted command does not stay queued for ever: it is written, dropped with
\* its session, or found expired.
QueuedResolves == \A p \in Senders : sentAt[p] >= 0 ~> progress[p] # "queued"
====
