---------------------------- MODULE InboundQos2 ----------------------------
(***************************************************************************)
(* QoS 2 publications from a device: the transaction table a stored MQTT   *)
(* session keeps (broker/inbound_qos2.rs), the connection tasks that drive *)
(* it (mqtt/mod.rs and mqtt/v5_connection.rs), and a client that keeps to  *)
(* the protocol.                                                           *)
(*                                                                         *)
(* There is one session key.  Every broker method is one step, since it    *)
(* holds the broker lock; what a connection does between two of them, such *)
(* as waiting for the event bus, is a step of its own, and a connection    *)
(* that was taken over in the meantime goes on where it was.  Connections  *)
(* and session incarnations are numbered by one counter, as in the code.   *)
(* CONNACK is a packet like the others: the device may break off before it *)
(* reads it, and then knows nothing of the session it was attached to.     *)
(* The device speaks MQTT 3.1.1 or 5 throughout; V5 tells which.           *)
(***************************************************************************)
EXTENDS Integers, Sequences, FiniteSets

CONSTANTS
    Ids,             \* packet identifiers
    Messages, NoMessage,
    Topics, NoTopic,
    TopicOf,         \* message -> the topic it is to be retained under, or NoTopic
    Empty,           \* retained messages without a payload: they clear their topic
    Expiring,        \* messages with an expiry that may pass (version 5)
    Malformed,       \* messages validate_mqtt_qos2_payload refuses
    Versions,        \* subset of {4, 5}, the protocol levels the device may speak
    MaxInflight,     \* max_inflight_qos2_per_session
    MaxReceive,      \* the Receive Maximum the broker announces
    MaxRetained,     \* max_retained_messages
    MaxAttachments   \* bound: attachments of a behaviour

ASSUME Qos2Constants ==
    /\ Versions \subseteq {4, 5}
    /\ NoMessage \notin Messages /\ NoTopic \notin Topics
    /\ TopicOf \in [Messages -> Topics \cup {NoTopic}]
    /\ Malformed \cup Expiring \subseteq Messages
    /\ Empty \subseteq {m \in Messages : TopicOf[m] # NoTopic} \ Malformed
    /\ IsFiniteSet(Ids) /\ IsFiniteSet(Topics)
    /\ {MaxInflight, MaxReceive, MaxRetained, MaxAttachments} \subseteq Nat

VARIABLES
    session,         \* the StoredSession of the key
    active,          \* generation of the active attachment, 0 when none
    generation,      \* BrokerState.generation
    operation,       \* BrokerState.operation_id
    retained,        \* topics with a retained message
    reservedCount,   \* BrokerState.retained_reserved_count
    conn,            \* generation -> the connection task of that attachment
    inbox,           \* generation -> packets the client sent, not yet read
    outbox,          \* generation -> packets sent to the client
    client,          \* the device: its connection and its own QoS 2 state
    fresh,           \* messages the device has not published yet
    accepts,         \* message -> times it crossed EventAccepted
    routes,          \* message -> times it was routed to subscribers
    lapsed,          \* messages that had expired when they were to be routed
    discarded,       \* messages whose transaction went with its session (3.1.1)
    completed        \* messages the device was told are complete

broker == <<session, active, generation, operation, retained, reservedCount>>
device == <<client, fresh, completed>>
effects == <<accepts, routes, lapsed, discarded>>
vars == <<broker, conn, inbox, outbox, device, effects>>

\* An attachment numbers itself and, unless it resumes one, its session.
MaxGeneration == 2 * MaxAttachments
Generations == 1..MaxGeneration
NoEntry == [state |-> "none", message |-> NoMessage, op |-> 0]
NoSession == [incarnation |-> 0,
              inbound |-> [i \in Ids |-> NoEntry],     \* inbound_qos2
              ops |-> [i \in Ids |-> 0],               \* inbound_operations
              reserved |-> {},                         \* inbound_reservations
              window |-> {}]                           \* inbound_window
NoConnection == [step |-> "none", transient |-> FALSE, present |-> FALSE, id |-> 0,
                 message |-> NoMessage, incarnation |-> 0, op |-> 0]
NewClient(v) == [version |-> v, at |-> 0, connected |-> FALSE,
                 phase |-> [i \in Ids |-> "free"],
                 message |-> [i \in Ids |-> NoMessage], window |-> {}]

V5 == client.version = 5
Retain(m) == m # NoMessage /\ TopicOf[m] # NoTopic
Packet(type, id, m) == [type |-> type, id |-> id, message |-> m]
Pending == {i \in Ids : session.inbound[i].state # "none"}

\* What the broker may send reaches a client that is still on that connection.
Sent(g, type, id) ==
    IF client.at = g THEN [outbox EXCEPT ![g] = Append(@, Packet(type, id, NoMessage))]
    ELSE outbox

\* The locals of an arm of the connection's loop end with the arm, and nothing is
\* read from the stream once the loop is left; rest is what is still to be read.
Goes(g, step, rest) ==
    /\ conn' = [conn EXCEPT ![g] = [NoConnection EXCEPT !.step = step,
                                                        !.transient = conn[g].transient]]
    /\ inbox' = [inbox EXCEPT ![g] = IF step = "ending" THEN << >> ELSE rest]

-----------------------------------------------------------------------------
Init ==
    /\ session = NoSession
    /\ active = 0
    /\ generation = 0
    /\ operation = 0
    /\ retained = {}
    /\ reservedCount = 0
    /\ conn = [g \in Generations |-> NoConnection]
    /\ inbox = [g \in Generations |-> << >>]
    /\ outbox = [g \in Generations |-> << >>]
    /\ \E v \in Versions : client = NewClient(v)
    /\ fresh = Messages
    /\ accepts = [m \in Messages |-> 0]
    /\ routes = [m \in Messages |-> 0]
    /\ lapsed = {}
    /\ discarded = {}
    /\ completed = {}

-----------------------------------------------------------------------------
(***************************************************************************)
(* The device.  It discards its own state when it reads a CONNACK that     *)
(* says no session was present, and otherwise sends again what was not     *)
(* answered.  Version 5 tells it that a PUBREL found no transaction.       *)
(***************************************************************************)
Unanswered == {i \in Ids : client.phase[i] # "free"}

Orders(S) ==
    {order \in [1..Cardinality(S) -> S] : \A i, j \in DOMAIN order : i # j => order[i] # order[j]}

Resent(i) ==
    IF client.phase[i] = "published" THEN Packet("publish", i, client.message[i])
    ELSE Packet("pubrel", i, NoMessage)

\* What the device sends to a connection that reads no more is lost.
Uploaded(packets) ==
    IF conn[client.at].step \in {"ending", "gone"} THEN inbox
    ELSE [inbox EXCEPT ![client.at] = @ \o packets]

Publish(i, m) ==
    /\ client.connected
    /\ client.phase[i] = "free"
    /\ m \in fresh
    /\ V5 => Cardinality(client.window) < MaxReceive
    /\ client' = [client EXCEPT !.phase[i] = "published", !.message[i] = m,
                                !.window = @ \cup {i}]
    /\ inbox' = Uploaded(<<Packet("publish", i, m)>>)
    /\ fresh' = fresh \ {m}
    /\ UNCHANGED <<broker, conn, outbox, completed, effects>>

ClientReceive ==
    /\ client.at # 0
    /\ outbox[client.at] # << >>
    /\ LET p == Head(outbox[client.at])
           i == p.id
       IN  /\ outbox' = [outbox EXCEPT ![client.at] = Tail(@)]
           /\ \/ /\ p.type = "present"
                 /\ client' = [client EXCEPT !.connected = TRUE,
                                  !.window = {j \in Ids : client.phase[j] = "published"}]
                 /\ \E order \in Orders(Unanswered) :
                       inbox' = Uploaded([n \in DOMAIN order |-> Resent(order[n])])
                 /\ UNCHANGED completed
              \/ /\ p.type = "absent"
                 /\ client' = [NewClient(client.version) EXCEPT !.at = client.at,
                                                                !.connected = TRUE]
                 /\ UNCHANGED <<inbox, completed>>
              \/ /\ p.type = "pubrec"
                 /\ client' = [client EXCEPT !.phase[i] = "released"]
                 /\ inbox' = Uploaded(<<Packet("pubrel", i, NoMessage)>>)
                 /\ UNCHANGED completed
              \/ /\ p.type \in {"pubcomp", "notfound", "refused"}
                 /\ client' = [client EXCEPT !.phase[i] = "free", !.message[i] = NoMessage,
                                             !.window = @ \ {i}]
                 /\ completed' = IF p.type = "pubcomp" THEN completed \cup {client.message[i]}
                                 ELSE completed
                 /\ UNCHANGED inbox
    /\ UNCHANGED <<broker, conn, fresh, effects>>

\* The network connection breaks: what was on its way to the device is lost.
ClientDrop ==
    /\ client.at # 0
    /\ outbox' = [outbox EXCEPT ![client.at] = << >>]
    /\ client' = [client EXCEPT !.at = 0, !.connected = FALSE]
    /\ UNCHANGED <<broker, conn, inbox, fresh, completed, effects>>

-----------------------------------------------------------------------------
(***************************************************************************)
(* attach_profile.  A resumed session keeps its transactions and loses its *)
(* receive window; any other attachment starts a new incarnation.          *)
(* transient: the session ends with the connection (CleanSession in        *)
(* version 3.1.1, a Session Expiry Interval of 0 in version 5).  An attach *)
(* that fails once it has replaced the old one leaves what an attachment   *)
(* leaves that ends before its CONNACK.                                    *)
(***************************************************************************)
DiscardedNow ==
    IF V5 THEN discarded ELSE discarded \cup {session.inbound[i].message : i \in Pending}

Attach(clean, transient) ==
    LET resumed == ~clean /\ session.incarnation # 0
        g == generation + (IF resumed THEN 1 ELSE 2)
    IN  /\ client.at = 0
        /\ V5 \/ transient = clean
        /\ Cardinality({h \in Generations : conn[h].step # "none"}) < MaxAttachments
        /\ generation' = g
        /\ active' = g
        /\ session' = IF resumed THEN [session EXCEPT !.window = {}]
                      ELSE [NoSession EXCEPT !.incarnation = generation + 1]
        /\ reservedCount' = IF resumed THEN reservedCount
                            ELSE reservedCount - Cardinality(session.reserved)
        /\ discarded' = IF resumed THEN discarded ELSE DiscardedNow
        /\ conn' = [conn EXCEPT ![g] = [NoConnection EXCEPT !.step = "connack",
                                                            !.transient = transient,
                                                            !.present = resumed]]
        /\ client' = [client EXCEPT !.at = g]
        /\ UNCHANGED <<operation, retained, inbox, outbox, fresh, completed, accepts, routes,
                       lapsed>>

SendConnack(g) ==
    /\ conn[g].step = "connack"
    /\ outbox' = Sent(g, IF conn[g].present THEN "present" ELSE "absent", 0)
    /\ Goes(g, "idle", inbox[g])
    /\ UNCHANGED <<broker, device, effects>>

\* remove_session, as seen by this key.
Removed ==
    /\ session' = NoSession
    /\ active' = 0
    /\ reservedCount' = reservedCount - Cardinality(session.reserved)
    /\ discarded' = DiscardedNow

(***************************************************************************)
(* The end of a connection.  It leaves its loop with an error of its own   *)
(* ("ending"), or cancelled, stopped, by an error of the stream or by a    *)
(* limit that other sessions have used up; never while accept_iot_publish  *)
(* waits, since shutdown aborts connection tasks only after the lifecycle  *)
(* counts no admission.  Then it detaches; what it does in between is seen *)
(* by nobody.                                                              *)
(***************************************************************************)
Detach(g) ==
    /\ conn[g].step \in {"connack", "idle", "admitting", "completing", "notfound",
                         "exceeded", "ending"}
    /\ conn' = [conn EXCEPT ![g] = [NoConnection EXCEPT !.step = "gone"]]
    /\ inbox' = [inbox EXCEPT ![g] = << >>]
    /\ \/ /\ active # g
          /\ UNCHANGED <<session, active, reservedCount, discarded>>
       \/ /\ active = g
          /\ conn[g].transient
          /\ Removed
       \/ /\ active = g
          /\ ~conn[g].transient
          /\ session' = [session EXCEPT !.window = {}]
          /\ active' = 0
          /\ UNCHANGED <<reservedCount, discarded>>
    /\ UNCHANGED <<generation, operation, retained, outbox, device, accepts, routes, lapsed>>

\* invalidate_sessions, and the expiry of a session without a connection.
RemoveSession ==
    /\ session.incarnation # 0
    /\ Removed
    /\ UNCHANGED <<generation, operation, retained, conn, inbox, outbox, device, accepts,
                   routes, lapsed>>

-----------------------------------------------------------------------------
(***************************************************************************)
(* PUBLISH: classify_inbound_qos2_publish, then for a transaction that is  *)
(* already there the answer (version 5 first takes a slot of the receive   *)
(* window), for a new one the admission.                                   *)
(***************************************************************************)
Reads(g, type) ==
    /\ conn[g].step = "idle"
    /\ inbox[g] # << >>
    /\ Head(inbox[g]).type = type

Classify(g, i) ==
    CASE active # g                             -> "conflict"
      [] session.inbound[i].state = "await"     -> "existing"
      [] session.inbound[i].state = "none"      -> "new"
      [] OTHER                                  -> "in_use"

StepAfter(class) ==
    CASE class = "new"      -> "admitting"
      [] class = "existing" -> IF V5 THEN "repeating" ELSE "idle"
      [] class = "in_use"   -> IF V5 THEN "idle" ELSE "ending"
      [] class = "conflict" -> "ending"

ReadPublish(g) ==
    /\ Reads(g, "publish")
    /\ LET p == Head(inbox[g])
           class == Classify(g, p.id)
           step == StepAfter(class)
       IN  /\ \/ /\ step \in {"idle", "ending"}
                 /\ Goes(g, step, Tail(inbox[g]))
              \/ /\ step \in {"admitting", "repeating"}
                 /\ conn' = [conn EXCEPT ![g].step = step, ![g].id = p.id,
                                         ![g].message = p.message]
                 /\ inbox' = [inbox EXCEPT ![g] = Tail(@)]
           /\ outbox' = IF V5 THEN IF class = "in_use" THEN Sent(g, "refused", p.id) ELSE outbox
                        ELSE IF class = "existing" THEN Sent(g, "pubrec", p.id) ELSE outbox
    /\ UNCHANGED <<broker, device, effects>>


\* A retransmission takes a slot once on a connection, and is refused without one.
NoSlotFor(i) == i \notin session.window /\ Cardinality(session.window) >= MaxReceive

\* begin_inbound_qos2_retransmission, version 5 only.
Repeat(g) ==
    LET i == conn[g].id
        mine == active = g /\ session.inbound[i].state = "await"
        full == NoSlotFor(i)
    IN  /\ conn[g].step = "repeating"
        /\ Goes(g, IF ~mine THEN "ending" ELSE IF full THEN "exceeded" ELSE "idle", inbox[g])
        /\ session' = IF mine /\ ~full THEN [session EXCEPT !.window = @ \cup {i}] ELSE session
        /\ outbox' = IF mine /\ ~full THEN Sent(g, "pubrec", i) ELSE outbox
        /\ UNCHANGED <<active, generation, operation, retained, reservedCount, device, effects>>

\* Mutant: a message that replaces a retained one reserves nothing.
ReservesUnlessThere(m) == Retain(m) /\ m \notin Empty /\ TopicOf[m] \notin retained

\* reserve_retained charges the future entry in full, whatever is there now.
Reserves(m) == Retain(m) /\ m \notin Empty

HasRetainedRoom(m) == Reserves(m) => Cardinality(retained) + reservedCount + 1 <= MaxRetained

\* inbound_receive_available, the validation of the payload, and inbound_qos2.
\* The cases are tried in this order.
Admission(g) ==
    LET m == conn[g].message
        entry == session.inbound[conn[g].id]
        full == entry.state = "none" /\ Cardinality(session.window) >= MaxReceive
    IN  IF active # g                            THEN "ending"
        ELSE IF V5 /\ full                       THEN "exceeded"
        ELSE IF m \in Malformed                  THEN IF V5 THEN "refused" ELSE "ending"
        ELSE IF entry.state # "none"             THEN IF V5 \/ entry.message = m THEN "known"
                                                      ELSE "ending"
        ELSE IF Cardinality(Pending) >= MaxInflight \/ ~HasRetainedRoom(m) THEN "ending"
        ELSE "stored"

Admit(g) ==
    LET i == conn[g].id
        m == conn[g].message
        verdict == Admission(g)
    IN  /\ conn[g].step = "admitting"
        /\ Goes(g, IF verdict \in {"ending", "exceeded"} THEN verdict ELSE "idle", inbox[g])
        /\ \/ /\ verdict = "stored"
              /\ session' = [session EXCEPT
                                !.inbound[i] = [state |-> "await", message |-> m, op |-> 0],
                                !.window = IF V5 THEN @ \cup {i} ELSE @,
                                !.reserved = IF Reserves(m) THEN @ \cup {i} ELSE @]
              /\ reservedCount' = reservedCount + (IF Reserves(m) THEN 1 ELSE 0)
              /\ outbox' = Sent(g, "pubrec", i)
           \/ /\ verdict # "stored"
              /\ outbox' = CASE verdict = "known"   -> Sent(g, "pubrec", i)
                             [] verdict = "refused" -> Sent(g, "refused", i)
                             [] OTHER               -> outbox
              /\ UNCHANGED <<session, reservedCount>>
        /\ UNCHANGED <<active, generation, operation, retained, device, effects>>

-----------------------------------------------------------------------------
(***************************************************************************)
(* PUBREL: begin_inbound_qos2_delivery decides what the connection does.   *)
(***************************************************************************)
\* Mutant: a second PUBREL starts a second delivery.
PubrelStepAgain(state) ==
    CASE state = "await"      -> "accepting"
      [] state = "delivering" -> "accepting"
      [] state = "accepted"   -> "routing"
      [] state = "none"       -> "notfound"

\* Mutant: a delivery in progress is answered as if it were done.
PubrelStepEarly(state) ==
    CASE state = "await"      -> "accepting"
      [] state = "delivering" -> "completing"
      [] state = "accepted"   -> "routing"
      [] state = "none"       -> "notfound"

PubrelStep(state) ==
    CASE state = "await"      -> "accepting"
      [] state = "delivering" -> "idle"
      [] state = "accepted"   -> "routing"
      [] state = "none"       -> "notfound"

ReadPubrel(g) ==
    /\ Reads(g, "pubrel")
    /\ LET i == Head(inbox[g]).id
           entry == session.inbound[i]
           op == operation + 1
           step == PubrelStep(entry.state)
       IN  \/ /\ active # g
              /\ Goes(g, "ending", << >>)
              /\ UNCHANGED <<session, operation>>
           \/ /\ active = g
              /\ inbox' = [inbox EXCEPT ![g] = Tail(@)]
              /\ operation' = op
              /\ session' =
                    [session EXCEPT
                        !.inbound[i] = IF step = "accepting"
                                       THEN [@ EXCEPT !.state = "delivering", !.op = op] ELSE @,
                        !.ops[i] = IF step = "routing" /\ @ = 0 THEN op ELSE @]
              /\ conn' = IF step = "idle" THEN conn ELSE
                         [conn EXCEPT
                             ![g] = [@ EXCEPT !.step = step, !.id = i, !.message = entry.message,
                                              !.incarnation = session.incarnation,
                                              !.op = IF step = "routing" THEN session'.ops[i]
                                                     ELSE op]]
    /\ UNCHANGED <<active, generation, retained, reservedCount, outbox, device, effects>>

\* accept_iot_publish returns; an error means that nothing was accepted.  The
\* clearing of a retained message is no event of the device.
AcceptOk(g) ==
    /\ conn[g].step = "accepting"
    /\ accepts' = [accepts EXCEPT ![conn[g].message] =
                      IF conn[g].message \in Empty THEN @ ELSE @ + 1]
    /\ conn' = [conn EXCEPT ![g].step = "accepted"]
    /\ UNCHANGED <<broker, inbox, outbox, device, routes, lapsed, discarded>>

\* Mutant: the failed delivery is not handed back.
AcceptErrKept(g) ==
    /\ conn[g].step = "accepting"
    /\ Goes(g, "ending", << >>)
    /\ UNCHANGED <<broker, outbox, device, effects>>

AcceptErr(g) ==
    /\ conn[g].step = "accepting"
    /\ conn' = [conn EXCEPT ![g].step = "abandoning"]
    /\ UNCHANGED <<broker, inbox, outbox, device, effects>>

\* The transaction is still the one this connection began to deliver.
Delivering(c) ==
    /\ session.incarnation = c.incarnation
    /\ session.inbound[c.id].state = "delivering"
    /\ session.inbound[c.id].op = c.op

Abandon(g) ==
    /\ conn[g].step = "abandoning"
    /\ session' = IF Delivering(conn[g])
                  THEN [session EXCEPT !.inbound[conn[g].id].state = "await",
                                       !.inbound[conn[g].id].op = 0]
                  ELSE session
    /\ Goes(g, "ending", << >>)
    /\ UNCHANGED <<active, generation, operation, retained, reservedCount, outbox, device,
                   effects>>

Finish(g) ==
    /\ conn[g].step = "accepted"
    /\ \/ /\ Delivering(conn[g])
          /\ session' = [session EXCEPT !.inbound[conn[g].id].state = "accepted",
                                        !.inbound[conn[g].id].op = 0,
                                        !.ops[conn[g].id] = conn[g].op]
          /\ conn' = [conn EXCEPT ![g].step = "routing"]
          /\ UNCHANGED inbox
       \/ /\ ~Delivering(conn[g])
          /\ Goes(g, "ending", << >>)
          /\ UNCHANGED session
    /\ UNCHANGED <<active, generation, operation, retained, reservedCount, outbox, device,
                   effects>>

-----------------------------------------------------------------------------
(***************************************************************************)
(* route_inbound_qos2.  The reservation is given back first; a refusal by  *)
(* route_locked, of a subscriber's queue or of the retained table, takes   *)
(* it again.  A message that has expired goes nowhere, and is settled.     *)
(***************************************************************************)
Routable(c) ==
    /\ session.incarnation = c.incarnation
    /\ session.inbound[c.id].state = "accepted"
    /\ session.ops[c.id] = c.op

\* release_retained_reservation; its subtraction saturates in the code.
CountWithout(i) == reservedCount - (IF i \in session.reserved THEN 1 ELSE 0)

\* The transaction that connection g routes is over.
Settled(g) ==
    LET i == conn[g].id
    IN  /\ conn[g].step = "routing"
        /\ Routable(conn[g])
        /\ session' = [session EXCEPT !.inbound[i] = NoEntry, !.ops[i] = 0, !.reserved = @ \ {i}]
        /\ reservedCount' = CountWithout(i)
        /\ conn' = [conn EXCEPT ![g] = [NoConnection EXCEPT !.step = "completing",
                                                            !.transient = conn[g].transient,
                                                            !.id = i]]
        /\ UNCHANGED <<active, generation, operation, inbox, outbox, device, accepts, discarded>>

\* check_retained_update: a new entry needs room beside what others reserved.
FitsRetained(i, m) ==
    \/ ~Reserves(m)
    \/ TopicOf[m] \in retained
    \/ Cardinality(retained) + CountWithout(i) < MaxRetained

RouteOk(g) ==
    LET m == session.inbound[conn[g].id].message
    IN  /\ Settled(g)
        /\ FitsRetained(conn[g].id, m)
        /\ retained' = IF m \in Empty THEN retained \ {TopicOf[m]}
                       ELSE IF Retain(m) THEN retained \cup {TopicOf[m]} ELSE retained
        /\ routes' = [routes EXCEPT ![m] = @ + 1]
        /\ UNCHANGED lapsed

RouteExpired(g) ==
    /\ Settled(g)
    /\ V5
    /\ session.inbound[conn[g].id].message \in Expiring
    /\ lapsed' = lapsed \cup {session.inbound[conn[g].id].message}
    /\ UNCHANGED <<retained, routes>>

\* Mutant: the connection answers PUBREL although the route was refused.
RouteErrAnswered(g) ==
    /\ conn[g].step = "routing"
    /\ conn' = [conn EXCEPT ![g].step = "completing"]
    /\ UNCHANGED <<broker, inbox, outbox, device, effects>>

RouteErr(g) ==
    LET c == conn[g]
        m == session.inbound[c.id].message
        again == Reserves(m) /\ Cardinality(retained) + CountWithout(c.id) + 1 <= MaxRetained
    IN  /\ c.step = "routing"
        /\ \/ /\ ~Routable(c)
              /\ UNCHANGED <<session, reservedCount>>
           \/ /\ Routable(c)
              /\ session' = [session EXCEPT !.reserved = IF again THEN @ \cup {c.id}
                                                         ELSE @ \ {c.id}]
              /\ reservedCount' = CountWithout(c.id) + (IF again THEN 1 ELSE 0)
        /\ Goes(g, "ending", << >>)
        /\ UNCHANGED <<active, generation, operation, retained, outbox, device, effects>>

Complete(g) ==
    /\ conn[g].step \in {"completing", "notfound"}
    /\ outbox' = Sent(g, IF V5 /\ conn[g].step = "notfound" THEN "notfound" ELSE "pubcomp",
                      conn[g].id)
    /\ \/ /\ V5
          /\ conn' = [conn EXCEPT ![g].step = "settling"]
          /\ UNCHANGED inbox
       \/ /\ ~V5
          /\ Goes(g, "idle", inbox[g])
    /\ UNCHANGED <<broker, device, effects>>

\* finish_inbound_pubcomp, version 5 only.
FinishPubcomp(g) ==
    /\ conn[g].step = "settling"
    /\ Goes(g, IF active = g THEN "idle" ELSE "ending", inbox[g])
    /\ session' = IF active = g THEN [session EXCEPT !.window = @ \ {conn[g].id}] ELSE session
    /\ UNCHANGED <<active, generation, operation, retained, reservedCount, outbox, device,
                   effects>>

-----------------------------------------------------------------------------
\* Other publishers set and clear retained messages (check_retained_update).
OtherRetain(t) ==
    /\ t \notin retained
    /\ Cardinality(retained) + reservedCount < MaxRetained
    /\ retained' = retained \cup {t}
    /\ UNCHANGED <<session, active, generation, operation, reservedCount, conn, inbox, outbox,
                   device, effects>>

OtherClear(t) ==
    /\ t \in retained
    /\ retained' = retained \ {t}
    /\ UNCHANGED <<session, active, generation, operation, reservedCount, conn, inbox, outbox,
                   device, effects>>

(***************************************************************************)
(* A planned restart, after every connection task has ended: the session   *)
(* is written and read back, operations begin again at 0, and reservations *)
(* are rebuilt from the transactions.                                      *)
(***************************************************************************)
ReservationsDue == {i \in Pending : Reserves(session.inbound[i].message)}

Restart ==
    LET entry(i) == session.inbound[i]
    IN  /\ \A g \in Generations : conn[g].step \in {"none", "gone"}
        /\ session' = [session EXCEPT
                          !.inbound = [i \in Ids |->
                              IF entry(i).state = "delivering"
                              THEN [entry(i) EXCEPT !.state = "await", !.op = 0] ELSE entry(i)],
                          !.ops = [i \in Ids |-> 0],
                          !.reserved = ReservationsDue]
        /\ reservedCount' = Cardinality(ReservationsDue)
        /\ operation' = 0
        /\ UNCHANGED <<active, generation, retained, conn, inbox, outbox, device, effects>>

-----------------------------------------------------------------------------
ConnectionStep(g) ==
    \/ SendConnack(g) \/ Detach(g)
    \/ ReadPublish(g) \/ Repeat(g) \/ Admit(g)
    \/ ReadPubrel(g) \/ AcceptOk(g) \/ AcceptErr(g) \/ Abandon(g) \/ Finish(g)
    \/ RouteOk(g) \/ RouteExpired(g) \/ RouteErr(g) \/ Complete(g) \/ FinishPubcomp(g)

Next ==
    \/ \E i \in Ids, m \in Messages : Publish(i, m)
    \/ ClientReceive
    \/ ClientDrop
    \/ \E clean, transient \in BOOLEAN : Attach(clean, transient)
    \/ \E g \in Generations : ConnectionStep(g)
    \/ RemoveSession
    \/ \E t \in Topics : OtherRetain(t) \/ OtherClear(t)
    \/ Restart

Spec == Init /\ [][Next]_vars

-----------------------------------------------------------------------------
\* A QoS 2 publication crosses EventAccepted at most once and is routed to
\* subscribers at most once, and only after it was accepted: through takeovers in
\* the middle of a delivery, retried PUBRELs, failed routes, lost CONNACKs and planned
\* restarts.  (A message that clears a retained one is routed but is no event.)
AcceptedOnce ==
    \A m \in Messages :
       /\ accepts[m] <= 1 /\ routes[m] <= 1
       /\ m \in Empty \/ routes[m] <= accepts[m]

\* PUBCOMP tells the truth.  A device that is told a message is complete has had it
\* accepted, unless it only clears a retained one, and routed, unless it had expired:
\* also when the PUBCOMP answers a repeated PUBREL whose transaction an older
\* connection finished.  Version 3.1.1 has no other answer to a PUBREL of an unknown
\* transaction, so there one that was discarded with its session is also completed.
CompletedDelivered ==
    \A m \in completed :
       \/ /\ accepts[m] = 1 \/ m \in Empty
          /\ routes[m] = 1 \/ m \in lapsed
       \/ ~V5 /\ m \in discarded

\* A delivery always has the connection that will finish or abandon it.  A
\* transaction that stayed in Delivering without one would ignore every later
\* PUBREL, and a restart would deliver it again.
NoOrphanDelivery ==
    \A i \in Ids : session.inbound[i].state = "delivering" =>
       \E g \in Generations :
          /\ conn[g].step \in {"accepting", "accepted", "abandoning"}
          /\ conn[g].id = i /\ conn[g].op = session.inbound[i].op
          /\ conn[g].incarnation = session.incarnation

\* The room PUBREC promises for a retained message is there until it is used:
\* every pending retained transaction holds its reservation, the broker's count is
\* the sum of them, and together with the stored messages they fit the limit.
RetainedPromise ==
    /\ session.reserved = ReservationsDue
    /\ reservedCount = Cardinality(session.reserved)
    /\ Cardinality(retained) + reservedCount <= MaxRetained

====
