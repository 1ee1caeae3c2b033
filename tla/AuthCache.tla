----------------------------- MODULE AuthCache -----------------------------
(***************************************************************************)
(* Device authentication (runtime auth.rs): the bounded cache of the       *)
(* provider's answers, the misses it coalesces, and its epoch; and the     *)
(* gate in ingress.rs (auth_registration) behind which sessions are        *)
(* registered, authentication is invalidated and the control snapshot      *)
(* (control.rs) is replaced.                                               *)
(*                                                                         *)
(* A section under the cache's mutex is one step.  The provider decides    *)
(* in a step of its own, so that its answer may be under way while the     *)
(* credential changes.  The gate is held over two sections, of the cache   *)
(* and of the registry, and other callers step in between.                 *)
(*                                                                         *)
(* An identity is a device and the version of its credential it was issued *)
(* for.  The authority's data is Grants: the codec a version is bound to,  *)
(* or that the version is refused.  An inflight id is only compared with   *)
(* others, so a miss takes one that nobody holds.  Deadlines are the set   *)
(* of entries that have passed theirs.                                     *)
(***************************************************************************)
EXTENDS Integers, Sequences, FiniteSets

LOCAL INSTANCE SequencesExt
LOCAL INSTANCE FiniteSetsExt

CONSTANTS
    Devices, Products, ProductOf, Codecs, None,
    Keys,            \* cache keys (AuthCacheKey)
    Verifiers,       \* the keys with the verifier flag; the others are secrets
    DeviceOf,        \* key -> the device its credential belongs to
    Grants,          \* credential version -> codec, or None when it is refused
    Callers,
    MaxEntries, MaxBytes, MaxWaiters,
    PruneBudget,     \* EXPIRY_PRUNE_BUDGET
    PositiveBytes,   \* what a positive entry is charged; a negative one costs 1
    MaxEpoch,        \* bound: invalidations
    MaxRevision      \* bound: control snapshots

Versions == DOMAIN Grants

ASSUME AuthConstants ==
    /\ ProductOf \in [Devices -> Products]
    /\ Verifiers \subseteq Keys /\ IsFiniteSet(Keys) /\ IsFiniteSet(Callers)
    /\ DeviceOf \in [Keys -> Devices]
    /\ None \notin Codecs
    /\ {MaxEntries, MaxBytes, MaxWaiters, PruneBudget, PositiveBytes,
        MaxEpoch, MaxRevision} \subseteq Nat
    /\ Versions = 1..Cardinality(Versions) /\ Grants \in [Versions -> Codecs \cup {None}]

VARIABLES
    entries,         \* key -> CacheEntry
    order,           \* the FIFO of keys
    expirations,     \* keys with a deadline record
    bytes,
    expired,         \* keys whose entry has passed its deadline
    inflight,        \* key -> Inflight
    epoch,
    call,            \* caller -> its authenticate or verify call
    gate,            \* who holds auth_registration, and with what
    sessions,        \* device -> its registered session
    control,         \* the control snapshot: revision and product -> codec
    credential,      \* the authority: device -> current credential version
    revoked,         \* identities a finished invalidation has withdrawn
    denials          \* device -> credential version at the last invalidation

cache == <<entries, order, expirations, bytes, expired, inflight, epoch>>
promises == <<revoked, denials>>
vars == <<cache, call, gate, sessions, control, credential, promises>>

Identities == [device : Devices, version : Versions]
NoEntry == [kind |-> "none", version |-> 0]
NoInflight == [id |-> 0, epoch |-> 0]
NoSession == [version |-> 0, live |-> FALSE]
NoCall == [step |-> "idle", key |-> None, id |-> 0, epoch |-> 0, version |-> 0]
Free == [op |-> "free"]

Cached == {k \in Keys : entries[k] # NoEntry}
Cost(entry) == IF entry.kind = "positive" THEN PositiveBytes ELSE 1
Leading(c) == call[c].step \in {"leading", "answered"}
Identity(k, version) == [device |-> DeviceOf[k], version |-> version]

(***************************************************************************)
(* validate_auth_profile: a product with a profile fixes the codec.        *)
(***************************************************************************)
Agrees(products, identity) ==
    products[ProductOf[identity.device]] \in {None, Grants[identity.version]}

Init ==
    /\ entries = [k \in Keys |-> NoEntry]
    /\ order = <<>> /\ expirations = {} /\ bytes = 0 /\ expired = {}
    /\ inflight = [k \in Keys |-> NoInflight]
    /\ epoch = 1
    /\ call = [c \in Callers |-> NoCall]
    /\ gate = Free
    /\ sessions = [d \in Devices |-> NoSession]
    /\ control = [revision |-> 0, products |-> [p \in Products |-> None]]
    /\ credential = [d \in Devices |-> 1]
    /\ revoked = {}
    /\ denials = [d \in Devices |-> 0]

-----------------------------------------------------------------------------
(***************************************************************************)
(* The table.  Removing keys takes their deadline records and bytes; the   *)
(* FIFO keeps the keys that still have an entry.                           *)
(***************************************************************************)
BytesOf(K) ==
    LET positive == {k \in K : entries[k].kind = "positive"}
    IN  Cardinality(positive) * PositiveBytes + Cardinality(K \ positive)

\* The FIFO keeps a key whose entry is gone.
OrderUntouched(K) == order

OrderWithout(K) == SelectSeq(order, LAMBDA k : k \in Cached \ K)

Without(K) ==
    /\ entries' = [k \in Keys |-> IF k \in K THEN NoEntry ELSE entries[k]]
    /\ expirations' = expirations \ K
    /\ bytes' = bytes - BytesOf(K \cap Cached)
    /\ expired' = expired \ K
    /\ order' = OrderWithout(K)

(***************************************************************************)
(* A lookup drops up to PruneBudget expired entries, and its own if it has *)
(* expired.                                                                *)
(***************************************************************************)
Prunings(k) ==
    LET due == expirations \cap expired
        n == Min({PruneBudget, Cardinality(due)})
    IN  {S \cup ({k} \cap expired) : S \in {D \in SUBSET due : Cardinality(D) = n}}

(***************************************************************************)
(* insert_cache_entry: replace, then evict from the front until the entry  *)
(* fits or nothing is left, then install unless it could never fit.        *)
(***************************************************************************)
Evictions(k, cost) ==
    LET fifo == SelectSeq(order, LAMBDA x : x # k)
        left(n) == (Cached \ {k}) \ ToSet(SubSeq(fifo, 1, n))
        fits(n) == \/ left(n) = {}
                   \/ /\ Cardinality(left(n)) < MaxEntries
                      /\ bytes - BytesOf(Cached \ left(n)) + cost <= MaxBytes
    IN  ToSet(SubSeq(fifo, 1, Min({n \in 0..Len(fifo) : fits(n)})))

Insert(k, entry) ==
    LET gone == {k} \cup Evictions(k, Cost(entry))
        kept == MaxEntries > 0 /\ Cost(entry) <= MaxBytes
    IN  /\ entries' = [x \in Keys |-> IF x = k /\ kept THEN entry
                                      ELSE IF x \in gone THEN NoEntry ELSE entries[x]]
        /\ order' = OrderWithout(gone) \o (IF kept THEN <<k>> ELSE <<>>)
        /\ expirations' = (expirations \ gone) \cup (IF kept THEN {k} ELSE {})
        /\ bytes' = bytes - BytesOf(gone \cap Cached) + (IF kept THEN Cost(entry) ELSE 0)
        /\ expired' = expired \ gone

-----------------------------------------------------------------------------
(***************************************************************************)
(* authenticate_candidate and verify_signed_with_verifier, which differ in *)
(* what a positive answer leads to: a candidate, or a signature check      *)
(* outside the lock.                                                       *)
(***************************************************************************)
Positive(k, version) ==
    [step |-> IF k \in Verifiers THEN "verifying" ELSE "candidate",
     key |-> k, id |-> 0, epoch |-> epoch, version |-> version]

FreshId ==
    Min((1..Cardinality(Callers) + 1)
        \ {call[c].id : c \in Callers})

Looking(c, k) ==
    \/ call[c].step = "idle"
    \/ call[c].step = "retry" /\ call[c].key = k

Outside == <<gate, sessions, control, credential, promises>>

Hit(c, k) ==
    /\ Looking(c, k)
    /\ \E S \in Prunings(k) :
          /\ k \in Cached \ S
          /\ Without(S)
    /\ call' = [call EXCEPT ![c] = IF entries[k].kind = "positive"
                                   THEN Positive(k, entries[k].version) ELSE NoCall]
    /\ UNCHANGED <<inflight, epoch, Outside>>

Follow(c, k) ==
    /\ Looking(c, k)
    /\ inflight[k] # NoInflight
    /\ \E S \in Prunings(k) :
          /\ k \notin Cached \ S
          /\ Without(S)
    /\ call' = [call EXCEPT ![c] = [NoCall EXCEPT !.step = "subscribed", !.key = k,
                                                  !.id = inflight[k].id]]
    /\ UNCHANGED <<inflight, epoch, Outside>>

Lead(c, k) ==
    /\ Looking(c, k)
    /\ inflight[k] = NoInflight
    /\ \E S \in Prunings(k) :
          /\ k \notin Cached \ S
          /\ Without(S)
    /\ inflight' = [inflight EXCEPT ![k] = [id |-> FreshId, epoch |-> epoch]]
    /\ call' = [call EXCEPT ![c] = [step |-> "leading", key |-> k, id |-> FreshId,
                                    epoch |-> epoch, version |-> 0]]
    /\ UNCHANGED <<epoch, Outside>>

Waiting == {c \in Callers : call[c].step = "waiting"}

Wait(c) ==
    /\ call[c].step = "subscribed"
    /\ call' = [call EXCEPT ![c] = IF Cardinality(Waiting) < MaxWaiters
                                   THEN [@ EXCEPT !.step = "waiting"] ELSE NoCall]
    /\ UNCHANGED <<cache, Outside>>

(***************************************************************************)
(* The watch channel of a miss is completed, or closed, when its entry     *)
(* leaves the table.                                                       *)
(***************************************************************************)
Wake(c) ==
    /\ call[c].step = "waiting"
    /\ \A k \in Keys : inflight[k].id # call[c].id
    /\ call' = [call EXCEPT ![c] = [NoCall EXCEPT !.step = "retry",
                                                  !.key = call[c].key]]
    /\ UNCHANGED <<cache, Outside>>

Answer(c) ==
    /\ call[c].step = "leading"
    /\ call' = [call EXCEPT ![c].step = "answered",
                            ![c].version = credential[DeviceOf[call[c].key]]]
    /\ UNCHANGED <<cache, Outside>>

\* The answer is taken whatever was invalidated since the question.
NeverOutdated(c) == FALSE

Outdated(c) == epoch # call[c].epoch

(***************************************************************************)
(* The leader's last section, with the provider's decision.                *)
(***************************************************************************)
Finish(c) ==
    LET k == call[c].key
        version == call[c].version
        granted == Grants[version] # None
    IN  /\ call[c].step = "answered"
        /\ inflight' = [inflight EXCEPT ![k] = NoInflight]
        /\ \/ /\ Outdated(c)
              /\ call' = [call EXCEPT ![c] = NoCall]
              /\ UNCHANGED <<entries, order, expirations, bytes, expired>>
           \/ /\ ~Outdated(c)
              /\ Insert(k, [kind |-> IF granted THEN "positive" ELSE "negative",
                            version |-> version])
              /\ call' = [call EXCEPT ![c] = IF granted THEN Positive(k, version) ELSE NoCall]
        /\ UNCHANGED <<epoch, Outside>>

(***************************************************************************)
(* The provider failed or timed out: nothing is cached.                    *)
(***************************************************************************)
Fail(c) ==
    /\ Leading(c)
    /\ inflight' = [inflight EXCEPT ![call[c].key] = NoInflight]
    /\ call' = [call EXCEPT ![c] = NoCall]
    /\ UNCHANGED <<entries, order, expirations, bytes, expired, epoch, Outside>>

(***************************************************************************)
(* The task is dropped at an await, its wait times out, or its signature   *)
(* does not match.  A leader's guard takes its own miss out of the table.  *)
(***************************************************************************)
\* No guard: the miss of a cancelled leader stays.
NotReleased(c) == inflight

Released(c) ==
    [k \in Keys |-> IF Leading(c) /\ inflight[k].id = call[c].id
                    THEN NoInflight ELSE inflight[k]]

Abandon(c) ==
    /\ call[c].step \in {"waiting", "leading", "answered", "verifying", "holds"}
    /\ inflight' = Released(c)
    /\ call' = [call EXCEPT ![c] = NoCall]
    /\ UNCHANGED <<entries, order, expirations, bytes, expired, epoch, Outside>>

Current(c) == epoch = call[c].epoch

Verify(c) ==
    /\ call[c].step = "verifying"
    /\ call' = [call EXCEPT ![c] = IF Current(c) THEN [@ EXCEPT !.step = "candidate"] ELSE NoCall]
    /\ UNCHANGED <<cache, Outside>>

Profile(c) == Agrees(control.products, Identity(call[c].key, call[c].version))

(***************************************************************************)
(* authenticate_session and accept_verified look at the profile first.     *)
(***************************************************************************)
Validate(c) ==
    /\ call[c].step = "candidate"
    /\ call' = [call EXCEPT ![c] = IF Profile(c) THEN [@ EXCEPT !.step = "holds"] ELSE NoCall]
    /\ UNCHANGED <<cache, Outside>>

(***************************************************************************)
(* send_ack: with_current_verifier signs an acknowledgement or suppresses  *)
(* it.  The datagram has been accepted either way.                         *)
(***************************************************************************)
MaySign(c) == call[c].step = "holds" /\ call[c].key \in Verifiers /\ Current(c)

Acknowledge(c) ==
    /\ call[c].step = "holds" /\ call[c].key \in Verifiers
    /\ call' = [call EXCEPT ![c] = NoCall]
    /\ UNCHANGED <<cache, Outside>>

-----------------------------------------------------------------------------
(***************************************************************************)
(* Behind the gate.  register_session_admitted_with checks freshness and   *)
(* profile, then registers; register_with may still refuse.                *)
(***************************************************************************)
\* The profile is looked at once, before the gate.
ClearedUnprofiled(c) == Current(c)

Cleared(c) == Current(c) /\ Profile(c)

BeginRegister(c) ==
    /\ call[c].step = "holds" /\ call[c].key \notin Verifiers
    /\ gate = Free
    /\ \/ /\ Cleared(c)
          /\ gate' = [op |-> "register"]
          /\ call' = [call EXCEPT ![c].step = "registering"]
       \/ /\ ~Cleared(c)
          /\ call' = [call EXCEPT ![c] = NoCall]
          /\ UNCHANGED gate
    /\ UNCHANGED <<cache, sessions, control, credential, promises>>

EndRegister(c) ==
    /\ call[c].step = "registering"
    /\ \/ sessions' = [sessions EXCEPT ![DeviceOf[call[c].key]] =
                          [version |-> call[c].version, live |-> TRUE]]
       \/ UNCHANGED sessions
    /\ gate' = Free
    /\ call' = [call EXCEPT ![c] = NoCall]
    /\ UNCHANGED <<cache, control, credential, promises>>

(***************************************************************************)
(* Invalidations name devices (one, a product, a tenant, all) or a         *)
(* credential version.  Negative entries go with any of them.              *)
(***************************************************************************)
Selections ==
    {{i \in Identities : i.device \in D} : D \in SUBSET Devices}
        \cup {{i \in Identities : i.version = v} : v \in Versions}

BeginInvalidate(matched) ==
    /\ gate = Free
    /\ epoch < MaxEpoch
    /\ epoch' = epoch + 1
    /\ Without({k \in Cached : \/ entries[k].kind = "negative"
                               \/ Identity(k, entries[k].version) \in matched})
    /\ gate' = [op |-> "invalidate", matched |-> matched,
                superseded |-> {i \in matched : i.version < credential[i.device]}]
    /\ denials' = credential
    /\ UNCHANGED <<inflight, call, sessions, control, credential, revoked>>

EndInvalidate ==
    /\ gate.op = "invalidate"
    /\ sessions' = [d \in Devices |->
                      [sessions[d] EXCEPT !.live =
                          @ /\ [device |-> d, version |-> sessions[d].version] \notin gate.matched]]
    /\ revoked' = revoked \cup gate.superseded
    /\ gate' = Free
    /\ UNCHANGED <<cache, call, control, credential, denials>>

(***************************************************************************)
(* A control snapshot is refused when a registered session has another     *)
(* codec; replacing the routes keeps the products it was prepared from.    *)
(* The commit may be refused: for its revision, for a profile it would     *)
(* change or remove, or for a route that does not compile (EventRouting).  *)
(***************************************************************************)
Registered == {d \in Devices : sessions[d] # NoSession}

BeginApply(revision, products) ==
    /\ gate = Free
    /\ \A d \in Registered : Agrees(products, [device |-> d, version |-> sessions[d].version])
    /\ gate' = [op |-> "commit", revision |-> revision, products |-> products,
                expected |-> -1]
    /\ UNCHANGED <<cache, call, sessions, control, credential, promises>>

BeginRoutes(revision) ==
    /\ gate = Free
    /\ revision > control.revision
    /\ gate' = [op |-> "commit", revision |-> revision, products |-> control.products,
                expected |-> control.revision]
    /\ UNCHANGED <<cache, call, sessions, control, credential, promises>>

Commit ==
    LET keeps == \A p \in Products : control.products[p] \in {None, gate.products[p]}
    IN  /\ gate.op = "commit"
        /\ \/ /\ gate.revision > control.revision
              /\ gate.expected \in {-1, control.revision}
              /\ keeps
              /\ control' = [revision |-> gate.revision, products |-> gate.products]
           \/ UNCHANGED control
        /\ gate' = Free
        /\ UNCHANGED <<cache, call, sessions, credential, promises>>

-----------------------------------------------------------------------------
Leave(d) ==
    /\ d \in Registered
    /\ sessions' = [sessions EXCEPT ![d] = NoSession]
    /\ UNCHANGED <<cache, call, gate, control, credential, promises>>

ChangeCredential(d) ==
    /\ credential[d] + 1 \in Versions
    /\ credential' = [credential EXCEPT ![d] = @ + 1]
    /\ UNCHANGED <<cache, call, gate, sessions, control, promises>>

Expire(k) ==
    /\ k \in Cached \ expired
    /\ expired' = expired \cup {k}
    /\ UNCHANGED <<entries, order, expirations, bytes, inflight, epoch, call, Outside>>

Next ==
    \/ \E c \in Callers, k \in Keys : Hit(c, k) \/ Follow(c, k) \/ Lead(c, k)
    \/ \E c \in Callers : Wait(c)
    \/ \E c \in Callers : Wake(c)
    \/ \E c \in Callers : Answer(c)
    \/ \E c \in Callers : Finish(c)
    \/ \E c \in Callers : Fail(c)
    \/ \E c \in Callers : Abandon(c)
    \/ \E c \in Callers : Verify(c)
    \/ \E c \in Callers : Validate(c)
    \/ \E c \in Callers : Acknowledge(c)
    \/ \E c \in Callers : BeginRegister(c)
    \/ \E c \in Callers : EndRegister(c)
    \/ \E matched \in Selections : BeginInvalidate(matched)
    \/ EndInvalidate
    \/ \E revision \in 1..MaxRevision, products \in [Products -> Codecs \cup {None}] :
          BeginApply(revision, products)
    \/ \E revision \in 1..MaxRevision : BeginRoutes(revision)
    \/ Commit
    \/ \E d \in Devices : Leave(d)
    \/ \E d \in Devices : ChangeCredential(d)
    \/ \E k \in Keys : Expire(k)

Spec == Init /\ [][Next]_vars

-----------------------------------------------------------------------------
(***************************************************************************)
(* Once invalidate_auth has returned, an identity it named that the        *)
(* authority had already replaced is gone for good: no cached answer, no   *)
(* live session and no acknowledgement yet to be signed has it, whatever   *)
(* lookups, provider answers and registrations were under way.  Nor does a *)
(* refusal the authority gave before the invalidation stay cached.         *)
(***************************************************************************)
RevokedStaysOut ==
    /\ \A k \in Cached :
          /\ entries[k].kind = "positive" => Identity(k, entries[k].version) \notin revoked
          /\ entries[k].kind = "negative" => entries[k].version >= denials[DeviceOf[k]]
    /\ \A d \in Devices :
          sessions[d].live => [device |-> d, version |-> sessions[d].version] \notin revoked
    /\ \A c \in Callers :
          MaySign(c) => Identity(call[c].key, call[c].version) \notin revoked

(***************************************************************************)
(* Every entry is once in the FIFO, has one deadline record and is charged *)
(* exactly, within the byte limit.  The eviction loop of                   *)
(* insert_cache_entry ends only because the FIFO never runs out before the *)
(* entries do.                                                             *)
(***************************************************************************)
CacheExact ==
    /\ Len(order) = Cardinality(Cached) /\ ToSet(order) = Cached
    /\ expirations = Cached /\ expired \subseteq Cached
    /\ bytes = BytesOf(Cached)
    /\ bytes <= MaxBytes

(***************************************************************************)
(* A miss in the table always has its leader, and a leader its miss: no    *)
(* timeout, cancellation or invalidation leaves callers following nobody,  *)
(* or makes the leader's removal fail with Internal.                       *)
(***************************************************************************)
MissesLed ==
    /\ \A k \in Keys : inflight[k] # NoInflight =>
          \E c \in Callers : Leading(c) /\ call[c].key = k /\ call[c].id = inflight[k].id
    /\ \A c \in Callers : Leading(c) =>
          inflight[call[c].key] = [id |-> call[c].id, epoch |-> call[c].epoch]

(***************************************************************************)
(* A registered session's codec is the one its product's profile names:    *)
(* neither a snapshot applied while it was authenticating, nor one applied *)
(* later, changes how a live session is decoded.                           *)
(***************************************************************************)
ProfileAgreed ==
    \A d \in Registered :
        Agrees(control.products, [device |-> d, version |-> sessions[d].version])
====
