--------------------------- MODULE SessionsProofs ---------------------------
(***************************************************************************)
(* Proofs about Sessions: any devices, tenants, limits and number of       *)
(* registrations.  The senders' steps belong to CommandDispatch.           *)
(***************************************************************************)
EXTENDS Sessions, TLAPS

Entries == [state : {"absent", "offline", "connected"},
            generation : 0..MaxGeneration, seen : Nat]

\* The part of the registry that ownership and presence depend on.
OwnerTypeOK ==
    /\ generation \in 0..MaxGeneration
    /\ sessions \in [Devices -> 0..MaxGeneration]
    /\ presence \in [Devices -> Entries]
    /\ now \in Nat
    /\ deviceOf \in [Generations -> Devices \cup {0}]
    /\ cancelled \subseteq Generations
    /\ task \in [Generations -> {"none", "open", "closed", "gone"}]

\* A generation that register_with has not given out has neither a task nor a
\* session, and one with a task has a device.
FreshGenerations ==
    /\ \A g \in Generations : g > generation => task[g] = "none"
    /\ \A d \in Devices : sessions[d] <= generation
    /\ \A g \in Generations : task[g] # "none" => deviceOf[g] \in Devices

IInv == OwnerTypeOK /\ FreshGenerations /\ OneLiveOwner /\ PresenceTruthful

\* The presence and session of one device agree.
Agrees(table, d) ==
    /\ table[d].state = "connected" <=> sessions[d] # 0
    /\ table[d].generation = sessions[d]

-----------------------------------------------------------------------------
\* An entry that is not "connected" may be dropped without contradicting the
\* sessions: what retain and the eviction of ensure_presence_slot rely on.
LEMMA DropAgrees ==
  ASSUME NEW table \in [Devices -> Entries], NEW d \in Devices, Agrees(table, d),
         table[d].state # "connected"
  PROVE  sessions[d] = 0
BY DEF Agrees

\* NoPresence is an entry.
LEMMA NoPresenceEntry == NoPresence \in Entries
BY SessionConstants DEF NoPresence, Entries

\* Pruning expired entries keeps the table well formed and truthful.
LEMMA PrunedAgrees ==
  ASSUME NEW table \in [Devices -> Entries], \A d \in Devices : Agrees(table, d)
  PROVE  /\ Pruned(table) \in [Devices -> Entries]
         /\ \A d \in Devices : Agrees(Pruned(table), d)
<1>1. Pruned(table) \in [Devices -> Entries]
  BY NoPresenceEntry DEF Pruned
<1>2. ASSUME NEW d \in Devices PROVE Agrees(Pruned(table), d)
  <2>1. CASE Stale(table[d])
    BY <2>1, DropAgrees DEF Pruned, Stale, NoPresence, Agrees
  <2>2. CASE ~Stale(table[d])
    BY <2>2 DEF Pruned, Agrees
  <2>. QED  BY <2>1, <2>2
<1>. QED  BY <1>1, <1>2

\* ensure_presence_slot keeps the table truthful: it only removes offline entries.
LEMMA SlotsAgree ==
  ASSUME NEW table \in [Devices -> Entries], \A d \in Devices : Agrees(table, d),
         NEW e \in Devices, NEW slots \in PresenceSlots(table, e)
  PROVE  /\ slots \in [Devices -> Entries]
         /\ \A d \in Devices : Agrees(slots, d)
<1>. DEFINE pruned == Pruned(table)
<1>1. /\ pruned \in [Devices -> Entries]
      /\ \A d \in Devices : Agrees(pruned, d)
  BY PrunedAgrees
<1>. HIDE DEF pruned
<1>2. CASE slots = table
  BY <1>2
<1>3. CASE slots = pruned
  BY <1>1, <1>3
<1>4. CASE \E o \in OldestOffline(pruned) : slots = [pruned EXCEPT ![o] = NoPresence]
  <2>1. PICK o \in OldestOffline(pruned) : slots = [pruned EXCEPT ![o] = NoPresence]
    BY <1>4
  <2>2. o \in Devices /\ pruned[o].state = "offline"
    BY DEF OldestOffline
  <2>3. slots \in [Devices -> Entries]
    BY <1>1, <2>1, NoPresenceEntry
  <2>4. ASSUME NEW d \in Devices PROVE Agrees(slots, d)
    BY <1>1, <2>1, <2>2 DEF Agrees, NoPresence
  <2>. QED  BY <2>3, <2>4
<1>5. \/ slots = table
      \/ slots = pruned
      \/ \E o \in OldestOffline(pruned) : slots = [pruned EXCEPT ![o] = NoPresence]
  BY DEF PresenceSlots, pruned
<1>. QED  BY <1>2, <1>3, <1>4, <1>5

-----------------------------------------------------------------------------
\* A step that leaves the sessions and their tasks alone and changes presence
\* only to another truthful table keeps the invariant.
LEMMA PresenceStep ==
  ASSUME IInv,
         presence' \in [Devices -> Entries],
         \A d \in Devices : Agrees(presence', d),
         now' \in Nat,
         UNCHANGED <<generation, sessions, deviceOf, cancelled, task>>
  PROVE  IInv'
BY DEF IInv, OwnerTypeOK, FreshGenerations, OneLiveOwner, PresenceTruthful, Agrees

\* The invariant says that the table agrees with the sessions.
LEMMA IInvAgrees ==
  IInv => presence \in [Devices -> Entries] /\ \A d \in Devices : Agrees(presence, d)
BY DEF IInv, OwnerTypeOK, PresenceTruthful, Agrees

\* The registry starts empty.
LEMMA InitIInv == SessionsInit => IInv
BY SessionConstants
   DEF SessionsInit, IInv, OwnerTypeOK, FreshGenerations, OneLiveOwner, PresenceTruthful,
       NoPresence, Entries, Generations

\* register_with: the new generation takes the device over and the old one's
\* token is cancelled under the same lock.
LEMMA RegisterKeeps ==
  ASSUME IInv, NEW d \in Devices, NEW tcp \in BOOLEAN, Register(d, tcp)
  PROVE  IInv'
<1>. DEFINE g == generation + 1
<1>1. /\ g \in Generations
      /\ generation' = g
      /\ sessions' = [sessions EXCEPT ![d] = g]
      /\ deviceOf' = [deviceOf EXCEPT ![g] = d]
      /\ cancelled' = cancelled \cup ({sessions[d]} \ {0})
      /\ task' = [task EXCEPT ![g] = "open"]
      /\ now' = now
  BY DEF Register
<1>2. PICK slots \in PresenceSlots(presence, d) :
         presence' = [slots EXCEPT ![d] =
                         [state |-> "connected", generation |-> g, seen |-> now]]
  BY DEF Register
<1>3. slots \in [Devices -> Entries] /\ \A e \in Devices : Agrees(slots, e)
  BY IInvAgrees, SlotsAgree
<1>4. g > generation /\ g \in 1..MaxGeneration
  BY <1>1, SessionConstants DEF IInv, OwnerTypeOK, Generations
<1>5. OwnerTypeOK'
  <2>1. presence' \in [Devices -> Entries]
    BY <1>2, <1>3, <1>4 DEF IInv, OwnerTypeOK, Entries
  <2>2. sessions' \in [Devices -> 0..MaxGeneration] /\ generation' \in 0..MaxGeneration
    BY <1>1, <1>4, SessionConstants DEF IInv, OwnerTypeOK
  <2>3. sessions[d] \in 0..MaxGeneration
    BY DEF IInv, OwnerTypeOK
  <2>4. cancelled' \subseteq Generations
    BY <1>1, <2>3, SessionConstants DEF IInv, OwnerTypeOK, Generations
  <2>5. deviceOf' \in [Generations -> Devices \cup {0}]
    BY <1>1 DEF IInv, OwnerTypeOK
  <2>6. task' \in [Generations -> {"none", "open", "closed", "gone"}]
    BY <1>1 DEF IInv, OwnerTypeOK
  <2>. QED  BY <1>1, <2>1, <2>2, <2>4, <2>5, <2>6 DEF IInv, OwnerTypeOK
<1>6. FreshGenerations'
  BY <1>1, <1>4, SessionConstants DEF IInv, OwnerTypeOK, FreshGenerations, Generations
<1>7. OneLiveOwner'
  BY <1>1, <1>4, SessionConstants
     DEF IInv, OwnerTypeOK, FreshGenerations, OneLiveOwner, Generations
<1>8. PresenceTruthful'
  BY <1>1, <1>2, <1>3, <1>4 DEF IInv, OwnerTypeOK, PresenceTruthful, Agrees
<1>. QED  BY <1>5, <1>6, <1>7, <1>8 DEF IInv

\* touch: a device without an entry gets an offline one; a known device keeps
\* its state.
LEMMA TouchKeeps ==
  ASSUME IInv, NEW d \in Devices, Touch(d)
  PROVE  IInv'
<1>. DEFINE kept == [presence EXCEPT ![d] = IF Stale(@) THEN NoPresence ELSE @]
<1>1. presence \in [Devices -> Entries] /\ \A e \in Devices : Agrees(presence, e)
  BY IInvAgrees
<1>2. kept \in [Devices -> Entries]
  BY <1>1, NoPresenceEntry
<1>3. ASSUME NEW e \in Devices PROVE Agrees(kept, e)
  BY <1>1 DEF Agrees, Stale, NoPresence
<1>4. now \in Nat
  BY DEF IInv, OwnerTypeOK
<1>5. CASE kept[d].state # "absent" /\ presence' = [presence EXCEPT ![d].seen = now]
  <2>1. presence' \in [Devices -> Entries]
    BY <1>1, <1>4, <1>5 DEF Entries
  <2>2. \A e \in Devices : Agrees(presence', e)
    BY <1>1, <1>5 DEF Agrees, Entries
  <2>. QED  BY <1>4, <2>1, <2>2, PresenceStep DEF Touch
<1>6. CASE /\ kept[d].state = "absent"
           /\ \E slots \in PresenceSlots(kept, d) :
                 presence' = [slots EXCEPT ![d] =
                                 [state |-> "offline", generation |-> 0, seen |-> now]]
  <2>1. PICK slots \in PresenceSlots(kept, d) :
           presence' = [slots EXCEPT ![d] =
                           [state |-> "offline", generation |-> 0, seen |-> now]]
    BY <1>6
  <2>2. slots \in [Devices -> Entries] /\ \A e \in Devices : Agrees(slots, e)
    BY <1>2, <1>3, SlotsAgree
  <2>3. sessions[d] = 0
    BY <1>2, <1>3, <1>6, DropAgrees
  <2>4. [state |-> "offline", generation |-> 0, seen |-> now] \in Entries
    BY <1>4, SessionConstants DEF Entries
  <2>5. presence' \in [Devices -> Entries]
    BY <2>1, <2>2, <2>4
  <2>6. \A e \in Devices : Agrees(presence', e)
    BY <2>1, <2>2, <2>3 DEF Agrees
  <2>. QED  BY <1>4, <2>5, <2>6, PresenceStep DEF Touch
<1>7. CASE presence' = kept
  BY <1>2, <1>3, <1>4, <1>7, PresenceStep DEF Touch
<1>. QED  BY <1>5, <1>6, <1>7 DEF Touch

\* The lease drop is fenced by the generation: it frees the device only while
\* the registry still holds the session it was given for.
LEMMA DropLeaseKeeps ==
  ASSUME IInv, NEW g \in Generations, DropLease(g)
  PROVE  IInv'
<1>. DEFINE d == deviceOf[g]
<1>1. task[g] = "closed" /\ task' = [task EXCEPT ![g] = "gone"]
  BY DEF DropLease
<1>2. UNCHANGED <<generation, deviceOf, now>>
  BY DEF DropLease
<1>3. d \in Devices
  BY <1>1 DEF IInv, FreshGenerations
<1>4. CASE sessions[d] = g
  <2>1. /\ sessions' = [sessions EXCEPT ![d] = 0]
        /\ cancelled' = cancelled \cup {g}
        /\ presence' = [presence EXCEPT ![d] =
                           IF @.state = "absent" THEN @
                           ELSE [state |-> "offline", generation |-> 0, seen |-> now]]
    BY <1>4 DEF DropLease
  <2>2. presence[d].state = "connected"
    BY <1>3, <1>4 DEF IInv, PresenceTruthful, Generations
  <2>3. [state |-> "offline", generation |-> 0, seen |-> now] \in Entries
    BY SessionConstants DEF IInv, OwnerTypeOK, Entries
  <2>4. OwnerTypeOK'
    BY <1>1, <1>2, <1>3, <2>1, <2>3, SessionConstants DEF IInv, OwnerTypeOK
  <2>5. FreshGenerations'
    BY <1>1, <1>2, <1>3, <2>1, SessionConstants DEF IInv, OwnerTypeOK, FreshGenerations, Generations
  <2>6. OneLiveOwner'
    BY <1>1, <1>2, <1>3, <1>4, <2>1
       DEF IInv, OwnerTypeOK, FreshGenerations, OneLiveOwner, Generations
  <2>7. PresenceTruthful'
    BY <1>3, <2>1, <2>2 DEF IInv, OwnerTypeOK, PresenceTruthful
  <2>. QED  BY <2>4, <2>5, <2>6, <2>7 DEF IInv
<1>5. CASE sessions[d] # g
  <2>1. UNCHANGED <<sessions, cancelled, presence>>
    BY <1>5 DEF DropLease
  <2>2. OwnerTypeOK' /\ FreshGenerations' /\ PresenceTruthful'
    BY <1>1, <1>2, <2>1 DEF IInv, OwnerTypeOK, FreshGenerations, PresenceTruthful
  <2>3. OneLiveOwner'
    BY <1>1, <1>2, <1>3, <1>5, <2>1 DEF IInv, OwnerTypeOK, OneLiveOwner
  <2>. QED  BY <2>2, <2>3 DEF IInv
<1>. QED  BY <1>4, <1>5

-----------------------------------------------------------------------------
\* Every step of the registry and of the connection tasks keeps the invariant.
LEMMA NextIInv == IInv /\ [Next]_sessionVars => IInv'
<1>. SUFFICES ASSUME IInv, [Next]_sessionVars PROVE IInv'
  OBVIOUS
<1>. now \in Nat
  BY DEF IInv, OwnerTypeOK
<1>1. ASSUME NEW d \in Devices, NEW tcp \in BOOLEAN, Register(d, tcp) PROVE IInv'
  BY <1>1, RegisterKeeps
<1>2. ASSUME NEW d \in Devices, RegisterRefused(d) PROVE IInv'
  <2>1. presence' \in [Devices -> Entries] /\ \A e \in Devices : Agrees(presence', e)
    BY <1>2, IInvAgrees, SlotsAgree DEF RegisterRefused
  <2>. QED  BY <1>2, <2>1, PresenceStep DEF RegisterRefused
<1>3. ASSUME NEW D \in Selections, Disconnect(D) PROVE IInv'
  <2>1. cancelled' = cancelled \cup {sessions[d] : d \in D \cap Live}
    BY <1>3 DEF Disconnect
  <2>2. UNCHANGED <<generation, sessions, presence, now, deviceOf, task>>
    BY <1>3 DEF Disconnect, registry
  <2>3. \A d \in Live : sessions[d] \in Generations
    BY SessionConstants DEF IInv, OwnerTypeOK, Live, Generations
  <2>4. cancelled \subseteq cancelled' /\ cancelled' \subseteq Generations
    BY <2>1, <2>3 DEF IInv, OwnerTypeOK
  <2>. QED  BY <2>2, <2>4 DEF IInv, OwnerTypeOK, FreshGenerations, OneLiveOwner, PresenceTruthful
<1>4. ASSUME NEW d \in Devices, Touch(d) PROVE IInv'
  BY <1>4, TouchKeeps
<1>5. ASSUME NEW D \in Selections, ReadPresence(D) PROVE IInv'
  <2>1. /\ Pruned(presence) \in [Devices -> Entries]
        /\ \A d \in Devices : Agrees(Pruned(presence), d)
    BY IInvAgrees, PrunedAgrees
  <2>2. presence' = [d \in Devices |-> IF d \in D THEN Pruned(presence)[d] ELSE presence[d]]
    BY <1>5 DEF ReadPresence
  <2>3. presence' \in [Devices -> Entries] /\ \A d \in Devices : Agrees(presence', d)
    BY <2>1, <2>2, IInvAgrees DEF Agrees
  <2>. QED  BY <1>5, <2>3, PresenceStep DEF ReadPresence
<1>6. ASSUME NEW g \in Generations, NEW value \in BOOLEAN, SetCommandReady(g, value) PROVE IInv'
  BY <1>6, IInvAgrees, PresenceStep DEF SetCommandReady, registry, Agrees
<1>7. ASSUME NEW g \in Generations, CloseChannel(g) PROVE IInv'
  <2>1. task[g] = "open" /\ task' = [task EXCEPT ![g] = "closed"]
    BY <1>7 DEF CloseChannel
  <2>2. UNCHANGED <<generation, sessions, presence, now, deviceOf, cancelled>>
    BY <1>7 DEF CloseChannel, registry
  <2>. QED  BY <2>1, <2>2 DEF IInv, OwnerTypeOK, FreshGenerations, OneLiveOwner, PresenceTruthful
<1>8. ASSUME NEW g \in Generations, DropLease(g) PROVE IInv'
  BY <1>8, DropLeaseKeeps
<1>9. CASE Tick
  BY <1>9, IInvAgrees, PresenceStep DEF Tick, registry, Agrees
<1>10. CASE UNCHANGED sessionVars
  BY <1>10, IInvAgrees, PresenceStep DEF sessionVars, registry, Agrees
<1>. QED  BY <1>1, <1>2, <1>3, <1>4, <1>5, <1>6, <1>7, <1>8, <1>9, <1>10 DEF Next

\* Whatever registrations, takeovers, revocations and late lease drops interleave,
\* every uncancelled connection task owns its device's registered session and every
\* registered session has its task (register_with and the drop of SessionLease).
THEOREM OwnersUnique == Spec => []OneLiveOwner
<1>1. IInv => OneLiveOwner
  BY DEF IInv
<1>. QED  BY <1>1, InitIInv, NextIInv, PTL DEF Spec

\* The presence table shows a device as connected exactly while the registry
\* holds its session, at every size of the table and with any expiry.
THEOREM PresenceIsTruthful == Spec => []PresenceTruthful
<1>1. IInv => PresenceTruthful
  BY DEF IInv
<1>. QED  BY <1>1, InitIInv, NextIInv, PTL DEF Spec
====
