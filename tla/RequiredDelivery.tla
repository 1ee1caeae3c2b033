-------------------------- MODULE RequiredDelivery --------------------------
(***************************************************************************)
(* The promise behind "accepted": the gateway owes an accepted event to    *)
(* every required receiver, and only that receiver's confirmation ends the *)
(* responsibility.  Queues, limits, retries, pauses, routes and workers    *)
(* are not visible here.                                                   *)
(***************************************************************************)
EXTENDS FiniteSets

CONSTANTS Events, Receivers

VARIABLES
  open,       \* new events may be accepted
  owed,       \* receivers that have not confirmed the event
  confirmed   \* receivers that have confirmed it since it was accepted

vars == <<open, owed, confirmed>>

Init ==
  /\ open = TRUE
  /\ owed = [e \in Events |-> {}]
  /\ confirmed = [e \in Events |-> {}]

\* A new event, owed to all of R at once; an id is free again once nothing is owed.
Accept(e, R) ==
  /\ open
  /\ owed[e] = {}
  /\ owed' = [owed EXCEPT ![e] = R]
  /\ confirmed' = [confirmed EXCEPT ![e] = {}]
  /\ UNCHANGED open

\* Responsibilities of an earlier process are taken over, all of them or none.
Adopt(f) ==
  /\ \A e \in DOMAIN f : owed[e] = {}
  /\ owed' = [e \in Events |-> IF e \in DOMAIN f THEN f[e] ELSE owed[e]]
  /\ confirmed' = [e \in Events |-> IF e \in DOMAIN f THEN {} ELSE confirmed[e]]
  /\ UNCHANGED open

Confirm(e, r) ==
  /\ r \in owed[e]
  /\ owed' = [owed EXCEPT ![e] = @ \ {r}]
  /\ confirmed' = [confirmed EXCEPT ![e] = @ \cup {r}]
  /\ UNCHANGED open

Close ==
  /\ open' = FALSE
  /\ UNCHANGED <<owed, confirmed>>

Next ==
  \/ \E e \in Events, R \in SUBSET Receivers : Accept(e, R)
  \/ \E E \in SUBSET Events : \E f \in [E -> SUBSET Receivers] : Adopt(f)
  \/ \E e \in Events, r \in Receivers : Confirm(e, r)
  \/ Close

Spec == Init /\ [][Next]_vars
=============================================================================
