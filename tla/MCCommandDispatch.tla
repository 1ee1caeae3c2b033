-------------------------- MODULE MCCommandDispatch --------------------------
(***************************************************************************)
(* One device that may be taken over once.  Three calls: two with the same *)
(* id and contents, one with the same id and other contents or with its    *)
(* own id.  The registry holds one entry, so the third call can find it    *)
(* full.  In the first configuration the third call supplies an expiry,    *)
(* too far ahead at time 0, valid at 1 and past at 2.                      *)
(***************************************************************************)
EXTENDS CommandDispatch

CONSTANTS d1, p1, p2, p3

MCSenders == {p1, p2, p3}
MCTenantOf == [d \in {d1} |-> "t"]
SameId == [p \in MCSenders |-> "i"]
OwnId == [p \in MCSenders |-> IF p = p3 THEN "j" ELSE "i"]
SamePrint == [p \in MCSenders |-> "a"]
OtherPrint == [p \in MCSenders |-> IF p = p3 THEN "b" ELSE "a"]
NoExpiries == [p \in MCSenders |-> NoExpiry]
OneExpiry == [p \in MCSenders |-> IF p = p3 THEN 2 ELSE NoExpiry]
MCTargetOf == [p \in MCSenders |-> d1]
====
