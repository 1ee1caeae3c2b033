----------------------------- MODULE MCSessions -----------------------------
(***************************************************************************)
(* The registry's tables, without senders: two devices of one tenant and   *)
(* one of another, three registrations.  The limits bite: one connection of *)
(* the first tenant, a presence table of two entries for three devices.    *)
(***************************************************************************)
EXTENDS Sessions

CONSTANTS d1, d2, e1

MCDevices == {d1, d2, e1}
MCTenants == {"t", "u"}
MCTenantOf == [d \in MCDevices |-> IF d = e1 THEN "u" ELSE "t"]
====
