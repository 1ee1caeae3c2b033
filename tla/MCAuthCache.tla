---------------------------- MODULE MCAuthCache ----------------------------
(***************************************************************************)
(* One device with a secret and a verifier, two callers.  Version 2 of the *)
(* credential is refused and version 3 has another codec, so a credential  *)
(* is revoked and enabled again.                                           *)
(***************************************************************************)
EXTENDS AuthCache, TLC

CONSTANTS d, p, secret, verifier, c1, c2, a, b

MCProductOf == [x \in {d} |-> p]
MCDeviceOf == [k \in {secret, verifier} |-> d]
MCGrants == <<c1, None, c2>>
MCSymmetry == Permutations({a, b})
====
