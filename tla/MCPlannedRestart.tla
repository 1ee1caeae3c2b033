-------------------------- MODULE MCPlannedRestart --------------------------
(***************************************************************************)
(* Three responsibilities of two events, restarts without limit, room for  *)
(* one abandoned temporary file.  Three generations are enough for a       *)
(* commit that fails after its rename, the retry over it and a second      *)
(* process; the configuration for liveness has two.                        *)
(* A snapshot holds one record.  The event of w1 and w2 fits the bytes of  *)
(* the spool, the larger event of w3 does not: so what is owed can be      *)
(* stored, has too many records, or is refused while it is written.        *)
(***************************************************************************)
EXTENDS PlannedRestart

CONSTANTS w1, w2, w3

MCWork == {w1, w2, w3}
MCEventOf == [w \in MCWork |-> IF w = w3 THEN "large" ELSE "small"]
MCFitting == SUBSET {w1, w2}
=============================================================================
