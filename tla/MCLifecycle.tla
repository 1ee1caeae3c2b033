---------------------------- MODULE MCLifecycle ----------------------------
(***************************************************************************)
(* Three callers race with begin_quiesce.                                  *)
(***************************************************************************)
EXTENDS Lifecycle
=============================================================================
