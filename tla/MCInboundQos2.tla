--------------------------- MODULE MCInboundQos2 ---------------------------
(***************************************************************************)
(* Transactions: two messages over one identifier and three attachments,   *)
(* enough to lose a session, then the CONNACK of the one made in its place *)
(* and to resume that.  Limits, in version 5: a retained message that may  *)
(* expire and one that clears the same topic, over two identifiers and two *)
(* attachments, with a second topic that others use, a retained table of   *)
(* two entries and a receive window of two slots.                          *)
(***************************************************************************)
EXTENDS InboundQos2, TLC

CONSTANTS m1, m2, t1, t2

NotRetained == [m \in Messages |-> NoTopic]
RetainedTopic == [m \in Messages |-> t1]
Interchangeable == Permutations(Messages)
====
