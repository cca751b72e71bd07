----------------------------- MODULE MCLocalData -----------------------------
(***************************************************************************)
(* Instances of LocalData for TLC: what may happen, a few of it at a time. *)
(***************************************************************************)
EXTENDS LocalData

\* Named events happen as often as given, all others never.
Of(g) == [w \in Outside |-> IF w \in DOMAIN g THEN g[w] ELSE 0]

Some == {
  Of([signin |-> 3, signout |-> 1, forget |-> 1, queue |-> 1, crash |-> 1]),
  Of([signin |-> 2, forget |-> 2, lock |-> 2, crash |-> 2]),
  Of([signin |-> 2, forget |-> 1, queue |-> 1, fail |-> 1, crash |-> 2]),
  Of([signin |-> 3, wipe |-> 1, queue |-> 1, fail |-> 1, lock |-> 1, crash |-> 1]),
  Of([signin |-> 3, list |-> 1, queue |-> 2, close |-> 1, lose |-> 1]),
  Of([signin |-> 2, queue |-> 1, close |-> 2, lose |-> 2, read |-> 2]),
  Of([signin |-> 2, queue |-> 2, close |-> 2, lose |-> 1, upgrade |-> 1, read |-> 2]),
  Of([signin |-> 2, queue |-> 1, close |-> 2, lose |-> 1, damage |-> 1, forget |-> 1]) }

\* The file system fails while an outbox is made anew for a lost key.  Local data is
\* turned on while its user asks for it to be removed.
Beyond == {Of([signin |-> 1, queue |-> 1, close |-> 1, lose |-> 1, fail |-> 1]), Of([signin |-> 1, forget |-> 1])}
=============================================================================
