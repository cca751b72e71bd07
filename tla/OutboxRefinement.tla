-------------------------- MODULE OutboxRefinement --------------------------
(***************************************************************************)
(* Outbox implements OnceInOrder: a row whose message the server lacks is  *)
(* in its channel's line, at its ordinal's place; a loose id the server    *)
(* lacks is a stray; a commit at the server is a delivery.                 *)
(***************************************************************************)
EXTENDS Outbox, SequencesExt

Unsent(c) == {i \in RowsOf(c) : i \notin loose /\ i \notin Stored}

Promise == INSTANCE OnceInOrder WITH
  line      <- [c \in Channels |-> SetToSortSeq(Unsent(c), LAMBDA i, j : ord[i] < ord[j])],
  strays    <- {i \in loose : i \notin Stored},
  delivered <- [c \in Channels |-> [k \in DOMAIN log[c] |-> log[c][k].id]]

\* Whatever the interleaving of senders, crashes, deletes and late POSTs, the
\* server sees what a queue that delivers each message once, in order, would send.
KeepsPromise == Promise!Spec
=============================================================================
