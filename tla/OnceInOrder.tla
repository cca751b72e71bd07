---------------------------- MODULE OnceInOrder ----------------------------
(***************************************************************************)
(* What a durable send queue promises, without rows, sessions or requests. *)
(* Each channel has a line of ids waiting to be delivered.  Delivery takes *)
(* the first of the line.  An id that left the line's order (deleted while *)
(* a request may be out, or never queued) is a stray: it may still be      *)
(* delivered, at any time or never.  Either way an id is delivered once.   *)
(* Outbox implements this (KeepsPromise there).                            *)
(***************************************************************************)
EXTENDS Sequences, SequencesExt

CONSTANTS Channels, Ids, Home

VARIABLES line, strays, delivered

vars == <<line, strays, delivered>>

Waits(i)     == i \in ToSet(line[Home[i]])
Delivered(i) == i \in ToSet(delivered[Home[i]])

Init ==
  /\ line = [c \in Channels |-> <<>>]
  /\ strays = {}
  /\ delivered = [c \in Channels |-> <<>>]

Queue(i) ==
  /\ ~Waits(i) /\ i \notin strays /\ ~Delivered(i)
  /\ line' = [line EXCEPT ![Home[i]] = Append(@, i)]
  /\ UNCHANGED <<strays, delivered>>

\* The user takes the message out of the line, or sends it around the line.
Stray(i) ==
  /\ i \notin strays /\ ~Delivered(i)
  /\ strays' = strays \cup {i}
  /\ line' = [line EXCEPT ![Home[i]] = SelectSeq(@, LAMBDA j : j # i)]
  /\ UNCHANGED delivered

Deliver(c) ==
  /\ line[c] # <<>>
  /\ line' = [line EXCEPT ![c] = Tail(@)]
  /\ delivered' = [delivered EXCEPT ![c] = Append(@, Head(line[c]))]
  /\ UNCHANGED strays

DeliverStray(i) ==
  /\ i \in strays
  /\ strays' = strays \ {i}
  /\ delivered' = [delivered EXCEPT ![Home[i]] = Append(@, i)]
  /\ UNCHANGED line

Next ==
  \/ \E i \in Ids : Queue(i) \/ Stray(i) \/ DeliverStray(i)
  \/ \E c \in Channels : Deliver(c)

Spec == Init /\ [][Next]_vars
=============================================================================
