------------------------------ MODULE MCOutbox ------------------------------
(***************************************************************************)
(* Instances of Outbox for TLC.                                            *)
(***************************************************************************)
EXTENDS OutboxRefinement

CONSTANTS a, b, u, v, general

OneChannel == {general}

OneId == {a}
OneHome == [i \in OneId |-> general]

\* Two messages in one channel, the second a reply.
TwoIds == {a, b}
TwoHome == [i \in TwoIds |-> general]
SecondReplies == {b}
NoReplies == {}
=============================================================================
