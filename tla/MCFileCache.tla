----------------------------- MODULE MCFileCache -----------------------------
(***************************************************************************)
(* Instances of FileCache for TLC: what may happen, a few of it at a time. *)
(***************************************************************************)
EXTENDS FileCache

\* Named events happen as often as given, all others never.
Of(g) == [w \in Outside |-> IF w \in DOMAIN g THEN g[w] ELSE 0]

Some == {
  Of([pin |-> 1, ask |-> 1, fail |-> 1, crash |-> 1, restart |-> 1]),
  Of([pin |-> 1, ask |-> 2, unpin |-> 1]),
  Of([ask |-> 2, drop |-> 1, list |-> 1]),
  Of([ask |-> 1, drop |-> 2, list |-> 1]),
  Of([pin |-> 1, drop |-> 1, list |-> 1, crash |-> 1]),
  Of([pin |-> 1, ask |-> 1, drop |-> 1]),
  Of([pin |-> 1, ask |-> 1, gone |-> 1, cancel |-> 1]),
  Of([pin |-> 1, ask |-> 1, session |-> 2]),
  Of([pin |-> 1, ask |-> 1, session |-> 1, close |-> 1]),
  Of([ask |-> 1, drop |-> 1, close |-> 1]) }

\* What the code doesn't keep apart: a file is unpinned and pinned again while another's
\* download ends; a pinned file is whole, and asked for, at once; a file is dropped between a download's look for its
\* row and the making of one; a file is dropped, listed and
\* pinned again while its download starts over and its blob goes.
Beyond == {
  Of([ask |-> 1, pin |-> 2, unpin |-> 1]),
  Of([ask |-> 1, pin |-> 1, fail |-> 1]),
  Of([ask |-> 1, pin |-> 1, drop |-> 1]),
  Of([ask |-> 1, drop |-> 1, list |-> 1, pin |-> 1, restart |-> 1]) }
=============================================================================
