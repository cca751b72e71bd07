-------------------------------- MODULE MCChat --------------------------------
(***************************************************************************)
(* Instances of ChatView for TLC: what may happen, a few of it at a time.  *)
(***************************************************************************)
EXTENDS ChatView

CONSTANTS A, B

\* Four messages of A, the last to come, and one of B.
Homes == <<A, A, A, A, B>>
Old == {1, 2, 3}

\* Named events happen as often as given, all others never.
Times(g) == [w \in Outside |-> IF w \in DOMAIN g THEN g[w] ELSE 0]
Started(S, c, local, out) == {<<Times(g), [open |-> c, store |-> local, away |-> out]>> : g \in S}
Mixes(S, c, local) == Started(S, c, local, {})
\* This user isn't in B yet.
MixesOut(S, c, local) == Started(S, c, local, {B})

Some == UNION {
  \* Opening, paging back, live messages, failures.
  Mixes({[select |-> 1, fail |-> 1], [select |-> 1, scroll |-> 1, drop |-> 1]}, Closed, TRUE),
  Mixes({[select |-> 1, post |-> 1], [select |-> 1, gone |-> 1]}, Closed, FALSE),
  Mixes({[select |-> 2], [select |-> 1, post |-> 1], [select |-> 1, gone |-> 1],
         [post |-> 1, drop |-> 1, delete |-> 1], [edit |-> 1, delete |-> 1, reply |-> 1]}, A, TRUE),
  Mixes({[select |-> 2, scroll |-> 1], [select |-> 1, delete |-> 1, fail |-> 1]}, A, FALSE),
  \* Chips.
  Mixes({[react |-> 3], [react |-> 2, drop |-> 1, restore |-> 1], [react |-> 2, select |-> 1]}, A, FALSE),
  Mixes({[react |-> 1, select |-> 1], [react |-> 2, drop |-> 1]}, A, TRUE),
  \* Conversations started, joined, left, deleted, renamed; this user added and removed; searches.
  MixesOut({[start |-> 1, select |-> 1], [browse |-> 1, join |-> 1, unclear |-> 1, gone |-> 1],
            [added |-> 1, gone |-> 1, fail |-> 1], [start |-> 1, drop |-> 1], [start |-> 1, rename |-> 2, unclear |-> 1]}, A, FALSE),
  Mixes({[manage |-> 1, gone |-> 1, drop |-> 1]}, A, TRUE),
  Mixes({[manage |-> 2, gone |-> 1], [search |-> 2, fail |-> 1, gone |-> 1], [search |-> 1, select |-> 1, gone |-> 1]}, A, FALSE),
  \* Sending.
  Mixes({[type |-> 1, send |-> 2, unclear |-> 1], [pick |-> 1, send |-> 2, unclear |-> 1, cancel |-> 1]}, A, TRUE),
  Mixes({[type |-> 1, pick |-> 1, send |-> 2, fail |-> 1], [type |-> 1, send |-> 2, reply |-> 1, unclear |-> 1]}, A, FALSE),
  \* The line, the banner, the question, what is read.
  Mixes({[error |-> 2, typing |-> 1, post |-> 1], [error |-> 2, typing |-> 1, select |-> 1], [flip |-> 4, end |-> 1],
         [offer |-> 1, answer |-> 2, fail |-> 1], [offer |-> 1, answer |-> 2, select |-> 1],
         [offer |-> 1, answer |-> 1, fail |-> 1, select |-> 1],
         [offer |-> 2, withdraw |-> 1, answer |-> 1, fail |-> 1],
         [post |-> 1, focus |-> 2, fail |-> 1, select |-> 1]}, A, FALSE) }

\* A reaction told when its message isn't drawn yet; a message edited while the connection is down; a text tried again without local data, or after
\* another was sent, or typed again while it is on its way; files picked
\* before another conversation is opened; an offer made and withdrawn; a conversation started before Rename
\* is opened; one that ends while the connection is down, or before its row is clicked.
Beyond ==
  Mixes({[react |-> 1, select |-> 1], [edit |-> 1, drop |-> 1], [pick |-> 1, send |-> 2, fail |-> 1, select |-> 1],
         [type |-> 2, send |-> 3, unclear |-> 1]}, A, TRUE)
  \cup Mixes({[type |-> 1, send |-> 2, unclear |-> 1], [offer |-> 1, withdraw |-> 1],
                [gone |-> 1, drop |-> 1], [gone |-> 1, select |-> 1]}, A, FALSE)
  \cup MixesOut({[start |-> 1, rename |-> 2]}, A, FALSE)
=============================================================================
