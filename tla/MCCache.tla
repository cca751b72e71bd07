------------------------------- MODULE MCCache -------------------------------
(***************************************************************************)
(* Instances of Cache for TLC: what may happen, a few of it at a time.     *)
(***************************************************************************)
EXTENDS Cache

CONSTANTS task1, task2, task3   \* callers of sync_now

\* Named things happen as often as given, all others never.
Of(f) == [w \in Events \cup {Old} |-> IF w \in DOMAIN f THEN f[w] ELSE 0]

\* The user leaves and comes back, no event arrives.
Rejoin == {Of([send |-> 1, edit |-> 1, out |-> 1, in |-> 1])}

Some == {
  Of([old |-> 3, edit |-> 1, load |-> 2]),
  Of([old |-> 1, send |-> 2, load |-> 2, event |-> 1]),
  Of([send |-> 1, edit |-> 1, delete |-> 1, load |-> 1, event |-> 1]),
  Of([old |-> 2, send |-> 1, delete |-> 1, load |-> 1, event |-> 1]),
  Of([send |-> 1, out |-> 1, in |-> 1, load |-> 1]),
  Of([send |-> 1, out |-> 1, in |-> 1, event |-> 1]),
  Of([out |-> 1, in |-> 1, load |-> 1, event |-> 2]),
  Of([out |-> 1, in |-> 1, member |-> 1, event |-> 2]),
  Of([member |-> 2, mark |-> 1, lose |-> 1, event |-> 1]),
  Of([send |-> 2, reset |-> 1, load |-> 1, event |-> 1]),
  Of([send |-> 1, edit |-> 1, reset |-> 1, lose |-> 1, load |-> 1]),
  Of([old |-> 1, send |-> 2, hint |-> 3, lose |-> 1]),
  Of([old |-> 1, send |-> 2, hint |-> 2, lose |-> 2]),
  Of([send |-> 1, edit |-> 1, hint |-> 2, lose |-> 1, refuse |-> 1]),
  Of([send |-> 1, hint |-> 2, reset |-> 1, lose |-> 1]) }
=============================================================================
