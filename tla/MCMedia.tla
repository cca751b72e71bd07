------------------------------- MODULE MCMedia -------------------------------
(***************************************************************************)
(* Instances of CallMedia for TLC: what may happen, a few of it at a time. *)
(***************************************************************************)
EXTENDS CallMedia

CONSTANTS x, y

Of(change, feed, refuse, cut, republish, mute) ==
  [w \in Outside |-> CASE w = "change" -> change [] w = "feed" -> feed [] w = "refuse" -> refuse
                      [] w = "cut" -> cut [] w = "republish" -> republish [] w = "mute" -> mute]

Separately == {
  Of(2, 0, 0, 1, 0, 0), Of(1, 1, 0, 1, 0, 0), Of(2, 0, 1, 0, 0, 0),
  Of(0, 0, 0, 2, 1, 0), Of(0, 0, 0, 1, 1, 2) }

FeedAndRefusal == {Of(1, 1, 1, 0, 0, 0)}
=============================================================================
