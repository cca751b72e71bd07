------------------------------- MODULE MCCalls -------------------------------
(***************************************************************************)
(* Instances of CallRoster for TLC: device d with two sockets, e with one. *)
(***************************************************************************)
EXTENDS CallRoster, TLC

CONSTANTS d, e, d1, d2, e1

TwoAndOne == (d1 :> d @@ d2 :> d @@ e1 :> e)

TwoOfOne  == (d1 :> d @@ d2 :> d)
DLeaves == {{d}}
NobodyLeaves == {}
=============================================================================
