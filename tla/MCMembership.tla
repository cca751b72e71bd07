---------------------------- MODULE MCMembership ----------------------------
(***************************************************************************)
(* Instances of Membership for TLC.                                        *)
(***************************************************************************)
EXTENDS Membership, TLC

CONSTANTS a, b, c, p, q

\* Requests differ in nothing; nor do the users who aren't admins.
Alike == Permutations(Reqs) \cup Permutations(Users \ Admins)
=============================================================================
