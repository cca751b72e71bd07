------------------------------- MODULE MCSync -------------------------------
(***************************************************************************)
(* Instances of SyncPaging for TLC, over ChangeCounter and its refinement  *)
(* of ChangeLog.                                                           *)
(***************************************************************************)
EXTENDS SyncPaging

CONSTANTS t, u, channel, message, profile

Log == INSTANCE ChangeLog

\* To whoever reads what is committed, the sessions, their savepoints and their
\* rollbacks are one change after the other, numbered without a gap.
ImplementsLog == Log!Spec
=============================================================================
