------------------------------ MODULE MCSessions ------------------------------
(***************************************************************************)
(* Instances of Sessions for TLC: what may happen, a few of it at a time.  *)
(***************************************************************************)
EXTENDS Sessions

\* Named events happen as often as given, all others never.
Of(f) == [w \in Outside \cup {Before} |-> IF w \in DOMAIN f THEN f[w] ELSE 0]

Some == {
  Of([login |-> 2, client |-> 2, refresh |-> 2, logout |-> 1, quit |-> 1]),
  Of([login |-> 2, refresh |-> 3, quit |-> 1, logout |-> 2]),
  Of([login |-> 2, refresh |-> 2, keychain |-> 1, logout |-> 1, crash |-> 1, quit |-> 1]),
  Of([login |-> 2, logout |-> 1, refresh |-> 2, crash |-> 1, client |-> 1]),
  Of([login |-> 1, refresh |-> 2, lose |-> 1, crash |-> 1, client |-> 1, quit |-> 1]),
  Of([login |-> 2, refresh |-> 3, lose |-> 2, logout |-> 1]),
  Of([login |-> 1, client |-> 1, refresh |-> 2, lose |-> 1, logout |-> 1, quit |-> 1]),
  Of([login |-> 2, refresh |-> 1, password |-> 1, everywhere |-> 1, logout |-> 1, lose |-> 1]),
  Of([login |-> 1, refresh |-> 1, others |-> 1, everywhere |-> 1, socket |-> 2]),
  Of([login |-> 2, enroll |-> 1, activate |-> 1, client |-> 1, refresh |-> 1]),
  Of([login |-> 2, enroll |-> 2, activate |-> 1, logout |-> 1, code |-> 1, step |-> 1]),
  Of([factor |-> 1, login |-> 2, code |-> 3, back |-> 1, step |-> 1]),
  Of([factor |-> 1, login |-> 1, code |-> 2, lose |-> 1, restart |-> 1, step |-> 1]),
  Of([factor |-> 1, login |-> 2, code |-> 2, client |-> 1, password |-> 1, quit |-> 1]),
  Of([factor |-> 1, login |-> 2, code |-> 2, logout |-> 1, manage |-> 2, reset |-> 1, step |-> 1]),
  Of([factor |-> 1, login |-> 1, code |-> 1, client |-> 1, crash |-> 1, keychain |-> 1]) }

\* What the code doesn't keep apart: the user signs out in a client that was replaced
\* while it refreshed, the app quits in a restore, one write of the keychain fails, and a
\* new password is served after the factor was switched on that it was asked without.
Beyond == {
  Of([login |-> 1, client |-> 1, refresh |-> 1, logout |-> 1]),
  Of([login |-> 1, client |-> 1, refresh |-> 1, keychain |-> 1, logout |-> 1]),
  Of([login |-> 1, client |-> 1, quit |-> 1, crash |-> 1]),
  Of([login |-> 1, enroll |-> 1, activate |-> 1, password |-> 1, lose |-> 1]) }
=============================================================================
