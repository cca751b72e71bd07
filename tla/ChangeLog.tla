------------------------------ MODULE ChangeLog ------------------------------
(***************************************************************************)
(* What a client may take the change sequence for: changes happen one at a *)
(* time, each gives some rows the next number.                             *)
(***************************************************************************)
EXTENDS Integers

CONSTANT Rows

VARIABLES
  counter,  \* the number of the last change
  rowSeq    \* the last change of each row

Init == counter = 1 /\ rowSeq = [r \in Rows |-> 0]

Change ==
  /\ counter' = counter + 1
  /\ \E S \in (SUBSET Rows) \ {{}} :
       rowSeq' = [r \in Rows |-> IF r \in S THEN counter' ELSE rowSeq[r]]

Spec == Init /\ [][Change]_<<counter, rowSeq>>
=============================================================================
