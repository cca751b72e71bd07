---------------------------- MODULE DeliveryProofs ----------------------------
(***************************************************************************)
(* Proofs about how a message gets from one device to the server, and a    *)
(* change from the server to every device, under concurrent transactions.  *)
(*                                                                         *)
(* Outbox, for every number of channels, ids, sessions and callers: each   *)
(* part of IInv by a lemma of its own, one step per action.                *)
(*                                                                         *)
(* ChangeCounter, and SyncPaging, which pages what it numbers: for every   *)
(* set of sessions and rows and every page size.  Membership: for every    *)
(* set of users and requests.                                              *)
(*                                                                         *)
(* The argument for ChangeCounter: the chain of savepoints the hook        *)
(* remembers is exactly the set of open savepoints whose rollback undoes   *)
(* the bump (Remembered), so a session has a number if and only if it      *)
(* holds the counter's lock.                                               *)
(*                                                                         *)
(* The argument for SyncPaging: a number at or below the counter a request *)
(* read belongs to a commit that is over, so a row that has one keeps it   *)
(* until a later commit gives the row a number above it (Settled).  A row  *)
(* that changes while the page is read leaves the window, for a later page.*)
(*                                                                         *)
(* The argument for Membership: roles and offers change only in a step of  *)
(* the request that has the channel's lock (LocksHeld), so what was        *)
(* decided under that lock is still so when it is written (DecisionHolds). *)
(***************************************************************************)
EXTENDS Outbox, SyncPaging, Membership, TLAPS

-----------------------------------------------------------------------------
(* ChangeCounter.                                                          *)

Log == INSTANCE ChangeLog

\* A version's number is the transaction's, whichever of its writes the commit
\* takes for a row it wrote more than once.
LEMMA OneNumber ==
  ASSUME CounterTypeOK, Remembered, NEW t \in Txs, NEW r \in Written(t)
  PROVE  /\ info[t] # 0
         /\ (CHOOSE w \in writes[t] : w.row = r).seq = info[t]
<1>1. PICK w \in writes[t] : w.row = r
  BY DEF Written
<1>2. info[t] # 0
  BY <1>1 DEF Remembered, RememberedBy
<1>3. (CHOOSE v \in writes[t] : v.row = r) \in writes[t]
  BY <1>1
<1> QED
  BY <1>2, <1>3 DEF Remembered, RememberedBy

\* What the counter looks like to a session: its own bump, if it has one.
LEMMA WhatItSees ==
  ASSUME CounterTypeOK, Remembered, NEW t \in Txs, NEW n \in Nat, Sees(t, n)
  PROVE  n = IF info[t] = 0 THEN counter ELSE info[t]
<1>1. CASE info[t] = 0
  BY <1>1 DEF Remembered, RememberedBy, Sees
<1>2. CASE info[t] # 0
  <2>1. PICK b \in bumps[t] : bumps[t] = {b} /\ b.val = info[t]
    BY <1>2 DEF Remembered, RememberedBy
  <2> QED
    BY <1>2, <2>1 DEF Sees
<1> QED
  BY <1>1, <1>2

-----------------------------------------------------------------------------
\* The types, step by step.
LEMMA TypesKept == CounterTypeOK /\ Remembered /\ [CounterNext]_counterVars => CounterTypeOK'
<1> SUFFICES ASSUME CounterTypeOK, Remembered, [CounterNext]_counterVars PROVE CounterTypeOK'
  OBVIOUS
<1> USE DEF CounterTypeOK, dbVars, hintVars
<1>1. ASSUME NEW t \in Txs, Begin(t) PROVE CounterTypeOK'
  BY <1>1 DEF Begin
<1>2. ASSUME NEW t \in Txs, Savepoint(t) PROVE CounterTypeOK'
  BY <1>2 DEF Savepoint
<1>3. ASSUME NEW t \in Txs, NEW x \in open[t], ReleaseSavepoint(t, x) PROVE CounterTypeOK'
  BY <1>3 DEF ReleaseSavepoint
<1>4. ASSUME NEW t \in Txs, NEW S \in SUBSET Rows, NEW n \in Nat, Stamp(t, S, n)
      PROVE  /\ writes' \in [Txs -> SUBSET Write]
             /\ hints' \in [Txs -> SUBSET Rows] /\ early' \in [Txs -> SUBSET Rows]
  <2>1. {[row |-> r, seq |-> n, at |-> begun[t] + 1] : r \in S} \subseteq Write
    BY DEF Write
  <2> QED
    BY <1>4, <2>1 DEF Stamp
<1>5. ASSUME NEW t \in Txs, NEW S \in SUBSET Rows, FlushAgain(t, S) PROVE CounterTypeOK'
  <2>1. info[t] \in Nat
    OBVIOUS
  <2> QED
    BY <1>4, <1>5, <2>1 DEF FlushAgain
<1>6. ASSUME NEW t \in Txs, NEW S \in SUBSET Rows, FlushTaking(t, S) PROVE CounterTypeOK'
  <2>1. PICK n \in 1..MaxSeq :
          /\ bumps' = [bumps EXCEPT ![t] = @ \cup {[val |-> n, at |-> begun[t] + 1]}]
          /\ info' = [info EXCEPT ![t] = n]
          /\ takenIn' = [takenIn EXCEPT ![t] = open[t]]
          /\ Stamp(t, S, n)
    BY <1>6 DEF FlushTaking
  <2>2. n \in Nat /\ [val |-> n, at |-> begun[t] + 1] \in Bump
    BY CounterBounds DEF Bump
  <2>3. UNCHANGED <<dbVars, open, begun>>
    BY <1>6 DEF FlushTaking
  <2> QED
    BY <1>4, <2>1, <2>2, <2>3
<1>7. ASSUME NEW t \in Txs, NEW x \in open[t], RollbackTo(t, x) PROVE CounterTypeOK'
  BY <1>7 DEF RollbackTo, Undo
<1>8. ASSUME NEW t \in Txs, Ended(t)
      PROVE  /\ bumps' \in [Txs -> SUBSET Bump] /\ writes' \in [Txs -> SUBSET Write]
             /\ open' \in [Txs -> SUBSET Nat] /\ begun' \in [Txs -> Nat]
             /\ info' \in [Txs -> Nat] /\ takenIn' \in [Txs -> SUBSET Nat]
             /\ hints' \in [Txs -> SUBSET Rows] /\ early' \in [Txs -> SUBSET Rows]
  BY <1>8 DEF Ended
<1>9. ASSUME NEW t \in Txs, Commit(t) PROVE CounterTypeOK'
  <2>1. PICK n \in 1..MaxSeq : counter' = n
    BY <1>9 DEF Commit
  <2>2. counter' \in Nat
    BY <2>1, CounterBounds
  <2>3. \A r \in Rows : rowSeq'[r] = IF r \in Written(t) THEN info[t] ELSE rowSeq[r]
    BY <1>9, OneNumber DEF Commit
  <2>4. rowSeq' \in [Rows -> Nat]
    <3>1. \A r \in Rows : rowSeq'[r] \in Nat
      BY <2>3
    <3> QED
      BY <1>9, <3>1 DEF Commit
  <2>5. Written(t) \subseteq Rows
    BY DEF Written, Write
  <2>6. published' \subseteq Version
    <3>1. ASSUME NEW r \in Written(t) PROVE [row |-> r, seq |-> rowSeq'[r]] \in Version
      BY <2>4, <2>5, <3>1 DEF Version
    <3>2. published' = published \cup {[row |-> r, seq |-> rowSeq'[r]] : r \in Written(t)}
      BY <1>9 DEF Commit
    <3> QED
      BY <3>1, <3>2
  <2> QED
    BY <1>8, <1>9, <2>2, <2>4, <2>6 DEF Commit
<1>10. ASSUME NEW t \in Txs, Abort(t) PROVE CounterTypeOK'
  BY <1>8, <1>10 DEF Abort
<1>11. CASE UNCHANGED counterVars
  BY <1>11 DEF counterVars
<1> QED
  BY <1>1, <1>2, <1>3, <1>5, <1>6, <1>7, <1>9, <1>10, <1>11 DEF CounterNext, Work

-----------------------------------------------------------------------------
\* A step of one session leaves what the others remember.
LEMMA OthersRemember ==
  ASSUME Remembered, NEW t \in Txs, NEW u \in Txs, u # t,
         open'[u] = open[u], begun'[u] = begun[u], info'[u] = info[u],
         takenIn'[u] = takenIn[u], bumps'[u] = bumps[u], writes'[u] = writes[u]
  PROVE  RememberedBy(u)'
BY DEF Remembered, RememberedBy

\* The hook forgets the number exactly when the database undoes the bump.
LEMMA RememberedKept == CounterTypeOK /\ Remembered /\ [CounterNext]_counterVars => Remembered'
<1> SUFFICES ASSUME CounterTypeOK, Remembered, [CounterNext]_counterVars PROVE Remembered'
  OBVIOUS
<1> USE DEF CounterTypeOK, dbVars
<1>1. ASSUME NEW t \in Txs, Begin(t) PROVE RememberedBy(t)'
  BY <1>1 DEF Begin, Remembered, RememberedBy
<1>2. ASSUME NEW t \in Txs, Savepoint(t) PROVE RememberedBy(t)'
  <2>1. RememberedBy(t)
    BY DEF Remembered
  <2>2. open'[t] = open[t] \cup {begun[t] + 1} /\ begun'[t] = begun[t] + 1
    BY <1>2 DEF Savepoint
  <2>3. /\ info'[t] = info[t] /\ takenIn'[t] = takenIn[t]
        /\ bumps'[t] = bumps[t] /\ writes'[t] = writes[t]
    BY <1>2 DEF Savepoint
  <2>4. \A b \in bumps[t] : b.at \in Nat
    BY DEF Bump
  <2>7. 0 \in open'[t] /\ \A x \in open'[t] : x <= begun'[t]
    BY <1>2, <2>1, <2>2 DEF Savepoint, RememberedBy
  <2>5. ASSUME info[t] # 0 PROVE RememberedBy(t)'
    <3>1. PICK b \in bumps[t] :
            /\ bumps[t] = {b} /\ b.val = info[t] /\ b.at <= begun[t] + 1
            /\ \A x \in takenIn[t] : x < b.at
            /\ \A x \in open[t] : x < b.at => x \in takenIn[t]
            /\ \A w \in writes[t] : w.seq = info[t] /\ w.at >= b.at
            /\ \E w \in writes[t] : w.at = b.at
      BY <2>1, <2>5 DEF RememberedBy
    <3>2. \A x \in open'[t] : x <= begun'[t] /\ (x < b.at => x \in takenIn[t])
      BY <2>1, <2>2, <2>4, <3>1 DEF RememberedBy
    <3>3. b.at <= begun'[t] + 1
      BY <2>2, <2>4, <3>1
    <3> QED
      BY <2>2, <2>3, <2>5, <2>7, <3>1, <3>2, <3>3 DEF RememberedBy
  <2>6. ASSUME info[t] = 0 PROVE RememberedBy(t)'
    BY <2>1, <2>2, <2>3, <2>6, <2>7 DEF RememberedBy
  <2> QED
    BY <2>5, <2>6
<1>3. ASSUME NEW t \in Txs, NEW x \in open[t], ReleaseSavepoint(t, x) PROVE RememberedBy(t)'
  <2>1. RememberedBy(t)
    BY DEF Remembered
  <2>2. open'[t] = open[t] \ {x} /\ x # 0
    BY <1>3 DEF ReleaseSavepoint
  <2> QED
    BY <1>3, <2>1, <2>2 DEF ReleaseSavepoint, RememberedBy
<1>4. ASSUME NEW t \in Txs, NEW S \in SUBSET Rows, FlushAgain(t, S) PROVE RememberedBy(t)'
  <2>1. PICK b \in bumps[t] :
          /\ bumps[t] = {b} /\ b.val = info[t] /\ b.at <= begun[t] + 1
          /\ \A x \in takenIn[t] : x < b.at
          /\ \A x \in open[t] : x < b.at => x \in takenIn[t]
          /\ \A w \in writes[t] : w.seq = info[t] /\ w.at >= b.at
          /\ \E w \in writes[t] : w.at = b.at
    BY <1>4 DEF FlushAgain, Remembered, RememberedBy
  <2>2. writes'[t] = writes[t] \cup {[row |-> r, seq |-> info[t], at |-> begun[t] + 1] : r \in S}
    BY <1>4 DEF FlushAgain, Stamp
  <2>3. /\ open'[t] = open[t] /\ begun'[t] = begun[t] /\ info'[t] = info[t]
        /\ takenIn'[t] = takenIn[t] /\ bumps'[t] = bumps[t]
    BY <1>4 DEF FlushAgain
  <2>4. \A w \in writes'[t] : w.seq = info[t] /\ w.at >= b.at
    BY <2>1, <2>2 DEF Bump
  <2>5. \E w \in writes'[t] : w.at = b.at
    BY <2>1, <2>2
  <2>6. RememberedBy(t)
    BY DEF Remembered
  <2> QED
    BY <1>4, <2>1, <2>3, <2>4, <2>5, <2>6 DEF RememberedBy, FlushAgain
<1>5. ASSUME NEW t \in Txs, NEW S \in (SUBSET Rows) \ {{}}, FlushTaking(t, S)
      PROVE  RememberedBy(t)'
  <2>1. PICK n \in 1..MaxSeq :
          /\ bumps' = [bumps EXCEPT ![t] = @ \cup {[val |-> n, at |-> begun[t] + 1]}]
          /\ info' = [info EXCEPT ![t] = n]
          /\ takenIn' = [takenIn EXCEPT ![t] = open[t]]
          /\ Stamp(t, S, n)
    BY <1>5 DEF FlushTaking
  <2> DEFINE new == [val |-> n, at |-> begun[t] + 1]
  <2>2. RememberedBy(t) /\ open[t] # {} /\ info[t] = 0
    BY <1>5 DEF Remembered, FlushTaking
  <2>3. bumps'[t] = {new} /\ info'[t] = n /\ takenIn'[t] = open[t]
    BY <2>1, <2>2 DEF RememberedBy
  <2>4. writes'[t] = {[row |-> r, seq |-> n, at |-> begun[t] + 1] : r \in S}
    BY <2>1, <2>2 DEF RememberedBy, Stamp
  <2>5. open'[t] = open[t] /\ begun'[t] = begun[t]
    BY <1>5 DEF FlushTaking
  <2>6. n # 0
    BY CounterBounds
  <2>7. \A x \in open[t] : x <= begun[t] /\ x < new.at
    BY <2>2 DEF RememberedBy
  <2>10. 0 \in open'[t]
    BY <2>2, <2>5 DEF RememberedBy
  <2>9. new.val = n /\ new.at = begun[t] + 1
    OBVIOUS
  <2>8. /\ \A w \in writes'[t] : w.seq = n /\ w.at >= new.at
        /\ \E w \in writes'[t] : w.at = new.at
    <3>1. PICK r \in S : TRUE
      OBVIOUS
    <3>2. [row |-> r, seq |-> n, at |-> begun[t] + 1] \in writes'[t]
      BY <2>4
    <3> QED
      BY <2>4, <2>9, <3>2
  <2>11. /\ new \in bumps'[t] /\ bumps'[t] = {new} /\ new.val = info'[t] /\ new.at <= begun'[t] + 1
         /\ \A x \in takenIn'[t] : x < new.at
         /\ \A x \in open'[t] : x < new.at => x \in takenIn'[t]
         /\ \A w \in writes'[t] : w.seq = info'[t] /\ w.at >= new.at
         /\ \E w \in writes'[t] : w.at = new.at
    BY <2>3, <2>5, <2>7, <2>8, <2>9
  <2>12. info'[t] # 0 /\ \A x \in open'[t] : x <= begun'[t]
    BY <2>3, <2>5, <2>6, <2>7
  <2> HIDE DEF new
  <2> QED
    BY <2>10, <2>11, <2>12 DEF RememberedBy
<1>6. ASSUME NEW t \in Txs, NEW x \in open[t], RollbackTo(t, x) PROVE RememberedBy(t)'
  <2>1. RememberedBy(t) /\ x # 0 /\ x \in Nat
    BY <1>6 DEF Remembered, RollbackTo
  <2>2. /\ open'[t] = {y \in open[t] : y < x} /\ begun'[t] = begun[t]
        /\ bumps'[t] = {c \in bumps[t] : c.at <= x}
        /\ writes'[t] = {w \in writes[t] : w.at <= x}
        /\ info'[t] = IF x \in takenIn[t] THEN 0 ELSE info[t]
        /\ takenIn'[t] = IF x \in takenIn[t] THEN {} ELSE takenIn[t]
    BY <1>6 DEF RollbackTo, Undo, Forget
  <2>3. 0 \in open'[t] /\ \A y \in open'[t] : y <= begun'[t]
    BY <2>1, <2>2 DEF RememberedBy
  <2>4. CASE info[t] = 0
    BY <2>1, <2>2, <2>3, <2>4 DEF RememberedBy
  <2>5. CASE info[t] # 0
    <3>1. PICK b \in bumps[t] :
            /\ bumps[t] = {b} /\ b.val = info[t] /\ b.at <= begun[t] + 1
            /\ \A y \in takenIn[t] : y < b.at
            /\ \A y \in open[t] : y < b.at => y \in takenIn[t]
            /\ \A w \in writes[t] : w.seq = info[t] /\ w.at >= b.at
            /\ \E w \in writes[t] : w.at = b.at
      BY <2>1, <2>5 DEF RememberedBy
    <3>2. b.at \in Nat /\ \A w \in writes[t] : w.at \in Nat
      BY DEF Bump, Write
    <3>3. CASE x \in takenIn[t]
      <4>1. bumps'[t] = {} /\ writes'[t] = {}
        BY <2>1, <2>2, <3>1, <3>2, <3>3
      <4> QED
        BY <2>2, <2>3, <3>3, <4>1 DEF RememberedBy
    <3>4. CASE x \notin takenIn[t]
      <4>1. b.at <= x
        BY <2>1, <3>1, <3>2, <3>4
      <4>2. bumps'[t] = {b} /\ info'[t] = info[t] /\ takenIn'[t] = takenIn[t]
        BY <2>2, <3>1, <3>4, <4>1
      <4>3. /\ \A w \in writes'[t] : w.seq = info[t] /\ w.at >= b.at
            /\ \E w \in writes'[t] : w.at = b.at
        BY <2>2, <3>1, <4>1
      <4> QED
        BY <2>2, <2>3, <2>5, <3>1, <4>2, <4>3 DEF RememberedBy
    <3> QED
      BY <3>3, <3>4
  <2> QED
    BY <2>4, <2>5
<1>7. ASSUME NEW t \in Txs, Ended(t) PROVE RememberedBy(t)'
  BY <1>7 DEF Ended, RememberedBy
<1>8. ASSUME NEW t \in Txs, NEW u \in Txs, u # t, Work(t) PROVE RememberedBy(u)'
  <2>1. /\ open'[u] = open[u] /\ begun'[u] = begun[u] /\ info'[u] = info[u]
        /\ takenIn'[u] = takenIn[u] /\ bumps'[u] = bumps[u] /\ writes'[u] = writes[u]
    BY <1>8 DEF Work, Begin, Savepoint, ReleaseSavepoint, FlushAgain, FlushTaking, Stamp,
                RollbackTo, Undo, Commit, Abort, Ended
  <2> QED
    BY <1>8, <2>1, OthersRemember
<1>9. ASSUME NEW t \in Txs, Work(t) PROVE RememberedBy(t)'
  <2>1. (Commit(t) \/ Abort(t)) => RememberedBy(t)'
    BY <1>7 DEF Commit, Abort
  <2> QED
    BY <1>1, <1>2, <1>3, <1>4, <1>5, <1>6, <1>9, <2>1 DEF Work
<1>10. CASE UNCHANGED counterVars
  BY <1>10 DEF counterVars, Remembered, RememberedBy
<1> QED
  BY <1>8, <1>9, <1>10 DEF CounterNext, Remembered

-----------------------------------------------------------------------------
\* The lock on the counter row: a session that takes a number takes the next
\* one, and no other session has one.
LEMMA OneTakerKept == CounterTypeOK /\ Remembered /\ OneTaker /\ [CounterNext]_counterVars => OneTaker'
<1> SUFFICES ASSUME CounterTypeOK, Remembered, OneTaker, [CounterNext]_counterVars PROVE OneTaker'
  OBVIOUS
<1> USE DEF CounterTypeOK, dbVars
<1>1. ASSUME NEW t \in Txs, NEW S, FlushTaking(t, S) PROVE OneTaker'
  <2>1. PICK n \in 1..MaxSeq : Sees(t, n - 1) /\ info' = [info EXCEPT ![t] = n]
    BY <1>1 DEF FlushTaking
  <2>2. n - 1 \in Nat /\ n = (n - 1) + 1
    BY CounterBounds
  <2>3. n = counter + 1 /\ counter' = counter
    BY <1>1, <2>1, <2>2, WhatItSees DEF FlushTaking
  <2>4. \A u \in Txs : u # t => info[u] = 0
    BY <1>1 DEF FlushTaking, Available, Remembered, RememberedBy
  <2> QED
    BY <2>1, <2>3, <2>4 DEF OneTaker
<1>2. ASSUME NEW t \in Txs, NEW x \in open[t], RollbackTo(t, x) PROVE OneTaker'
  BY <1>2 DEF RollbackTo, OneTaker
<1>3. ASSUME NEW t \in Txs, Commit(t) PROVE OneTaker'
  <2>1. PICK n \in 1..MaxSeq : Sees(t, n) /\ counter' = n
    BY <1>3 DEF Commit
  <2>2. n = IF info[t] = 0 THEN counter ELSE info[t]
    BY <2>1, WhatItSees, CounterBounds
  <2>3. info' = [info EXCEPT ![t] = 0]
    BY <1>3 DEF Commit, Ended
  <2> QED
    BY <2>1, <2>2, <2>3 DEF OneTaker
<1>4. ASSUME NEW t \in Txs, Abort(t) PROVE OneTaker'
  BY <1>4 DEF Abort, Ended, OneTaker
<1>5. ASSUME UNCHANGED <<info, counter>> PROVE OneTaker'
  BY <1>5 DEF OneTaker
<1>6. ASSUME NEW t \in Txs, NEW x, NEW S,
             Begin(t) \/ Savepoint(t) \/ ReleaseSavepoint(t, x) \/ FlushAgain(t, S)
      PROVE  UNCHANGED <<info, counter>>
  BY <1>6 DEF Begin, Savepoint, ReleaseSavepoint, FlushAgain
<1> QED
  BY <1>1, <1>2, <1>3, <1>4, <1>5, <1>6 DEF CounterNext, Work, counterVars

\* What a commit does, from the invariant: nothing, or one new number.
LEMMA WhatCommits ==
  ASSUME CounterTypeOK, Remembered, OneTaker, NEW t \in Txs, Commit(t)
  PROVE  \/ /\ info[t] = 0 /\ Written(t) = {}
            /\ UNCHANGED dbVars
         \/ /\ info[t] # 0 /\ Written(t) # {} /\ counter' = counter + 1
            /\ rowSeq' = [r \in Rows |-> IF r \in Written(t) THEN counter' ELSE rowSeq[r]]
            /\ published' = published \cup {[row |-> r, seq |-> counter'] : r \in Written(t)}
<1>1. PICK n \in 1..MaxSeq : Sees(t, n) /\ counter' = n
  BY DEF Commit
<1>2. n = IF info[t] = 0 THEN counter ELSE info[t]
  BY <1>1, WhatItSees, CounterBounds
<1>3. \A r \in Written(t) : (CHOOSE w \in writes[t] : w.row = r).seq = info[t]
  BY OneNumber
<1>4. Written(t) \subseteq Rows
  BY DEF CounterTypeOK, Written, Write
<1>5. CASE info[t] = 0
  <2>1. Written(t) = {}
    BY <1>5 DEF Remembered, RememberedBy, Written
  <2>2. rowSeq' = rowSeq
    BY <2>1 DEF Commit, CounterTypeOK
  <2>3. published' = published
    BY <2>1 DEF Commit
  <2> QED
    BY <1>1, <1>2, <1>5, <2>1, <2>2, <2>3 DEF dbVars
<1>6. CASE info[t] # 0
  <2>1. counter' = counter + 1 /\ counter' = info[t]
    BY <1>1, <1>2, <1>6 DEF OneTaker
  <2>2. Written(t) # {}
    BY <1>6 DEF Remembered, RememberedBy, Written
  <2>3. rowSeq' = [r \in Rows |-> IF r \in Written(t) THEN counter' ELSE rowSeq[r]]
    BY <1>3, <2>1 DEF Commit
  <2>4. \A r \in Written(t) : rowSeq'[r] = counter'
    BY <1>4, <2>3
  <2>5. published' = published \cup {[row |-> r, seq |-> counter'] : r \in Written(t)}
    BY <2>4 DEF Commit
  <2> QED
    BY <1>6, <2>1, <2>2, <2>3, <2>5
<1> QED
  BY <1>5, <1>6

\* Only a commit changes what is committed.
LEMMA OnlyCommits ==
  ASSUME [CounterNext]_counterVars
  PROVE  UNCHANGED dbVars \/ \E t \in Txs : Commit(t)
BY DEF CounterNext, Work, Begin, Savepoint, ReleaseSavepoint, FlushAgain, FlushTaking,
       RollbackTo, Abort, counterVars

LEMMA CommittedKept ==
  CounterTypeOK /\ Remembered /\ OneTaker /\ Committed /\ [CounterNext]_counterVars => Committed'
<1> SUFFICES ASSUME CounterTypeOK, Remembered, OneTaker, Committed, [CounterNext]_counterVars PROVE Committed'
  OBVIOUS
<1>1. CASE UNCHANGED dbVars
  BY <1>1 DEF dbVars, Committed
<1>2. ASSUME NEW t \in Txs, Commit(t), ~UNCHANGED dbVars PROVE Committed'
  <2>1. /\ counter' = counter + 1
        /\ rowSeq' = [r \in Rows |-> IF r \in Written(t) THEN counter' ELSE rowSeq[r]]
        /\ published' = published \cup {[row |-> r, seq |-> counter'] : r \in Written(t)}
    BY <1>2, WhatCommits
  <2>2. Written(t) \subseteq Rows /\ counter \in Nat /\ rowSeq \in [Rows -> Nat]
    BY DEF CounterTypeOK, Written, Write
  <2>3. \A v \in published : v.row \in Rows /\ v.seq \in Nat
    BY DEF CounterTypeOK, Version
  <2>4. \A r \in Rows : rowSeq'[r] <= counter' /\ rowSeq'[r] >= rowSeq[r] /\ rowSeq'[r] \in Nat
    BY <2>1, <2>2 DEF Committed
  <2>5. \A v \in published : v.seq <= counter' /\ v.seq <= rowSeq'[v.row]
    BY <2>1, <2>2, <2>3, <2>4 DEF Committed
  <2>6. ASSUME NEW r \in Written(t), NEW v, v = [row |-> r, seq |-> counter']
        PROVE  v.seq <= counter' /\ v.seq <= rowSeq'[v.row]
    BY <2>1, <2>2, <2>6
  <2>7. \A v \in published' : v.seq <= counter' /\ v.seq <= rowSeq'[v.row]
    BY <2>1, <2>5, <2>6
  <2>8. ASSUME NEW r \in Rows, rowSeq'[r] # 0
        PROVE  [row |-> r, seq |-> rowSeq'[r]] \in published'
    <3>1. CASE r \in Written(t)
      BY <2>1, <3>1
    <3>2. CASE r \notin Written(t)
      BY <2>1, <2>8, <3>2 DEF Committed
    <3> QED
      BY <3>1, <3>2
  <2> QED
    BY <2>1, <2>2, <2>4, <2>7, <2>8 DEF Committed
<1> QED
  BY <1>1, <1>2, OnlyCommits

LEMMA HintsKept == CounterTypeOK /\ Remembered /\ HintsCoverWrites /\ [CounterNext]_counterVars => HintsCoverWrites'
<1> SUFFICES ASSUME CounterTypeOK, Remembered, HintsCoverWrites, [CounterNext]_counterVars PROVE HintsCoverWrites'
  OBVIOUS
<1> USE DEF CounterTypeOK, HintsCoverWrites, Written
<1>1. ASSUME NEW t \in Txs, NEW S, NEW n, Stamp(t, S, n) PROVE HintsCoverWrites'
  <2>1. ASSUME NEW w \in writes'[t] PROVE w.row \in hints[t] \cup early[t] \cup S
    BY <1>1, <2>1 DEF Stamp
  <2>2. hints'[t] = hints[t] \cup S /\ early'[t] = early[t] \ S
    BY <1>1 DEF Stamp
  <2>3. \A u \in Txs \ {t} : /\ writes'[u] = writes[u]
                            /\ hints'[u] = hints[u] /\ early'[u] = early[u]
    BY <1>1 DEF Stamp
  <2> QED
    BY <2>1, <2>2, <2>3
<1>2. ASSUME NEW t \in Txs, NEW S, FlushAgain(t, S) \/ FlushTaking(t, S) PROVE HintsCoverWrites'
  BY <1>1, <1>2 DEF FlushAgain, FlushTaking
<1>3. ASSUME NEW t \in Txs, NEW x \in open[t], RollbackTo(t, x) PROVE HintsCoverWrites'
  <2>1. RememberedBy(t)'
    BY RememberedKept DEF Remembered
  <2>2. CASE x \in takenIn[t]
    <3>1. writes'[t] = {}
      BY <1>3, <2>1, <2>2 DEF RollbackTo, Forget, RememberedBy
    <3> QED
      BY <1>3, <3>1 DEF RollbackTo, Undo
  <2>3. CASE x \notin takenIn[t]
    BY <1>3, <2>3 DEF RollbackTo, Undo, Forget
  <2> QED
    BY <2>2, <2>3
<1>4. ASSUME NEW t \in Txs, Ended(t) PROVE HintsCoverWrites'
  BY <1>4 DEF Ended
<1>5. ASSUME UNCHANGED <<writes, hintVars>> PROVE HintsCoverWrites'
  BY <1>5 DEF hintVars
<1>6. ASSUME NEW t \in Txs, Begin(t) \/ Savepoint(t)
      PROVE  UNCHANGED <<writes, hintVars>>
  BY <1>6 DEF Begin, Savepoint
<1>7. ASSUME NEW t \in Txs, NEW x, ReleaseSavepoint(t, x) PROVE HintsCoverWrites'
  BY <1>7 DEF ReleaseSavepoint
<1> QED
  BY <1>2, <1>3, <1>4, <1>5, <1>6, <1>7 DEF CounterNext, Work, Commit, Abort, counterVars

-----------------------------------------------------------------------------
LEMMA InvHolds == CounterInit => CounterIInv
<1> SUFFICES ASSUME CounterInit PROVE CounterIInv
  OBVIOUS
<1> QED
  BY DEF CounterInit, CounterIInv, CounterTypeOK, Remembered, RememberedBy, OneTaker, Committed,
         HintsCoverWrites, Written, Bump, Write, Version

LEMMA InvKept == CounterIInv /\ [CounterNext]_counterVars => CounterIInv'
BY TypesKept, RememberedKept, OneTakerKept, CommittedKept, HintsKept DEF CounterIInv

\* The inductive invariant holds (sync.py: a session remembers a number exactly
\* while it holds the counter's lock).
THEOREM CounterInvariant == CounterSpec => []CounterIInv
BY InvHolds, InvKept, PTL DEF CounterSpec

\* No savepoint's rollback leaves a number that is no longer locked to be
\* stamped (_forget_on_rollback).
THEOREM StampsUnderLock == CounterSpec => []StampedUnderLock
<1>1. CounterIInv => StampedUnderLock
  <2> SUFFICES ASSUME CounterIInv, NEW t \in Txs, NEW w \in writes[t]
               PROVE  \E b \in bumps[t] : b.val = w.seq /\ bumps[t] = {b}
    BY DEF StampedUnderLock
  <2>1. info[t] # 0
    BY DEF CounterIInv, Remembered, RememberedBy
  <2> QED
    BY <2>1 DEF CounterIInv, Remembered, RememberedBy
<1> QED
  BY <1>1, CounterInvariant, PTL

\* Every change that survives is in the hint sent after the commit, or was in one
\* sent at the release of a savepoint (_hint_after_commit, which is run at both).
THEOREM HintsCover == CounterSpec => []HintsCoverWrites
<1>1. CounterIInv => HintsCoverWrites
  BY DEF CounterIInv
<1> QED
  BY <1>1, CounterInvariant, PTL

\* The numbers of sync.py are given in commit order.
THEOREM SeqFollowsCommits == CounterSpec => SeqIsCommitOrder
<1>1. ASSUME CounterIInv, [CounterNext]_counterVars, NEW r \in Rows, rowSeq'[r] # rowSeq[r]
      PROVE  rowSeq'[r] = counter' /\ \A v \in published : v.seq < rowSeq'[r]
  <2>1. PICK t \in Txs : Commit(t)
    BY <1>1, OnlyCommits DEF dbVars
  <2>2. /\ counter' = counter + 1
        /\ rowSeq' = [q \in Rows |-> IF q \in Written(t) THEN counter' ELSE rowSeq[q]]
    BY <1>1, <2>1, WhatCommits DEF CounterIInv, dbVars
  <2>3. rowSeq'[r] = counter'
    BY <1>1, <2>2 DEF CounterIInv, CounterTypeOK
  <2>4. \A v \in published : v.seq \in Nat /\ v.seq <= counter
    BY <1>1 DEF CounterIInv, CounterTypeOK, Committed, Version
  <2> QED
    BY <1>1, <2>2, <2>3, <2>4 DEF CounterIInv, CounterTypeOK
<1>2. CounterIInv /\ [CounterNext]_counterVars =>
        [\A r \in Rows : rowSeq'[r] # rowSeq[r] =>
           /\ rowSeq'[r] = counter'
           /\ \A v \in published : v.seq < rowSeq'[r]]_counterVars
  BY <1>1
<1> QED
  BY <1>2, CounterInvariant, PTL DEF CounterSpec, SeqIsCommitOrder

\* Read as what is committed, the sessions implement a log of changes numbered
\* one by one: what /sync and the clients rely on.
THEOREM CounterIsLog == CounterSpec => Log!Spec
<1>1. CounterInit => Log!Init
  BY DEF CounterInit, Log!Init
<1>2. CounterIInv /\ [CounterNext]_counterVars => [Log!Change]_<<counter, rowSeq>>
  <2> SUFFICES ASSUME CounterIInv, [CounterNext]_counterVars, ~UNCHANGED dbVars PROVE Log!Change
    BY DEF dbVars
  <2>1. PICK t \in Txs : Commit(t)
    BY OnlyCommits
  <2>2. /\ Written(t) # {} /\ counter' = counter + 1
        /\ rowSeq' = [r \in Rows |-> IF r \in Written(t) THEN counter' ELSE rowSeq[r]]
    BY <2>1, WhatCommits DEF CounterIInv
  <2>3. Written(t) \in (SUBSET Rows) \ {{}}
    <3>1. Written(t) \subseteq Rows
      BY DEF CounterIInv, CounterTypeOK, Written, Write
    <3> QED
      BY <2>2, <3>1
  <2> QED
    BY <2>2, <2>3 DEF Log!Change
<1> QED
  BY <1>1, <1>2, CounterInvariant, PTL DEF CounterSpec, Log!Spec

-----------------------------------------------------------------------------
(* SyncPaging.                                                             *)

LEMMA ServerSteps == [SyncNext]_allVars => [CounterNext]_counterVars
BY DEF SyncNext, Sync, Authenticate, StartFirst, StartPage, Bound, Read, Apply, Lose, Live,
       allVars, counterVars

\* Whatever the server does, a row changes only to a number above the counter.
LEMMA Settled ==
  ASSUME CounterIInv, [CounterNext]_counterVars
  PROVE  /\ counter' >= counter /\ published \subseteq published'
         /\ \A r \in Rows : rowSeq'[r] = rowSeq[r] \/ rowSeq'[r] > counter
         /\ \A r \in Rows : rowSeq'[r] >= rowSeq[r]
<1>1. CASE UNCHANGED dbVars
  BY <1>1 DEF dbVars, CounterIInv, CounterTypeOK
<1>2. ASSUME NEW t \in Txs, Commit(t), ~UNCHANGED dbVars
      PROVE  /\ counter' >= counter /\ published \subseteq published'
             /\ \A r \in Rows : rowSeq'[r] = rowSeq[r] \/ rowSeq'[r] > counter
             /\ \A r \in Rows : rowSeq'[r] >= rowSeq[r]
  <2>1. /\ counter' = counter + 1
        /\ rowSeq' = [r \in Rows |-> IF r \in Written(t) THEN counter' ELSE rowSeq[r]]
        /\ published \subseteq published'
    BY <1>2, WhatCommits DEF CounterIInv
  <2> QED
    BY <2>1 DEF CounterIInv, CounterTypeOK, Committed
<1> QED
  BY <1>1, <1>2, OnlyCommits

\* guarded_upsert returns the version it has or a newer one of those given.
LEMMA NewestIsNewer ==
  ASSUME NEW V \in SUBSET Version, NEW r \in Rows, SyncTypeOK
  PROVE  /\ Newest(r, V) \in Nat /\ Newest(r, V) >= seen[r]
         /\ Newest(r, V) # seen[r] => [row |-> r, seq |-> Newest(r, V)] \in V
<1> DEFINE newer == {v \in V : v.row = r /\ v.seq > seen[r]}
<1>1. CASE newer = {}
  BY <1>1 DEF Newest, SyncTypeOK
<1>2. CASE newer # {}
  <2>1. PICK v \in newer : Newest(r, V) = v.seq
    BY <1>2 DEF Newest
  <2>2. v = [row |-> r, seq |-> v.seq] /\ v.seq \in Nat
    BY <2>1 DEF Version
  <2> QED
    BY <2>1, <2>2 DEF SyncTypeOK
<1> QED
  BY <1>1, <1>2

\* With one version of each row, it is that one unless an equal or newer one is
\* there.
LEMMA NewestOfOne ==
  ASSUME NEW V \in SUBSET Version, NEW r \in Rows, SyncTypeOK,
         \A v, w \in V : v.row = w.row => v = w,
         NEW n \in Nat, [row |-> r, seq |-> n] \in V
  PROVE  Newest(r, V) >= n
<1> DEFINE newer == {v \in V : v.row = r /\ v.seq > seen[r]}
<1>1. CASE newer = {}
  BY <1>1 DEF Newest, SyncTypeOK
<1>2. CASE newer # {}
  <2>1. PICK v \in newer : Newest(r, V) = v.seq
    BY <1>2 DEF Newest
  <2>2. v = [row |-> r, seq |-> n]
    BY <2>1
  <2> QED
    BY <2>1, <2>2
<1> QED
  BY <1>1, <1>2

LEMMA SyncInitInv == SyncInit => SyncInv
BY InvHolds DEF SyncInit, CounterInit, SyncInv, SyncTypeOK, Behind, InHand, NothingMissed,
                NothingMissedOf, CounterIInv,
                CounterTypeOK, Version, Owed

-----------------------------------------------------------------------------
\* A commit in the middle of a request.
LEMMA ServerKeeps == CounterIInv /\ SyncInv /\ [CounterNext]_counterVars /\ UNCHANGED syncVars => SyncInv'
<1> SUFFICES ASSUME CounterIInv, SyncInv, [CounterNext]_counterVars, UNCHANGED syncVars PROVE SyncInv'
  OBVIOUS
<1>1. /\ cursor' = cursor /\ seen' = seen /\ base' = base /\ stage' = stage /\ current' = current
      /\ loaded' = loaded
      /\ upper' = upper /\ todo' = todo /\ got' = got /\ lost' = lost
  BY DEF syncVars, cacheVars, pageVars
<1>2. /\ counter' >= counter /\ published \subseteq published'
      /\ \A r \in Rows : rowSeq'[r] = rowSeq[r] \/ rowSeq'[r] > counter
      /\ \A r \in Rows : rowSeq'[r] >= rowSeq[r]
  BY Settled
<1>3. /\ counter \in Nat /\ counter' \in Nat /\ rowSeq \in [Rows -> Nat] /\ rowSeq' \in [Rows -> Nat]
  BY TypesKept DEF CounterIInv, CounterTypeOK
<1>4. SyncTypeOK'
  BY <1>1 DEF SyncInv, SyncTypeOK
<1>5. Behind'
  BY <1>1, <1>2, <1>3 DEF SyncInv, SyncTypeOK, Behind
<1>6. \A r \in Rows : rowSeq'[r] <= upper \/ rowSeq'[r] <= cursor => rowSeq'[r] = rowSeq[r]
  BY <1>2, <1>3 DEF SyncInv, SyncTypeOK, Behind
<1>7. InHand'
  BY <1>1, <1>2, <1>3, <1>6 DEF SyncInv, InHand
<1>8. NothingMissed'
  BY <1>1, <1>6 DEF SyncInv, NothingMissed, NothingMissedOf, Owed
<1> QED
  BY <1>4, <1>5, <1>7, <1>8 DEF SyncInv

\* A step of the client's, and of the request it waits for.
LEMMA ClientKeeps ==
  ASSUME CounterIInv, SyncInv, UNCHANGED counterVars, Sync \/ Lose \/ \E v \in published : Live(v)
  PROVE  SyncInv'
<1> USE DEF SyncInv, cacheVars, pageVars
<1>1. /\ counter' = counter /\ rowSeq' = rowSeq /\ published' = published
      /\ counter \in Nat /\ rowSeq \in [Rows -> Nat] /\ published \subseteq Version
  BY DEF counterVars, dbVars, CounterIInv, CounterTypeOK
<1>2. CASE StartFirst
  BY <1>1, <1>2, StateRowsAssumption
     DEF StartFirst, SyncTypeOK, Behind, InHand, NothingMissed, NothingMissedOf, Owed
<1>3. CASE StartPage
  BY <1>1, <1>3 DEF StartPage, SyncTypeOK, Behind, InHand, NothingMissed, NothingMissedOf, Owed
<1>4. CASE Bound
  <2>1. PICK n \in 0..MaxSeq : EndsPage(n) /\ upper' = n
    BY <1>4 DEF Bound
  <2>2. n \in Nat /\ n <= current /\ cursor <= n
    BY <1>1, <1>4, <2>1, CounterBounds DEF Bound, EndsPage, Numbers, SyncTypeOK, Behind, InHand
  <2>3. /\ stage = "counted" /\ stage' = "rows"
        /\ UNCHANGED <<cursor, seen, base, loaded, current, todo, got, lost>>
    BY <1>4 DEF Bound
  <2>4. todo = Rows
    BY <2>3 DEF InHand
  <2> QED
    BY <1>1, <2>1, <2>2, <2>3, <2>4 DEF SyncTypeOK, Behind, InHand, NothingMissed, NothingMissedOf, Owed
<1>5. ASSUME NEW r \in Rows, Read(r) PROVE SyncInv'
  <2>1. /\ stage = "rows" /\ r \in todo /\ todo' = todo \ {r}
        /\ got' = IF InWindow(r) THEN got \cup {[row |-> r, seq |-> Fetched(r)]} ELSE got
        /\ UNCHANGED <<cursor, seen, base, stage, loaded, current, upper, lost>>
    BY <1>5 DEF Read
  <2>2. InWindow(r) => [row |-> r, seq |-> Fetched(r)] \in published
    BY <1>1, <2>1 DEF Fetched, InHand, InWindow, CounterIInv, Committed, SyncTypeOK
  <2>3. got' \subseteq published
    BY <2>1, <2>2 DEF InHand
  <2>4. SyncTypeOK'
    BY <1>1, <2>1, <2>3 DEF SyncTypeOK
  <2>5. Behind' /\ NothingMissed'
    BY <1>1, <2>1 DEF Behind, NothingMissed, NothingMissedOf, Owed
  <2>6. \A v \in got : v.row # r /\ v.row \notin todo'
    BY <2>1 DEF InHand
  <2>7. \A v \in got' : v \in got \/ v = [row |-> r, seq |-> Fetched(r)]
    BY <2>1
  <2>8. /\ \A v \in got' : v.row \notin todo'
        /\ \A v, w \in got' : v.row = w.row => v = w
    BY <2>1, <2>6, <2>7 DEF InHand
  <2>9. ASSUME NEW q \in (Rows \ Own) \ todo', cursor # 0 \/ q \in StateRows,
               cursor < rowSeq[q], rowSeq[q] <= upper
        PROVE  [row |-> q, seq |-> rowSeq[q]] \in got'
    <3>1. CASE q = r
      <4>1. InWindow(r)
        BY <1>1, <2>9, <3>1 DEF InWindow, SyncTypeOK
      <4> QED
        BY <2>1, <2>9, <3>1, <4>1 DEF Fetched
    <3>2. CASE q # r
      BY <2>1, <2>9, <3>2 DEF InHand
    <3> QED
      BY <3>1, <3>2
  <2>10. InHand'
    BY <1>1, <2>1, <2>3, <2>8, <2>9 DEF InHand
  <2> QED
    BY <2>4, <2>5, <2>10
<1>6. CASE Apply
  <2>1. /\ stage = "rows" /\ todo = {} /\ stage' = "idle"
        /\ seen' = [r \in Rows |-> Newest(r, got)] /\ cursor' = upper
        /\ base' = IF cursor = 0 THEN upper ELSE base
        /\ UNCHANGED <<loaded, current, upper, todo, got, lost>>
    BY <1>6 DEF Apply
  <2>2. got \in SUBSET Version /\ got \subseteq published
    BY DEF SyncTypeOK, InHand
  <2>3. ASSUME NEW r \in Rows
        PROVE  /\ Newest(r, got) \in Nat /\ Newest(r, got) >= seen[r]
               /\ Newest(r, got) <= rowSeq[r]
    <3>1. /\ Newest(r, got) \in Nat /\ Newest(r, got) >= seen[r]
          /\ Newest(r, got) # seen[r] => [row |-> r, seq |-> Newest(r, got)] \in got
      BY <2>2, NewestIsNewer
    <3>2. \A v \in published : v.seq <= rowSeq[v.row]
      BY DEF CounterIInv, Committed
    <3>3. CASE Newest(r, got) = seen[r]
      BY <3>1, <3>3 DEF Behind
    <3>4. CASE Newest(r, got) # seen[r]
      BY <2>2, <3>1, <3>2, <3>4
    <3> QED
      BY <3>1, <3>3, <3>4
  <2>4. SyncTypeOK' /\ Behind'
    BY <1>1, <2>1, <2>3 DEF SyncTypeOK, Behind
  <2>5. InHand'
    BY <1>1, <2>1 DEF InHand
  <2>6. ASSUME NEW r \in Rows \ Own, Owed(r)' < rowSeq[r], rowSeq[r] <= upper
        PROVE  Newest(r, got) = rowSeq[r]
    <3>1. /\ rowSeq[r] \in Nat /\ cursor \in Nat /\ upper \in Nat /\ base \in Nat
          /\ seen[r] \in Nat
      BY <1>1 DEF SyncTypeOK
    <3>2. CASE cursor < rowSeq[r] /\ (cursor # 0 \/ r \in StateRows)
      <4>1. [row |-> r, seq |-> rowSeq[r]] \in got
        BY <2>1, <2>6, <3>2 DEF InHand
      <4>2. \A v, w \in got : v.row = w.row => v = w
        BY DEF InHand
      <4>3. Newest(r, got) >= rowSeq[r]
        BY <2>2, <3>1, <4>1, <4>2, NewestOfOne
      <4> QED
        BY <2>3, <3>1, <4>3
    <3>3. CASE rowSeq[r] <= cursor
      <4>1. cursor # 0 /\ Owed(r) < rowSeq[r]
        BY <2>1, <2>6, <3>1, <3>3 DEF Owed
      <4>2. seen[r] = rowSeq[r]
        BY <3>3, <4>1 DEF NothingMissed, NothingMissedOf
      <4> QED
        BY <2>3, <3>1, <4>2
    <3>4. CASE cursor = 0 /\ r \notin StateRows
      BY <2>1, <2>6, <3>1, <3>4 DEF Owed
    <3> QED
      BY <3>1, <3>2, <3>3, <3>4
  <2>7. NothingMissed'
    BY <1>1, <2>1, <2>6 DEF NothingMissed, NothingMissedOf
  <2> QED
    BY <2>4, <2>5, <2>7
<1>7. CASE Lose
  BY <1>1, <1>7 DEF Lose, SyncTypeOK, Behind, InHand, NothingMissed, NothingMissedOf, Owed
<1>8. ASSUME NEW v \in published, Live(v) PROVE SyncInv'
  <2>1. /\ seen' = [seen EXCEPT ![v.row] = Newest(v.row, {v})]
        /\ UNCHANGED <<cursor, base, stage, loaded, current, upper, todo, got, lost>>
    BY <1>8 DEF Live
  <2>2. v.row \in Rows /\ v.seq <= rowSeq[v.row] /\ {v} \in SUBSET Version
    BY <1>1 DEF Version, CounterIInv, Committed
  <2>3. /\ Newest(v.row, {v}) \in Nat /\ Newest(v.row, {v}) >= seen[v.row]
        /\ Newest(v.row, {v}) # seen[v.row] => [row |-> v.row, seq |-> Newest(v.row, {v})] \in {v}
    BY <2>2, NewestIsNewer
  <2>4. Newest(v.row, {v}) <= rowSeq[v.row]
    BY <2>2, <2>3 DEF Behind
  <2>5. \A r \in Rows : seen'[r] \in Nat /\ seen'[r] >= seen[r] /\ seen'[r] <= rowSeq[r]
    BY <1>1, <2>1, <2>3, <2>4 DEF SyncTypeOK, Behind
  <2>6. SyncTypeOK' /\ Behind' /\ InHand'
    BY <1>1, <2>1, <2>2, <2>3, <2>5 DEF SyncTypeOK, Behind, InHand
  <2>7. NothingMissed'
    <3>1. UNCHANGED <<rowSeq, cursor, base>>
      BY <1>1, <2>1
    <3> SUFFICES ASSUME NEW r \in Rows \ Own, Owed(r) < rowSeq[r], rowSeq[r] <= cursor
                 PROVE  seen'[r] = rowSeq[r]
      BY <3>1 DEF NothingMissed, NothingMissedOf, Owed
    <3>2. seen[r] = rowSeq[r]
      BY DEF NothingMissed, NothingMissedOf
    <3> QED
      BY <1>1, <2>5, <3>2
  <2> QED
    BY <2>6, <2>7
<1>9. CASE Authenticate
  BY <1>1, <1>9, StateRowsAssumption
     DEF Authenticate, SyncTypeOK, Behind, InHand, NothingMissed, NothingMissedOf,
         Owed, CounterIInv, Committed
<1> QED
  BY <1>2, <1>3, <1>4, <1>5, <1>6, <1>7, <1>8, <1>9 DEF Sync

-----------------------------------------------------------------------------
\* The counter's invariant holds with clients reading.
THEOREM CounterUnderSync == SyncSpec => []CounterIInv
<1>1. SyncInit => CounterIInv
  BY InvHolds DEF SyncInit
<1>2. CounterIInv /\ [SyncNext]_allVars => CounterIInv'
  BY ServerSteps, InvKept
<1> QED
  BY <1>1, <1>2, PTL DEF SyncSpec

\* The client's invariant, over it.
THEOREM SyncInvariant == SyncSpec => []SyncInv
<1>1. CounterIInv /\ SyncInv /\ [SyncNext]_allVars => SyncInv'
  <2> SUFFICES ASSUME CounterIInv, SyncInv, [SyncNext]_allVars PROVE SyncInv'
    OBVIOUS
  <2>1. CASE CounterNext /\ UNCHANGED syncVars
    BY <2>1, ServerKeeps
  <2>2. CASE UNCHANGED allVars
    BY <2>2, ServerKeeps DEF allVars
  <2>3. CASE Sync \/ Lose \/ \E v \in published : Live(v)
    <3>1. UNCHANGED counterVars
      BY <2>3 DEF Sync, Authenticate, StartFirst, StartPage, Bound, Read, Apply, Lose, Live
    <3> QED
      BY <2>3, <3>1, ClientKeeps
  <2> QED
    BY <2>1, <2>2, <2>3 DEF SyncNext
<1> QED
  BY <1>1, SyncInitInv, CounterUnderSync, PTL DEF SyncSpec

\* sync.py: "a /sync that returns cursor N can never later miss a change
\* numbered below N", for every page size and every commit between statements.
THEOREM CursorMissesNothing == SyncSpec => []NothingMissed
<1>1. SyncInv => NothingMissed
  BY DEF SyncInv
<1> QED
  BY <1>1, SyncInvariant, PTL

\* Neither the cursor nor a cached row ever goes back (guarded_upsert).
THEOREM CacheOnlyForward == SyncSpec => OnlyForward
<1> DEFINE Forward == cursor' >= cursor /\ \A r \in Rows : seen'[r] >= seen[r]
<1>1. ASSUME CounterIInv, SyncInv, [SyncNext]_allVars PROVE Forward
  <2>1. cursor \in Nat /\ seen \in [Rows -> Nat] /\ upper \in Nat
    BY <1>1 DEF SyncInv, SyncTypeOK
  <2>2. ASSUME UNCHANGED <<cursor, seen>> PROVE Forward
    BY <2>1, <2>2
  <2>3. CASE Apply
    <3>1. /\ stage # "idle" /\ cursor' = upper
          /\ seen' = [r \in Rows |-> Newest(r, got)]
      BY <2>3 DEF Apply
    <3>2. \A r \in Rows : Newest(r, got) >= seen[r]
      BY <1>1, NewestIsNewer DEF SyncInv, SyncTypeOK
    <3> QED
      BY <1>1, <2>3, <3>1, <3>2 DEF SyncInv, Behind, Apply
  <2>4. ASSUME NEW v \in published, Live(v) PROVE Forward
    <3>1. {v} \in SUBSET Version /\ v.row \in Rows
      BY <1>1 DEF CounterIInv, CounterTypeOK, Version
    <3>2. Newest(v.row, {v}) >= seen[v.row]
      BY <1>1, <3>1, NewestIsNewer DEF SyncInv
    <3>3. cursor' = cursor /\ seen' = [seen EXCEPT ![v.row] = Newest(v.row, {v})]
      BY <2>4 DEF Live
    <3> QED
      BY <2>1, <3>1, <3>2, <3>3
  <2>5. ASSUME Authenticate \/ StartFirst \/ StartPage \/ Bound \/ Lose \/ \E r \in Rows : Read(r)
        PROVE  UNCHANGED <<cursor, seen>>
    BY <2>5 DEF Authenticate, StartFirst, StartPage, Bound, Lose, Read, cacheVars
  <2> QED
    BY <1>1, <2>2, <2>3, <2>4, <2>5 DEF SyncNext, Sync, syncVars, cacheVars, allVars
<1>2. CounterIInv /\ SyncInv /\ [SyncNext]_allVars => [Forward]_allVars
  BY <1>1
<1> QED
  BY <1>2, CounterUnderSync, SyncInvariant, PTL DEF SyncSpec, OnlyForward

-----------------------------------------------------------------------------
(* Membership.                                                             *)

USE DEF Op, By, Who

LEMMA InitInv == MembersInit => MembersInv
BY UsersAssumption, BoundAssumption
   DEF MembersInit, MembersInv, MembersTypeOK, LocksHeld, HasCounter, HasChannel, DecisionHolds, MarkersSent, KeepsOwner,
       OffersStand, Requests, Fitting, Task, NoTask, NamesSomeone, Locking, Others, MayLocking

\* The end of a request leaves everyone else where they were.
LEMMA Ends ==
  ASSUME MembersTypeOK, LocksHeld, NEW r \in Reqs, End(r)
  PROVE  /\ place' \in [Reqs -> {"idle", "start", "locked", "asked", "decided", "counter", "write"}]
         /\ task' \in [Reqs -> Task] /\ (\A q \in Reqs : Fitting(task'[q])) /\ saw' \in [Reqs -> Nat]
         /\ stamping' \in Reqs \cup {Nobody} /\ chan' \in Reqs \cup {Nobody}
         /\ LocksHeld'
         /\ place'[r] = "idle"
         /\ \A q \in Reqs \ {r} : place'[q] = place[q] /\ task'[q] = task[q] /\ saw'[q] = saw[q]
         /\ saw'[r] = 0
<1>1. NoTask \in Task /\ Fitting(NoTask)
  BY UsersAssumption, BoundAssumption DEF NoTask, Requests, Fitting, Task, NamesSomeone, Others
<1>2. /\ place' = [place EXCEPT ![r] = "idle"] /\ task' = [task EXCEPT ![r] = NoTask]
      /\ saw' = [saw EXCEPT ![r] = 0]
      /\ stamping' = IF stamping = r THEN Nobody ELSE stamping
      /\ chan' = IF chan = r THEN Nobody ELSE chan
  BY DEF End, Goto
<1>3. /\ place'[r] = "idle" /\ task'[r] = NoTask /\ saw'[r] = 0
      /\ \A q \in Reqs \ {r} : place'[q] = place[q] /\ task'[q] = task[q] /\ saw'[q] = saw[q]
  BY <1>2 DEF MembersTypeOK
<1>4. ASSUME NEW q \in Reqs
      PROVE  /\ stamping' = q <=> HasCounter(q)'
             /\ chan' = q <=> HasChannel(q)'
             /\ place'[q] = "locked" => task'[q].op \in Locking
             /\ place'[q] \in {"asked", "counter"} => task'[q].op \in Others
             /\ place'[q] = "counter" => task'[q].op # "read"
  <2>1. Nobody # q
    BY UsersAssumption
  <2>2. CASE q = r
    BY <1>2, <1>3, <2>1, <2>2 DEF HasCounter, HasChannel, LocksHeld
  <2>3. CASE q # r
    BY <1>2, <1>3, <2>1, <2>3 DEF HasCounter, HasChannel, LocksHeld
  <2> QED
    BY <2>2, <2>3
<1> QED
  BY <1>1, <1>2, <1>3, <1>4 DEF MembersTypeOK, LocksHeld

\* A request that moves on changes no task of another's.
LEMMA Moves ==
  ASSUME MembersTypeOK, NEW r \in Reqs,
         NEW l \in {"idle", "start", "locked", "asked", "decided", "counter", "write"}, Goto(r, l)
  PROVE  /\ place' \in [Reqs -> {"idle", "start", "locked", "asked", "decided", "counter", "write"}]
         /\ place'[r] = l /\ \A q \in Reqs \ {r} : place'[q] = place[q]
BY DEF MembersTypeOK, Goto

\* What a decision was made on is in the database, and stays while that does.
LEMMA DecisionsOn ==
  ASSUME UNCHANGED <<role, offers>>, NEW q \in Reqs, task'[q] = task[q]
  PROVE  MayLocking(task[q])' <=> MayLocking(task[q])
BY DEF MayLocking, MayRemove, MayOffer, MayWithdraw, MayAccept, MayDecline, IsMember,
       Manages, AnotherOwner

\* Steps that commit nothing: the request's own stage is what has to be looked at.
LEMMA Quiet ==
  ASSUME MembersInv, UNCHANGED committedVars, NEW r \in Reqs,
         \/ \E k \in Requests : Start(r, k)
         \/ LockChannel(r) \/ Decide(r) \/ Ask(r) \/ LookUp(r) \/ FindMessage(r)
         \/ TakeCounter(r) \/ TakeChannel(r) \/ Fail(r)
  PROVE  MembersInv'
<1> USE DEF MembersInv
<1>1. KeepsOwner' /\ OffersStand'
  BY DEF committedVars, KeepsOwner, OffersStand, Manages
<1>2. /\ exists' = exists /\ role' = role /\ marker' = marker /\ offers' = offers
      /\ newest' = newest /\ newest \in Nat
  BY DEF committedVars, MembersTypeOK
<1>3. CASE Fail(r)
  <2>1. End(r)
    BY <1>3 DEF Fail
  <2>2. MembersTypeOK' /\ LocksHeld'
    BY <1>2, <2>1, Ends DEF MembersTypeOK
  <2>3. DecisionHolds'
    BY <1>2, <2>1, Ends, DecisionsOn DEF DecisionHolds
  <2>4. MarkersSent'
    BY <1>2, <2>1, Ends DEF MarkersSent
  <2> QED
    BY <1>1, <2>2, <2>3, <2>4
<1>4. ASSUME NEW k \in Requests, Start(r, k) PROVE MembersInv'
  <2> k \in Task /\ Fitting(k)
    BY BoundAssumption DEF Requests, Task
  <2>1. /\ place[r] = "idle" /\ place' = [place EXCEPT ![r] = "start"] /\ task' = [task EXCEPT ![r] = k]
        /\ UNCHANGED <<stamping, chan, saw>>
    BY <1>4 DEF Start, Goto, lockVars
  <2>2. MembersTypeOK' /\ LocksHeld'
    BY <1>2, <2>1 DEF MembersTypeOK, LocksHeld, HasCounter, HasChannel
  <2>3. DecisionHolds'
    BY <1>2, <2>1, DecisionsOn DEF DecisionHolds, MembersTypeOK
  <2>4. MarkersSent'
    BY <1>2, <2>1 DEF MarkersSent, MembersTypeOK
  <2> QED
    BY <1>1, <2>2, <2>3, <2>4
<1>5. CASE LockChannel(r)
  <2>1. /\ place[r] = "start" /\ place' = [place EXCEPT ![r] = "locked"] /\ task[r].op \in Locking
        /\ chan = Nobody /\ chan' = r /\ UNCHANGED <<stamping, task, saw>>
    BY <1>5 DEF LockChannel, Goto
  <2>2. MembersTypeOK' /\ LocksHeld'
    BY <1>2, <2>1, UsersAssumption DEF MembersTypeOK, LocksHeld, HasCounter, HasChannel
  <2>3. DecisionHolds'
    BY <1>2, <2>1, DecisionsOn DEF DecisionHolds, MembersTypeOK
  <2>4. MarkersSent'
    BY <1>2, <2>1 DEF MarkersSent, MembersTypeOK
  <2> QED
    BY <1>1, <2>2, <2>3, <2>4
<1>6. CASE Decide(r)
  <2>1. /\ place[r] = "locked" /\ place' = [place EXCEPT ![r] = "decided"] /\ exists = "yes"
        /\ MayLocking(task[r]) /\ UNCHANGED <<stamping, chan, task, saw>>
    BY <1>6 DEF Decide, Goto, lockVars
  <2>2. MembersTypeOK' /\ LocksHeld'
    BY <1>2, <2>1 DEF MembersTypeOK, LocksHeld, HasCounter, HasChannel
  <2>3. DecisionHolds'
    BY <1>2, <2>1, DecisionsOn DEF DecisionHolds, MembersTypeOK
  <2>4. task[r].msg = 0
    BY <2>1 DEF LocksHeld, MembersTypeOK, Fitting, Locking
  <2>5. MarkersSent'
    BY <1>2, <2>1, <2>4 DEF MarkersSent, MembersTypeOK
  <2> QED
    BY <1>1, <2>2, <2>3, <2>5
<1>7. CASE Ask(r)
  <2>1. /\ place[r] = "start" /\ task[r].op \in Others /\ UNCHANGED <<stamping, chan, task>>
        /\ saw' = IF task[r].op = "read" THEN [saw EXCEPT ![r] = marker[task[r].by]] ELSE saw
        /\ place' = [place EXCEPT ![r] = IF task[r].op \in {"delete", "send"}
                                   THEN "decided" ELSE "asked"]
    BY <1>7 DEF Ask, Goto, lockVars
  <2>2. task[r].by \in Users /\ (task[r].op # "read" => task[r].msg = 0)
    BY DEF MembersTypeOK, Requests, Fitting, Task
  <2>3. MembersTypeOK'
    BY <1>2, <2>1, <2>2 DEF MembersTypeOK
  <2>4. LocksHeld'
    BY <1>2, <2>1 DEF MembersTypeOK, LocksHeld, HasCounter, HasChannel, Others, Locking
  <2>5. DecisionHolds'
    BY <1>2, <2>1, DecisionsOn DEF DecisionHolds, MembersTypeOK, Locking
  <2>6. MarkersSent'
    BY <1>2, <2>1, <2>2 DEF MarkersSent, MembersTypeOK
  <2> QED
    BY <1>1, <2>3, <2>4, <2>5, <2>6
<1>8. CASE LookUp(r)
  <2>1. /\ place[r] = "asked" /\ task[r].op \in {"add", "join"} /\ UNCHANGED <<stamping, chan, task>>
        /\ saw' = [saw EXCEPT ![r] = newest] /\ place' = [place EXCEPT ![r] = "decided"]
    BY <1>8 DEF LookUp, Goto, lockVars
  <2>2. task[r].msg = 0
    BY <2>1 DEF MembersTypeOK, Fitting, NamesSomeone
  <2>3. MembersTypeOK' /\ LocksHeld'
    BY <1>2, <2>1 DEF MembersTypeOK, LocksHeld, HasCounter, HasChannel, Others, Locking
  <2>4. DecisionHolds'
    BY <1>2, <2>1, DecisionsOn DEF DecisionHolds, MembersTypeOK, Locking
  <2>5. MarkersSent'
    BY <1>2, <2>1, <2>2 DEF MarkersSent, MembersTypeOK
  <2> QED
    BY <1>1, <2>3, <2>4, <2>5
<1>9. CASE FindMessage(r)
  <2>1. /\ place[r] = "asked" /\ task[r].op = "read" /\ Target(task[r]) \in 1..newest
        /\ task' = [task EXCEPT ![r].msg = Target(task[r])]
        /\ place' = [place EXCEPT ![r] = "decided"] /\ UNCHANGED <<stamping, chan, saw>>
    BY <1>9 DEF FindMessage, Ahead, Known, Goto, lockVars
  <2>2. task' \in [Reqs -> Task] /\ \A q \in Reqs : Fitting(task'[q])
    <3>1. Target(task[r]) \in Nat /\ task[r] \in Task
      BY <2>1, <1>2 DEF MembersTypeOK
    <3>2. /\ task'[r] = [task[r] EXCEPT !.msg = Target(task[r])]
          /\ \A q \in Reqs \ {r} : task'[q] = task[q]
      BY <2>1 DEF MembersTypeOK
    <3>3. task'[r] \in Task /\ Fitting(task'[r])
      BY <2>1, <3>1, <3>2 DEF MembersTypeOK, Task, Fitting
    <3> QED
      BY <2>1, <3>2, <3>3 DEF MembersTypeOK
  <2>3. /\ task'[r].op = "read" /\ task'[r].msg <= newest
        /\ \A q \in Reqs \ {r} : task'[q] = task[q]
    BY <1>2, <2>1 DEF MembersTypeOK, Task
  <2>4. /\ MembersTypeOK'
        /\ LocksHeld'
    <3>1. MembersTypeOK'
      BY <1>2, <2>1, <2>2 DEF MembersTypeOK
    <3>2. /\ place'[r] = "decided" /\ stamping' = stamping /\ chan' = chan
          /\ \A q \in Reqs \ {r} : place'[q] = place[q]
      BY <2>1 DEF MembersTypeOK
    <3>3. LocksHeld'
      BY <2>1, <2>3, <3>2 DEF LocksHeld, HasCounter, HasChannel, Locking
    <3> QED
      BY <3>1, <3>3
  <2>5. DecisionHolds'
    BY <1>2, <2>1, <2>3, DecisionsOn DEF DecisionHolds, MembersTypeOK, Locking
  <2>6. MarkersSent'
    BY <1>2, <2>1, <2>3 DEF MarkersSent, MembersTypeOK
  <2> QED
    BY <1>1, <2>4, <2>5, <2>6
<1>10. CASE TakeCounter(r)
  <2>1. /\ place[r] = "decided" /\ stamping = Nobody /\ stamping' = r
        /\ place' = [place EXCEPT ![r] = IF task[r].op \in Others \ {"read"} THEN "counter" ELSE "write"]
        /\ UNCHANGED <<chan, task, saw>>
    BY <1>10 DEF TakeCounter, Goto
  <2>2. task[r].op \in Locking \/ task[r].op \in Others
    BY DEF MembersTypeOK, Requests, Fitting, Task
  <2>3. MembersTypeOK'
    BY <1>2, <2>1 DEF MembersTypeOK
  <2>4. LocksHeld'
    BY <1>2, <2>1, <2>2, UsersAssumption
       DEF MembersTypeOK, LocksHeld, HasCounter, HasChannel, Others, Locking
  <2>5. DecisionHolds'
    BY <1>2, <2>1, DecisionsOn DEF DecisionHolds, MembersTypeOK
  <2>6. MarkersSent'
    BY <1>2, <2>1 DEF MarkersSent, MembersTypeOK
  <2> QED
    BY <1>1, <2>3, <2>4, <2>5, <2>6
<1>11. CASE TakeChannel(r)
  <2>1. /\ place[r] = "counter" /\ chan = Nobody /\ chan' = r
        /\ place' = [place EXCEPT ![r] = "write"] /\ UNCHANGED <<stamping, task, saw>>
    BY <1>11 DEF TakeChannel, Goto
  <2>2. task[r].op \in Others \ {"read"} /\ task[r].msg = 0
    BY <2>1 DEF LocksHeld, MembersTypeOK, Fitting, NamesSomeone
  <2>3. MembersTypeOK' /\ LocksHeld'
    BY <1>2, <2>1, <2>2, UsersAssumption
       DEF MembersTypeOK, LocksHeld, HasCounter, HasChannel, Others, Locking
  <2>4. DecisionHolds'
    BY <1>2, <2>1, <2>2, DecisionsOn DEF DecisionHolds, MembersTypeOK, Others, Locking
  <2>5. MarkersSent'
    BY <1>2, <2>1, <2>2 DEF MarkersSent, MembersTypeOK
  <2> QED
    BY <1>1, <2>3, <2>4, <2>5
<1> QED
  BY <1>3, <1>4, <1>5, <1>6, <1>7, <1>8, <1>9, <1>10, <1>11

-----------------------------------------------------------------------------
\* A commit by the request that has the channel's lock: nobody else's decision
\* is pending.
LEMMA Alone ==
  ASSUME MembersInv, NEW r \in Reqs, HasChannel(r), End(r)
  PROVE  DecisionHolds'
<1>1. \A q \in Reqs \ {r} : place'[q] = place[q] /\ task'[q] = task[q]
  BY Ends DEF MembersInv
<1>2. \A q \in Reqs \ {r} : ~(place[q] \in {"decided", "write"} /\ Op(q) \in Locking)
  BY DEF MembersInv, LocksHeld, HasChannel, Locking
<1>3. place'[r] = "idle"
  BY Ends DEF MembersInv
<1> QED
  BY <1>1, <1>2, <1>3 DEF DecisionHolds

\* What a commit leaves of the other parts of the invariant, by what it writes.
LEMMA CommitKeeps ==
  ASSUME MembersInv, NEW r \in Reqs, End(r),
         exists' \in {"yes", "no"}, role' \in [Users -> {"none", "member", "owner"}],
         marker' \in [Users -> Nat], offers' \in [Users -> Users \cup {Nobody}],
         newest' \in Nat, newest' >= newest, \A u \in Users : marker'[u] <= newest'
  PROVE  MembersTypeOK' /\ LocksHeld' /\ MarkersSent'
<1>1. MembersTypeOK' /\ LocksHeld'
  BY Ends DEF MembersInv, MembersTypeOK
<1>2. /\ \A q \in Reqs \ {r} : place'[q] = place[q] /\ task'[q] = task[q] /\ saw'[q] = saw[q]
      /\ place'[r] = "idle" /\ saw'[r] = 0
  BY Ends DEF MembersInv
<1>3. /\ \A q \in Reqs : saw[q] \in Nat /\ saw[q] <= newest
      /\ \A q \in Reqs : place[q] \in {"decided", "write"} => task[q].msg <= newest
      /\ \A q \in Reqs : task[q].msg \in Nat /\ newest \in Nat
  BY DEF MembersInv, MarkersSent, MembersTypeOK, Task
<1> QED
  BY <1>1, <1>2, <1>3 DEF MarkersSent

\* A removal, or an answer to an offer, by what was decided under the lock.
LEMMA LockingKeeps == ASSUME MembersInv, NEW r \in Reqs, CommitLocking(r) PROVE MembersInv'
<1> USE DEF MembersInv
<1>1. /\ place[r] = "write" /\ task[r].op \in Locking /\ End(r)
      /\ exists' = exists /\ newest' = newest /\ HasChannel(r)
  BY DEF CommitLocking, HasChannel, Locking
<1>2. exists = "yes" /\ MayLocking(task[r])
  BY <1>1 DEF DecisionHolds
<1>3. /\ task[r].by \in Users /\ task[r].who \in Users
      /\ task[r].op \in {"accept", "decline"} => task[r].who = task[r].by
  BY DEF MembersTypeOK, Task, Fitting, NamesSomeone
<1>4. DecisionHolds'
  BY <1>1, Alone
<1> SUFFICES /\ role' \in [Users -> {"none", "member", "owner"}]
             /\ marker' \in [Users -> Nat] /\ offers' \in [Users -> Users \cup {Nobody}]
             /\ \A u \in Users : marker'[u] <= newest
             /\ KeepsOwner' /\ OffersStand'
  BY <1>1, <1>4, CommitKeeps DEF MembersTypeOK
<1> DEFINE b == task[r].by
           w == task[r].who
<1>5. CASE task[r].op = "remove"
  <2>1. /\ role' = [role EXCEPT ![w] = "none"] /\ marker' = [marker EXCEPT ![w] = 0]
        /\ offers' = [u \in Users |-> IF u = w \/ offers[u] = w THEN Nobody ELSE offers[u]]
    BY <1>1, <1>5 DEF CommitLocking, RemovedOffers
  <2>2. role[w] = "owner" => \E u \in Users \ {w} : role[u] = "owner"
    BY <1>2, <1>5 DEF MayLocking, MayRemove, AnotherOwner
  <2>3. KeepsOwner'
    BY <1>1, <1>3, <2>1, <2>2 DEF KeepsOwner, MembersTypeOK
  <2>4. OffersStand'
    BY <1>3, <2>1 DEF OffersStand, Manages, MembersTypeOK
  <2> QED
    BY <1>3, <2>1, <2>3, <2>4 DEF MembersTypeOK, MarkersSent
<1>6. CASE task[r].op = "offer"
  <2>1. role' = role /\ marker' = marker /\ offers' = [offers EXCEPT ![w] = b]
    BY <1>1, <1>6 DEF CommitLocking
  <2>2. role[w] = "member" /\ Manages(b)
    BY <1>2, <1>6 DEF MayLocking, MayOffer
  <2> QED
    BY <1>1, <1>3, <2>1, <2>2 DEF MembersTypeOK, MarkersSent, KeepsOwner, OffersStand, Manages
<1>7. CASE task[r].op = "accept"
  <2>1. /\ role' = [role EXCEPT ![b] = "owner"] /\ marker' = marker
        /\ offers' = [offers EXCEPT ![b] = Nobody]
    BY <1>1, <1>7 DEF CommitLocking
  <2> QED
    BY <1>1, <1>3, <2>1 DEF MembersTypeOK, MarkersSent, KeepsOwner, OffersStand, Manages
<1>8. CASE task[r].op \in {"withdraw", "decline"}
  <2>1. role' = role /\ marker' = marker /\ offers' = [offers EXCEPT ![w] = Nobody]
    BY <1>1, <1>8 DEF CommitLocking
  <2> QED
    BY <1>1, <1>3, <2>1 DEF MembersTypeOK, MarkersSent, KeepsOwner, OffersStand, Manages
<1> QED
  BY <1>1, <1>5, <1>6, <1>7, <1>8 DEF Locking

\* The others.  Only those that have the channel's lock change who belongs to it.
LEMMA OthersKeep ==
  ASSUME MembersInv, NEW r \in Reqs,
         CommitMember(r) \/ CommitDelete(r) \/ CommitSend(r) \/ CommitRead(r)
  PROVE  MembersInv'
<1> USE DEF MembersInv
<1>1. End(r) /\ task[r].by \in Users /\ task[r].who \in Users /\ newest \in Nat
  BY DEF CommitMember, CommitDelete, CommitSend, CommitRead, MembersTypeOK, Task
<1>2. CASE CommitMember(r)
  <2>1. /\ place[r] = "write" /\ task[r].op \in {"add", "join"} /\ role[task[r].who] = "none"
        /\ role' = [role EXCEPT ![task[r].who] = "member"]
        /\ marker' = [marker EXCEPT ![task[r].who] = saw[r]]
        /\ exists' = exists /\ offers' = offers /\ newest' = newest
    BY <1>2 DEF CommitMember, IsMember
  <2>2. DecisionHolds'
    BY <1>1, <2>1, Alone DEF HasChannel
  <2>3. KeepsOwner' /\ OffersStand'
    BY <1>1, <2>1 DEF KeepsOwner, OffersStand, Manages, MembersTypeOK
  <2>4. MembersTypeOK' /\ LocksHeld' /\ MarkersSent'
    <3>1. \A u \in Users : marker'[u] \in Nat /\ marker'[u] <= newest
      BY <1>1, <2>1 DEF MembersTypeOK, MarkersSent
    <3> QED
      BY <1>1, <2>1, <3>1, CommitKeeps DEF MembersTypeOK
  <2> QED
    BY <2>2, <2>3, <2>4
<1>3. CASE CommitDelete(r)
  <2>1. /\ place[r] = "write" /\ task[r].op = "delete" /\ exists' = "no" /\ newest' = newest
        /\ role' = [u \in Users |-> "none"] /\ marker' = [u \in Users |-> 0]
        /\ offers' = [u \in Users |-> Nobody]
    BY <1>3 DEF CommitDelete
  <2>2. DecisionHolds'
    BY <1>1, <2>1, Alone DEF HasChannel
  <2>3. KeepsOwner' /\ OffersStand'
    BY <2>1 DEF KeepsOwner, OffersStand
  <2>4. MembersTypeOK' /\ LocksHeld' /\ MarkersSent'
    BY <1>1, <2>1, CommitKeeps
  <2> QED
    BY <2>2, <2>3, <2>4
<1>4. CASE CommitSend(r)
  <2>1. /\ place[r] = "write" /\ task[r].op = "send" /\ newest' = newest + 1
        /\ exists' = exists /\ role' = role /\ offers' = offers
        /\ marker' = IF IsMember(task[r].by) /\ newest + 1 > marker[task[r].by]
                     THEN [marker EXCEPT ![task[r].by] = newest + 1] ELSE marker
    BY <1>4 DEF CommitSend
  <2>2. DecisionHolds'
    BY <1>1, <2>1, Alone DEF HasChannel
  <2>3. KeepsOwner' /\ OffersStand'
    BY <2>1 DEF KeepsOwner, OffersStand, Manages
  <2>4. MembersTypeOK' /\ LocksHeld' /\ MarkersSent'
    <3>1. \A u \in Users : marker'[u] \in Nat /\ marker'[u] <= newest + 1
      BY <1>1, <2>1 DEF MembersTypeOK, MarkersSent
    <3>2. marker' \in [Users -> Nat]
      BY <1>1, <2>1 DEF MembersTypeOK
    <3> QED
      BY <1>1, <2>1, <3>1, <3>2, CommitKeeps DEF MembersTypeOK
  <2> QED
    BY <2>2, <2>3, <2>4
<1>5. CASE CommitRead(r)
  <2>1. /\ place[r] = "write" /\ task[r].op = "read"
        /\ exists' = exists /\ role' = role /\ offers' = offers /\ newest' = newest
        /\ marker' = [marker EXCEPT ![task[r].by] = task[r].msg]
    BY <1>5 DEF CommitRead
  <2>2. /\ \A q \in Reqs \ {r} : place'[q] = place[q] /\ task'[q] = task[q]
        /\ place'[r] = "idle"
    BY <1>1, Ends
  <2>3. DecisionHolds'
    BY <2>1, <2>2, DecisionsOn DEF DecisionHolds
  <2>4. KeepsOwner' /\ OffersStand'
    BY <2>1 DEF KeepsOwner, OffersStand, Manages
  <2>5. MembersTypeOK' /\ LocksHeld' /\ MarkersSent'
    <3>1. task[r].msg \in Nat /\ task[r].msg <= newest
      BY <2>1 DEF MembersTypeOK, Task, MarkersSent
    <3>2. \A u \in Users : marker'[u] \in Nat /\ marker'[u] <= newest
      BY <1>1, <2>1, <3>1 DEF MembersTypeOK, MarkersSent
    <3> QED
      BY <1>1, <2>1, <3>1, <3>2, CommitKeeps DEF MembersTypeOK
  <2> QED
    BY <2>3, <2>4, <2>5
<1> QED
  BY <1>2, <1>3, <1>4, <1>5

LEMMA MembersKept == MembersInv /\ [MembersNext]_membersVars => MembersInv'
<1> SUFFICES ASSUME MembersInv, [MembersNext]_membersVars PROVE MembersInv'
  OBVIOUS
<1>1. CASE UNCHANGED membersVars
  BY <1>1 DEF membersVars, committedVars, lockVars, reqVars, MembersInv, MembersTypeOK, LocksHeld, HasCounter, HasChannel,
              DecisionHolds, MarkersSent, KeepsOwner, OffersStand, MayLocking, MayRemove,
              MayOffer, MayWithdraw, MayAccept, MayDecline, IsMember, Manages, AnotherOwner
<1>2. ASSUME NEW r \in Reqs, Serve(r) PROVE MembersInv'
  <2>1. CASE CommitLocking(r)
    BY <2>1, LockingKeeps
  <2>2. CASE CommitMember(r) \/ CommitDelete(r) \/ CommitSend(r) \/ CommitRead(r)
    BY <2>2, OthersKeep
  <2>3. CASE Refuse(r) \/ Denied(r) \/ NothingToDo(r) \/ FlushFails(r) \/ Victim(r)
    <3>1. Fail(r) /\ UNCHANGED committedVars
      BY <2>3 DEF Refuse, Denied, NothingToDo, FlushFails, Victim, Fail
    <3> QED
      BY <3>1, Quiet
  <2>4. CASE \/ \E k \in Requests : Start(r, k)
             \/ LockChannel(r) \/ Decide(r) \/ Ask(r) \/ LookUp(r) \/ FindMessage(r)
             \/ TakeCounter(r) \/ TakeChannel(r)
    <3>1. UNCHANGED committedVars
      BY <2>4 DEF Start, LockChannel, Decide, Ask, LookUp, FindMessage, TakeCounter, TakeChannel
    <3> QED
      BY <2>4, <3>1, Quiet
  <2> QED
    BY <1>2, <2>1, <2>2, <2>3, <2>4 DEF Serve
<1> QED
  BY <1>1, <1>2 DEF MembersNext

-----------------------------------------------------------------------------
\* The inductive invariant of a channel's requests.
THEOREM MembershipInvariant == MembersSpec => []MembersInv
BY InitInv, MembersKept, PTL DEF MembersSpec

\* remove_member locks the channel so that no channel is left without an owner:
\* none is, whoever leaves, is removed, offers and accepts at once.
THEOREM ChannelKeepsOwner == MembersSpec => []KeepsOwner
<1>1. MembersInv => KeepsOwner
  BY DEF MembersInv
<1> QED
  BY <1>1, MembershipInvariant, PTL

\* accept_ownership may trust an offer as it stands.
THEOREM OfferStands == MembersSpec => []OffersStand
<1>1. MembersInv => OffersStand
  BY DEF MembersInv
<1> QED
  BY <1>1, MembershipInvariant, PTL

\* Nobody becomes an owner without an offer pending at that moment.
THEOREM OwnerByOffer == MembersSpec => OwnedByOffer
<1> DEFINE Pending == \A u \in Users : role[u] # "owner" /\ role'[u] = "owner" => offers[u] # Nobody
<1>1. MembersInv /\ [MembersNext]_membersVars => [Pending]_membersVars
  <2> SUFFICES ASSUME MembersInv, NEW r \in Reqs, Serve(r), NEW u \in Users,
                      role[u] # "owner", role'[u] = "owner"
               PROVE  offers[u] # Nobody
    BY DEF MembersNext
  <2>1. CASE CommitLocking(r)
    <3>1. task[r].op \in {"remove", "accept"}
      BY <2>1 DEF CommitLocking
    <3>2. CASE task[r].op = "remove"
      BY <2>1, <3>2 DEF CommitLocking, MembersInv, MembersTypeOK
    <3>3. CASE task[r].op = "accept"
      <4>1. u = task[r].by
        BY <2>1, <3>3 DEF CommitLocking, MembersInv, MembersTypeOK
      <4>2. MayLocking(task[r])
        BY <2>1 DEF CommitLocking, MembersInv, DecisionHolds
      <4> QED
        BY <3>3, <4>1, <4>2 DEF MayLocking, MayAccept
    <3> QED
      BY <3>1, <3>2, <3>3
  <2>2. CASE CommitMember(r)
    BY <2>2 DEF CommitMember, MembersInv, MembersTypeOK
  <2>3. CASE CommitDelete(r)
    BY <2>3 DEF CommitDelete
  <2>4. ASSUME UNCHANGED role PROVE FALSE
    BY <2>4
  <2> QED
    BY <2>1, <2>2, <2>3, <2>4
       DEF Serve, Start, LockChannel, Decide, Refuse, Ask, Denied, LookUp, FindMessage, NothingToDo,
           TakeCounter, TakeChannel, FlushFails, Victim, Fail, CommitSend, CommitRead, committedVars
<1> QED
  BY <1>1, MembershipInvariant, PTL DEF MembersSpec, OwnedByOffer

-----------------------------------------------------------------------------
(* Outbox.                                                                 *)

USE HomeAssumption, RepliesAssumption, NoIdAssumption, BoundsAssumption

-----------------------------------------------------------------------------
(* Types.                                                                  *)

\* An insert keeps the log a sequence of messages.
LEMMA InsertTyped ==
  ASSUME TypeOK, NEW i \in Ids, NEW f \in Form, Insert(i, f)
  PROVE  log' \in [Channels -> Seq(Sent)]
<1>1. CASE i \in Stored
  BY <1>1 DEF Insert, TypeOK
<1>2. CASE i \notin Stored
  <2>1. [id |-> i, form |-> f] \in Sent
    BY DEF Sent
  <2>2. Append(log[Home[i]], [id |-> i, form |-> f]) \in Seq(Sent)
    BY <2>1 DEF TypeOK
  <2> QED BY <1>2, <2>2 DEF Insert, TypeOK
<1> QED BY <1>1, <1>2

\* Every step keeps every variable in its type, and the lock holder at work.
LEMMA TypeStep == TypeInv /\ [Next]_vars => TypeInv'
<1> SUFFICES ASSUME TypeInv PROVE [Next]_vars => TypeInv'
  OBVIOUS
<1> USE DEF TypeInv, TypeOK, HolderHasWork, RowState, Code, Doing, Answer, Refusal, Form,
            Unlocked, Current
<1>1. ASSUME NEW who \in {"me", "other"}, SignIn(who) PROVE TypeInv'
  BY <1>1 DEF SignIn, rowVars, senderVars, serverVars, history
<1>2. ASSUME SignOut PROVE TypeInv'
  BY <1>2 DEF SignOut, rowVars, senderVars, serverVars, history
<1>3. ASSUME Follow PROVE TypeInv'
  BY <1>3 DEF Follow, rowVars, senderVars, sessionVars, serverVars, history
<1>4. ASSUME Open PROVE TypeInv'
  BY <1>4 DEF Open, senderVars, sessionVars, serverVars, history
<1>5. ASSUME Close PROVE TypeInv'
  BY <1>5 DEF Close, Stops, Executing, RequestOf, Request, rowVars, sessionVars, history
<1>6. ASSUME Crash PROVE TypeInv'
  BY <1>6 DEF Crash, Stops, Executing, RequestOf, Request, Fault, rowVars, sessionVars, history
<1>7. ASSUME NEW i \in Ids, Enqueue(i) PROVE TypeInv'
  BY <1>7 DEF Enqueue, FormOf, senderVars, sessionVars, serverVars
<1>8. ASSUME NEW i \in Ids, SendDirect(i) PROVE TypeInv'
  BY <1>8 DEF SendDirect, FormOf, Departs, Fault, sessionVars, serverVars
<1>9. ASSUME NEW i \in Ids, Retry(i) PROVE TypeInv'
  BY <1>9 DEF Retry, senderVars, sessionVars, serverVars, history
<1>10. ASSUME NEW i \in Ids, RetryWithoutReply(i) PROVE TypeInv'
  BY <1>10 DEF RetryWithoutReply, senderVars, sessionVars, serverVars, history
<1>11. ASSUME NEW u \in Callers, NEW i \in Ids, AskDelete(u, i) PROVE TypeInv'
  BY <1>11 DEF AskDelete, rowVars, senderVars, sessionVars, serverVars, history
<1>12. ASSUME NEW u \in Callers, DoDelete(u) PROVE TypeInv'
  BY <1>12 DEF DoDelete, senderVars, sessionVars, serverVars
<1>13. ASSUME NEW u \in Callers, DeleteFails(u) PROVE TypeInv'
  BY <1>13 DEF DeleteFails, Fault, rowVars, senderVars, sessionVars, serverVars, history
<1>14. ASSUME NEW c \in Channels, Wake(c) PROVE TypeInv'
  BY <1>14 DEF Wake, rowVars, sessionVars, serverVars, history
<1>15. ASSUME NEW c \in Channels, Take(c) PROVE TypeInv'
  BY <1>15 DEF Take, Heads, RowsOf, sessionVars, serverVars, history
<1>16. ASSUME NEW c \in Channels, Idle(c) PROVE TypeInv'
  BY <1>16 DEF Idle, rowVars, sessionVars, serverVars, history
<1>17. ASSUME NEW c \in Channels, CantStart(c) PROVE TypeInv'
  BY <1>17 DEF CantStart, Fault, rowVars, sessionVars, serverVars, history
<1>18. ASSUME NEW c \in Channels, Post(c) PROVE TypeInv'
  <2>1. at[c] \in Ids /\ Home[at[c]] = c
    BY <1>18 DEF Post
  <2> QED BY <1>18, <2>1 DEF Post, Departs, rowVars, sessionVars, serverVars
<1>19. ASSUME NEW c \in Channels, Lost(c) PROVE TypeInv'
  BY <1>19 DEF Lost, Fault, Abandoned, Executing, RequestOf, Request, rowVars, sessionVars, history
<1>20. ASSUME NEW c \in Channels, GiveBack(c) PROVE TypeInv'
  BY <1>20 DEF GiveBack, Waiting, Release, Executing, sessionVars, serverVars, history
<1>21. ASSUME NEW c \in Channels, Acked(c) PROVE TypeInv'
  BY <1>21 DEF Acked, rowVars, sessionVars, serverVars, history
<1>22. ASSUME NEW c \in Channels, Refused(c) PROVE TypeInv'
  BY <1>22 DEF Refused, Refusal, Release, sessionVars, serverVars, history
<1>23. ASSUME NEW c \in Channels, RefusedSent(c) PROVE TypeInv'
  BY <1>23 DEF RefusedSent, rowVars, sessionVars, serverVars, history
<1>24. ASSUME NEW c \in Channels, ApplyAck(c) PROVE TypeInv'
  BY <1>24 DEF ApplyAck, rowVars, sessionVars, serverVars, history
<1>25. ASSUME NEW c \in Channels, CacheFails(c) PROVE TypeInv'
  BY <1>25 DEF CacheFails, Fault, Release, sessionVars, serverVars, history
<1>26. ASSUME NEW c \in Channels, CacheFailsAgain(c) PROVE TypeInv'
  BY <1>26 DEF CacheFailsAgain, Fault, rowVars, sessionVars, serverVars, history
<1>27. ASSUME NEW c \in Channels, DropRow(c) PROVE TypeInv'
  BY <1>27 DEF DropRow, Release, sessionVars, serverVars, history
<1>28. ASSUME NEW c \in Channels, DropFails(c) PROVE TypeInv'
  BY <1>28 DEF DropFails, Fault, Release, sessionVars, serverVars, history
<1>29. ASSUME NEW c \in Channels, CantRecord(c) PROVE TypeInv'
  BY <1>29 DEF CantRecord, Fault, Release, rowVars, sessionVars, serverVars, history
<1>30. ASSUME NEW c \in Channels, DirectSent(c) PROVE TypeInv'
  BY <1>30 DEF DirectSent, rowVars, sessionVars, serverVars, history
<1>31. ASSUME NEW c \in Channels, DirectNotSent(c) PROVE TypeInv'
  BY <1>31 DEF DirectNotSent, Abandoned, Executing, RequestOf, Request, rowVars, sessionVars, history
<1>32. ASSUME NEW c \in Channels, ServeLookup(c) PROVE TypeInv'
  BY <1>32 DEF ServeLookup, Lookup, Refusal, rowVars, sessionVars, serverVars, history
<1>33. ASSUME NEW c \in Channels, ServeInsert(c) PROVE TypeInv'
  <2>1. log' \in [Channels -> Seq(Sent)]
    <3>1. at[c] \in Ids /\ form[at[c]] \in Form /\ Insert(at[c], form[at[c]])
      BY <1>33 DEF ServeInsert
    <3> QED BY <3>1, InsertTyped
  <2> QED BY <1>33, <2>1 DEF ServeInsert, rowVars, sessionVars, history
<1>34. ASSUME NEW c \in Channels, Admit(c) PROVE TypeInv'
  BY <1>34 DEF Admit, rowVars, senderVars, sessionVars, history
<1>35. ASSUME NEW r \in Request, LateLookup(r) PROVE TypeInv'
  <2>1. [r EXCEPT !.stage = "looked"] \in Request
    BY DEF Request
  <2>2. late' \subseteq Request
    BY <1>35, <2>1 DEF LateLookup
  <2> QED BY <1>35, <2>2 DEF LateLookup, rowVars, senderVars, sessionVars, history
<1>36. ASSUME NEW r \in Request, LateInsert(r) PROVE TypeInv'
  <2>1. log' \in [Channels -> Seq(Sent)]
    BY <1>36, InsertTyped DEF LateInsert, Request
  <2> QED BY <1>36, <2>1 DEF LateInsert, Request, rowVars, senderVars, sessionVars, history
<1>37. ASSUME NEW r \in Request, LateDies(r) PROVE TypeInv'
  BY <1>37 DEF LateDies, rowVars, senderVars, sessionVars, history
<1>38. ASSUME TargetDeleted PROVE TypeInv'
  BY <1>38 DEF TargetDeleted, rowVars, senderVars, sessionVars, history
<1>39. ASSUME UNCHANGED vars PROVE TypeInv'
  BY <1>39 DEF vars, rowVars, senderVars, sessionVars, serverVars, history
<1> QED
  BY <1>1, <1>2, <1>3, <1>4, <1>5, <1>6, <1>7, <1>8, <1>9, <1>10, <1>11, <1>12, <1>13, <1>14, <1>15, <1>16, <1>17, <1>18, <1>19, <1>20, <1>21, <1>22, <1>23, <1>24, <1>25, <1>26, <1>27, <1>28, <1>29, <1>30, <1>31, <1>32, <1>33, <1>34, <1>35, <1>36, <1>37, <1>38, <1>39
     DEF Next, Session, User, Sender, Server

\* Every variable keeps its type, and whoever holds a channel's lock (an attempt of
\* its sender, or a direct send) works on a message of that channel, whatever
\* crashes, fails or comes late.
THEOREM Typing == Spec => [](TypeOK /\ HolderHasWork)
<1>1. Init => TypeInv
  BY DEF Init, TypeInv, TypeOK, HolderHasWork, RowState, Code, Doing, Answer, Refusal,
         Form, FormOf, Sent, Request
<1>2. TypeInv => TypeOK /\ HolderHasWork
  BY DEF TypeInv
<1> QED BY <1>1, <1>2, TypeStep, PTL DEF Spec

-----------------------------------------------------------------------------
(* What an insert does to the log.                                         *)

\* Nothing but the inserted message becomes stored, and nothing is unstored.
LEMMA InsertStores ==
  ASSUME TypeOK, NEW i \in Ids, NEW f \in Form, Insert(i, f)
  PROVE  Stored' = Stored \cup {i}
<1>1. CASE i \in Stored
  BY <1>1 DEF Insert, Stored
<1>2. CASE i \notin Stored
  <2> DEFINE m == [id |-> i, form |-> f]
             h == Home[i]
  <2>1. m \in Sent /\ log[h] \in Seq(Sent) /\ h \in Channels
    BY DEF Sent, TypeOK
  <2>2. log' = [log EXCEPT ![h] = Append(log[h], m)]
    BY <1>2 DEF Insert
  <2>3. /\ DOMAIN log'[h] = 1 .. (Len(log[h]) + 1)
        /\ log'[h][Len(log[h]) + 1] = m
        /\ \A k \in DOMAIN log[h] : k \in DOMAIN log'[h] /\ log'[h][k] = log[h][k]
        /\ DOMAIN log[h] = 1 .. Len(log[h])
    BY <2>1, <2>2 DEF TypeOK
  <2>4. \A c \in Channels : c # h => log'[c] = log[c]
    BY <2>2 DEF TypeOK
  <2>5. ASSUME NEW j \in Ids PROVE j \in Stored' <=> j \in Stored \/ j = i
    <3>1. CASE Home[j] # h
      BY <3>1, <2>4 DEF Stored
    <3>2. CASE Home[j] = h
      <4>1. j \in Stored <=> \E k \in DOMAIN log[h] : log[h][k].id = j
        BY <3>2 DEF Stored
      <4>2. j \in Stored' <=> \E k \in DOMAIN log'[h] : log'[h][k].id = j
        BY <3>2 DEF Stored
      <4>3. ASSUME NEW k \in DOMAIN log[h], log[h][k].id = j
            PROVE  \E n \in DOMAIN log'[h] : log'[h][n].id = j
        BY <4>3, <2>3
      <4>4. j = i => \E n \in DOMAIN log'[h] : log'[h][n].id = j
        <5>1. Len(log[h]) \in Nat
          BY <2>1
        <5>2. Len(log[h]) + 1 \in DOMAIN log'[h]
          BY <5>1, <2>3
        <5> QED BY <5>2, <2>3
      <4>5. ASSUME NEW n \in DOMAIN log'[h], log'[h][n].id = j
            PROVE  j = i \/ \E k \in DOMAIN log[h] : log[h][k].id = j
        <5>1. CASE n = Len(log[h]) + 1
          BY <5>1, <4>5, <2>3
        <5>2. CASE n # Len(log[h]) + 1
          <6>1. n \in DOMAIN log[h]
            <7>1. Len(log[h]) \in Nat
              BY <2>1
            <7> QED BY <7>1, <5>2, <4>5, <2>3
          <6> QED BY <6>1, <4>5, <2>3
        <5> QED BY <5>1, <5>2
      <4> QED BY <4>1, <4>2, <4>3, <4>4, <4>5
    <3> QED BY <3>1, <3>2
  <2>6. Stored' \subseteq Ids /\ Stored \subseteq Ids
    BY DEF Stored
  <2> QED BY <2>5, <2>6
<1> QED BY <1>1, <1>2

\* The log grows at its end, by a message it doesn't have.
LEMMA InsertAppends ==
  ASSUME TypeOK, NEW i \in Ids, NEW f \in Form, Insert(i, f),
         NEW c \in Channels, NEW k \in DOMAIN log'[c]
  PROVE  \/ k \in DOMAIN log[c] /\ log'[c][k] = log[c][k]
         \/ /\ c = Home[i] /\ log'[c][k].id = i /\ i \notin Stored
            /\ k = Len(log[c]) + 1 /\ \A m \in DOMAIN log[c] : m < k
<1>1. CASE i \in Stored
  BY <1>1 DEF Insert
<1>2. CASE i \notin Stored
  <2> DEFINE m == [id |-> i, form |-> f]
             h == Home[i]
  <2>1. m \in Sent /\ log[h] \in Seq(Sent) /\ h \in Channels /\ log[c] \in Seq(Sent)
    BY DEF Sent, TypeOK
  <2>2. log' = [log EXCEPT ![h] = Append(log[h], m)]
    BY <1>2 DEF Insert
  <2>3. CASE c # h
    BY <2>2, <2>3 DEF TypeOK
  <2>4. CASE c = h
    <3>1. log'[c] = Append(log[c], m)
      BY <2>2, <2>4 DEF TypeOK
    <3>2. k \in 1 .. (Len(log[c]) + 1) /\ DOMAIN log[c] = 1 .. Len(log[c])
      BY <2>1, <3>1
    <3>3. CASE k = Len(log[c]) + 1
      BY <1>2, <2>1, <2>4, <3>1, <3>2, <3>3
    <3>4. CASE k # Len(log[c]) + 1
      BY <2>1, <3>1, <3>2, <3>4
    <3> QED BY <3>3, <3>4
  <2> QED BY <2>3, <2>4
<1> QED BY <1>1, <1>2

\* What doesn't touch the log leaves what is stored as it is.
LEMMA StoredFrame == ASSUME UNCHANGED log PROVE Stored' = Stored
BY DEF Stored

-----------------------------------------------------------------------------
(* Each part is kept by every step.                                        *)

\* No step takes a row from beneath the attempt that holds its channel's lock.
LEMMA LocksStep == IInv /\ [Next]_vars => Locks'
<1> SUFFICES ASSUME IInv PROVE [Next]_vars => Locks'
  OBVIOUS
<1> USE DEF IInv, TypeInv, TypeOK, HolderHasWork, Locks, AttemptKeepsRow, Heads, RowsOf, Ledger,
            Doing, RowState, Unlocked, Executing, Current
<1>1. ASSUME NEW who \in {"me", "other"}, SignIn(who) PROVE Locks'
  BY <1>1 DEF SignIn, rowVars, senderVars, serverVars, history
<1>2. ASSUME SignOut PROVE Locks'
  BY <1>2 DEF SignOut, rowVars, senderVars, serverVars, history
<1>3. ASSUME Follow PROVE Locks'
  BY <1>3 DEF Follow, rowVars, senderVars, sessionVars, serverVars, history
<1>4. ASSUME Open PROVE Locks'
  BY <1>4 DEF Open, senderVars, sessionVars, serverVars, history
<1>5. ASSUME Close PROVE Locks'
  BY <1>5 DEF Close, Stops, Executing, RequestOf, Request, rowVars, sessionVars, history
<1>6. ASSUME Crash PROVE Locks'
  BY <1>6 DEF Crash, Stops, Executing, RequestOf, Request, Fault, rowVars, sessionVars, history
<1>7. ASSUME NEW i \in Ids, Enqueue(i) PROVE Locks'
  BY <1>7 DEF Enqueue, FormOf, senderVars, sessionVars, serverVars
<1>8. ASSUME NEW i \in Ids, SendDirect(i) PROVE Locks'
  BY <1>8 DEF SendDirect, FormOf, Departs, Fault, sessionVars, serverVars
<1>9. ASSUME NEW i \in Ids, Retry(i) PROVE Locks'
  BY <1>9 DEF Retry, senderVars, sessionVars, serverVars, history
<1>10. ASSUME NEW i \in Ids, RetryWithoutReply(i) PROVE Locks'
  BY <1>10 DEF RetryWithoutReply, senderVars, sessionVars, serverVars, history
<1>11. ASSUME NEW u \in Callers, NEW i \in Ids, AskDelete(u, i) PROVE Locks'
  BY <1>11 DEF AskDelete, rowVars, senderVars, sessionVars, serverVars, history
<1>12. ASSUME NEW u \in Callers, DoDelete(u) PROVE Locks'
  BY <1>12 DEF DoDelete, senderVars, sessionVars, serverVars
<1>13. ASSUME NEW u \in Callers, DeleteFails(u) PROVE Locks'
  BY <1>13 DEF DeleteFails, Fault, rowVars, senderVars, sessionVars, serverVars, history
<1>14. ASSUME NEW c \in Channels, Wake(c) PROVE Locks'
  BY <1>14 DEF Wake, rowVars, sessionVars, serverVars, history
<1>15. ASSUME NEW c \in Channels, Take(c) PROVE Locks'
  BY <1>15 DEF Take, Heads, RowsOf, sessionVars, serverVars, history
<1>16. ASSUME NEW c \in Channels, Idle(c) PROVE Locks'
  BY <1>16 DEF Idle, rowVars, sessionVars, serverVars, history
<1>17. ASSUME NEW c \in Channels, CantStart(c) PROVE Locks'
  BY <1>17 DEF CantStart, Fault, rowVars, sessionVars, serverVars, history
<1>18. ASSUME NEW c \in Channels, Post(c) PROVE Locks'
  BY <1>18 DEF Post, Departs, rowVars, sessionVars, serverVars
<1>19. ASSUME NEW c \in Channels, Lost(c) PROVE Locks'
  BY <1>19 DEF Lost, Fault, Abandoned, Executing, RequestOf, Request, rowVars, sessionVars, history
<1>20. ASSUME NEW c \in Channels, GiveBack(c) PROVE Locks'
  BY <1>20 DEF GiveBack, Waiting, Release, Executing, sessionVars, serverVars, history
<1>21. ASSUME NEW c \in Channels, Acked(c) PROVE Locks'
  BY <1>21 DEF Acked, rowVars, sessionVars, serverVars, history
<1>22. ASSUME NEW c \in Channels, Refused(c) PROVE Locks'
  BY <1>22 DEF Refused, Refusal, Release, sessionVars, serverVars, history
<1>23. ASSUME NEW c \in Channels, RefusedSent(c) PROVE Locks'
  BY <1>23 DEF RefusedSent, rowVars, sessionVars, serverVars, history
<1>24. ASSUME NEW c \in Channels, ApplyAck(c) PROVE Locks'
  BY <1>24 DEF ApplyAck, rowVars, sessionVars, serverVars, history
<1>25. ASSUME NEW c \in Channels, CacheFails(c) PROVE Locks'
  BY <1>25 DEF CacheFails, Fault, Release, sessionVars, serverVars, history
<1>26. ASSUME NEW c \in Channels, CacheFailsAgain(c) PROVE Locks'
  BY <1>26 DEF CacheFailsAgain, Fault, rowVars, sessionVars, serverVars, history
<1>27. ASSUME NEW c \in Channels, DropRow(c) PROVE Locks'
  BY <1>27 DEF DropRow, Release, sessionVars, serverVars, history
<1>28. ASSUME NEW c \in Channels, DropFails(c) PROVE Locks'
  BY <1>28 DEF DropFails, Fault, Release, sessionVars, serverVars, history
<1>29. ASSUME NEW c \in Channels, CantRecord(c) PROVE Locks'
  BY <1>29 DEF CantRecord, Fault, Release, rowVars, sessionVars, serverVars, history
<1>30. ASSUME NEW c \in Channels, DirectSent(c) PROVE Locks'
  BY <1>30 DEF DirectSent, rowVars, sessionVars, serverVars, history
<1>31. ASSUME NEW c \in Channels, DirectNotSent(c) PROVE Locks'
  BY <1>31 DEF DirectNotSent, Abandoned, Executing, RequestOf, Request, rowVars, sessionVars, history
<1>32. ASSUME NEW c \in Channels, ServeLookup(c) PROVE Locks'
  BY <1>32 DEF ServeLookup, Lookup, Refusal, rowVars, sessionVars, serverVars, history
<1>33. ASSUME NEW c \in Channels, ServeInsert(c) PROVE Locks'
  BY <1>33 DEF ServeInsert, rowVars, sessionVars, history
<1>34. ASSUME NEW c \in Channels, Admit(c) PROVE Locks'
  BY <1>34 DEF Admit, rowVars, senderVars, sessionVars, history
<1>35. ASSUME NEW r \in Request, LateLookup(r) PROVE Locks'
  BY <1>35 DEF LateLookup, Request, rowVars, senderVars, sessionVars, history
<1>36. ASSUME NEW r \in Request, LateInsert(r) PROVE Locks'
  BY <1>36 DEF LateInsert, Request, rowVars, senderVars, sessionVars, history
<1>37. ASSUME NEW r \in Request, LateDies(r) PROVE Locks'
  BY <1>37 DEF LateDies, rowVars, senderVars, sessionVars, history
<1>38. ASSUME TargetDeleted PROVE Locks'
  BY <1>38 DEF TargetDeleted, rowVars, senderVars, sessionVars, history
<1>39. ASSUME UNCHANGED vars PROVE Locks'
  BY <1>39 DEF vars, rowVars, senderVars, sessionVars, serverVars, history
<1> QED
  BY <1>1, <1>2, <1>3, <1>4, <1>5, <1>6, <1>7, <1>8, <1>9, <1>10, <1>11, <1>12, <1>13, <1>14, <1>15, <1>16, <1>17, <1>18, <1>19, <1>20, <1>21, <1>22, <1>23, <1>24, <1>25, <1>26, <1>27, <1>28, <1>29, <1>30, <1>31, <1>32, <1>33, <1>34, <1>35, <1>36, <1>37, <1>38, <1>39
     DEF Next, Session, User, Sender, Server

\* No step lets a sender hold, or a POST carry, another user's session.
LEMMA SessionsStep == IInv /\ [Next]_vars => Sessions'
<1> SUFFICES ASSUME IInv PROVE [Next]_vars => Sessions'
  OBVIOUS
<1> USE DEF IInv, Sessions, OwnSessionOnly, Unlocked, Executing, TypeInv, TypeOK, Current
<1>1. ASSUME NEW who \in {"me", "other"}, SignIn(who) PROVE Sessions'
  BY <1>1 DEF SignIn, rowVars, senderVars, serverVars, history
<1>2. ASSUME SignOut PROVE Sessions'
  BY <1>2 DEF SignOut, rowVars, senderVars, serverVars, history
<1>3. ASSUME Follow PROVE Sessions'
  BY <1>3 DEF Follow, rowVars, senderVars, sessionVars, serverVars, history
<1>4. ASSUME Open PROVE Sessions'
  BY <1>4 DEF Open, senderVars, sessionVars, serverVars, history
<1>5. ASSUME Close PROVE Sessions'
  BY <1>5 DEF Close, Stops, Executing, RequestOf, Request, rowVars, sessionVars, history
<1>6. ASSUME Crash PROVE Sessions'
  BY <1>6 DEF Crash, Stops, Executing, RequestOf, Request, Fault, rowVars, sessionVars, history
<1>7. ASSUME NEW i \in Ids, Enqueue(i) PROVE Sessions'
  BY <1>7 DEF Enqueue, FormOf, senderVars, sessionVars, serverVars
<1>8. ASSUME NEW i \in Ids, SendDirect(i) PROVE Sessions'
  BY <1>8 DEF SendDirect, FormOf, Departs, Fault, sessionVars, serverVars
<1>9. ASSUME NEW i \in Ids, Retry(i) PROVE Sessions'
  BY <1>9 DEF Retry, senderVars, sessionVars, serverVars, history
<1>10. ASSUME NEW i \in Ids, RetryWithoutReply(i) PROVE Sessions'
  BY <1>10 DEF RetryWithoutReply, senderVars, sessionVars, serverVars, history
<1>11. ASSUME NEW u \in Callers, NEW i \in Ids, AskDelete(u, i) PROVE Sessions'
  BY <1>11 DEF AskDelete, rowVars, senderVars, sessionVars, serverVars, history
<1>12. ASSUME NEW u \in Callers, DoDelete(u) PROVE Sessions'
  BY <1>12 DEF DoDelete, senderVars, sessionVars, serverVars
<1>13. ASSUME NEW u \in Callers, DeleteFails(u) PROVE Sessions'
  BY <1>13 DEF DeleteFails, Fault, rowVars, senderVars, sessionVars, serverVars, history
<1>14. ASSUME NEW c \in Channels, Wake(c) PROVE Sessions'
  BY <1>14 DEF Wake, rowVars, sessionVars, serverVars, history
<1>15. ASSUME NEW c \in Channels, Take(c) PROVE Sessions'
  BY <1>15 DEF Take, Heads, RowsOf, sessionVars, serverVars, history
<1>16. ASSUME NEW c \in Channels, Idle(c) PROVE Sessions'
  BY <1>16 DEF Idle, rowVars, sessionVars, serverVars, history
<1>17. ASSUME NEW c \in Channels, CantStart(c) PROVE Sessions'
  BY <1>17 DEF CantStart, Fault, rowVars, sessionVars, serverVars, history
<1>18. ASSUME NEW c \in Channels, Post(c) PROVE Sessions'
  BY <1>18 DEF Post, Departs, rowVars, sessionVars, serverVars
<1>19. ASSUME NEW c \in Channels, Lost(c) PROVE Sessions'
  BY <1>19 DEF Lost, Fault, Abandoned, Executing, RequestOf, Request, rowVars, sessionVars, history
<1>20. ASSUME NEW c \in Channels, GiveBack(c) PROVE Sessions'
  BY <1>20 DEF GiveBack, Waiting, Release, Executing, sessionVars, serverVars, history
<1>21. ASSUME NEW c \in Channels, Acked(c) PROVE Sessions'
  BY <1>21 DEF Acked, rowVars, sessionVars, serverVars, history
<1>22. ASSUME NEW c \in Channels, Refused(c) PROVE Sessions'
  BY <1>22 DEF Refused, Refusal, Release, sessionVars, serverVars, history
<1>23. ASSUME NEW c \in Channels, RefusedSent(c) PROVE Sessions'
  BY <1>23 DEF RefusedSent, rowVars, sessionVars, serverVars, history
<1>24. ASSUME NEW c \in Channels, ApplyAck(c) PROVE Sessions'
  BY <1>24 DEF ApplyAck, rowVars, sessionVars, serverVars, history
<1>25. ASSUME NEW c \in Channels, CacheFails(c) PROVE Sessions'
  BY <1>25 DEF CacheFails, Fault, Release, sessionVars, serverVars, history
<1>26. ASSUME NEW c \in Channels, CacheFailsAgain(c) PROVE Sessions'
  BY <1>26 DEF CacheFailsAgain, Fault, rowVars, sessionVars, serverVars, history
<1>27. ASSUME NEW c \in Channels, DropRow(c) PROVE Sessions'
  BY <1>27 DEF DropRow, Release, sessionVars, serverVars, history
<1>28. ASSUME NEW c \in Channels, DropFails(c) PROVE Sessions'
  BY <1>28 DEF DropFails, Fault, Release, sessionVars, serverVars, history
<1>29. ASSUME NEW c \in Channels, CantRecord(c) PROVE Sessions'
  BY <1>29 DEF CantRecord, Fault, Release, rowVars, sessionVars, serverVars, history
<1>30. ASSUME NEW c \in Channels, DirectSent(c) PROVE Sessions'
  BY <1>30 DEF DirectSent, rowVars, sessionVars, serverVars, history
<1>31. ASSUME NEW c \in Channels, DirectNotSent(c) PROVE Sessions'
  BY <1>31 DEF DirectNotSent, Abandoned, Executing, RequestOf, Request, rowVars, sessionVars, history
<1>32. ASSUME NEW c \in Channels, ServeLookup(c) PROVE Sessions'
  BY <1>32 DEF ServeLookup, Lookup, Refusal, rowVars, sessionVars, serverVars, history
<1>33. ASSUME NEW c \in Channels, ServeInsert(c) PROVE Sessions'
  BY <1>33 DEF ServeInsert, rowVars, sessionVars, history
<1>34. ASSUME NEW c \in Channels, Admit(c) PROVE Sessions'
  BY <1>34 DEF Admit, rowVars, senderVars, sessionVars, history
<1>35. ASSUME NEW r \in Request, LateLookup(r) PROVE Sessions'
  BY <1>35 DEF LateLookup, Request, rowVars, senderVars, sessionVars, history
<1>36. ASSUME NEW r \in Request, LateInsert(r) PROVE Sessions'
  BY <1>36 DEF LateInsert, Request, rowVars, senderVars, sessionVars, history
<1>37. ASSUME NEW r \in Request, LateDies(r) PROVE Sessions'
  BY <1>37 DEF LateDies, rowVars, senderVars, sessionVars, history
<1>38. ASSUME TargetDeleted PROVE Sessions'
  BY <1>38 DEF TargetDeleted, rowVars, senderVars, sessionVars, history
<1>39. ASSUME UNCHANGED vars PROVE Sessions'
  BY <1>39 DEF vars, rowVars, senderVars, sessionVars, serverVars, history
<1> QED
  BY <1>1, <1>2, <1>3, <1>4, <1>5, <1>6, <1>7, <1>8, <1>9, <1>10, <1>11, <1>12, <1>13, <1>14, <1>15, <1>16, <1>17, <1>18, <1>19, <1>20, <1>21, <1>22, <1>23, <1>24, <1>25, <1>26, <1>27, <1>28, <1>29, <1>30, <1>31, <1>32, <1>33, <1>34, <1>35, <1>36, <1>37, <1>38, <1>39
     DEF Next, Session, User, Sender, Server

\* An insert of a posted message keeps the log one of posted messages, each once.
LEMMA InsertKeepsLog ==
  ASSUME IInv, NEW i \in Ids, NEW f \in Form, i \in posted, Insert(i, f), UNCHANGED posted
  PROVE  LogPosted' /\ AtMostOnce'
<1> USE DEF IInv, TypeInv
<1>1. LogPosted'
  BY InsertAppends DEF Served, LogPosted
<1>2. ASSUME NEW c \in Channels, NEW m \in DOMAIN log'[c], NEW n \in DOMAIN log'[c],
             log'[c][m].id = log'[c][n].id
      PROVE  m = n
  <2>1. CASE m \in DOMAIN log[c] /\ log'[c][m] = log[c][m]
    <3>1. CASE n \in DOMAIN log[c] /\ log'[c][n] = log[c][n]
      BY <1>2, <2>1, <3>1 DEF Served, AtMostOnce
    <3>2. CASE c = Home[i] /\ log'[c][n].id = i /\ i \notin Stored
      BY <1>2, <2>1, <3>2 DEF Stored
    <3> QED BY <3>1, <3>2, InsertAppends
  <2>2. CASE c = Home[i] /\ log'[c][m].id = i /\ i \notin Stored /\ m = Len(log[c]) + 1
    <3>1. CASE n \in DOMAIN log[c] /\ log'[c][n] = log[c][n]
      BY <1>2, <2>2, <3>1 DEF Stored
    <3>2. CASE n = Len(log[c]) + 1
      BY <2>2, <3>2
    <3> QED BY <3>1, <3>2, InsertAppends
  <2> QED BY <2>1, <2>2, InsertAppends
<1> QED BY <1>1, <1>2 DEF AtMostOnce

\* What the device believes sent stays stored, and stored once.
LEMMA ServedStep == IInv /\ [Next]_vars => Served'
<1> SUFFICES ASSUME IInv PROVE [Next]_vars => Served'
  OBVIOUS
<1> USE DEF IInv, Served, SentIsStored, LogPosted, AtMostOnce, Locks, AttemptKeepsRow, Heads, RowsOf,
            TypeInv, TypeOK, HolderHasWork, Unlocked, Current
<1>1. ASSUME NEW who \in {"me", "other"}, SignIn(who) PROVE Served'
  BY <1>1, StoredFrame DEF SignIn, rowVars, senderVars, serverVars, history
<1>2. ASSUME SignOut PROVE Served'
  BY <1>2, StoredFrame DEF SignOut, rowVars, senderVars, serverVars, history
<1>3. ASSUME Follow PROVE Served'
  BY <1>3, StoredFrame DEF Follow, rowVars, senderVars, sessionVars, serverVars, history
<1>4. ASSUME Open PROVE Served'
  BY <1>4, StoredFrame DEF Open, senderVars, sessionVars, serverVars, history
<1>5. ASSUME Close PROVE Served'
  BY <1>5, StoredFrame DEF Close, Stops, Executing, RequestOf, Request, rowVars, sessionVars, history
<1>6. ASSUME Crash PROVE Served'
  BY <1>6, StoredFrame DEF Crash, Stops, Executing, RequestOf, Request, Fault, rowVars, sessionVars, history
<1>7. ASSUME NEW i \in Ids, Enqueue(i) PROVE Served'
  BY <1>7, StoredFrame DEF Enqueue, FormOf, senderVars, sessionVars, serverVars
<1>8. ASSUME NEW i \in Ids, SendDirect(i) PROVE Served'
  BY <1>8, StoredFrame DEF SendDirect, FormOf, Departs, Fault, sessionVars, serverVars
<1>9. ASSUME NEW i \in Ids, Retry(i) PROVE Served'
  BY <1>9, StoredFrame DEF Retry, senderVars, sessionVars, serverVars, history
<1>10. ASSUME NEW i \in Ids, RetryWithoutReply(i) PROVE Served'
  BY <1>10, StoredFrame DEF RetryWithoutReply, senderVars, sessionVars, serverVars, history
<1>11. ASSUME NEW u \in Callers, NEW i \in Ids, AskDelete(u, i) PROVE Served'
  BY <1>11, StoredFrame DEF AskDelete, rowVars, senderVars, sessionVars, serverVars, history
<1>12. ASSUME NEW u \in Callers, DoDelete(u) PROVE Served'
  BY <1>12, StoredFrame DEF DoDelete, senderVars, sessionVars, serverVars
<1>13. ASSUME NEW u \in Callers, DeleteFails(u) PROVE Served'
  BY <1>13, StoredFrame DEF DeleteFails, Fault, rowVars, senderVars, sessionVars, serverVars, history
<1>14. ASSUME NEW c \in Channels, Wake(c) PROVE Served'
  BY <1>14, StoredFrame DEF Wake, rowVars, sessionVars, serverVars, history
<1>15. ASSUME NEW c \in Channels, Take(c) PROVE Served'
  BY <1>15, StoredFrame DEF Take, Heads, RowsOf, sessionVars, serverVars, history
<1>16. ASSUME NEW c \in Channels, Idle(c) PROVE Served'
  BY <1>16, StoredFrame DEF Idle, rowVars, sessionVars, serverVars, history
<1>17. ASSUME NEW c \in Channels, CantStart(c) PROVE Served'
  BY <1>17, StoredFrame DEF CantStart, Fault, rowVars, sessionVars, serverVars, history
<1>18. ASSUME NEW c \in Channels, Post(c) PROVE Served'
  BY <1>18, StoredFrame DEF Post, Departs, rowVars, sessionVars, serverVars
<1>19. ASSUME NEW c \in Channels, Lost(c) PROVE Served'
  BY <1>19, StoredFrame DEF Lost, Fault, Abandoned, Executing, RequestOf, Request, rowVars, sessionVars, history
<1>20. ASSUME NEW c \in Channels, GiveBack(c) PROVE Served'
  BY <1>20, StoredFrame DEF GiveBack, Waiting, Release, Executing, sessionVars, serverVars, history
<1>21. ASSUME NEW c \in Channels, Acked(c) PROVE Served'
  BY <1>21, StoredFrame DEF Acked, rowVars, sessionVars, serverVars, history
<1>22. ASSUME NEW c \in Channels, Refused(c) PROVE Served'
  BY <1>22, StoredFrame DEF Refused, Refusal, Release, sessionVars, serverVars, history
<1>23. ASSUME NEW c \in Channels, RefusedSent(c) PROVE Served'
  BY <1>23, StoredFrame DEF RefusedSent, rowVars, sessionVars, serverVars, history
<1>24. ASSUME NEW c \in Channels, ApplyAck(c) PROVE Served'
  BY <1>24, StoredFrame DEF ApplyAck, rowVars, sessionVars, serverVars, history
<1>25. ASSUME NEW c \in Channels, CacheFails(c) PROVE Served'
  BY <1>25, StoredFrame DEF CacheFails, Fault, Release, sessionVars, serverVars, history
<1>26. ASSUME NEW c \in Channels, CacheFailsAgain(c) PROVE Served'
  BY <1>26, StoredFrame DEF CacheFailsAgain, Fault, rowVars, sessionVars, serverVars, history
<1>27. ASSUME NEW c \in Channels, DropRow(c) PROVE Served'
  BY <1>27, StoredFrame DEF DropRow, Release, sessionVars, serverVars, history
<1>28. ASSUME NEW c \in Channels, DropFails(c) PROVE Served'
  BY <1>28, StoredFrame DEF DropFails, Fault, Release, sessionVars, serverVars, history
<1>29. ASSUME NEW c \in Channels, CantRecord(c) PROVE Served'
  BY <1>29, StoredFrame DEF CantRecord, Fault, Release, rowVars, sessionVars, serverVars, history
<1>30. ASSUME NEW c \in Channels, DirectSent(c) PROVE Served'
  BY <1>30, StoredFrame DEF DirectSent, rowVars, sessionVars, serverVars, history
<1>31. ASSUME NEW c \in Channels, DirectNotSent(c) PROVE Served'
  BY <1>31, StoredFrame DEF DirectNotSent, Abandoned, Executing, RequestOf, Request, rowVars, sessionVars, history
<1>32. ASSUME NEW c \in Channels, ServeLookup(c) PROVE Served'
  BY <1>32, StoredFrame DEF ServeLookup, Lookup, Refusal, rowVars, sessionVars, serverVars, history
<1>33. ASSUME NEW c \in Channels, ServeInsert(c) PROVE Served'
  <2>1. PICK i \in Ids, f \in Form : i = at[c] /\ i \in posted /\ Insert(i, f) /\ UNCHANGED posted
    BY <1>33 DEF ServeInsert, history
  <2>2. Stored' = Stored \cup {i} /\ LogPosted' /\ AtMostOnce'
    BY <2>1, InsertStores, InsertKeepsLog
  <2> QED
    BY <1>33, <2>1, <2>2 DEF ServeInsert, rowVars, history
<1>34. ASSUME NEW c \in Channels, Admit(c) PROVE Served'
  BY <1>34, StoredFrame DEF Admit, rowVars, senderVars, sessionVars, history
<1>35. ASSUME NEW r \in Request, LateLookup(r) PROVE Served'
  <2>1. [r EXCEPT !.stage = "looked"].id = r.id /\ r.id \in posted
    BY <1>35 DEF LateLookup, Request
  <2>2. late' \subseteq late \cup {[r EXCEPT !.stage = "looked"]}
    BY <1>35 DEF LateLookup
  <2>3. ASSUME NEW q \in late' PROVE q.id \in posted
    <3>1. CASE q \in late
      BY <3>1
    <3>2. CASE q = [r EXCEPT !.stage = "looked"]
      BY <3>2, <2>1
    <3> QED BY <3>1, <3>2, <2>2
  <2> QED BY <1>35, <2>3, StoredFrame DEF LateLookup, rowVars, senderVars, sessionVars, history
<1>36. ASSUME NEW r \in Request, LateInsert(r) PROVE Served'
  <2>1. r.id \in Ids /\ r.form \in Form /\ r.id \in posted /\ Insert(r.id, r.form) /\ UNCHANGED posted
    BY <1>36 DEF LateInsert, Request, history
  <2>2. Stored' = Stored \cup {r.id} /\ LogPosted' /\ AtMostOnce'
    BY <2>1, InsertStores, InsertKeepsLog
  <2> QED
    BY <1>36, <2>2 DEF LateInsert, rowVars, senderVars, history
<1>37. ASSUME NEW r \in Request, LateDies(r) PROVE Served'
  BY <1>37, StoredFrame DEF LateDies, rowVars, senderVars, sessionVars, history
<1>38. ASSUME TargetDeleted PROVE Served'
  BY <1>38, StoredFrame DEF TargetDeleted, rowVars, senderVars, sessionVars, history
<1>39. ASSUME UNCHANGED vars PROVE Served'
  BY <1>39, StoredFrame DEF vars, rowVars, senderVars, sessionVars, serverVars, history
<1> QED
  BY <1>1, <1>2, <1>3, <1>4, <1>5, <1>6, <1>7, <1>8, <1>9, <1>10, <1>11, <1>12, <1>13, <1>14, <1>15, <1>16, <1>17, <1>18, <1>19, <1>20, <1>21, <1>22, <1>23, <1>24, <1>25, <1>26, <1>27, <1>28, <1>29, <1>30, <1>31, <1>32, <1>33, <1>34, <1>35, <1>36, <1>37, <1>38, <1>39
     DEF Next, Session, User, Sender, Server

\* No step loses a message the user is owed.
LEMMA LedgerStep == IInv /\ [Next]_vars => Ledger'
<1> SUFFICES ASSUME IInv PROVE [Next]_vars => Ledger'
  OBVIOUS
<1> USE DEF IInv, Ledger, NothingLost, Locks, AttemptKeepsRow, Heads, RowsOf,
            Served, SentIsStored, LogPosted, TypeInv, TypeOK, HolderHasWork, Unlocked, Current
<1>1. ASSUME NEW who \in {"me", "other"}, SignIn(who) PROVE Ledger'
  BY <1>1, StoredFrame DEF SignIn, rowVars, senderVars, serverVars, history
<1>2. ASSUME SignOut PROVE Ledger'
  BY <1>2, StoredFrame DEF SignOut, rowVars, senderVars, serverVars, history
<1>3. ASSUME Follow PROVE Ledger'
  BY <1>3, StoredFrame DEF Follow, rowVars, senderVars, sessionVars, serverVars, history
<1>4. ASSUME Open PROVE Ledger'
  BY <1>4, StoredFrame DEF Open, senderVars, sessionVars, serverVars, history
<1>5. ASSUME Close PROVE Ledger'
  BY <1>5, StoredFrame DEF Close, Stops, Executing, RequestOf, Request, rowVars, sessionVars, history
<1>6. ASSUME Crash PROVE Ledger'
  BY <1>6, StoredFrame DEF Crash, Stops, Executing, RequestOf, Request, Fault, rowVars, sessionVars, history
<1>7. ASSUME NEW i \in Ids, Enqueue(i) PROVE Ledger'
  BY <1>7, StoredFrame DEF Enqueue, FormOf, senderVars, sessionVars, serverVars
<1>8. ASSUME NEW i \in Ids, SendDirect(i) PROVE Ledger'
  BY <1>8, StoredFrame DEF SendDirect, FormOf, Departs, Fault, sessionVars, serverVars
<1>9. ASSUME NEW i \in Ids, Retry(i) PROVE Ledger'
  BY <1>9, StoredFrame DEF Retry, senderVars, sessionVars, serverVars, history
<1>10. ASSUME NEW i \in Ids, RetryWithoutReply(i) PROVE Ledger'
  BY <1>10, StoredFrame DEF RetryWithoutReply, senderVars, sessionVars, serverVars, history
<1>11. ASSUME NEW u \in Callers, NEW i \in Ids, AskDelete(u, i) PROVE Ledger'
  BY <1>11, StoredFrame DEF AskDelete, rowVars, senderVars, sessionVars, serverVars, history
<1>12. ASSUME NEW u \in Callers, DoDelete(u) PROVE Ledger'
  BY <1>12, StoredFrame DEF DoDelete, senderVars, sessionVars, serverVars
<1>13. ASSUME NEW u \in Callers, DeleteFails(u) PROVE Ledger'
  BY <1>13, StoredFrame DEF DeleteFails, Fault, rowVars, senderVars, sessionVars, serverVars, history
<1>14. ASSUME NEW c \in Channels, Wake(c) PROVE Ledger'
  BY <1>14, StoredFrame DEF Wake, rowVars, sessionVars, serverVars, history
<1>15. ASSUME NEW c \in Channels, Take(c) PROVE Ledger'
  BY <1>15, StoredFrame DEF Take, Heads, RowsOf, sessionVars, serverVars, history
<1>16. ASSUME NEW c \in Channels, Idle(c) PROVE Ledger'
  BY <1>16, StoredFrame DEF Idle, rowVars, sessionVars, serverVars, history
<1>17. ASSUME NEW c \in Channels, CantStart(c) PROVE Ledger'
  BY <1>17, StoredFrame DEF CantStart, Fault, rowVars, sessionVars, serverVars, history
<1>18. ASSUME NEW c \in Channels, Post(c) PROVE Ledger'
  BY <1>18, StoredFrame DEF Post, Departs, rowVars, sessionVars, serverVars
<1>19. ASSUME NEW c \in Channels, Lost(c) PROVE Ledger'
  BY <1>19, StoredFrame DEF Lost, Fault, Abandoned, Executing, RequestOf, Request, rowVars, sessionVars, history
<1>20. ASSUME NEW c \in Channels, GiveBack(c) PROVE Ledger'
  BY <1>20, StoredFrame DEF GiveBack, Waiting, Release, Executing, sessionVars, serverVars, history
<1>21. ASSUME NEW c \in Channels, Acked(c) PROVE Ledger'
  BY <1>21, StoredFrame DEF Acked, rowVars, sessionVars, serverVars, history
<1>22. ASSUME NEW c \in Channels, Refused(c) PROVE Ledger'
  BY <1>22, StoredFrame DEF Refused, Refusal, Release, sessionVars, serverVars, history
<1>23. ASSUME NEW c \in Channels, RefusedSent(c) PROVE Ledger'
  BY <1>23, StoredFrame DEF RefusedSent, rowVars, sessionVars, serverVars, history
<1>24. ASSUME NEW c \in Channels, ApplyAck(c) PROVE Ledger'
  BY <1>24, StoredFrame DEF ApplyAck, rowVars, sessionVars, serverVars, history
<1>25. ASSUME NEW c \in Channels, CacheFails(c) PROVE Ledger'
  BY <1>25, StoredFrame DEF CacheFails, Fault, Release, sessionVars, serverVars, history
<1>26. ASSUME NEW c \in Channels, CacheFailsAgain(c) PROVE Ledger'
  BY <1>26, StoredFrame DEF CacheFailsAgain, Fault, rowVars, sessionVars, serverVars, history
<1>27. ASSUME NEW c \in Channels, DropRow(c) PROVE Ledger'
  BY <1>27, StoredFrame DEF DropRow, Release, sessionVars, serverVars, history
<1>28. ASSUME NEW c \in Channels, DropFails(c) PROVE Ledger'
  BY <1>28, StoredFrame DEF DropFails, Fault, Release, sessionVars, serverVars, history
<1>29. ASSUME NEW c \in Channels, CantRecord(c) PROVE Ledger'
  BY <1>29, StoredFrame DEF CantRecord, Fault, Release, rowVars, sessionVars, serverVars, history
<1>30. ASSUME NEW c \in Channels, DirectSent(c) PROVE Ledger'
  BY <1>30, StoredFrame DEF DirectSent, rowVars, sessionVars, serverVars, history
<1>31. ASSUME NEW c \in Channels, DirectNotSent(c) PROVE Ledger'
  BY <1>31, StoredFrame DEF DirectNotSent, Abandoned, Executing, RequestOf, Request, rowVars, sessionVars, history
<1>32. ASSUME NEW c \in Channels, ServeLookup(c) PROVE Ledger'
  BY <1>32, StoredFrame DEF ServeLookup, Lookup, Refusal, rowVars, sessionVars, serverVars, history
<1>33. ASSUME NEW c \in Channels, ServeInsert(c) PROVE Ledger'
  <2>1. PICK i \in Ids, f \in Form : i = at[c] /\ i \in posted /\ Insert(i, f)
    BY <1>33 DEF ServeInsert
  <2>2. Stored' = Stored \cup {at[c]}
    BY <2>1, InsertStores
  <2> QED
    BY <1>33, <2>2 DEF ServeInsert, rowVars, sessionVars, history
<1>34. ASSUME NEW c \in Channels, Admit(c) PROVE Ledger'
  BY <1>34, StoredFrame DEF Admit, rowVars, senderVars, sessionVars, history
<1>35. ASSUME NEW r \in Request, LateLookup(r) PROVE Ledger'
  BY <1>35, StoredFrame DEF LateLookup, Request, rowVars, senderVars, sessionVars, history
<1>36. ASSUME NEW r \in Request, LateInsert(r) PROVE Ledger'
  <2>1. r.id \in Ids /\ r.form \in Form /\ r.id \in posted /\ Insert(r.id, r.form)
    BY <1>36 DEF LateInsert, Request
  <2>2. Stored' = Stored \cup {r.id}
    BY <2>1, InsertStores
  <2> QED
    BY <1>36, <2>2 DEF LateInsert, rowVars, senderVars, history
<1>37. ASSUME NEW r \in Request, LateDies(r) PROVE Ledger'
  BY <1>37, StoredFrame DEF LateDies, rowVars, senderVars, sessionVars, history
<1>38. ASSUME TargetDeleted PROVE Ledger'
  BY <1>38, StoredFrame DEF TargetDeleted, rowVars, senderVars, sessionVars, history
<1>39. ASSUME UNCHANGED vars PROVE Ledger'
  BY <1>39, StoredFrame DEF vars, rowVars, senderVars, sessionVars, serverVars, history
<1> QED
  BY <1>1, <1>2, <1>3, <1>4, <1>5, <1>6, <1>7, <1>8, <1>9, <1>10, <1>11, <1>12, <1>13, <1>14, <1>15, <1>16, <1>17, <1>18, <1>19, <1>20, <1>21, <1>22, <1>23, <1>24, <1>25, <1>26, <1>27, <1>28, <1>29, <1>30, <1>31, <1>32, <1>33, <1>34, <1>35, <1>36, <1>37, <1>38, <1>39
     DEF Next, Session, User, Sender, Server

\* An insert of a posted message comes after everything queued before it.
LEMMA InsertKeepsOrder ==
  ASSUME IInv, NEW i \in Ids, NEW f \in Form, i \in posted, Insert(i, f),
         UNCHANGED <<ord, loose, posted>>
  PROVE  Ordered'
<1> USE DEF IInv, TypeInv
<1>1. EarlierStored'
  BY InsertStores DEF Ordered, EarlierStored
<1>2. ASSUME NEW c \in Channels, NEW m \in DOMAIN log'[c], NEW n \in DOMAIN log'[c], m < n,
             log'[c][m].id \notin loose, log'[c][n].id \notin loose
      PROVE  ord[log'[c][m].id] < ord[log'[c][n].id]
  <2>1. DOMAIN log[c] = 1 .. Len(log[c]) /\ Len(log[c]) \in Nat
    BY DEF TypeOK
  <2>2. m \in DOMAIN log[c] /\ log'[c][m] = log[c][m]
    BY <1>2, <2>1, InsertAppends
  <2>3. CASE n \in DOMAIN log[c] /\ log'[c][n] = log[c][n]
    BY <1>2, <2>2, <2>3 DEF Ordered, InOrder
  <2>4. CASE c = Home[i] /\ log'[c][n].id = i /\ i \notin Stored
    <3> DEFINE j == log[c][m].id
    <3>1. j \in Ids /\ j \in posted /\ Home[j] = c
      BY <2>2 DEF Served, LogPosted, TypeOK
    <3>2. j \in Stored
      BY <3>1, <2>2 DEF Stored
    <3>3. ord[i] > 0 /\ ord[j] > 0 /\ ord[i] # ord[j] /\ ord[i] \in Nat /\ ord[j] \in Nat
      BY <1>2, <2>2, <2>4, <3>1, <3>2 DEF Ledger, TypeOK
    <3>4. ~(ord[i] < ord[j])
      BY <1>2, <2>2, <2>4, <3>1, <3>3 DEF Ordered, EarlierStored
    <3> QED BY <2>2, <2>4, <3>3, <3>4
  <2> QED BY <2>3, <2>4, InsertAppends
<1> QED BY <1>1, <1>2 DEF Ordered, InOrder

\* No step stores a message before one queued earlier.
LEMMA OrderedStep == IInv /\ [Next]_vars => Ordered'
<1> SUFFICES ASSUME IInv PROVE [Next]_vars => Ordered'
  OBVIOUS
<1> USE DEF IInv, Ordered, EarlierStored, InOrder, Ledger, NothingLost, Locks, AttemptKeepsRow, Heads, RowsOf,
            Served, LogPosted, TypeInv, TypeOK, HolderHasWork, Unlocked
<1>1. ASSUME NEW who \in {"me", "other"}, SignIn(who) PROVE Ordered'
  BY <1>1, StoredFrame DEF SignIn, rowVars, senderVars, serverVars, history
<1>2. ASSUME SignOut PROVE Ordered'
  BY <1>2, StoredFrame DEF SignOut, rowVars, senderVars, serverVars, history
<1>3. ASSUME Follow PROVE Ordered'
  BY <1>3, StoredFrame DEF Follow, rowVars, senderVars, sessionVars, serverVars, history
<1>4. ASSUME Open PROVE Ordered'
  BY <1>4, StoredFrame DEF Open, senderVars, sessionVars, serverVars, history
<1>5. ASSUME Close PROVE Ordered'
  BY <1>5, StoredFrame DEF Close, Stops, Executing, RequestOf, Request, rowVars, sessionVars, history
<1>6. ASSUME Crash PROVE Ordered'
  BY <1>6, StoredFrame DEF Crash, Stops, Executing, RequestOf, Request, Fault, rowVars, sessionVars, history
<1>7. ASSUME NEW i \in Ids, Enqueue(i) PROVE Ordered'
  BY <1>7, StoredFrame DEF Enqueue, FormOf, senderVars, sessionVars, serverVars
<1>8. ASSUME NEW i \in Ids, SendDirect(i) PROVE Ordered'
  BY <1>8, StoredFrame DEF SendDirect, FormOf, Departs, Fault, sessionVars, serverVars
<1>9. ASSUME NEW i \in Ids, Retry(i) PROVE Ordered'
  BY <1>9, StoredFrame DEF Retry, senderVars, sessionVars, serverVars, history
<1>10. ASSUME NEW i \in Ids, RetryWithoutReply(i) PROVE Ordered'
  BY <1>10, StoredFrame DEF RetryWithoutReply, senderVars, sessionVars, serverVars, history
<1>11. ASSUME NEW u \in Callers, NEW i \in Ids, AskDelete(u, i) PROVE Ordered'
  BY <1>11, StoredFrame DEF AskDelete, rowVars, senderVars, sessionVars, serverVars, history
<1>12. ASSUME NEW u \in Callers, DoDelete(u) PROVE Ordered'
  BY <1>12, StoredFrame DEF DoDelete, senderVars, sessionVars, serverVars
<1>13. ASSUME NEW u \in Callers, DeleteFails(u) PROVE Ordered'
  BY <1>13, StoredFrame DEF DeleteFails, Fault, rowVars, senderVars, sessionVars, serverVars, history
<1>14. ASSUME NEW c \in Channels, Wake(c) PROVE Ordered'
  BY <1>14, StoredFrame DEF Wake, rowVars, sessionVars, serverVars, history
<1>15. ASSUME NEW c \in Channels, Take(c) PROVE Ordered'
  BY <1>15, StoredFrame DEF Take, Heads, RowsOf, sessionVars, serverVars, history
<1>16. ASSUME NEW c \in Channels, Idle(c) PROVE Ordered'
  BY <1>16, StoredFrame DEF Idle, rowVars, sessionVars, serverVars, history
<1>17. ASSUME NEW c \in Channels, CantStart(c) PROVE Ordered'
  BY <1>17, StoredFrame DEF CantStart, Fault, rowVars, sessionVars, serverVars, history
<1>18. ASSUME NEW c \in Channels, Post(c) PROVE Ordered'
  BY <1>18, StoredFrame DEF Post, Departs, rowVars, sessionVars, serverVars
<1>19. ASSUME NEW c \in Channels, Lost(c) PROVE Ordered'
  BY <1>19, StoredFrame DEF Lost, Fault, Abandoned, Executing, RequestOf, Request, rowVars, sessionVars, history
<1>20. ASSUME NEW c \in Channels, GiveBack(c) PROVE Ordered'
  BY <1>20, StoredFrame DEF GiveBack, Waiting, Release, Executing, sessionVars, serverVars, history
<1>21. ASSUME NEW c \in Channels, Acked(c) PROVE Ordered'
  BY <1>21, StoredFrame DEF Acked, rowVars, sessionVars, serverVars, history
<1>22. ASSUME NEW c \in Channels, Refused(c) PROVE Ordered'
  BY <1>22, StoredFrame DEF Refused, Refusal, Release, sessionVars, serverVars, history
<1>23. ASSUME NEW c \in Channels, RefusedSent(c) PROVE Ordered'
  BY <1>23, StoredFrame DEF RefusedSent, rowVars, sessionVars, serverVars, history
<1>24. ASSUME NEW c \in Channels, ApplyAck(c) PROVE Ordered'
  BY <1>24, StoredFrame DEF ApplyAck, rowVars, sessionVars, serverVars, history
<1>25. ASSUME NEW c \in Channels, CacheFails(c) PROVE Ordered'
  BY <1>25, StoredFrame DEF CacheFails, Fault, Release, sessionVars, serverVars, history
<1>26. ASSUME NEW c \in Channels, CacheFailsAgain(c) PROVE Ordered'
  BY <1>26, StoredFrame DEF CacheFailsAgain, Fault, rowVars, sessionVars, serverVars, history
<1>27. ASSUME NEW c \in Channels, DropRow(c) PROVE Ordered'
  BY <1>27, StoredFrame DEF DropRow, Release, sessionVars, serverVars, history
<1>28. ASSUME NEW c \in Channels, DropFails(c) PROVE Ordered'
  BY <1>28, StoredFrame DEF DropFails, Fault, Release, sessionVars, serverVars, history
<1>29. ASSUME NEW c \in Channels, CantRecord(c) PROVE Ordered'
  BY <1>29, StoredFrame DEF CantRecord, Fault, Release, rowVars, sessionVars, serverVars, history
<1>30. ASSUME NEW c \in Channels, DirectSent(c) PROVE Ordered'
  BY <1>30, StoredFrame DEF DirectSent, rowVars, sessionVars, serverVars, history
<1>31. ASSUME NEW c \in Channels, DirectNotSent(c) PROVE Ordered'
  BY <1>31, StoredFrame DEF DirectNotSent, Abandoned, Executing, RequestOf, Request, rowVars, sessionVars, history
<1>32. ASSUME NEW c \in Channels, ServeLookup(c) PROVE Ordered'
  BY <1>32, StoredFrame DEF ServeLookup, Lookup, Refusal, rowVars, sessionVars, serverVars, history
<1>33. ASSUME NEW c \in Channels, ServeInsert(c) PROVE Ordered'
  <2>1. PICK i \in Ids, f \in Form : i = at[c] /\ i \in posted /\ UNCHANGED <<ord, loose, posted>> /\ Insert(i, f)
    BY <1>33 DEF ServeInsert, rowVars, history
  <2>2. Ordered'
    BY <2>1, InsertKeepsOrder
  <2> QED
    BY <2>2
<1>34. ASSUME NEW c \in Channels, Admit(c) PROVE Ordered'
  BY <1>34, StoredFrame DEF Admit, rowVars, senderVars, sessionVars, history
<1>35. ASSUME NEW r \in Request, LateLookup(r) PROVE Ordered'
  BY <1>35, StoredFrame DEF LateLookup, Request, rowVars, senderVars, sessionVars, history
<1>36. ASSUME NEW r \in Request, LateInsert(r) PROVE Ordered'
  <2>1. r.id \in Ids /\ r.form \in Form /\ r.id \in posted /\ UNCHANGED <<ord, loose, posted>> /\ Insert(r.id, r.form)
    BY <1>36 DEF LateInsert, Request, rowVars, history
  <2>2. Ordered'
    BY <2>1, InsertKeepsOrder
  <2> QED
    BY <2>2
<1>37. ASSUME NEW r \in Request, LateDies(r) PROVE Ordered'
  BY <1>37, StoredFrame DEF LateDies, rowVars, senderVars, sessionVars, history
<1>38. ASSUME TargetDeleted PROVE Ordered'
  BY <1>38, StoredFrame DEF TargetDeleted, rowVars, senderVars, sessionVars, history
<1>39. ASSUME UNCHANGED vars PROVE Ordered'
  BY <1>39, StoredFrame DEF vars, rowVars, senderVars, sessionVars, serverVars, history
<1> QED
  BY <1>1, <1>2, <1>3, <1>4, <1>5, <1>6, <1>7, <1>8, <1>9, <1>10, <1>11, <1>12, <1>13, <1>14, <1>15, <1>16, <1>17, <1>18, <1>19, <1>20, <1>21, <1>22, <1>23, <1>24, <1>25, <1>26, <1>27, <1>28, <1>29, <1>30, <1>31, <1>32, <1>33, <1>34, <1>35, <1>36, <1>37, <1>38, <1>39
     DEF Next, Session, User, Sender, Server

\* What a step may do to a row: the bodies of AckBeforeDrop, AcceptedStays and
\* AlreadySentOrRemoved.
RowChange ==
  /\ \A i \in owed \cap owed' : st[i] # "none" /\ st'[i] = "none" =>
       i \in cached \/ st[i] = "accepted"
  /\ \A i \in Ids : st[i] = "accepted" => st'[i] \in {"accepted", "none"}
  /\ \A i \in Ids : told'[i] = "AlreadySent" => told[i] # "nothing" \/ i \in Stored

\* No step drops an unacknowledged row, forgets an acceptance, or tells a Delete
\* that a message was sent which wasn't.
LEMMA RowChangeStep == IInv /\ [Next]_vars => RowChange
<1> SUFFICES ASSUME IInv PROVE [Next]_vars => RowChange
  OBVIOUS
<1>0. ASSUME UNCHANGED <<st, told>> PROVE RowChange
  <2>1. \A i \in Ids : told[i] = "AlreadySent" => told[i] # "nothing"
    OBVIOUS
  <2> QED BY <1>0, <2>1 DEF RowChange, IInv, TypeInv, TypeOK
<1> USE DEF RowChange, IInv, Ledger, Locks, AttemptKeepsRow, Heads, RowsOf, Served, SentIsStored,
            TypeInv, TypeOK, HolderHasWork, Unlocked
<1>1. ASSUME NEW who \in {"me", "other"}, SignIn(who) PROVE RowChange
  BY <1>1, <1>0 DEF SignIn, rowVars, senderVars, serverVars, history
<1>2. ASSUME SignOut PROVE RowChange
  BY <1>2, <1>0 DEF SignOut, rowVars, senderVars, serverVars, history
<1>3. ASSUME Follow PROVE RowChange
  BY <1>3, <1>0 DEF Follow, rowVars, senderVars, sessionVars, serverVars, history
<1>4. ASSUME Open PROVE RowChange
  BY <1>4 DEF Open, senderVars, sessionVars, serverVars, history
<1>5. ASSUME Close PROVE RowChange
  BY <1>5, <1>0 DEF Close, Stops, Executing, RequestOf, Request, rowVars, sessionVars, history
<1>6. ASSUME Crash PROVE RowChange
  BY <1>6, <1>0 DEF Crash, Stops, Executing, RequestOf, Request, Fault, rowVars, sessionVars, history
<1>7. ASSUME NEW i \in Ids, Enqueue(i) PROVE RowChange
  BY <1>7 DEF Enqueue, FormOf, senderVars, sessionVars, serverVars
<1>8. ASSUME NEW i \in Ids, SendDirect(i) PROVE RowChange
  BY <1>8, <1>0 DEF SendDirect, FormOf, Departs, Fault, sessionVars, serverVars
<1>9. ASSUME NEW i \in Ids, Retry(i) PROVE RowChange
  BY <1>9 DEF Retry, senderVars, sessionVars, serverVars, history
<1>10. ASSUME NEW i \in Ids, RetryWithoutReply(i) PROVE RowChange
  BY <1>10 DEF RetryWithoutReply, senderVars, sessionVars, serverVars, history
<1>11. ASSUME NEW u \in Callers, NEW i \in Ids, AskDelete(u, i) PROVE RowChange
  BY <1>11, <1>0 DEF AskDelete, rowVars, senderVars, sessionVars, serverVars, history
<1>12. ASSUME NEW u \in Callers, DoDelete(u) PROVE RowChange
  BY <1>12 DEF DoDelete, senderVars, sessionVars, serverVars
<1>13. ASSUME NEW u \in Callers, DeleteFails(u) PROVE RowChange
  BY <1>13, <1>0 DEF DeleteFails, Fault, rowVars, senderVars, sessionVars, serverVars, history
<1>14. ASSUME NEW c \in Channels, Wake(c) PROVE RowChange
  BY <1>14, <1>0 DEF Wake, rowVars, sessionVars, serverVars, history
<1>15. ASSUME NEW c \in Channels, Take(c) PROVE RowChange
  BY <1>15 DEF Take, Heads, RowsOf, sessionVars, serverVars, history
<1>16. ASSUME NEW c \in Channels, Idle(c) PROVE RowChange
  BY <1>16, <1>0 DEF Idle, rowVars, sessionVars, serverVars, history
<1>17. ASSUME NEW c \in Channels, CantStart(c) PROVE RowChange
  BY <1>17, <1>0 DEF CantStart, Fault, rowVars, sessionVars, serverVars, history
<1>18. ASSUME NEW c \in Channels, Post(c) PROVE RowChange
  BY <1>18, <1>0 DEF Post, Departs, rowVars, sessionVars, serverVars
<1>19. ASSUME NEW c \in Channels, Lost(c) PROVE RowChange
  BY <1>19, <1>0 DEF Lost, Fault, Abandoned, Executing, RequestOf, Request, rowVars, sessionVars, history
<1>20. ASSUME NEW c \in Channels, GiveBack(c) PROVE RowChange
  BY <1>20 DEF GiveBack, Waiting, Release, Executing, sessionVars, serverVars, history
<1>21. ASSUME NEW c \in Channels, Acked(c) PROVE RowChange
  BY <1>21, <1>0 DEF Acked, rowVars, sessionVars, serverVars, history
<1>22. ASSUME NEW c \in Channels, Refused(c) PROVE RowChange
  BY <1>22 DEF Refused, Refusal, Release, sessionVars, serverVars, history
<1>23. ASSUME NEW c \in Channels, RefusedSent(c) PROVE RowChange
  BY <1>23, <1>0 DEF RefusedSent, rowVars, sessionVars, serverVars, history
<1>24. ASSUME NEW c \in Channels, ApplyAck(c) PROVE RowChange
  BY <1>24, <1>0 DEF ApplyAck, rowVars, sessionVars, serverVars, history
<1>25. ASSUME NEW c \in Channels, CacheFails(c) PROVE RowChange
  BY <1>25 DEF CacheFails, Fault, Release, sessionVars, serverVars, history
<1>26. ASSUME NEW c \in Channels, CacheFailsAgain(c) PROVE RowChange
  BY <1>26, <1>0 DEF CacheFailsAgain, Fault, rowVars, sessionVars, serverVars, history
<1>27. ASSUME NEW c \in Channels, DropRow(c) PROVE RowChange
  BY <1>27 DEF DropRow, Release, sessionVars, serverVars, history
<1>28. ASSUME NEW c \in Channels, DropFails(c) PROVE RowChange
  BY <1>28 DEF DropFails, Fault, Release, sessionVars, serverVars, history
<1>29. ASSUME NEW c \in Channels, CantRecord(c) PROVE RowChange
  BY <1>29, <1>0 DEF CantRecord, Fault, Release, rowVars, sessionVars, serverVars, history
<1>30. ASSUME NEW c \in Channels, DirectSent(c) PROVE RowChange
  BY <1>30, <1>0 DEF DirectSent, rowVars, sessionVars, serverVars, history
<1>31. ASSUME NEW c \in Channels, DirectNotSent(c) PROVE RowChange
  BY <1>31, <1>0 DEF DirectNotSent, Abandoned, Executing, RequestOf, Request, rowVars, sessionVars, history
<1>32. ASSUME NEW c \in Channels, ServeLookup(c) PROVE RowChange
  BY <1>32, <1>0 DEF ServeLookup, Lookup, Refusal, rowVars, sessionVars, serverVars, history
<1>33. ASSUME NEW c \in Channels, ServeInsert(c) PROVE RowChange
  BY <1>33, <1>0 DEF ServeInsert, rowVars, sessionVars, history
<1>34. ASSUME NEW c \in Channels, Admit(c) PROVE RowChange
  BY <1>34, <1>0 DEF Admit, rowVars, senderVars, sessionVars, history
<1>35. ASSUME NEW r \in Request, LateLookup(r) PROVE RowChange
  BY <1>35, <1>0 DEF LateLookup, Request, rowVars, senderVars, sessionVars, history
<1>36. ASSUME NEW r \in Request, LateInsert(r) PROVE RowChange
  BY <1>36, <1>0 DEF LateInsert, Request, rowVars, senderVars, sessionVars, history
<1>37. ASSUME NEW r \in Request, LateDies(r) PROVE RowChange
  BY <1>37, <1>0 DEF LateDies, rowVars, senderVars, sessionVars, history
<1>38. ASSUME TargetDeleted PROVE RowChange
  BY <1>38, <1>0 DEF TargetDeleted, rowVars, senderVars, sessionVars, history
<1>39. ASSUME UNCHANGED vars PROVE RowChange
  BY <1>39, <1>0 DEF vars, rowVars, history
<1> QED
  BY <1>1, <1>2, <1>3, <1>4, <1>5, <1>6, <1>7, <1>8, <1>9, <1>10, <1>11, <1>12, <1>13, <1>14, <1>15, <1>16, <1>17, <1>18, <1>19, <1>20, <1>21, <1>22, <1>23, <1>24, <1>25, <1>26, <1>27, <1>28, <1>29, <1>30, <1>31, <1>32, <1>33, <1>34, <1>35, <1>36, <1>37, <1>38, <1>39
     DEF Next, Session, User, Sender, Server

-----------------------------------------------------------------------------
(* The theorems.                                                           *)

\* The first state, with nothing queued and nobody signed in, satisfies it all.
LEMMA InitIInv == Init => IInv
<1> SUFFICES ASSUME Init PROVE IInv
  OBVIOUS
<1>1. TypeInv
  BY DEF Init, TypeInv, TypeOK, HolderHasWork, RowState, Code, Doing, Answer, Refusal,
         Form, FormOf, Sent, Request
<1>2. Stored = {}
  BY DEF Init, Stored
<1>3. Ledger /\ Locks
  BY <1>2 DEF Init, Ledger, NothingLost, Locks, AttemptKeepsRow
<1>4. Served /\ Ordered /\ Sessions
  BY <1>2 DEF Init, Served, SentIsStored, LogPosted, AtMostOnce, Ordered, EarlierStored,
              InOrder, Sessions, OwnSessionOnly
<1> QED BY <1>1, <1>3, <1>4 DEF IInv

\* Every reachable state, whatever crashed, failed or came late, satisfies the
\* inductive invariant.
THEOREM Inductive == Spec => []IInv
<1>1. IInv /\ [Next]_vars => IInv'
  BY TypeStep, LedgerStep, LocksStep, ServedStep, OrderedStep, SessionsStep DEF IInv
<1> QED BY InitIInv, <1>1, PTL DEF Spec

\* A message the user queued and did not delete is in the outbox or at the server.
THEOREM NeverLost == Spec => []NothingLost
<1>1. IInv => NothingLost
  BY DEF IInv, Ledger
<1> QED BY <1>1, Inductive, PTL

\* The server stores one message per client_id, however many POSTs of it execute.
THEOREM Once == Spec => []AtMostOnce
<1>1. IInv => AtMostOnce
  BY DEF IInv, Served
<1> QED BY <1>1, Inductive, PTL

\* The server commits a channel's messages in the order they were queued.
THEOREM InQueueOrder == Spec => []InOrder
<1>1. IInv => InOrder
  BY DEF IInv, Ordered
<1> QED BY <1>1, Inductive, PTL

\* An accepted row, a row about to be dropped and a cached message are at the
\* server.
THEOREM BelievedSentIsStored == Spec => []SentIsStored
<1>1. IInv => SentIsStored
  BY DEF IInv, Served
<1> QED BY <1>1, Inductive, PTL

\* No delete, retry or later message takes the row from beneath an attempt.
THEOREM RowStaysUnderAttempt == Spec => []AttemptKeepsRow
<1>1. IInv => AttemptKeepsRow
  BY DEF IInv, Locks
<1> QED BY <1>1, Inductive, PTL

\* No POST carries the token of another user's session.
THEOREM SendsUnderOwnSession == Spec => []OwnSessionOnly
<1>1. IInv => OwnSessionOnly
  BY DEF IInv, Sessions
<1> QED BY <1>1, Inductive, PTL

\* A row the user did not delete leaves only once the cache has its message, or
\* when the server was already known to have it.
THEOREM RowLeavesAcknowledged == Spec => AckBeforeDrop
<1>1. IInv /\ [Next]_vars =>
        [\A i \in owed \cap owed' : st[i] # "none" /\ st'[i] = "none" =>
           i \in cached \/ st[i] = "accepted"]_vars
  BY RowChangeStep DEF RowChange
<1> QED BY <1>1, Inductive, PTL DEF Spec, AckBeforeDrop

\* No refusal, sign-out or crash puts an accepted row back among the unsent.
THEOREM AcceptanceStays == Spec => AcceptedStays
<1>1. IInv /\ [Next]_vars =>
        [\A i \in Ids : st[i] = "accepted" => st'[i] \in {"accepted", "none"}]_vars
  BY RowChangeStep DEF RowChange
<1> QED BY <1>1, Inductive, PTL DEF Spec, AcceptedStays

\* A Delete answered AlreadySent found the message at the server, or came after a
\* Delete that was answered before.
THEOREM AlreadySentMeans == Spec => AlreadySentOrRemoved
<1>1. IInv /\ [Next]_vars =>
        [\A i \in Ids : told'[i] = "AlreadySent" => told[i] # "nothing" \/ i \in Stored]_vars
  BY RowChangeStep DEF RowChange
<1> QED BY <1>1, Inductive, PTL DEF Spec, AlreadySentOrRemoved
=============================================================================
