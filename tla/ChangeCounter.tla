---------------------------- MODULE ChangeCounter ----------------------------
(***************************************************************************)
(* The change sequence of the server (services/api/app/sync.py): every     *)
(* transaction that changes something a client caches takes one number     *)
(* from a single counter row, whose lock it keeps until it commits.        *)
(*                                                                         *)
(* Sessions run on Postgres under READ COMMITTED, with savepoints          *)
(* (begin_nested).  The number taken is remembered in session.info; when   *)
(* the database undoes the bump, the hooks must forget it, and only then.  *)
(*                                                                         *)
(* A session's transaction and its savepoints are numbered in the order    *)
(* they begin, the transaction itself 0; the open ones are nested in that  *)
(* order, so the innermost is the largest.                                 *)
(***************************************************************************)
EXTENDS Integers, FiniteSets

CONSTANTS
  Txs,           \* sessions that write
  Rows,          \* stamped rows: messages, channels, memberships, users
  MaxSeq,        \* bound: change numbers
  MaxSavepoints  \* bound: savepoints of one transaction

ASSUME CounterBounds == MaxSeq \in Nat /\ MaxSavepoints \in Nat

VARIABLES
  (* the database, committed *)
  counter,    \* sync_counter.seq
  rowSeq,     \* seq of each row, 0 for a row that doesn't exist yet
  published,  \* history: every version ever committed
  (* the database, each transaction's own *)
  bumps,      \* its uncommitted updates of the counter row: they hold its lock
  writes,     \* its uncommitted row versions
  (* the SQLAlchemy session *)
  open,       \* the transaction and the savepoints that are open
  begun,      \* savepoints begun
  info,       \* info[_KEY]: the number it took, 0 for none
  takenIn,    \* info[_TX] and its parents
  hints,      \* info[_HINT]: rows the sync.hint is about
  early       \* history: rows whose hint went at a savepoint's release

dbVars == <<counter, rowSeq, published>>
hintVars == <<hints, early>>
counterVars == <<dbVars, bumps, writes, open, begun, info, takenIn, hintVars>>

Version == [row: Rows, seq: Nat]

\* `at`: the savepoints begun when the statement ran.
Bump  == [val: Nat, at: Nat]
Write == [row: Rows, seq: Nat, at: Nat]

CounterTypeOK ==
  /\ counter \in Nat /\ rowSeq \in [Rows -> Nat] /\ published \subseteq Version
  /\ bumps \in [Txs -> SUBSET Bump] /\ writes \in [Txs -> SUBSET Write]
  /\ open \in [Txs -> SUBSET Nat] /\ begun \in [Txs -> Nat]
  /\ info \in [Txs -> Nat] /\ takenIn \in [Txs -> SUBSET Nat]
  /\ hints \in [Txs -> SUBSET Rows] /\ early \in [Txs -> SUBSET Rows]

CounterInit ==
  /\ counter = 1 /\ rowSeq = [r \in Rows |-> 0] /\ published = {}
  /\ bumps = [t \in Txs |-> {}] /\ writes = [t \in Txs |-> {}]
  /\ open = [t \in Txs |-> {}] /\ begun = [t \in Txs |-> 0]
  /\ info = [t \in Txs |-> 0] /\ takenIn = [t \in Txs |-> {}]
  /\ hints = [t \in Txs |-> {}] /\ early = [t \in Txs |-> {}]

-----------------------------------------------------------------------------
(* What the database does.                                                 *)

\* No other transaction has the counter row locked.
Available(t) == \A u \in Txs \ {t} : bumps[u] = {}

\* The counter as the transaction sees it.
Sees(t, n) ==
  IF bumps[t] = {} THEN n = counter
  ELSE (\E b \in bumps[t] : b.val = n) /\ \A b \in bumps[t] : b.val <= n

\* ROLLBACK TO SAVEPOINT x, or of the whole transaction: every statement since
\* it began is undone, and a lock taken since is released.
Undo(t, x) ==
  /\ bumps' = [bumps EXCEPT ![t] = {b \in @ : b.at <= x}]
  /\ writes' = [writes EXCEPT ![t] = {w \in @ : w.at <= x}]

Written(t) == {w.row : w \in writes[t]}

-----------------------------------------------------------------------------
(* What the session and its hooks do.                                      *)

Begin(t) ==
  /\ open[t] = {} /\ open' = [open EXCEPT ![t] = {0}]
  /\ UNCHANGED <<dbVars, bumps, writes, begun, info, takenIn, hintVars>>

\* begin_nested
Savepoint(t) ==
  /\ open[t] # {} /\ begun[t] < MaxSavepoints
  /\ begun' = [begun EXCEPT ![t] = @ + 1]
  /\ open' = [open EXCEPT ![t] = @ \cup {begun[t] + 1}]
  /\ UNCHANGED <<dbVars, bumps, writes, info, takenIn, hintVars>>

\* The innermost savepoint is released: what it did is the enclosing one's.  The
\* session reports an after_commit for it too, so _hint_after_commit takes the
\* hint and sends it, though nothing is committed yet.
ReleaseSavepoint(t, x) ==
  /\ x \in open[t] /\ x # 0 /\ \A y \in open[t] : y <= x
  /\ open' = [open EXCEPT ![t] = @ \ {x}]
  /\ hints' = [hints EXCEPT ![t] = {}]
  /\ early' = [early EXCEPT ![t] = @ \cup hints[t]]
  /\ UNCHANGED <<dbVars, bumps, writes, begun, info, takenIn>>

\* _stamp: the rows of one flush get the transaction's number.
Stamp(t, S, n) ==
  /\ writes' = [writes EXCEPT ![t] = @ \cup {[row |-> r, seq |-> n, at |-> begun[t] + 1] : r \in S}]
  /\ hints' = [hints EXCEPT ![t] = @ \cup S]
  /\ early' = [early EXCEPT ![t] = @ \ S]

\* A flush of a transaction that has its number.
FlushAgain(t, S) ==
  /\ open[t] # {} /\ info[t] # 0 /\ Stamp(t, S, info[t])
  /\ UNCHANGED <<dbVars, bumps, open, begun, info, takenIn>>

\* _take_seq, and the flush that called it: it waits for the counter's lock.
FlushTaking(t, S) ==
  /\ open[t] # {} /\ info[t] = 0 /\ Available(t)
  /\ \E n \in 1..MaxSeq :
       /\ Sees(t, n - 1)
       /\ bumps' = [bumps EXCEPT ![t] = @ \cup {[val |-> n, at |-> begun[t] + 1]}]
       /\ info' = [info EXCEPT ![t] = n]
       /\ takenIn' = [takenIn EXCEPT ![t] = open[t]]
       /\ Stamp(t, S, n)
  /\ UNCHANGED <<dbVars, open, begun>>

\* Mutant of Forget: never on a savepoint's rollback.
ForgetAtEnd(t, x) == x = 0

\* _forget_on_rollback: the walk from info[_TX] through its parents meets x.
Forget(t, x) == x \in takenIn[t]

\* A rollback of savepoint x with everything inside it: the database, then the
\* after_soft_rollback hook, before the session does anything else.
RollbackTo(t, x) ==
  /\ x \in open[t] /\ x # 0 /\ Undo(t, x)
  /\ open' = [open EXCEPT ![t] = {y \in @ : y < x}]
  /\ info' = [info EXCEPT ![t] = IF Forget(t, x) THEN 0 ELSE @]
  /\ takenIn' = [takenIn EXCEPT ![t] = IF Forget(t, x) THEN {} ELSE @]
  /\ hints' = [hints EXCEPT ![t] = IF Forget(t, x) THEN {} ELSE @]
  /\ early' = [early EXCEPT ![t] = IF Forget(t, x) THEN {} ELSE @]
  /\ UNCHANGED <<dbVars, begun>>

\* _forget: the outermost transaction ended.
Ended(t) ==
  /\ open' = [open EXCEPT ![t] = {}] /\ begun' = [begun EXCEPT ![t] = 0]
  /\ info' = [info EXCEPT ![t] = 0] /\ takenIn' = [takenIn EXCEPT ![t] = {}]
  /\ hints' = [hints EXCEPT ![t] = {}] /\ early' = [early EXCEPT ![t] = {}]
  /\ bumps' = [bumps EXCEPT ![t] = {}] /\ writes' = [writes EXCEPT ![t] = {}]

\* Any savepoint still open is released with it.
Commit(t) ==
  /\ open[t] # {} /\ Ended(t)
  /\ \E n \in 1..MaxSeq : Sees(t, n) /\ counter' = n
  /\ rowSeq' = [r \in Rows |-> IF r \in Written(t)
                               THEN (CHOOSE w \in writes[t] : w.row = r).seq ELSE rowSeq[r]]
  /\ published' = published \cup {[row |-> r, seq |-> rowSeq'[r]] : r \in Written(t)}

\* Rolled back, or the connection is gone.
Abort(t) ==
  /\ open[t] # {} /\ Ended(t)
  /\ UNCHANGED dbVars

Work(t) ==
  \/ Begin(t) \/ Savepoint(t) \/ Commit(t) \/ Abort(t)
  \/ \E x \in open[t] : ReleaseSavepoint(t, x) \/ RollbackTo(t, x)
  \/ \E S \in (SUBSET Rows) \ {{}} : FlushAgain(t, S) \/ FlushTaking(t, S)

CounterNext == \E t \in Txs : Work(t)

CounterSpec == CounterInit /\ [][CounterNext]_counterVars

-----------------------------------------------------------------------------
(* What the hooks are for.                                                 *)

\* Whatever a session has written and not undone carries one number, the one
\* whose lock it holds: after any savepoints, rolled back in any order, nothing
\* is stamped with a number another transaction can take (sync.py: "Reusing the
\* cached number afterwards would stamp later writes without the lock").
StampedUnderLock ==
  \A t \in Txs : \A w \in writes[t] : \E b \in bumps[t] : b.val = w.seq /\ bumps[t] = {b}

\* Numbers are given in commit order: a commit changes its rows to one number,
\* above every number committed before ("seq order is commit order").
SeqIsCommitOrder ==
  [][\A r \in Rows : rowSeq'[r] # rowSeq[r] =>
       /\ rowSeq'[r] = counter'
       /\ \A v \in published : v.seq < rowSeq'[r]]_counterVars

\* Every row a session has written and not undone is in the hint it will send at
\* its commit, or went into one at a savepoint's release: no rollback of a
\* savepoint took a hint along whose change survived (_HINT is dropped with _KEY).
HintsCoverWrites == \A t \in Txs : Written(t) \subseteq hints[t] \cup early[t]

\* "After a commit that stamped changes, tell each affected user" (sync.py,
\* _hint_after_commit): every row a commit changes is in the hint it sends.  It
\* isn't, after a release.
HintAtCommit == \A t \in Txs : Written(t) \subseteq hints[t]

-----------------------------------------------------------------------------
(* The inductive invariant (proved in DeliveryProofs).                     *)

\* A session remembers exactly the number whose bump stands, and where it was
\* taken: of the savepoints open now, those that were open then are the ones
\* that had begun.
RememberedBy(t) ==
  /\ IF 0 \in open[t] THEN TRUE ELSE open[t] = {} /\ info[t] = 0 /\ begun[t] = 0
  /\ \A x \in open[t] : x <= begun[t]
  /\ info[t] = 0 => bumps[t] = {} /\ writes[t] = {}
  /\ info[t] # 0 =>
       \E b \in bumps[t] :
         /\ bumps[t] = {b} /\ b.val = info[t]
         /\ b.at <= begun[t] + 1
         /\ \A x \in takenIn[t] : x < b.at
         /\ \A x \in open[t] : x < b.at => x \in takenIn[t]
         /\ \A w \in writes[t] : w.seq = info[t] /\ w.at >= b.at
         /\ \E w \in writes[t] : w.at = b.at

Remembered == \A t \in Txs : RememberedBy(t)

\* One transaction at a time has a number: the next one.
OneTaker ==
  /\ \A t \in Txs : info[t] # 0 => info[t] = counter + 1
  /\ \A t, u \in Txs : info[t] # 0 /\ info[u] # 0 => t = u

\* Nothing committed is above the counter; a row's seq is its newest version's.
Committed ==
  /\ counter >= 1
  /\ \A v \in published : v.seq <= counter /\ v.seq <= rowSeq[v.row]
  /\ \A r \in Rows : rowSeq[r] <= counter
  /\ \A r \in Rows : rowSeq[r] # 0 => [row |-> r, seq |-> rowSeq[r]] \in published

CounterIInv == CounterTypeOK /\ Remembered /\ OneTaker /\ Committed /\ HintsCoverWrites
=============================================================================
