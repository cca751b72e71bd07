----------------------------- MODULE SyncPaging -----------------------------
(***************************************************************************)
(* One client catching up over GET /sync (services/api/app/routers/sync.py)*)
(* while transactions commit: a page is read by several statements under   *)
(* READ COMMITTED, each of which sees what has committed by then.  The     *)
(* client writes a page and its cursor in one transaction (core sync.rs),  *)
(* and applies live events, in any order and number, besides.              *)
(*                                                                         *)
(* The rows are those the client may see throughout, one per statement:    *)
(* what joining and leaving a channel changes is left to another module.   *)
(* The caller's own profile is loaded when the request is authenticated    *)
(* (deps.py), and the session's identity map keeps that object: a later    *)
(* statement that selects the row returns it as it was loaded.             *)
(***************************************************************************)
EXTENDS ChangeCounter

CONSTANTS
  StateRows,  \* the rows a first sync brings: all but messages
  Own,        \* the caller's own row in users, or no row
  Limit,      \* distinct numbers of a page
  MaxLost     \* bound: answers lost

ASSUME StateRowsAssumption == StateRows \subseteq Rows /\ Own \subseteq StateRows
ASSUME LostAssumption == MaxLost \in Nat

VARIABLES
  (* the client's cache *)
  cursor,   \* meta.cursor
  seen,     \* the version it has of each row, 0 for none
  base,     \* history: the cursor its first sync gave
  (* the request being answered *)
  stage,    \* "idle", "asked" once authenticated, "counted" with the counter read, "rows"
  loaded,   \* the version of its own row the session loaded
  current,  \* the counter it read
  upper,    \* the page's upper bound
  todo,     \* rows whose statement is still to run
  got,      \* versions read
  lost      \* answers lost so far

cacheVars == <<cursor, seen, base>>
pageVars  == <<stage, loaded, current, upper, todo, got>>
syncVars  == <<cacheVars, pageVars, lost>>
allVars   == <<counterVars, syncVars>>

SyncTypeOK ==
  /\ cursor \in Nat /\ seen \in [Rows -> Nat] /\ base \in Nat
  /\ stage \in {"idle", "asked", "counted", "rows"} /\ loaded \in [Own -> Nat]
  /\ current \in Nat /\ upper \in Nat
  /\ todo \subseteq Rows /\ got \subseteq Version /\ lost \in Nat

SyncInit ==
  /\ CounterInit
  /\ cursor = 0 /\ seen = [r \in Rows |-> 0] /\ base = 0
  /\ stage = "idle" /\ loaded = [r \in Own |-> 0] /\ current = 0 /\ upper = 0 /\ todo = {} /\ got = {} /\ lost = 0

-----------------------------------------------------------------------------
\* get_current_user: the caller has an account, and its row is loaded.
Authenticate ==
  /\ stage = "idle" /\ stage' = "asked"
  /\ \A r \in Own : rowSeq[r] # 0
  /\ loaded' = [r \in Own |-> rowSeq[r]]
  /\ UNCHANGED <<counterVars, cacheVars, current, upper, todo, got, lost>>

\* since=0: the state as it is, and a cursor at the counter.
StartFirst ==
  /\ stage = "asked" /\ cursor = 0
  /\ stage' = "rows" /\ current' = counter /\ upper' = counter
  /\ todo' = StateRows /\ got' = {}
  /\ UNCHANGED <<counterVars, cacheVars, loaded, lost>>

\* The counter first, before any row.
StartPage ==
  /\ stage = "asked" /\ cursor # 0
  /\ stage' = "counted" /\ current' = counter /\ upper' = counter
  /\ todo' = Rows /\ got' = {}
  /\ UNCHANGED <<counterVars, cacheVars, loaded, lost>>

\* The distinct numbers after the cursor, up to the counter that was read.
Numbers == {rowSeq[r] : r \in {q \in Rows : cursor < rowSeq[q] /\ rowSeq[q] <= current}}

\* n ends the page: the Limit-th of them when there are more, else the counter.
EndsPage(n) ==
  IF Cardinality(Numbers) > Limit
  THEN n \in Numbers /\ Cardinality({m \in Numbers : m <= n}) = Limit
  ELSE n = current

Bound ==
  /\ stage = "counted" /\ stage' = "rows"
  /\ \E n \in 0..MaxSeq : EndsPage(n) /\ upper' = n
  /\ UNCHANGED <<counterVars, cacheVars, loaded, current, todo, got, lost>>

InWindow(r) == IF cursor = 0 THEN rowSeq[r] # 0 ELSE cursor < rowSeq[r] /\ rowSeq[r] <= upper

Fetched(r) == IF r \in Own THEN loaded[r] ELSE rowSeq[r]

\* The statement of one kind of row: selected as the database has it, returned
\* as the session has it.
Read(r) ==
  /\ stage = "rows" /\ r \in todo /\ todo' = todo \ {r}
  /\ got' = IF InWindow(r) THEN got \cup {[row |-> r, seq |-> Fetched(r)]} ELSE got
  /\ UNCHANGED <<counterVars, cacheVars, stage, loaded, current, upper, lost>>

\* guarded_upsert: a row is replaced only by a higher seq.
Newest(r, V) ==
  LET newer == {v \in V : v.row = r /\ v.seq > seen[r]} IN
  IF newer = {} THEN seen[r] ELSE (CHOOSE v \in newer : TRUE).seq

\* Mutants of Apply: the cursor is the counter as it is once the rows are read;
\* the cursor is kept until the last page.
ApplyAtCounter ==
  /\ stage = "rows" /\ todo = {} /\ stage' = "idle"
  /\ seen' = [r \in Rows |-> Newest(r, got)]
  /\ cursor' = counter
  /\ base' = IF cursor = 0 THEN counter ELSE base
  /\ UNCHANGED <<counterVars, loaded, current, upper, todo, got, lost>>

ApplyLastPage ==
  /\ stage = "rows" /\ todo = {} /\ stage' = "idle"
  /\ seen' = [r \in Rows |-> Newest(r, got)]
  /\ cursor' = IF upper < current THEN cursor ELSE upper
  /\ base' = IF cursor = 0 THEN upper ELSE base
  /\ UNCHANGED <<counterVars, loaded, current, upper, todo, got, lost>>

\* The client applies the page, and moves its cursor with it.
Apply ==
  /\ stage = "rows" /\ todo = {} /\ stage' = "idle"
  /\ seen' = [r \in Rows |-> Newest(r, got)]
  /\ cursor' = upper
  /\ base' = IF cursor = 0 THEN upper ELSE base
  /\ UNCHANGED <<counterVars, loaded, current, upper, todo, got, lost>>

\* No answer, or the client stopped before it was applied.
Lose ==
  /\ stage # "idle" /\ stage' = "idle"
  /\ lost < MaxLost /\ lost' = lost + 1
  /\ UNCHANGED <<counterVars, cacheVars, loaded, current, upper, todo, got>>

\* A live event of some commit, late or again.
Live(v) ==
  /\ v \in published
  /\ seen' = [seen EXCEPT ![v.row] = Newest(v.row, {v})]
  /\ UNCHANGED <<counterVars, cursor, base, pageVars, lost>>

Sync == Authenticate \/ StartFirst \/ StartPage \/ Bound \/ (\E r \in Rows : Read(r)) \/ Apply

SyncNext ==
  \/ CounterNext /\ UNCHANGED syncVars
  \/ Sync
  \/ Lose
  \/ \E v \in published : Live(v)

SyncSpec == SyncInit /\ [][SyncNext]_allVars

-----------------------------------------------------------------------------
(* What /sync promises.                                                    *)

\* The first sync leaves messages to history paging.
Owed(r) == IF r \in StateRows THEN 0 ELSE base

NothingMissedOf(S) ==
  \A r \in S : Owed(r) < rowSeq[r] /\ rowSeq[r] <= cursor => seen[r] = rowSeq[r]

\* A cursor never passes a change the client didn't get: each row of somebody
\* else's changed at or below it is in the cache in its newest version, however
\* the commits fell between the statements of the pages (sync.py: "a /sync that
\* returns cursor N can never later miss a change numbered below N").
NothingMissed == NothingMissedOf(Rows \ Own)

\* The same of the caller's own profile, which that comment doesn't except.  The
\* code does not keep it: see README, section 5.
OwnProfileNotMissed == NothingMissedOf(Own)

\* A page, a live event or a replay never puts an older version back, and the
\* cursor never goes back.
OnlyForward == [][cursor' >= cursor /\ \A r \in Rows : seen'[r] >= seen[r]]_allVars

\* The client asks again and again (a hint, a reconnect, the retry after a network
\* failure), and the statements of a request run.
Asking == WF_allVars(Sync)

FairSyncSpec == SyncSpec /\ Asking

\* Such a client gets past every change in the end, however small the pages and
\* however many answers are lost on the way: each page moves it on.
CatchesUp == \A n \in 1..MaxSeq : counter >= n ~> cursor >= n

-----------------------------------------------------------------------------
(* The inductive invariant (proved in DeliveryProofs).                     *)

\* The cache holds only committed versions, the cursor is no later than the
\* counter a request read, and that no later than the counter now.
Behind ==
  /\ cursor <= counter /\ current <= counter /\ upper <= current
  /\ stage \in {"counted", "rows"} => cursor <= upper
  /\ \A r \in Rows : seen[r] <= rowSeq[r]

\* What has been read and is still the newest version is in hand; no row was
\* read twice.
InHand ==
  /\ stage # "idle" => \A r \in Own : [row |-> r, seq |-> loaded[r]] \in published
  /\ got \subseteq published
  /\ \A v \in got : v.row \notin todo
  /\ \A v, w \in got : v.row = w.row => v = w
  /\ stage = "counted" => cursor # 0 /\ todo = Rows /\ upper = current
  /\ stage = "rows" =>
       \A r \in (Rows \ Own) \ todo :
         /\ (cursor # 0 \/ r \in StateRows) /\ cursor < rowSeq[r] /\ rowSeq[r] <= upper
         => [row |-> r, seq |-> rowSeq[r]] \in got

SyncInv == SyncTypeOK /\ Behind /\ InHand /\ NothingMissed
=============================================================================
