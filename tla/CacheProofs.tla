----------------------------- MODULE CacheProofs -----------------------------
(***************************************************************************)
(* The proofs about Cache and SyncRuns, for any number of calls of         *)
(* sync_now, changes, pages and events: runs are one at a time, no request *)
(* is left unheard, no failure without a retry; and with nobody at it, the *)
(* cursor has reached whatever a sync was asked for.                       *)
(*                                                                         *)
(* The argument for the last: a change may be missing above the cursor     *)
(* only if a request is recorded or a timer set, or the run under way read *)
(* the counter, or will, after it was asked for (AskedOK); a page without  *)
(* another after it reaches up to the counter as it was read (RequestOK),  *)
(* and when a run ends otherwise it leaves a retry or a request, or the    *)
(* server has refused.                                                     *)
(*                                                                         *)
(* Then, that a cache that has caught up is what the server has (Current): *)
(* whatever the cache lacks is above its cursor and will be in a page's    *)
(* window (Due), whatever else is under way is no newer than the server's, *)
(* and what a page has read so far is all that was due below its bound     *)
(* (Feed).                                                                 *)
(***************************************************************************)
EXTENDS Cache, FiniteSetTheorems, TLAPS

(* The runs.                                                               *)

LEMMA InitKept ==
  ASSUME NEW called, RunsInit(called)
  PROVE  RunsInv
<1> USE DEF RunsInit
<1>1. RunsTypeOK
  BY DEF RunsTypeOK
<1>2. OneRun
  BY DEF OneRun, Holding
<1>3. RequestHeard /\ RetryAhead
  BY DEF RequestHeard, RetryAhead
<1> QED
  BY <1>1, <1>2, <1>3 DEF RunsInv

\* Whoever begins to call records a request, and nobody gets the lock by it.
LEMMA CallsKeeps ==
  ASSUME NEW c \in Callers, RunsInv, Calls(c), timers' \subseteq timers
  PROVE  RunsInv'
<1> USE DEF RunsInv, Calls, Moves
<1>1. RunsTypeOK'
  BY DEF RunsTypeOK
<1>2. OneRun'
  BY DEF OneRun, Holding, RunsTypeOK
<1>3. RequestHeard' /\ RetryAhead'
  BY DEF RequestHeard, RetryAhead, RunsTypeOK
<1> QED
  BY <1>1, <1>2, <1>3

LEMMA RetryDueKeeps ==
  ASSUME NEW c \in Callers, RunsInv, RetryDue(c)
  PROVE  RunsInv'
<1>1. CASE offline
  BY <1>1, CallsKeeps DEF RetryDue
<1>2. CASE ~offline
  <2> USE <1>2 DEF RunsInv, RetryDue
  <2>1. RunsTypeOK'
    BY DEF RunsTypeOK
  <2>2. OneRun' /\ RequestHeard' /\ RetryAhead'
    BY DEF OneRun, RequestHeard, RetryAhead
  <2> QED
    BY <2>1, <2>2
<1> QED
  BY <1>1, <1>2

\* With the lock taken, its holder goes once more.
LEMMA TriesKeeps ==
  ASSUME NEW c \in Callers, RunsInv, Tries(c)
  PROVE  RunsInv'
<1> USE DEF RunsInv, Tries, Moves
<1>1. RunsTypeOK'
  BY DEF RunsTypeOK
<1>2. OneRun'
  BY DEF OneRun, Held, Holding, RunsTypeOK
<1>3. RequestHeard'
  BY DEF RequestHeard, Held, Holding, RunsTypeOK
<1>4. RetryAhead'
  BY DEF RetryAhead, Running, RunsTypeOK
<1> QED
  BY <1>1, <1>2, <1>3, <1>4

LEMMA DecidesKeeps ==
  ASSUME NEW c \in Callers, RunsInv, Decides(c)
  PROVE  RunsInv'
<1> USE DEF RunsInv, Decides, Moves
<1>1. RunsTypeOK'
  BY DEF RunsTypeOK
<1>2. OneRun'
  BY DEF OneRun, Holding, RunsTypeOK
<1>3. RequestHeard'
  BY DEF RequestHeard
<1>4. RetryAhead'
  BY DEF RetryAhead, Running, RunsTypeOK
<1> QED
  BY <1>1, <1>2, <1>3, <1>4

\* The one run there is has ended: offline is what it says.
LEMMA EndsKeeps ==
  ASSUME NEW how \in Outcomes, RunsInv, Ends(how)
  PROVE  RunsInv'
<1>1. CASE UNCHANGED runVars
  BY <1>1 DEF runVars, RunsInv, RunsTypeOK, OneRun, RequestHeard, RetryAhead, Running
<1>2. CASE ~(UNCHANGED runVars)
  <2>1. PICK c \in Callers :
          /\ at[c] = "running" /\ Moves(c, IF how \in {"done", "reset"} THEN "deciding" ELSE "leaving")
          /\ failed' = IF how = "unreachable" THEN failed \cup {c} ELSE failed \ {c}
          /\ offline' = (how = "unreachable")
          /\ again' = (again \/ how = "reset") /\ UNCHANGED timers
    BY <1>2 DEF Ends
  <2> USE <2>1 DEF RunsInv, Moves
  <2>2. RunsTypeOK'
    BY DEF RunsTypeOK
  <2>3. OneRun'
    BY DEF OneRun, Holding, RunsTypeOK
  <2>4. RequestHeard'
    BY DEF RequestHeard, RunsTypeOK
  <2>5. RetryAhead'
    BY DEF RetryAhead, RunsTypeOK
  <2> QED
    BY <2>2, <2>3, <2>4, <2>5
<1> QED
  BY <1>1, <1>2

LEMMA LetsGoKeeps ==
  ASSUME NEW c \in Callers, RunsInv, LetsGo(c)
  PROVE  RunsInv'
<1> USE DEF RunsInv, LetsGo, Moves
<1>1. RunsTypeOK'
  BY DEF RunsTypeOK
<1>2. OneRun'
  BY DEF OneRun, Holding, RunsTypeOK
<1>3. RequestHeard'
  BY DEF RequestHeard, RunsTypeOK
<1>4. RetryAhead'
  BY DEF RetryAhead, Running, RunsTypeOK
<1> QED
  BY <1>1, <1>2, <1>3, <1>4

\* A call that leaves for good sees no request, and has its failure retried.
LEMMA LooksKeeps ==
  ASSUME NEW c \in Callers, RunsInv, Looks(c)
  PROVE  RunsInv'
<1> USE DEF RunsInv, Looks, GoesAway, Moves
<1>1. RunsTypeOK'
  BY DEF RunsTypeOK
<1>2. OneRun'
  BY DEF OneRun, Holding, RunsTypeOK
<1>3. RequestHeard'
  BY DEF RequestHeard, RunsTypeOK
<1>4. RetryAhead'
  BY DEF RetryAhead, Running, RunsTypeOK
<1> QED
  BY <1>1, <1>2, <1>3, <1>4

LEMMA StepKeeps ==
  RunsInv /\ [Schedules \/ RunsNext \/ \E how \in Outcomes : Ends(how)]_runVars => RunsInv'
<1> SUFFICES ASSUME RunsInv, [Schedules \/ RunsNext \/ \E how \in Outcomes : Ends(how)]_runVars
             PROVE  RunsInv'
  OBVIOUS
<1>1. CASE Schedules
  BY <1>1 DEF Schedules, RunsInv, RunsTypeOK, OneRun, RequestHeard, RetryAhead, Running
<1>2. CASE RunsNext
  <2>1. PICK c \in Callers : SyncDue(c) \/ RetryDue(c) \/ Tries(c) \/ Decides(c) \/ LetsGo(c) \/ Looks(c)
    BY <1>2 DEF RunsNext
  <2>2. CASE SyncDue(c)
    BY <2>2, CallsKeeps DEF SyncDue
  <2> QED
    BY <2>1, <2>2, RetryDueKeeps, TriesKeeps, DecidesKeeps, LetsGoKeeps, LooksKeeps
<1>3. CASE \E how \in Outcomes : Ends(how)
  BY <1>3, EndsKeeps
<1>4. CASE UNCHANGED runVars
  BY <1>4 DEF runVars, RunsInv, RunsTypeOK, OneRun, RequestHeard, RetryAhead, Running
<1> QED
  BY <1>1, <1>2, <1>3, <1>4

\* Runs are one at a time, a request is always somebody's to see, a failure has its
\* retry: sync_now and schedule_retry of cache.rs, for any number of calls at once.
THEOREM RunsKept == RunsSpec => []RunsInv
<1>1. RunsInit(TRUE) => RunsInv
  BY InitKept
<1>2. RunsInv /\ [Schedules \/ RunsNext \/ \E how \in Outcomes : Ends(how)]_runVars => RunsInv'
  BY StepKeeps
<1> QED
  BY <1>1, <1>2, PTL DEF RunsSpec

\* When the last call of sync_now has returned and no timer is set, no request is
\* left over and the cache isn't offline.
THEOREM RestsOnline == RunsSpec => [](AtRest => ~again /\ ~offline)
<1>1. RunsInv => (AtRest => ~again /\ ~offline)
  BY DEF RunsInv, RunsTypeOK, AtRest, RequestHeard, RetryAhead, Running
<1> QED
  BY <1>1, RunsKept, PTL

-----------------------------------------------------------------------------
(* Numbers.                                                                *)

\* A finite set of numbers that isn't empty has a greatest.
LEMMA Greatest ==
  ASSUME NEW S, S \subseteq Int, IsFiniteSet(S), S # {}
  PROVE  Max(S) \in S /\ \A y \in S : Max(S) >= y
<1> DEFINE Above(x) == {y \in S : y > x}
           T == {Above(x) : x \in S}
           R == StrictSubsetOrdering(S)
<1>1. IsWellFoundedOn(R, SUBSET S)
  BY FS_StrictSubsetOrderingWellFounded, FS_FiniteSubsetsOfFinite
<1>2. T \subseteq SUBSET S /\ T # {}
  OBVIOUS
<1>3. PICK U \in T : \A V \in T : <<V, U>> \notin R
  <2> HIDE DEF T, R
  <2> QED
    BY <1>1, <1>2, WFMin
<1>4. PICK x \in S : U = Above(x)
  OBVIOUS
<1>5. \A y \in S : x >= y
  <2> SUFFICES ASSUME NEW y \in S, ~(x >= y) PROVE FALSE
    OBVIOUS
  <2>1. y > x /\ x \in Int /\ y \in Int
    OBVIOUS
  <2>2. y \in Above(x) /\ y \notin Above(y) /\ \A z \in S : z > y => z > x
    BY <2>1
  <2>3. <<Above(y), U>> \in R
    BY <2>2, <1>4 DEF StrictSubsetOrdering
  <2> QED
    BY <2>3, <1>3
<1> QED
  BY <1>5 DEF Max

\* Of a finite set of numbers with at least m, some m are below all others, up to one of them.
LEMMA Nth ==
  ASSUME NEW S, S \subseteq Int, IsFiniteSet(S), NEW m \in Nat \ {0}, m <= Cardinality(S)
  PROVE  \E n \in S : Cardinality({k \in S : k <= n}) = m
<1> DEFINE T == {U \in SUBSET S : m <= Cardinality(U) /\ \A x \in U, y \in S : y < x => y \in U}
           R == StrictSubsetOrdering(S)
<1>1. IsWellFoundedOn(R, SUBSET S)
  BY FS_StrictSubsetOrderingWellFounded, FS_FiniteSubsetsOfFinite
<1>2. T \subseteq SUBSET S /\ S \in T
  OBVIOUS
<1>3. PICK U \in T : \A V \in T : <<V, U>> \notin R
  <2> HIDE DEF T, R
  <2> QED
    BY <1>1, <1>2, WFMin
<1>4. U \subseteq S /\ m <= Cardinality(U) /\ \A x \in U, y \in S : y < x => y \in U
  OBVIOUS
<1>5. IsFiniteSet(U) /\ Cardinality(U) \in Nat
  BY <1>4, FS_Subset, FS_CardinalityType
<1>6. U # {}
  BY <1>4, FS_EmptySet
<1>7. PICK n \in U : \A y \in U : n >= y
  <2>1. U \subseteq Int
    BY <1>4
  <2> HIDE DEF T, R
  <2> QED
    BY <2>1, <1>5, <1>6, Greatest
<1>8. U = {k \in S : k <= n}
  <2>1. \A k \in S : k <= n /\ k # n => k < n
    BY <1>4, <1>7
  <2> HIDE DEF T, R
  <2> QED
    BY <2>1, <1>4, <1>7
<1> DEFINE V == U \ {n}
<1>9. Cardinality(V) = Cardinality(U) - 1
  BY <1>5, <1>7, FS_RemoveElement
<1>10. V \notin T
  <2>1. V \subseteq U /\ V # U /\ V \in SUBSET S
    BY <1>7, <1>4
  <2>2. <<V, U>> \in R
    BY <2>1, <1>4 DEF StrictSubsetOrdering
  <2> QED
    BY <2>2, <1>3
<1>11. \A x \in V, y \in S : y < x => y \in V
  <2> SUFFICES ASSUME NEW x \in V, NEW y \in S, y < x PROVE y \in V
    OBVIOUS
  <2>1. x \in U /\ x <= n /\ x \in Int /\ y \in Int /\ n \in Int
    BY <1>7, <1>4
  <2>2. y \in U /\ y # n
    BY <2>1, <1>4
  <2> QED
    BY <2>2
<1>12. ~(m <= Cardinality(V))
  BY <1>10, <1>11, <1>4
<1>13. Cardinality(U) = m
  BY <1>4, <1>5, <1>9, <1>12
<1> HIDE DEF T, R
<1> QED
  BY <1>4, <1>7, <1>8, <1>13

-----------------------------------------------------------------------------
(* What the variables hold, with changes up to n.                          *)

Versions(n) == [Ids -> [seq : 0..n, gone : BOOLEAN]]
Batches(n) ==
  [ch : 0..n, my : 0..n, th : 0..n, removed : 0..n, left : 0..n, rows : Versions(n),
   tombstones : [Ids -> 0..n], history : BOOLEAN, floor : 0..n]
IsStore(s, n) ==
  s \in [cursor : 0..n, gen : Nat, ch : 0..n, my : 0..n, th : [seq : 0..n, gone : BOOLEAN],
         rows : [Ids -> [seq : 0..n, gone : BOOLEAN, partial : BOOLEAN]],
         fence : 0..n, active : BOOLEAN, cov : {s.cov}]
Loads(n) ==
  [before : Nat, floor : 0..n, gen : Nat, first : BOOLEAN, at : {"asked", "member", "read"}, rows : Versions(n)]
Memberships(n) == [in : BOOLEAN, seq : 1..n, joined : 1..n]
Messages(n) == [seq : 1..n, gone : BOOLEAN]
Tombs(n) == [who : {"me", "them"}, seq : 1..n]
Sends(n, messages) ==
  [kind : {"new", "update"}, id : messages] \cup [kind : {"delete"}, id : messages, seq : 1..n]
    \cup [kind : {"out", "channel"}, seq : 0..n]

Reading == {"state", "members", "bound", "channels", "memberships", "new", "newMembers", "newChannel",
            "tombs", "messages", "page"}
Underway(n) ==
  [at : Reading, since : 0..n, current : 0..n, ours : BOOLEAN, upper : 0..n, more : BOOLEAN, page : Batches(n)]
Requests(n) ==
  {Idle, [at |-> "reset"]} \cup [at : {"asked"}, since : 0..n] \cup [at : {"ids"}, since : 0..n, current : 0..n]
    \cup Underway(n)

ServerOK ==
  /\ now \in 1..MaxSeq /\ floor \in 0..now /\ chan \in 1..now
  /\ msgs \in Seq(Messages(now)) /\ Len(msgs) < now
  /\ mine \in Memberships(now) /\ theirs \in Memberships(now) /\ tombs \subseteq Tombs(now)
  /\ sends \subseteq Sends(now, 1..Len(msgs)) /\ live \subseteq Batches(now)

DeviceOK == IsStore(st, now) /\ loads \subseteq Loads(now) /\ req \in Requests(now)

\* One request is out at a time, of the cursor as it is; a page that isn't followed by
\* another reaches up to the counter as the request read it.
RequestOK ==
  /\ req.at \notin {"idle", "reset"} => req.since = st.cursor
  /\ req.at \in Reading \cup {"ids"} => req.since <= req.current
  /\ req.at \in Reading => /\ req.since <= req.upper /\ req.upper <= req.current
                           /\ ~req.more => req.upper = req.current
  /\ req # Idle => Running \/ Anybody

\* Whatever was asked for has come, or the run that is under way began after it was
\* asked for, or another run is to come; or the last one failed.
AskedOK ==
  LET due == wanted <= st.cursor \/ "sync" \in timers \/ again
      fresh == req.at \in Reading \cup {"ids"} => wanted <= req.current
  IN
  /\ wanted \in 0..now /\ (Anybody => wanted = 0)
  /\ IF Running THEN due \/ fresh ELSE due \/ refused \/ offline

Inv == ServerOK /\ DeviceOK /\ RequestOK /\ RunsInv /\ AskedOK

-----------------------------------------------------------------------------

(* The operators.                                                          *)

LEMMA Grow ==
  ASSUME NEW n \in Nat, NEW m \in Nat, n <= m
  PROVE  /\ Versions(n) \subseteq Versions(m) /\ Batches(n) \subseteq Batches(m)
         /\ Loads(n) \subseteq Loads(m) /\ Memberships(n) \subseteq Memberships(m)
         /\ Messages(n) \subseteq Messages(m) /\ Tombs(n) \subseteq Tombs(m)
         /\ Requests(n) \subseteq Requests(m)
         /\ \A s : IsStore(s, n) => IsStore(s, m)
<1>1. 0..n \subseteq 0..m /\ 1..n \subseteq 1..m
  OBVIOUS
<1>2. [seq : 0..n, gone : BOOLEAN] \subseteq [seq : 0..m, gone : BOOLEAN]
      /\ [seq : 0..n, gone : BOOLEAN, partial : BOOLEAN] \subseteq [seq : 0..m, gone : BOOLEAN, partial : BOOLEAN]
  BY <1>1
<1>3. Versions(n) \subseteq Versions(m) /\ [Ids -> 0..n] \subseteq [Ids -> 0..m]
      /\ [Ids -> [seq : 0..n, gone : BOOLEAN, partial : BOOLEAN]] \subseteq [Ids -> [seq : 0..m, gone : BOOLEAN, partial : BOOLEAN]]
  <2> HIDE DEF Ids
  <2> QED
    BY <1>1, <1>2 DEF Versions
<1>4. Batches(n) \subseteq Batches(m)
  BY <1>1, <1>3 DEF Batches
<1>5. Loads(n) \subseteq Loads(m)
  BY <1>1, <1>3 DEF Loads
<1>6. Requests(n) \subseteq Requests(m)
  <2>1. [at : {"asked"}, since : 0..n] \subseteq [at : {"asked"}, since : 0..m]
    BY <1>1
  <2>2. [at : {"ids"}, since : 0..n, current : 0..n] \subseteq [at : {"ids"}, since : 0..m, current : 0..m]
    BY <1>1
  <2>3. Underway(n) \subseteq Underway(m)
    BY <1>1, <1>4 DEF Underway
  <2> QED
    BY <2>1, <2>2, <2>3 DEF Requests
<1>7. ASSUME NEW s, IsStore(s, n) PROVE IsStore(s, m)
  BY <1>1, <1>2, <1>3, <1>7 DEF IsStore
<1>8. Memberships(n) \subseteq Memberships(m) /\ Messages(n) \subseteq Messages(m) /\ Tombs(n) \subseteq Tombs(m)
  BY <1>1 DEF Memberships, Messages, Tombs
<1> QED
  BY <1>3, <1>4, <1>5, <1>6, <1>7, <1>8

LEMMA NothingStored ==
  ASSUME NEW n \in Nat
  PROVE  /\ NoBatch \in Batches(n)
         /\ Empty \in [cursor : {0}, gen : {0}, ch : 0..n, my : 0..n, th : [seq : 0..n, gone : BOOLEAN],
              rows : [Ids -> [seq : 0..n, gone : BOOLEAN, partial : BOOLEAN]],
              fence : 0..n, active : BOOLEAN, cov : {NoCoverage}]
<1>1. Version \in [seq : 0..n, gone : BOOLEAN] /\ NoVersions \in Versions(n)
  BY DEF Version, NoVersions, Versions
<1>2. NoRows \in [Ids -> [seq : 0..n, gone : BOOLEAN, partial : BOOLEAN]]
  BY DEF NoRows
<1>3. [i \in Ids |-> 0] \in [Ids -> 0..n]
  OBVIOUS
<1> QED
  BY <1>1, <1>2, <1>3 DEF Empty, NoBatch, Batches

LEMMA EmptyIsStore ==
  ASSUME NEW n \in Nat, NEW gen \in Nat
  PROVE  /\ IsStore(Empty, n) /\ Empty.cursor = 0
         /\ IsStore([Empty EXCEPT !.gen = gen], n) /\ [Empty EXCEPT !.gen = gen].cursor = 0
BY NothingStored DEF IsStore

LEMMA ApplyKeeps ==
  ASSUME NEW n \in Nat, NEW s, IsStore(s, n), NEW b \in Batches(n)
  PROVE  IsStore(Apply(s, b), n) /\ Apply(s, b).cursor = s.cursor /\ Apply(s, b).gen = s.gen
<1> DEFINE Good(t) == IsStore(t, n) /\ t.cursor = s.cursor /\ t.gen = s.gen
<1>0. Good(s)
  OBVIOUS
<1>1. \A t : Good(t) => Good(ApplyMine(t, b))
  BY DEF IsStore, Batches, ApplyMine
<1>2. \A t : Good(t) => Good(ApplyRemoval(t, b))
  BY NothingStored DEF IsStore, Batches, ApplyRemoval
<1>3. \A t : Good(t) => Good(ApplyChannel(t, b))
  BY DEF IsStore, Batches, ApplyChannel
<1>4. \A t : Good(t) => Good(ApplyTheirs(t, b))
  BY DEF IsStore, Batches, ApplyTheirs
<1>5. \A t : Good(t) => Good(ApplyLeft(t, b))
  BY DEF IsStore, Batches, ApplyLeft
<1>6. \A t : Good(t) => Good(ApplyRows(t, b))
  BY DEF IsStore, Batches, Versions, ApplyRows
<1>7. \A t : Good(t) => Good(ApplyTombstones(t, b))
  BY DEF IsStore, Batches, ApplyTombstones
<1> HIDE DEF Good
<1>8. Good(Apply(s, b))
  BY <1>0, <1>1, <1>2, <1>3, <1>4, <1>5, <1>6, <1>7 DEF Apply
<1> QED
  BY <1>8 DEF Good

LEMMA RangesKeep ==
  ASSUME NEW n \in Nat, NEW s, IsStore(s, n), NEW page, NEW before
  PROVE  /\ IsStore(Settle(s), n) /\ Settle(s).cursor = s.cursor
         /\ IsStore(RecordHead(s, page), n) /\ RecordHead(s, page).cursor = s.cursor
         /\ IsStore(RecordOlder(s, before, page), n) /\ RecordOlder(s, before, page).cursor = s.cursor
<1>1. \A c : IsStore([s EXCEPT !.cov = c], n) /\ [s EXCEPT !.cov = c].cursor = s.cursor
  BY DEF IsStore
<1>2. \E c : Settle(s) = [s EXCEPT !.cov = c]
  BY DEF Settle, IsStore
<1>3. \E c : RecordHead(s, page) = [s EXCEPT !.cov = c]
  BY DEF RecordHead, IsStore
<1>4. \E c : RecordOlder(s, before, page) = [s EXCEPT !.cov = c]
  BY DEF RecordOlder, IsStore
<1> QED
  BY <1>1, <1>2, <1>3, <1>4

-----------------------------------------------------------------------------
(* The server.                                                             *)

\* What there was is still in its place with one more change.
LEMMA OneMore ==
  ASSUME ServerOK, now < MaxSeq, now' = now + 1
  PROVE  /\ now' \in 1..MaxSeq /\ now' \in 1..now' /\ now \in Nat /\ now' \in Nat /\ floor \in 0..now' /\ chan \in 1..now'
         /\ msgs \in Seq(Messages(now')) /\ mine \in Memberships(now') /\ theirs \in Memberships(now')
         /\ tombs \subseteq Tombs(now') /\ live \subseteq Batches(now')
         /\ \A k \in Nat : Len(msgs) <= k => sends \subseteq Sends(now', 1..k)
<1>1. now' \in 1..MaxSeq /\ now' \in 1..now' /\ floor \in 0..now' /\ chan \in 1..now' /\ now \in Nat /\ now' \in Nat /\ now <= now'
  BY BoundsAssumption DEF ServerOK
<1>2. /\ Messages(now) \subseteq Messages(now') /\ Memberships(now) \subseteq Memberships(now')
      /\ Tombs(now) \subseteq Tombs(now') /\ Batches(now) \subseteq Batches(now')
  BY <1>1, Grow
<1>3. msgs \in Seq(Messages(now'))
  BY <1>2 DEF ServerOK
<1>4. ASSUME NEW k \in Nat, Len(msgs) <= k PROVE sends \subseteq Sends(now', 1..k)
  <2>1. 1..Len(msgs) \subseteq 1..k /\ 0..now \subseteq 0..now' /\ 1..now \subseteq 1..now'
    BY <1>1, <1>4 DEF ServerOK
  <2>2. Sends(now, 1..Len(msgs)) \subseteq Sends(now', 1..k)
    BY <2>1 DEF Sends
  <2> QED
    BY <2>2 DEF ServerOK
<1> QED
  BY <1>1, <1>2, <1>3, <1>4 DEF ServerOK

LEMMA ChangesKeep ==
  ASSUME ServerOK, Changes
  PROVE  ServerOK' /\ now' \in Nat /\ now <= now' /\ UNCHANGED <<st, req, loads>>
<1>0. now \in Nat /\ Len(msgs) \in Nat /\ msgs \in Seq(Messages(now)) /\ Len(msgs) < now
  BY BoundsAssumption DEF ServerOK
<1>1. ASSUME NEW own \in BOOLEAN, Send(own) PROVE ServerOK' /\ now <= now' /\ UNCHANGED <<st, req, loads>>
  <2>1. now < MaxSeq /\ now' = now + 1 /\ UNCHANGED <<floor, live, st, req, loads, theirs, chan, tombs>>
    BY <1>1 DEF Send, Change
  <2>2. msgs' = Append(msgs, [seq |-> now + 1, gone |-> FALSE])
        /\ mine' = (IF own THEN [mine EXCEPT !.seq = now + 1] ELSE mine)
        /\ sends' \subseteq sends \cup {[kind |-> "new", id |-> Len(msgs) + 1]}
    <3>1. msgs' = Append(msgs, [seq |-> now + 1, gone |-> FALSE])
      BY <1>1 DEF Send
    <3>2. mine' = IF own THEN [mine EXCEPT !.seq = now + 1] ELSE mine
      BY <1>1 DEF Send
    <3>3. sends' = sends \cup (IF mine.in THEN {[kind |-> "new", id |-> Len(msgs) + 1]} ELSE {})
      BY <1>1 DEF Send, Change
    <3> QED
      BY <3>1, <3>2, <3>3
  <2>3. [seq |-> now + 1, gone |-> FALSE] \in Messages(now')
    BY <2>1, <1>0 DEF Messages
  <2>4. msgs' \in Seq(Messages(now')) /\ Len(msgs') = Len(msgs) + 1
    BY <2>1, <2>2, <2>3, OneMore
  <2>5. mine' \in Memberships(now')
    <3>1. mine \in Memberships(now') /\ now + 1 \in 1..now'
      BY <2>1, OneMore
    <3> QED
      BY <3>1, <2>2 DEF Memberships
  <2>6. sends' \subseteq Sends(now', 1..Len(msgs'))
    <3>1. sends \subseteq Sends(now', 1..Len(msgs'))
      BY <1>0, <2>1, <2>4, OneMore
    <3>2. Len(msgs) + 1 \in 1..Len(msgs')
      BY <1>0, <2>4
    <3>3. [kind |-> "new", id |-> Len(msgs) + 1] \in Sends(now', 1..Len(msgs'))
      BY <3>2 DEF Sends
    <3> QED
      BY <3>1, <3>3, <2>2
  <2>7. now' \in 1..MaxSeq /\ floor' \in 0..now' /\ chan' \in 1..now' /\ Len(msgs') < now'
        /\ theirs' \in Memberships(now') /\ tombs' \subseteq Tombs(now') /\ live' \subseteq Batches(now')
    BY <1>0, <2>1, <2>4, OneMore
  <2> QED
    BY <1>0, <2>1, <2>4, <2>5, <2>6, <2>7 DEF ServerOK
\* Edit, Delete: one message re-stamped, one thing to send.
<1>2. ASSUME NEW i \in DOMAIN msgs, Edit(i) \/ Delete(i) PROVE ServerOK' /\ now <= now' /\ UNCHANGED <<st, req, loads>>
  <2>1. now < MaxSeq /\ now' = now + 1 /\ UNCHANGED <<floor, live, st, req, loads, mine, theirs, chan, tombs>>
    BY <1>2 DEF Edit, Delete, Change
  <2>2. PICK g \in BOOLEAN : msgs' = [msgs EXCEPT ![i] = [seq |-> now + 1, gone |-> g]]
    <3>1. \A k \in DOMAIN msgs : msgs[k] \in Messages(now)
      BY <1>0
    <3>2. [msgs[i] EXCEPT !.seq = now + 1] = [seq |-> now + 1, gone |-> msgs[i].gone] /\ msgs[i].gone \in BOOLEAN
      BY <3>1 DEF Messages
    <3> QED
      BY <1>2, <3>2 DEF Edit, Delete
  <2>3. sends' \subseteq sends \cup {[kind |-> "update", id |-> i], [kind |-> "delete", id |-> i, seq |-> now + 1]}
    BY <1>2 DEF Edit, Delete, Change
  <2>4. [seq |-> now + 1, gone |-> g] \in Messages(now')
    BY <2>1, <1>0 DEF Messages
  <2>5. msgs' \in Seq(Messages(now')) /\ Len(msgs') = Len(msgs)
    BY <2>1, <2>2, <2>4, OneMore
  <2>6. sends' \subseteq Sends(now', 1..Len(msgs'))
    <3>1. sends \subseteq Sends(now', 1..Len(msgs'))
      BY <1>0, <2>1, <2>5, OneMore
    <3>2. i \in 1..Len(msgs') /\ now + 1 \in 1..now'
      BY <1>0, <2>1, <2>5
    <3>3. [kind |-> "update", id |-> i] \in Sends(now', 1..Len(msgs'))
          /\ [kind |-> "delete", id |-> i, seq |-> now + 1] \in Sends(now', 1..Len(msgs'))
      BY <3>2 DEF Sends
    <3> QED
      BY <3>1, <3>3, <2>3
  <2>7. now' \in 1..MaxSeq /\ floor' \in 0..now' /\ chan' \in 1..now' /\ Len(msgs') < now' /\ mine' \in Memberships(now')
        /\ theirs' \in Memberships(now') /\ tombs' \subseteq Tombs(now') /\ live' \subseteq Batches(now')
    BY <1>0, <2>1, <2>5, OneMore
  <2> QED
    BY <1>0, <2>1, <2>5, <2>6, <2>7 DEF ServerOK
\* Memberships and the channel.
<1>3. ASSUME Out \/ In \/ Mark \/ OtherMember PROVE ServerOK' /\ now <= now' /\ UNCHANGED <<st, req, loads>>
  <2>1. now < MaxSeq /\ now' = now + 1 /\ UNCHANGED <<floor, live, st, req, loads, msgs>>
    BY <1>3 DEF Out, In, Mark, OtherMember, Change
  <2>2. sends' \subseteq sends \cup {[kind |-> "out", seq |-> now + 1], [kind |-> "channel", seq |-> 0]}
    BY <1>3 DEF Out, In, Mark, OtherMember, Change
  <2>3. sends' \subseteq Sends(now', 1..Len(msgs'))
    <3>1. sends \subseteq Sends(now', 1..Len(msgs'))
      BY <1>0, <2>1, OneMore
    <3>2. now + 1 \in 0..now' /\ 0 \in 0..now'
      BY <1>0, <2>1
    <3>3. [kind |-> "out", seq |-> now + 1] \in Sends(now', 1..Len(msgs'))
          /\ [kind |-> "channel", seq |-> 0] \in Sends(now', 1..Len(msgs'))
      BY <3>2 DEF Sends
    <3> QED
      BY <3>1, <3>3, <2>2
  <2>4. mine' \in Memberships(now') /\ theirs' \in Memberships(now')
    <3>1. mine \in Memberships(now') /\ theirs \in Memberships(now') /\ now + 1 \in 1..now'
      BY <2>1, OneMore
    <3>2. CASE Out
      BY <3>1, <3>2 DEF Out, Memberships
    <3>3. CASE In
      BY <3>1, <3>3, <2>1 DEF In, Memberships
    <3>4. CASE Mark
      BY <3>1, <3>4 DEF Mark, Memberships
    <3>5. CASE OtherMember
      <4>1. mine' = mine /\ (theirs' = [theirs EXCEPT !.in = FALSE] \/ theirs' = [in |-> TRUE, seq |-> now + 1, joined |-> now + 1])
        BY <3>5 DEF OtherMember
      <4>2. [in |-> TRUE, seq |-> now + 1, joined |-> now + 1] \in Memberships(now')
        BY <3>1 DEF Memberships
      <4>3. [theirs EXCEPT !.in = FALSE] \in Memberships(now')
        BY <3>1 DEF Memberships
      <4> QED
        BY <3>1, <4>1, <4>2, <4>3
    <3> QED
      BY <1>3, <3>2, <3>3, <3>4, <3>5
  <2>5. chan' \in 1..now'
    BY <1>3, <2>1, OneMore DEF Out, In, Mark, OtherMember
  <2>6. tombs' \subseteq Tombs(now')
    <3>1. tombs' \subseteq tombs \cup {[who |-> "me", seq |-> now + 1], [who |-> "them", seq |-> now + 1]}
      BY <1>3 DEF Out, In, Mark, OtherMember
    <3>2. [who |-> "me", seq |-> now + 1] \in Tombs(now') /\ [who |-> "them", seq |-> now + 1] \in Tombs(now')
      BY <1>0, <2>1 DEF Tombs
    <3> QED
      BY <3>1, <3>2, <2>1, OneMore
  <2>7. now' \in 1..MaxSeq /\ floor' \in 0..now' /\ msgs' \in Seq(Messages(now')) /\ Len(msgs') < now' /\ live' \subseteq Batches(now')
    BY <1>0, <2>1, OneMore
  <2> QED
    BY <1>0, <2>1, <2>3, <2>4, <2>5, <2>6, <2>7 DEF ServerOK
<1>4. ASSUME RaiseFloor PROVE ServerOK' /\ now <= now' /\ UNCHANGED <<st, req, loads>>
  BY <1>0, <1>4 DEF RaiseFloor, ServerOK
<1>5. ServerOK' /\ now <= now' /\ UNCHANGED <<st, req, loads>>
  BY <1>1, <1>2, <1>3, <1>4 DEF Changes
<1> QED
  BY <1>5, BoundsAssumption DEF ServerOK

LEMMA EventsAreBatches ==
  ASSUME ServerOK
  PROVE  /\ \A i \in DOMAIN msgs : Row(i) \in Batches(now)
         /\ \A i, n \in 0..now : Tombstone(i, n) \in Batches(now) /\ ChannelRow(n) \in Batches(now) /\ Removal(n) \in Batches(now)
<1>1. now \in Nat
  BY BoundsAssumption DEF ServerOK
<1>2. NoBatch \in Batches(now)
  BY <1>1, NothingStored
<1>3. ASSUME NEW i \in DOMAIN msgs PROVE Row(i) \in Batches(now)
  <2>1. msgs[i] \in Messages(now)
    BY DEF ServerOK
  <2>2. msgs[i] \in [seq : 0..now, gone : BOOLEAN]
    BY <1>1, <2>1 DEF Messages
  <2> QED
    BY <1>2, <2>2 DEF Row, Batches, Versions
<1>4. ASSUME NEW i \in 0..now, NEW n \in 0..now
      PROVE  Tombstone(i, n) \in Batches(now) /\ ChannelRow(n) \in Batches(now) /\ Removal(n) \in Batches(now)
  BY <1>2 DEF Tombstone, ChannelRow, Removal, Batches
<1> QED
  BY <1>3, <1>4

LEMMA EmittingKeeps ==
  ASSUME ServerOK, NEW e \in sends, ReadChannel(e) \/ Emit(e)
  PROVE  ServerOK' /\ UNCHANGED <<now, st, req, loads>>
<1>1. now \in Nat /\ Len(msgs) \in Nat /\ e \in Sends(now, 1..Len(msgs)) /\ msgs \in Seq(Messages(now)) /\ Len(msgs) < now
  BY BoundsAssumption DEF ServerOK
<1>2. CASE ReadChannel(e)
  <2>1. e.kind = "channel" /\ sends' = (sends \ {e}) \cup {[e EXCEPT !.seq = chan]}
        /\ UNCHANGED <<now, floor, msgs, mine, theirs, chan, tombs, live, st, req, loads>>
    BY <1>2 DEF ReadChannel
  <2>2. e \in [kind : {"out", "channel"}, seq : 0..now]
    BY <1>1, <2>1 DEF Sends
  <2>3. chan \in 0..now
    BY <1>1 DEF ServerOK
  <2>4. [e EXCEPT !.seq = chan] \in Sends(now, 1..Len(msgs))
    BY <2>2, <2>3 DEF Sends
  <2> QED
    BY <2>1, <2>4 DEF ServerOK
<1>3. CASE Emit(e)
  <2>1. sends' = sends \ {e} /\ UNCHANGED <<now, floor, msgs, mine, theirs, chan, tombs, st, req, loads>>
    BY <1>3 DEF Emit
  <2>2. live' \subseteq Batches(now)
    <3>1. live \subseteq Batches(now)
      BY DEF ServerOK
    <3>2. CASE (e.kind = "new" \/ e.kind = "update") /\ live' = live \cup {Row(e.id)}
      <4>1. e.id \in DOMAIN msgs
        BY <1>1, <3>2 DEF Sends
      <4> QED
        BY <3>1, <3>2, <4>1, EventsAreBatches
    <3>3. CASE e.kind = "delete" /\ live' = live \cup {Tombstone(e.id, e.seq)}
      <4>1. e.id \in 0..now /\ e.seq \in 0..now
        BY <1>1, <3>3 DEF Sends
      <4> QED
        BY <3>1, <3>3, <4>1, EventsAreBatches
    <3>4. CASE e.kind \in {"channel", "out"} /\ (live' = live \cup {ChannelRow(e.seq)} \/ live' = live \cup {Removal(e.seq)})
      <4>1. e.seq \in 0..now
        BY <1>1, <3>4 DEF Sends
      <4> QED
        BY <3>1, <3>4, <4>1, EventsAreBatches
    <3> QED
      BY <1>3, <3>2, <3>3, <3>4 DEF Emit
  <2> QED
    BY <2>1, <2>2 DEF ServerOK
<1> QED
  BY <1>2, <1>3

-----------------------------------------------------------------------------
(* The device.                                                             *)

LEMMA EventKeeps ==
  ASSUME ServerOK, DeviceOK, NEW e \in live, LiveEvent(e)
  PROVE  ServerOK' /\ DeviceOK' /\ UNCHANGED <<now, req>> /\ st'.cursor = st.cursor
<1>1. now \in Nat /\ e \in Batches(now)
  BY BoundsAssumption DEF ServerOK
<1>2. live' = live \ {e} /\ st' = Apply(st, e) /\ UNCHANGED serverVars /\ UNCHANGED <<req, loads>>
  BY DEF LiveEvent
<1>3. IsStore(st', now) /\ st'.cursor = st.cursor
  BY <1>1, <1>2, ApplyKeeps DEF DeviceOK
<1>4. now' = now
  BY <1>2 DEF serverVars
<1>5. ServerOK'
  BY <1>2 DEF ServerOK, serverVars
<1>6. IsStore(st, now)'
  BY <1>3, <1>4 DEF IsStore
<1> QED
  BY <1>2, <1>3, <1>4, <1>5, <1>6 DEF DeviceOK

LEMMA HistoryKeeps ==
  ASSUME ServerOK, DeviceOK, History
  PROVE  ServerOK' /\ DeviceOK' /\ UNCHANGED <<now, req>> /\ st'.cursor = st.cursor
<1>1. now \in Nat /\ IsStore(st, now) /\ loads \subseteq Loads(now)
  BY BoundsAssumption DEF ServerOK, DeviceOK
<1>2. UNCHANGED <<serverVars, live, req>>
  BY DEF History, AskHistory, CheckReader, ReadHistory, LandHistory
<1>3. ServerOK' /\ UNCHANGED <<now, req>>
  BY <1>2 DEF ServerOK, serverVars
<1>4. CASE \E before \in {0} \cup Ids : AskHistory(before)
  <2>1. PICK before \in {0} \cup Ids : AskHistory(before)
    BY <1>4
  <2> DEFINE l == [before |-> before, floor |-> st.fence, gen |-> st.gen, first |-> st.cursor = 0,
                   at |-> "asked", rows |-> NoVersions]
  <2>2. loads' = loads \cup {l} /\ st' = st
    BY <2>1 DEF AskHistory
  <2>3. before \in Nat
    BY DEF Ids
  <2>4. NoVersions \in Versions(now)
    BY <1>1 DEF Version, NoVersions, Versions
  <2>5. l \in Loads(now)
    BY <1>1, <2>3, <2>4 DEF Loads, IsStore
  <2> HIDE DEF l
  <2> QED
    BY <1>1, <1>3, <2>2, <2>5 DEF DeviceOK
<1>5. ASSUME NEW l \in loads, CheckReader(l) PROVE DeviceOK' /\ st' = st
  <2>1. [l EXCEPT !.at = "member"] \in Loads(now)
    BY <1>1 DEF Loads
  <2> QED
    BY <1>1, <1>3, <1>5, <2>1 DEF DeviceOK, CheckReader
<1>6. ASSUME NEW l \in loads, ReadHistory(l) PROVE DeviceOK' /\ st' = st
  <2>1. PICK page : /\ page \subseteq DOMAIN msgs
                    /\ loads' = (loads \ {l}) \cup
                         {[l EXCEPT !.at = "read", !.rows = [i \in Ids |-> IF i \in page THEN msgs[i] ELSE Version]]}
                    /\ st' = st
    BY <1>6 DEF ReadHistory, Newest
  <2>2. \A i \in page : msgs[i] \in [seq : 0..now, gone : BOOLEAN]
    <3>1. \A i \in DOMAIN msgs : msgs[i] \in Messages(now)
      BY DEF ServerOK
    <3>2. Messages(now) \subseteq [seq : 0..now, gone : BOOLEAN]
      BY <1>1 DEF Messages
    <3>3. page \subseteq DOMAIN msgs
      BY <2>1
    <3> QED
      BY <3>1, <3>2, <3>3
  <2>3. [i \in Ids |-> IF i \in page THEN msgs[i] ELSE Version] \in Versions(now)
    BY <1>1, <2>2 DEF Versions, Version
  <2>4. [l EXCEPT !.at = "read", !.rows = [i \in Ids |-> IF i \in page THEN msgs[i] ELSE Version]] \in Loads(now)
    BY <1>1, <2>3 DEF Loads
  <2> QED
    BY <1>1, <1>3, <2>1, <2>4 DEF DeviceOK
<1>7. ASSUME NEW l \in loads, LandHistory(l) PROVE DeviceOK' /\ st'.cursor = st.cursor
  <2> DEFINE after == Apply(st, [NoBatch EXCEPT !.rows = l.rows, !.history = TRUE, !.floor = l.floor])
  <2>1. [NoBatch EXCEPT !.rows = l.rows, !.history = TRUE, !.floor = l.floor] \in Batches(now)
    BY <1>1, NothingStored DEF Batches, Loads
  <2>2. IsStore(after, now) /\ after.cursor = st.cursor
    BY <1>1, <2>1, ApplyKeeps
  <2>3. loads' = loads \ {l} /\ (st' = st \/ st' = after \/ (\E page : st' = RecordHead(after, page))
          \/ \E page : st' = RecordOlder(after, l.before, page))
    BY <1>7 DEF LandHistory
  <2> HIDE DEF after
  <2>4. IsStore(st', now) /\ st'.cursor = st.cursor
    <3>1. ASSUME NEW page, st' = RecordHead(after, page) PROVE IsStore(st', now) /\ st'.cursor = st.cursor
      BY <1>1, <2>2, <3>1, RangesKeep
    <3>2. ASSUME NEW page, st' = RecordOlder(after, l.before, page) PROVE IsStore(st', now) /\ st'.cursor = st.cursor
      BY <1>1, <2>2, <3>2, RangesKeep
    <3> QED
      BY <1>1, <2>2, <2>3, <3>1, <3>2
  <2>5. IsStore(st, now)'
    BY <2>4, <1>3 DEF IsStore
  <2> QED
    BY <1>1, <1>3, <2>3, <2>4, <2>5 DEF DeviceOK
<1> QED
  BY <1>3, <1>4, <1>5, <1>6, <1>7 DEF History

-----------------------------------------------------------------------------
(* The server's answer to /sync, statement by statement.                   *)

\* A statement that adds to the page leaves its bounds alone.
LEMMA StatementsKeep ==
  ASSUME ServerOK, req \in Underway(now), RequestOK,
         ReadState \/ ReadStateMembers \/ ReadChannels \/ ReadMemberships \/ ReadNew \/ ReadNewMembers
           \/ ReadNewChannel \/ ReadTombs \/ ReadMessages
  PROVE  /\ req' \in Underway(now)
         /\ req'.since = req.since /\ req'.current = req.current /\ req'.upper = req.upper /\ req'.more = req.more
<1> DEFINE Same(r) == r \in Underway(now) /\ r.since = req.since /\ r.current = req.current /\ r.upper = req.upper /\ r.more = req.more
           With(to, p) == [req EXCEPT !.at = to, !.page = p]
<1>1. now \in Nat /\ chan \in 0..now /\ 0 \in 0..now /\ mine.seq \in 0..now /\ theirs.seq \in 0..now
  BY BoundsAssumption DEF ServerOK, Memberships
<1>2. \A to \in Reading, p \in Batches(now) : Same(With(to, p))
  BY DEF Underway
<1>3. req.page \in Batches(now) /\ req.page.my \in 0..now /\ req.page.th \in 0..now /\ req.page.ch \in 0..now
  BY DEF Underway, Batches
<1> SUFFICES \E to \in Reading, p \in Batches(now) : req' = With(to, p)
  <2> HIDE DEF With
  <2> QED
    BY <1>2
<1>10. {"members", "page", "memberships", "new", "newMembers", "newChannel", "tombs", "messages"} \subseteq Reading
  BY DEF Reading
<1> HIDE DEF Same
<1>11. CASE ReadState
  <2> DEFINE p == [req.page EXCEPT !.ch = chan]
  <2>8. p \in Batches(now)
    BY <1>1, <1>3 DEF Batches
  <2>9. req' = With("members", p) \/ req' = With("page", req.page)
    BY <1>11 DEF ReadState, Underway
  <2> HIDE DEF p, With
  <2> QED
    BY <2>8, <2>9, <1>3, <1>10
<1>12. CASE ReadNew
  <2>9. req' = With("newMembers", req.page) \/ req' = With("tombs", req.page)
    BY <1>12 DEF ReadNew, Underway
  <2> HIDE DEF With
  <2> QED
    BY <2>9, <1>3, <1>10
<1>13. CASE ReadStateMembers
  <2> DEFINE p == [req.page EXCEPT !.my = IF mine.in THEN mine.seq ELSE 0, !.th = IF theirs.in THEN theirs.seq ELSE 0]
  <2>8. p \in Batches(now)
    BY <1>1, <1>3 DEF Batches
  <2>9. req' = With("page", p)
    BY <1>13 DEF ReadStateMembers, Underway
  <2> HIDE DEF p, With
  <2> QED
    BY <2>8, <2>9, <1>10
<1>14. CASE ReadChannels
  <2> DEFINE p == [req.page EXCEPT !.ch = IF mine.in /\ InWindow(chan) THEN chan ELSE 0]
  <2>8. p \in Batches(now)
    BY <1>1, <1>3 DEF Batches
  <2>9. req' = With("memberships", p)
    BY <1>14 DEF ReadChannels, Underway
  <2> HIDE DEF p, With
  <2> QED
    BY <2>8, <2>9, <1>10
<1>15. CASE ReadMemberships
  <2> DEFINE p == [req.page EXCEPT !.my = IF mine.in /\ InWindow(mine.seq) THEN mine.seq ELSE 0,
                          !.th = IF mine.in /\ theirs.in /\ InWindow(theirs.seq) THEN theirs.seq ELSE 0]
  <2>8. p \in Batches(now)
    BY <1>1, <1>3 DEF Batches
  <2>9. req' = With("new", p)
    BY <1>15 DEF ReadMemberships, Underway
  <2> HIDE DEF p, With
  <2> QED
    BY <2>8, <2>9, <1>10
<1>16. CASE ReadNewMembers
  <2> DEFINE p == [req.page EXCEPT !.my = IF @ = 0 /\ mine.in THEN mine.seq ELSE @,
                          !.th = IF @ = 0 /\ theirs.in THEN theirs.seq ELSE @]
  <2>8. p \in Batches(now)
    BY <1>1, <1>3 DEF Batches
  <2>9. req' = With("newChannel", p)
    BY <1>16 DEF ReadNewMembers, Underway
  <2> HIDE DEF p, With
  <2> QED
    BY <2>8, <2>9, <1>10
<1>17. CASE ReadNewChannel
  <2> DEFINE p == [req.page EXCEPT !.ch = IF @ = 0 THEN chan ELSE @]
  <2>8. p \in Batches(now)
    BY <1>1, <1>3 DEF Batches
  <2>9. req' = With("tombs", p)
    BY <1>17 DEF ReadNewChannel, Underway
  <2> HIDE DEF p, With
  <2> QED
    BY <2>8, <2>9, <1>10
<1>18. CASE ReadTombs
  <2> DEFINE Found(who) == {0} \cup {t.seq : t \in {t \in tombs : t.who = who /\ InWindow(t.seq)}}
  <2>1. \A who : Max(Found(who)) \in 0..now
    <3> TAKE who
    <3>1. Found(who) \subseteq 0..now
      BY <1>1 DEF ServerOK, Tombs
    <3>2. Found(who) # {}
      OBVIOUS
    <3> HIDE DEF Found
    <3>3. IsFiniteSet(Found(who)) /\ Found(who) \subseteq Int
      <4>1. IsFiniteSet(0..now) /\ 0..now \subseteq Int
        BY <1>1, FS_Interval
      <4>2. Found(who) \in SUBSET (0..now)
        BY <3>1
      <4>3. IsFiniteSet(Found(who))
        BY <4>1, <4>2, FS_Subset
      <4> QED
        BY <4>1, <4>2, <4>3
    <3> QED
      BY <3>1, <3>2, <3>3, Greatest
  <2> DEFINE removed == IF req.ours THEN 0 ELSE Max(Found("me"))
             left == IF req.ours /\ mine.in THEN Max(Found("them")) ELSE 0
  <2>2. removed \in 0..now /\ left \in 0..now
    <3> HIDE DEF Found
    <3> QED
      BY <1>1, <2>1
  <2> DEFINE p == [req.page EXCEPT !.removed = removed, !.left = left]
  <2>8. p \in Batches(now)
    <3> HIDE DEF removed, left
    <3> QED
      BY <2>2, <1>3 DEF Batches
  <2>9. req' = With("messages", p)
    BY <1>18 DEF ReadTombs, Underway
  <2> HIDE DEF p, With
  <2> QED
    BY <2>8, <2>9, <1>10
<1>19. CASE ReadMessages
  <2> DEFINE v == [i \in Ids |-> IF mine.in /\ i \in DOMAIN msgs /\ InWindow(msgs[i].seq) THEN msgs[i] ELSE Version]
  <2>1. \A i \in DOMAIN msgs : msgs[i] \in Messages(now)
    BY DEF ServerOK
  <2>2. Messages(now) \subseteq [seq : 0..now, gone : BOOLEAN] /\ Version \in [seq : 0..now, gone : BOOLEAN]
    BY <1>1 DEF Messages, Version
  <2>3. v \in Versions(now)
    BY <2>1, <2>2 DEF Versions
  <2> DEFINE p == [req.page EXCEPT !.rows = v]
  <2>8. p \in Batches(now)
    <3> HIDE DEF v
    <3> QED
      BY <2>3, <1>3 DEF Batches
  <2>9. req' = With("page", p)
    BY <1>19 DEF ReadMessages, Underway
  <2> HIDE DEF p, With
  <2> QED
    BY <2>8, <2>9, <1>10
<1> QED
  BY <1>11, <1>12, <1>13, <1>14, <1>15, <1>16, <1>17, <1>18, <1>19

\* The bound of a page is a seq that is due: above the cursor, and not above the counter.
LEMMA BoundIsDue ==
  ASSUME ServerOK, req \in Underway(now), ReadBound
  PROVE  /\ req' \in Underway(now)
         /\ req'.since = req.since /\ req'.current = req.current
         /\ IF req'.more THEN req.since < req'.upper /\ req'.upper <= req.current ELSE req'.upper = req.current
<1> DEFINE seqs == (IF mine.in THEN {chan, mine.seq} \cup {msgs[i].seq : i \in DOMAIN msgs}
                                    \cup (IF theirs.in THEN {theirs.seq} ELSE {}) ELSE {})
                   \cup {t.seq : t \in {t \in tombs : t.who = "me" \/ mine.in}}
           due == {n \in seqs : req.since < n /\ n <= req.current}
           more == Cardinality(due) > SyncLimit
           nth == CHOOSE n \in due : Cardinality({k \in due : k <= n}) = SyncLimit
<1>1. req' = [req EXCEPT !.at = "channels", !.more = more, !.upper = IF more THEN nth ELSE req.current]
  BY DEF ReadBound
<1>2. now \in Nat /\ req.current \in 0..now /\ req.since \in 0..now /\ req.upper \in 0..now
  BY BoundsAssumption DEF ServerOK, Underway
<1>3. seqs \subseteq 0..now
  <2>1. chan \in 0..now /\ mine.seq \in 0..now /\ theirs.seq \in 0..now /\ {t.seq : t \in {t \in tombs : t.who = "me" \/ mine.in}} \subseteq 0..now
    BY <1>2 DEF ServerOK, Memberships, Tombs
  <2>2. \A i \in DOMAIN msgs : msgs[i] \in Messages(now)
    BY DEF ServerOK
  <2>3. \A v \in Messages(now) : v.seq \in 0..now
    BY <1>2 DEF Messages
  <2>4. {msgs[i].seq : i \in DOMAIN msgs} \subseteq 0..now
    BY <2>2, <2>3
  <2> QED
    BY <2>1, <2>4
<1>4. due \subseteq 0..now /\ \A n \in due : req.since < n /\ n <= req.current
  BY <1>3
<1>5. more \in BOOLEAN
  OBVIOUS
<1>6. ASSUME more PROVE nth \in due
  <2> HIDE DEF seqs
  <2>1. IsFiniteSet(due)
    <3>1. IsFiniteSet(0..now)
      BY <1>2, FS_Interval
    <3> HIDE DEF due
    <3> QED
      BY <3>1, <1>4, FS_Subset
  <2>2. due \subseteq Int /\ SyncLimit \in Nat \ {0} /\ Cardinality(due) \in Nat
    BY <2>1, <1>2, <1>4, BoundsAssumption, FS_CardinalityType
  <2>3. SyncLimit <= Cardinality(due)
    BY <2>2, <1>6, BoundsAssumption
  <2> HIDE DEF due
  <2>4. \E n \in due : Cardinality({k \in due : k <= n}) = SyncLimit
    BY <2>1, <2>2, <2>3, Nth
  <2> QED
    BY <2>4
<1> HIDE DEF seqs, due, more, nth
<1>7. CASE more
  BY <1>1, <1>2, <1>4, <1>5, <1>6, <1>7 DEF Underway, Reading
<1>8. CASE ~more
  BY <1>1, <1>2, <1>5, <1>8 DEF Underway, Reading
<1> QED
  BY <1>7, <1>8

LEMMA ReadsKeep ==
  ASSUME ServerOK, DeviceOK, RequestOK, Reads, UNCHANGED askVars
  PROVE  /\ ServerOK' /\ DeviceOK' /\ RequestOK' /\ UNCHANGED <<now, st>>
         /\ req'.at \in Reading \cup {"ids"} =>
              req'.current = now \/ (req.at \in Reading \cup {"ids"} /\ req'.current = req.current)
<1> DEFINE Counted == req'.at \in Reading \cup {"ids"} =>
              req'.current = now \/ (req.at \in Reading \cup {"ids"} /\ req'.current = req.current)
<1>1. UNCHANGED <<serverVars, live, st, loads>>
  BY DEF Reads, Stays, Statement, ReadsBlindly, AskSync, ReadCounter, ReadIds, ReadState, ReadStateMembers, ReadBound, ReadChannels,
         ReadMemberships, ReadNew, ReadNewMembers, ReadNewChannel, ReadTombs, ReadMessages
<1>2. ServerOK' /\ now' = now /\ st' = st
  BY <1>1 DEF ServerOK, serverVars
<1>3. now \in Nat /\ req \in Requests(now) /\ st.cursor \in 0..now /\ NoBatch \in Batches(now)
  BY BoundsAssumption, NothingStored DEF ServerOK, DeviceOK, IsStore
<1>4. Running' = Running /\ Anybody' = Anybody
  BY DEF askVars, runVars, Running, Anybody
<1>5. req' \in Requests(now) => DeviceOK'
  BY <1>1, <1>2 DEF DeviceOK, IsStore
<1>6. ASSUME req \in Underway(now), req' \in Underway(now), req'.since = req.since, req'.current = req.current,
             req'.since <= req'.upper, req'.upper <= req'.current, ~req'.more => req'.upper = req'.current
      PROVE  req' \in Requests(now) /\ RequestOK' /\ Counted
  <2>1. req.at \in Reading /\ req'.at \in Reading /\ req # Idle /\ req' # Idle /\ req.at \notin {"idle", "reset"}
    BY <1>6 DEF Underway, Idle, Reading
  <2> QED
    BY <1>2, <1>4, <1>6, <2>1 DEF RequestOK, Requests
<1>7. CASE AskSync
  <2>1. req' = [at |-> "asked", since |-> st.cursor] /\ (Running \/ Anybody)
    BY <1>7 DEF AskSync
  <2>2. req' \in Requests(now) /\ req'.at = "asked" /\ req'.since = st.cursor
    BY <2>1, <1>3 DEF Requests
  <2>3. RequestOK' /\ Counted
    BY <1>2, <1>4, <2>1, <2>2 DEF RequestOK, Reading
  <2> QED
    BY <1>2, <1>5, <2>2, <2>3
<1>8. CASE ReadCounter
  <2>1. req.at = "asked" /\ req.since = st.cursor /\ (Running \/ Anybody)
    BY <1>8 DEF ReadCounter, RequestOK, Idle
  <2>2. req' = [at |-> "reset"] \/ req' = [at |-> "ids", since |-> st.cursor, current |-> now]
    BY <1>8, <2>1 DEF ReadCounter
  <2>3. req' \in Requests(now) /\ (req'.at = "reset" \/ (req'.at = "ids" /\ req'.since = st.cursor /\ req'.current = now))
    BY <2>2, <1>3 DEF Requests
  <2>4. RequestOK' /\ Counted
    BY <1>2, <1>3, <1>4, <2>1, <2>3 DEF RequestOK, Reading
  <2> QED
    BY <1>2, <1>5, <2>3, <2>4
<1>9. CASE ReadIds
  <2>1. req.at = "ids" /\ req.since = st.cursor /\ (Running \/ Anybody) /\ req.since <= req.current
    BY <1>9 DEF ReadIds, RequestOK, Idle
  <2>2. req.current \in 0..now
    BY <2>1, <1>3 DEF Requests, Underway, Reading, Idle
  <2>3. mine.in \in BOOLEAN
    BY DEF ServerOK, Memberships
  <2>4. PICK to \in {"state", "bound"} :
          req' = [at |-> to, since |-> req.since, current |-> req.current,
                  ours |-> mine.in, upper |-> req.current, more |-> FALSE, page |-> NoBatch]
    BY <1>9 DEF ReadIds
  <2>5. req' \in Underway(now) /\ req'.at = to /\ req'.since = st.cursor /\ req'.current = req.current /\ req'.upper = req.current
    BY <2>1, <2>2, <2>3, <2>4, <1>3 DEF Underway, Reading
  <2>6. RequestOK' /\ Counted
    BY <1>2, <1>4, <2>1, <2>2, <2>5 DEF RequestOK, Reading
  <2>7. req' \in Requests(now)
    BY <2>5 DEF Requests
  <2> QED
    BY <1>2, <1>5, <2>6, <2>7
<1>10. CASE ReadBound
  <2>1. req \in Underway(now)
    BY <1>3, <1>10 DEF ReadBound, Requests, Idle
  <2>2. req.since <= req.upper /\ req.upper <= req.current /\ (~req.more => req.upper = req.current)
    BY <2>1 DEF RequestOK, Underway
  <2>3. req' \in Underway(now) /\ req'.since = req.since /\ req'.current = req.current
        /\ (IF req'.more THEN req.since < req'.upper /\ req'.upper <= req.current ELSE req'.upper = req.current)
    BY <1>10, <2>1, BoundIsDue
  <2>4. req.since \in Int /\ req.current \in Int /\ req.upper \in Int /\ req'.upper \in Int /\ req'.more \in BOOLEAN
    BY <2>1, <2>3 DEF Underway
  <2> QED
    BY <2>1, <2>2, <2>3, <2>4, <1>2, <1>5, <1>6
<1>11. CASE ReadState \/ ReadStateMembers \/ ReadChannels \/ ReadMemberships \/ ReadNew \/ ReadNewMembers
              \/ ReadNewChannel \/ ReadTombs \/ ReadMessages
  <2>1. req \in Underway(now)
    BY <1>3, <1>11 DEF Requests, Idle, ReadState, ReadStateMembers, ReadChannels, ReadMemberships, ReadNew, ReadNewMembers,
                       ReadNewChannel, ReadTombs, ReadMessages
  <2>2. req.since <= req.upper /\ req.upper <= req.current /\ (~req.more => req.upper = req.current)
    BY <2>1 DEF RequestOK, Underway
  <2>3. /\ req' \in Underway(now)
        /\ req'.since = req.since /\ req'.current = req.current /\ req'.upper = req.upper /\ req'.more = req.more
    BY <1>11, <2>1, StatementsKeep
  <2> QED
    BY <2>1, <2>2, <2>3, <1>2, <1>5, <1>6
<1> QED
  BY <1>7, <1>8, <1>9, <1>10, <1>11 DEF Reads

-----------------------------------------------------------------------------
(* The runs and the requests.                                              *)

\* Where nobody calls in this behaviour, nobody runs either; else it is always said who.
LEMMA WhoRuns ==
  ASSUME RunsTypeOK
  PROVE  ~(Anybody /\ Running)
BY DEF RunsTypeOK, Anybody, Running

LEMMA RunsStep ==
  ASSUME RunsInv, RequestOK, AskedOK, RunsNext, UNCHANGED <<now, st, req, wanted, refused>>
  PROVE  RunsInv' /\ RequestOK' /\ AskedOK'
<1>1. RunsInv'
  BY StepKeeps
<1>2. PICK c \in Callers : SyncDue(c) \/ RetryDue(c) \/ Tries(c) \/ Decides(c) \/ LetsGo(c) \/ Looks(c)
  BY DEF RunsNext
<1>3. at \in [Callers -> {"any", "away", "trying", "deciding", "running", "leaving", "looking"}]
  BY DEF RunsInv, RunsTypeOK
\* Nobody is moved who runs, and nobody but who decides begins to.
<1>4. ASSUME NEW to \in {"away", "trying", "leaving", "looking"}, at[c] \notin {"any", "running"}, Moves(c, to)
      PROVE  Running' = Running /\ Anybody' = Anybody
  BY <1>3, <1>4 DEF Moves, Running, Anybody
<1>5. CASE SyncDue(c) \/ (RetryDue(c) /\ offline)
  <2>1. Calls(c) /\ again' /\ UNCHANGED offline
    BY <1>5 DEF SyncDue, RetryDue, Calls
  <2>2. Running' = Running /\ Anybody' = Anybody
    BY <1>4, <2>1 DEF Calls
  <2> QED
    BY <1>1, <2>1, <2>2 DEF RequestOK, AskedOK
<1>6. CASE RetryDue(c) /\ ~offline
  <2>1. UNCHANGED <<at, again, offline>> /\ timers' = timers \ {"retry"}
    BY <1>6 DEF RetryDue
  <2>2. "sync" \in timers' <=> "sync" \in timers
    BY <2>1
  <2>3. Running' = Running /\ Anybody' = Anybody
    BY <2>1 DEF Running, Anybody
  <2> QED
    BY <1>1, <2>1, <2>2, <2>3 DEF RequestOK, AskedOK
<1>7. CASE LetsGo(c) \/ Looks(c) \/ (Tries(c) /\ Held)
  <2>1. UNCHANGED <<again, offline>> /\ timers \subseteq timers'
    BY <1>7 DEF Tries, LetsGo, Looks, GoesAway
  <2>2. Running' = Running /\ Anybody' = Anybody
    <3>1. at[c] \notin {"any", "running"}
      BY <1>7 DEF Tries, LetsGo, Looks
    <3>2. Moves(c, "away") \/ Moves(c, "trying") \/ Moves(c, "looking")
      BY <1>7 DEF Tries, LetsGo, Looks, GoesAway
    <3> QED
      BY <3>1, <3>2, <1>4
  <2> QED
    BY <1>1, <2>1, <2>2 DEF RequestOK, AskedOK
<1>8. CASE Tries(c) /\ ~Held
  <2>1. UNCHANGED <<again, timers, offline>> /\ at[c] = "trying" /\ Moves(c, "deciding")
    BY <1>8 DEF Tries
  <2>2. Running' = Running /\ Anybody' = Anybody
    BY <1>3, <2>1 DEF Moves, Running, Anybody
  <2> QED
    BY <1>1, <2>1, <2>2 DEF RequestOK, AskedOK
\* The request is cleared when its run begins.
<1>9. CASE Decides(c)
  <2>1. at[c] = "deciding" /\ Moves(c, IF again THEN "running" ELSE "leaving")
    BY <1>9 DEF Decides
  <2>2. ~Running /\ ~Anybody
    BY <2>1 DEF Running, Anybody, RunsInv, OneRun, Holding
  <2>3. req = Idle /\ req'.at = "idle"
    BY <2>2 DEF RequestOK, Idle
  <2>4. Running' = again /\ ~Anybody'
    BY <1>3, <2>1, <2>2 DEF Moves, Running, Anybody, RunsInv, RunsTypeOK
  <2>5. UNCHANGED <<timers, offline>>
    BY <1>9 DEF Decides
  <2>6. RequestOK'
    BY <2>3 DEF RequestOK, Reading
  <2>7. AskedOK'
    BY <2>2, <2>3, <2>4, <2>5 DEF AskedOK, Reading
  <2> QED
    BY <1>1, <2>6, <2>7
<1> QED
  BY <1>2, <1>5, <1>6, <1>7, <1>8, <1>9

\* How a run ends.
LEMMA Ending ==
  ASSUME NEW how \in Outcomes, RunsInv, Ends(how)
  PROVE  /\ RunsInv'
         /\ (Anybody' <=> Anybody)
         /\ ~Anybody => /\ Running /\ ~Running'
                        /\ timers' = timers /\ (again' <=> again \/ how = "reset") /\ offline' = (how = "unreachable")
<1>1. RunsInv'
  BY EndsKeeps
<1>2. CASE Anybody
  <2>1. UNCHANGED runVars
    BY <1>2 DEF Ends, Anybody
  <2>2. at' = at
    BY <2>1 DEF runVars
  <2>3. Anybody' = Anybody
    BY <2>2 DEF Anybody
  <2> QED
    BY <1>1, <1>2, <2>3
<1>3. CASE ~Anybody
  <2>1. PICK c \in Callers :
          /\ at[c] = "running" /\ Moves(c, IF how \in {"done", "reset"} THEN "deciding" ELSE "leaving")
          /\ offline' = (how = "unreachable")
          /\ again' = (again \/ how = "reset") /\ UNCHANGED timers
    BY <1>3 DEF Ends
  <2>2. Running
    BY <2>1 DEF Running
  <2>3. \A d \in Callers : at[d] = "running" => d = c
    BY <2>1 DEF RunsInv, OneRun, Holding
  <2>4. ~Running' /\ ~Anybody'
    BY <2>1, <2>3 DEF Running, Anybody, Moves, RunsInv, RunsTypeOK
  <2> QED
    BY <1>1, <1>3, <2>1, <2>2, <2>4
<1> QED
  BY <1>2, <1>3

LEMMA AskingKeeps ==
  ASSUME ServerOK, DeviceOK, RequestOK, RunsInv, AskedOK, AskForSync
  PROVE  ServerOK' /\ DeviceOK' /\ RequestOK' /\ RunsInv' /\ AskedOK'
<1>1. Schedules /\ UNCHANGED <<serverVars, live, st, req, loads, refused>> /\ wanted' = now
  BY DEF AskForSync
<1>2. ServerOK' /\ now' = now
  BY <1>1 DEF ServerOK, serverVars
<1>3. DeviceOK'
  BY <1>1, <1>2 DEF DeviceOK, IsStore
<1>4. RunsInv'
  BY <1>1, StepKeeps
<1>5. ~Anybody /\ UNCHANGED at /\ "sync" \in timers'
  BY <1>1 DEF Schedules
<1>6. RequestOK'
  BY <1>1, <1>5 DEF RequestOK, Running, Anybody
<1>7. AskedOK'
  BY <1>1, <1>2, <1>5, BoundsAssumption DEF AskedOK, Running, Anybody, ServerOK
<1> QED
  BY <1>2, <1>3, <1>4, <1>6, <1>7

\* The cursor moves up with the page; with the last one of a run it reaches the counter as
\* the run read it.
LEMMA PageKeeps ==
  ASSUME ServerOK, DeviceOK, RequestOK, RunsInv, AskedOK, LandPage
  PROVE  ServerOK' /\ DeviceOK' /\ RequestOK' /\ RunsInv' /\ AskedOK'
<1>1. req.at = "page" /\ req' = Idle /\ UNCHANGED <<serverVars, live, loads, wanted>>
  BY DEF LandPage
<1>2. ServerOK' /\ now' = now /\ now \in Nat
  BY <1>1, BoundsAssumption DEF ServerOK, serverVars
<1>3. req \in Underway(now)
  BY <1>1 DEF DeviceOK, Requests, Idle
<1>4. req.upper \in 0..now /\ req.page \in Batches(now) /\ req.current \in 0..now /\ req.more \in BOOLEAN
  BY <1>3 DEF Underway
<1>5. st.cursor <= req.upper /\ (~req.more => req.upper = req.current) /\ (Running \/ Anybody) /\ st.cursor \in 0..now
  BY <1>1, <1>3 DEF RequestOK, Reading, Idle, DeviceOK, IsStore
<1> DEFINE after == [Apply(st, req.page) EXCEPT !.cursor = req.upper]
<1>6. IsStore(after, now) /\ after.cursor = req.upper
  <2>1. IsStore(Apply(st, req.page), now)
    BY <1>2, <1>4, ApplyKeeps DEF DeviceOK
  <2> QED
    BY <2>1, <1>4 DEF IsStore
<1>7. st' = after \/ st' = Settle(after)
  BY DEF LandPage
<1>8. IsStore(st', now) /\ st'.cursor = req.upper
  <2> HIDE DEF after
  <2>1. IsStore(Settle(after), now) /\ Settle(after).cursor = after.cursor
    BY <1>2, <1>6, RangesKeep
  <2> QED
    BY <1>6, <1>7, <2>1
<1>9. DeviceOK'
  BY <1>1, <1>2, <1>8 DEF DeviceOK, IsStore, Requests
<1>10. req'.at = "idle"
  BY <1>1 DEF Idle
<1>11. CASE req.more
  <2>1. UNCHANGED <<runVars, refused>>
    BY <1>11 DEF LandPage
  <2>2. RunsInv' /\ UNCHANGED <<at, timers, again, offline, refused>>
    BY <2>1 DEF runVars, RunsInv, RunsTypeOK, OneRun, RequestHeard, RetryAhead, Running
  <2>3. RequestOK'
    BY <1>1, <1>10 DEF RequestOK, Reading
  <2>4. AskedOK'
    BY <1>1, <1>2, <1>4, <1>5, <1>8, <1>10, <2>2 DEF AskedOK, Running, Anybody, Reading
  <2> QED
    BY <1>2, <1>9, <2>2, <2>3, <2>4
<1>12. CASE ~req.more
  <2>1. Ends("done") /\ "done" \in Outcomes
    BY <1>12 DEF LandPage, Outcomes
  <2>2. /\ RunsInv' /\ (Anybody' <=> Anybody)
        /\ ~Anybody => Running /\ ~Running' /\ timers' = timers /\ (again' <=> again) /\ offline' = FALSE
    BY <2>1, Ending
  <2>3. RequestOK'
    BY <1>1, <1>10 DEF RequestOK, Reading
  <2>4. wanted <= st'.cursor \/ (~Anybody /\ ("sync" \in timers' \/ again'))
    <3>1. CASE Anybody
      BY <3>1, <1>4, <1>8 DEF AskedOK
    <3>2. CASE ~Anybody
      BY <3>2, <1>1, <1>4, <1>5, <1>8, <1>12, <2>2 DEF AskedOK, Reading
    <3> QED
      BY <3>1, <3>2
  <2>5. AskedOK'
    BY <1>1, <1>2, <2>2, <2>4 DEF AskedOK
  <2> QED
    BY <1>2, <1>9, <2>2, <2>3, <2>5
<1> QED
  BY <1>4, <1>11, <1>12

\* A run that fails says so; a reset has the next run begin at once.
LEMMA FailuresKeep ==
  ASSUME ServerOK, DeviceOK, RequestOK, RunsInv, AskedOK, LosePage \/ Reset
  PROVE  ServerOK' /\ DeviceOK' /\ RequestOK' /\ RunsInv' /\ AskedOK'
<1>1. req' = Idle /\ req'.at = "idle" /\ UNCHANGED <<serverVars, live, loads, wanted>>
  BY DEF LosePage, Reset, Idle
<1>2. ServerOK' /\ now' = now /\ now \in Nat
  BY <1>1, BoundsAssumption DEF ServerOK, serverVars
<1>3. IsStore(st', now) /\ (st' = st \/ Reset)
  <2>1. CASE LosePage
    BY <2>1 DEF LosePage, DeviceOK
  <2>2. CASE Reset
    <3>1. st.gen + 1 \in Nat
      BY DEF DeviceOK, IsStore
    <3> QED
      BY <2>2, <3>1, <1>2, EmptyIsStore DEF Reset
  <2> QED
    BY <2>1, <2>2
<1>4. DeviceOK'
  BY <1>1, <1>2, <1>3 DEF DeviceOK, IsStore, Requests
<1>5. RequestOK'
  BY <1>1 DEF RequestOK, Reading
<1>6. PICK how \in {"unreachable", "error", "reset"} :
        Ends(how) /\ (how = "error" => refused') /\ (how # "reset" => st' = st)
  BY <1>1 DEF LosePage, Reset
<1>7. /\ RunsInv' /\ (Anybody' <=> Anybody)
      /\ ~Anybody => /\ Running /\ ~Running' /\ timers' = timers
                     /\ (again' <=> again \/ how = "reset") /\ offline' = (how = "unreachable")
  <2>1. how \in Outcomes /\ Ends(how)
    BY <1>6 DEF Outcomes
  <2> QED
    BY <2>1, Ending
<1>8. AskedOK'
  <2>1. CASE Anybody
    <3>1. ~Running' /\ Anybody'
      BY <2>1, <1>7, WhoRuns DEF RunsInv, Running, Anybody
    <3>2. wanted' = 0 /\ st'.cursor \in Nat
      BY <2>1, <1>1, <1>2, <1>3 DEF AskedOK, IsStore
    <3> QED
      BY <3>1, <3>2, <1>1, <1>2 DEF AskedOK
  <2>2. CASE ~Anybody
    BY <2>2, <1>1, <1>2, <1>6, <1>7 DEF AskedOK
  <2> QED
    BY <2>1, <2>2
<1> QED
  BY <1>2, <1>4, <1>5, <1>7, <1>8

-----------------------------------------------------------------------------
(* The whole.                                                              *)

\* A step that leaves the requests and what is asked for alone, and the changes there are
\* only more.
LEMMA Undisturbed ==
  ASSUME RunsInv, RequestOK, AskedOK, now \in Nat, now' \in Nat, now <= now', st'.cursor = st.cursor,
         UNCHANGED <<req, askVars>>
  PROVE  RunsInv' /\ RequestOK' /\ AskedOK'
<1>1. UNCHANGED <<at, again, failed, timers, offline, wanted, refused>>
  BY DEF askVars, runVars
<1>2. (Running' <=> Running) /\ (Anybody' <=> Anybody)
  BY <1>1 DEF Running, Anybody
<1>3. RunsInv'
  BY <1>1 DEF RunsInv, RunsTypeOK, OneRun, RequestHeard, RetryAhead, Running
<1> QED
  BY <1>1, <1>2, <1>3 DEF RequestOK, AskedOK

LEMMA InitInv == Init => Inv
<1> SUFFICES ASSUME Init PROVE Inv
  OBVIOUS
<1>1. PICK old \in Nat : /\ old < MaxSeq /\ now = 1 + old /\ msgs = [i \in 1..old |-> [seq |-> i + 1, gone |-> FALSE]]
  BY BudgetsAssumption DEF Init
<1>2. msgs \in Seq(Messages(now)) /\ Len(msgs) = old
  <2>1. \A i \in 1..old : [seq |-> i + 1, gone |-> FALSE] \in Messages(now)
    BY <1>1 DEF Messages
  <2> QED
    BY <1>1, <2>1
<1>3. Member \in Memberships(now)
  BY <1>1 DEF Member, Memberships
<1>4. /\ floor = 0 /\ mine = Member /\ theirs = Member /\ chan = 1 /\ tombs = {} /\ sends = {} /\ live = {}
      /\ st = Empty /\ req = Idle /\ loads = {} /\ wanted = 0
  BY DEF Init
<1>5. now \in Nat /\ now \in 1..MaxSeq /\ 1 \in 1..now /\ 0 \in 0..now /\ Len(msgs) < now
  BY <1>1, <1>2, BoundsAssumption
<1>6. ServerOK
  BY <1>2, <1>3, <1>4, <1>5 DEF ServerOK
<1>7. IsStore(st, now) /\ st.cursor = 0
  BY <1>4, <1>5, EmptyIsStore
<1>8. DeviceOK
  BY <1>4, <1>7 DEF DeviceOK, Requests
<1>9. RunsInv
  BY InitKept DEF Init
<1>10. RequestOK
  BY <1>4 DEF RequestOK, Idle, Reading
<1>11. wanted <= st.cursor /\ wanted \in 0..now /\ (Anybody => wanted = 0)
  BY <1>4, <1>5, <1>7
<1>12. req.at = "idle"
  BY <1>4 DEF Idle
<1>13. AskedOK
  BY <1>11, <1>12 DEF AskedOK
<1> QED
  BY <1>6, <1>8, <1>9, <1>10, <1>13 DEF Inv

LEMMA StepInv == Inv /\ [Next]_vars => Inv'
<1> SUFFICES ASSUME Inv, [Next]_vars PROVE Inv'
  OBVIOUS
<1>0. /\ ServerOK /\ DeviceOK /\ RequestOK /\ RunsInv /\ AskedOK /\ now \in Nat
  BY BoundsAssumption DEF Inv, ServerOK
<1>1. CASE Changes /\ UNCHANGED askVars
  <2>1. ServerOK' /\ now' \in Nat /\ now <= now' /\ UNCHANGED <<st, req, loads>>
    BY <1>0, <1>1, ChangesKeep
  <2>2. Loads(now) \subseteq Loads(now') /\ Requests(now) \subseteq Requests(now') /\ IsStore(st, now')
    BY <1>0, <2>1, Grow DEF DeviceOK
  <2>3. DeviceOK'
    BY <1>0, <2>1, <2>2 DEF DeviceOK, IsStore
  <2> QED
    BY <1>0, <1>1, <2>1, <2>3, Undisturbed DEF Inv
<1>2. CASE Live /\ UNCHANGED askVars
  <2>1. ASSUME NEW e \in sends, ReadChannel(e) \/ Emit(e) PROVE ServerOK' /\ UNCHANGED <<now, st, req, loads>>
    BY <1>0, <2>1, EmittingKeeps
  <2>2. ASSUME ServerOK', UNCHANGED <<now, st, req, loads>> PROVE Inv'
    <3>1. DeviceOK'
      BY <1>0, <2>2 DEF DeviceOK, IsStore
    <3> QED
      BY <1>0, <1>2, <2>2, <3>1, Undisturbed DEF Inv
  <2>3. ASSUME NEW e \in live, LiveEvent(e) PROVE Inv'
    <3>1. ServerOK' /\ DeviceOK' /\ UNCHANGED <<now, req>> /\ st'.cursor = st.cursor
      BY <1>0, <2>3, EventKeeps
    <3> QED
      BY <1>0, <1>2, <3>1, Undisturbed DEF Inv
  <2> QED
    BY <1>2, <2>1, <2>2, <2>3 DEF Live
<1>3. CASE History /\ UNCHANGED askVars
  <2>1. ServerOK' /\ DeviceOK' /\ UNCHANGED <<now, req>> /\ st'.cursor = st.cursor
    BY <1>0, <1>3, HistoryKeeps
  <2> QED
    BY <1>0, <1>3, <2>1, Undisturbed DEF Inv
<1>4. CASE Reads /\ UNCHANGED askVars
  <2>1. /\ ServerOK' /\ DeviceOK' /\ RequestOK' /\ UNCHANGED <<now, st>>
        /\ req'.at \in Reading \cup {"ids"} =>
             req'.current = now \/ (req.at \in Reading \cup {"ids"} /\ req'.current = req.current)
    BY <1>0, <1>4, ReadsKeep
  <2>2. UNCHANGED <<at, again, failed, timers, offline, wanted, refused>>
    BY <1>4 DEF askVars, runVars
  <2>3. (Running' <=> Running) /\ (Anybody' <=> Anybody)
    BY <2>2 DEF Running, Anybody
  <2>4. RunsInv'
    BY <1>0, <2>2 DEF RunsInv, RunsTypeOK, OneRun, RequestHeard, RetryAhead, Running
  <2>5. AskedOK'
    BY <1>0, <2>1, <2>2, <2>3 DEF AskedOK
  <2> QED
    BY <2>1, <2>4, <2>5 DEF Inv
<1>5. CASE Sync
  <2>1. CASE AskForSync
    BY <1>0, <2>1, AskingKeeps DEF Inv
  <2>2. CASE LandPage
    BY <1>0, <2>2, PageKeeps DEF Inv
  <2>3. CASE LosePage \/ Reset
    BY <1>0, <2>3, FailuresKeep DEF Inv
  <2>4. CASE RunsNext /\ UNCHANGED <<budget, serverVars, live, st, req, loads, historyVars, wanted, refused>>
    <3>1. ServerOK' /\ UNCHANGED <<now, st, req, loads, wanted, refused>>
      BY <1>0, <2>4 DEF ServerOK, serverVars
    <3>2. DeviceOK'
      BY <1>0, <3>1 DEF DeviceOK, IsStore
    <3> QED
      BY <1>0, <2>4, <3>1, <3>2, RunsStep DEF Inv
  <2> QED
    BY <1>5, <2>1, <2>2, <2>3, <2>4 DEF Sync
<1>6. CASE UNCHANGED vars
  <2>1. ServerOK' /\ UNCHANGED <<now, st, req, loads, askVars>>
    BY <1>0, <1>6 DEF vars, ServerOK, serverVars
  <2>2. DeviceOK'
    BY <1>0, <2>1 DEF DeviceOK, IsStore
  <2> QED
    BY <1>0, <2>1, <2>2, Undisturbed DEF Inv
<1> QED
  BY <1>1, <1>2, <1>3, <1>4, <1>5, <1>6 DEF Next

\* The invariant by which the rest is proved.
THEOREM FeedKept == Spec => []Inv
<1> QED
  BY InitInv, StepInv, PTL DEF Spec

\* At rest no run is under way and nothing recorded: what is left is that it has come.
LEMMA InvCovers == Inv => CacheInv
<1> SUFFICES ASSUME Inv PROVE CacheInv
  OBVIOUS
<1>1. /\ ServerOK /\ DeviceOK /\ RunsInv /\ AskedOK /\ now \in Nat
  BY BoundsAssumption DEF Inv, ServerOK
<1>2. TypeOK
  <2>1. \A i \in DOMAIN msgs : msgs[i] \in Messages(now)
    BY <1>1 DEF ServerOK
  <2>2. \A v \in Messages(now) : v.seq \in 1..now
    BY DEF Messages
  <2>3. st.cursor \in 0..now /\ st.ch \in 0..now /\ st.my \in 0..now /\ st.fence \in 0..now
        /\ \A i \in Ids : st.rows[i].seq \in 0..now
    BY <1>1 DEF DeviceOK, IsStore
  <2> QED
    BY <1>1, <2>1, <2>2, <2>3 DEF TypeOK, ServerOK
<1>3. Covered
  <2> SUFFICES ASSUME AtRest PROVE ~offline /\ (refused \/ wanted <= st.cursor)
    BY DEF Covered
  <2>1. ~again /\ ~Running /\ ~offline
    BY <1>1 DEF AtRest, RunsInv, RequestHeard, RetryAhead, Running, RunsTypeOK
  <2> QED
    BY <1>1, <2>1 DEF AskedOK, AtRest
<1> QED
  BY <1>1, <1>2, <1>3 DEF CacheInv

\* When every call of sync_now has returned and no timer is set, the cursor is at least
\* where the counter was when a sync was last asked for, unless the server refused, and
\* the cache is not offline; with one run at a time and no request or failure forgotten
\* on the way, for any number of calls, changes, pages and events (cache.rs, sync_now).
THEOREM NothingAskedIsLost == Spec => []CacheInv
<1> QED
  BY FeedKept, InvCovers, PTL


-----------------------------------------------------------------------------
(* What the device has of what the server has: the invariant behind        *)
(* Current.                                                                *)

\* The seqs of the user's removals, and of the other's departures.
Outs == {t.seq : t \in {t \in tombs : t.who = "me"}}
Lefts == {t.seq : t \in {t \in tombs : t.who = "them"}}
LastLeft == Max({0} \cup Lefts)
\* The removal before the user's last stay.
PrevOut == Max({0} \cup {n \in Outs : n < mine.joined})

\* Since the user left, no statement of a page has found them out.
Seen == mine.in \/ ~skipped
Sound == ~unseen /\ Seen
Exact == Sound /\ ~early

\* A version that a page will still bring: above the cursor and the fence, and of after the
\* user's return if a device that knows of the removal before it doesn't know of that.
Due(n) ==
  n > st.cursor /\ n > st.fence /\ (st.fence >= PrevOut /\ st.my < mine.joined => n > mine.joined)

\* A version of message i, or none; one that was told when the user was in.
VersionIs(i, v) ==
  v.seq = 0 \/ (i \in DOMAIN msgs /\ v.seq <= msgs[i].seq /\ (v.seq = msgs[i].seq => v.gone = msgs[i].gone))
Told(i, n) ==
  (~mine.in => n <= LastOut) /\ (n = msgs[i].seq \/ msgs[i].seq > mine.joined \/ n <= PrevOut)

(* The server. *)
StaysOK ==
  /\ mine.joined <= mine.seq /\ mine.joined <= chan
  /\ mine.in => LastOut < mine.joined
  /\ ~mine.in => LastOut > mine.seq /\ LastOut <= chan /\ \A n \in Outs : n = LastOut \/ n < mine.joined
  /\ IF theirs.in THEN LastLeft < theirs.seq ELSE LastLeft > theirs.seq

SendsOK ==
  \A e \in sends :
    /\ e.kind = "delete" => e.seq = msgs[e.id].seq /\ msgs[e.id].gone
    /\ e.kind = "channel" => e.seq <= chan
    /\ e.kind = "out" => e.seq \in Outs

(* What is under way. *)
RowEvent(i, v) == [NoBatch EXCEPT !.rows[i] = v]
LiveKinds ==
  \A e \in live :
    \/ \E n \in Nat \ {0} : e = ChannelRow(n) \/ e = Removal(n)
    \/ \E n \in Nat \ {0}, i \in Ids : e = Tombstone(i, n)
    \/ \E n \in Nat \ {0}, i \in Ids, gone \in BOOLEAN : e = RowEvent(i, [seq |-> n, gone |-> gone])
LiveOK ==
  \A e \in live :
    /\ e.ch <= chan /\ (e.removed = 0 \/ e.removed \in Outs)
    /\ \A i \in Ids : /\ VersionIs(i, e.rows[i])
                      /\ e.tombstones[i] # 0 => i \in DOMAIN msgs /\ e.tombstones[i] = msgs[i].seq /\ msgs[i].gone
LiveTold ==
  ~unseen => \A e \in live : /\ ~mine.in => e.ch <= LastOut
                             /\ \A i \in Ids : e.rows[i].seq # 0 => Told(i, e.rows[i].seq)
LiveExact ==
  Exact => \A e \in live, i \in Ids : e.rows[i].seq # 0 =>
    \/ e.rows[i].seq = msgs[i].seq \/ st.rows[i].seq = msgs[i].seq \/ msgs[i].seq > st.cursor
    \/ e.rows[i].seq <= st.fence \/ e.rows[i].seq <= base

LoadsOK ==
  \A l \in loads :
    /\ l.gen <= st.gen /\ (l.gen = st.gen => l.floor <= st.fence /\ (l.floor = st.fence => st.ch # 0))
    /\ \A i \in Ids : VersionIs(i, l.rows[i])
\* What a history page says all of.
Within(l, i) ==
  LET page == {k \in Ids : l.rows[k].seq # 0} IN
  (l.before = 0 \/ i < l.before) /\ (Cardinality(page) < Limit \/ (page # {} /\ i >= Min(page)))
LoadsExact ==
  Exact => \A l \in loads, i \in DOMAIN msgs :
    /\ l.at = "read" /\ l.gen = st.gen /\ l.floor = st.fence
    /\ l.rows[i].seq # msgs[i].seq /\ (l.rows[i].seq # 0 \/ (Shown(i) /\ Within(l, i)))
    => Due(msgs[i].seq) \/ st.rows[i].seq = msgs[i].seq

(* The device. *)
CovOK ==
  /\ st.cov \in [held : BOOLEAN, top : Nat, bottom : Nat, complete : BOOLEAN]
  /\ st.cov.held => st.ch # 0 /\ ~st.active /\ (st.cov.complete \/ st.cov.bottom # 0)
  /\ st.cov.top # 0 => st.cov.bottom # 0 /\ st.cov.held
StoreOK ==
  /\ base \in 0..now /\ (st.fence = 0 \/ st.fence \in Outs)
  /\ IF st.active THEN st.my = 0 ELSE st.fence = 0 \/ st.my > st.fence
  /\ st.ch <= chan /\ st.my <= mine.seq
  /\ st.cursor = 0 => st.my = 0 /\ st.th.seq = 0
  /\ st.ch = 0 => \A i \in Ids : st.rows[i].seq = 0
  /\ \A i \in Ids : VersionIs(i, st.rows[i])
GoneOK ==
  ~mine.in /\ st.fence = LastOut => st.active /\ (~unseen => st.ch = 0 /\ (st.th.seq = 0 \/ st.th.gone))
ChannelOK ==
  ~unseen /\ mine.in => /\ chan <= st.cursor => st.ch = chan
                        /\ mine.seq <= st.cursor => st.my = mine.seq
                        /\ mine.joined <= st.cursor => st.my >= mine.joined /\ st.ch # 0
JoinHeard ==
  Sound /\ mine.joined <= st.cursor => st.fence = LastOut \/ (st.my >= mine.joined /\ st.ch # 0)
PrevHeard ==
  Sound /\ st.cursor # 0 => st.fence >= PrevOut \/ (st.ch # 0 /\ \A n \in Outs : n < PrevOut => n < st.my)
OutHeard ==
  ~unseen /\ ~early /\ ~mine.in /\ LastOut <= st.cursor => st.ch = 0 /\ (st.fence = LastOut \/ LastOut <= base)
RowsExact ==
  Exact => \A i \in Ids : st.rows[i].seq # 0 => st.rows[i].seq = msgs[i].seq \/ Due(msgs[i].seq)
RangeExact ==
  Exact /\ st.cov.held => \A i \in DOMAIN msgs :
    (st.cov.complete \/ i >= st.cov.bottom) /\ Shown(i) => st.rows[i].seq # 0 \/ Due(msgs[i].seq)
TheirsOK ==
  IF theirs.in THEN st.th.seq <= theirs.seq /\ (st.th.seq = theirs.seq => ~st.th.gone)
               ELSE st.th.seq <= LastLeft /\ (st.th.seq = LastLeft => st.th.gone)
TheirsHeard ==
  Sound /\ st.cursor # 0 =>
    /\ theirs.in /\ (st.my >= mine.joined \/ st.fence < PrevOut) => st.th.seq = theirs.seq \/ theirs.seq > st.cursor
    /\ ~theirs.in => st.th.seq = 0 \/ st.th.gone \/ LastLeft > st.cursor

(* The page. *)
AtChannels == {"memberships", "new", "newMembers", "newChannel", "tombs", "messages", "page", "members"}
AtMemberships == {"new", "newMembers", "newChannel", "tombs", "messages", "page"}
AtNewMembers == {"newChannel", "tombs", "messages", "page"}
AtNewChannel == {"tombs", "messages", "page"}
AtTombs == {"messages", "page"}

CountedOK == req.at \in Reading \cup {"ids"} => req.current >= 1
PageOK ==
  req.at \in Reading =>
    /\ req.upper >= 1
    /\ req.page.ch <= chan /\ req.page.my <= mine.seq /\ req.page.th <= theirs.seq
    /\ (req.page.removed = 0 \/ req.page.removed \in Outs) /\ (req.page.left = 0 \/ req.page.left \in Lefts)
    /\ req.page.th # 0 => IF theirs.in THEN req.page.th = theirs.seq \/ theirs.seq > req.upper ELSE LastLeft > req.upper
    /\ ~req.page.history /\ \A i \in Ids : req.page.tombstones[i] = 0 /\ VersionIs(i, req.page.rows[i])
    /\ \A i \in Ids : req.page.rows[i].seq <= req.upper
    /\ \A i \in DOMAIN msgs : req.page.rows[i].seq # 0 => req.page.rows[i].seq = msgs[i].seq \/ msgs[i].seq > req.upper
PageTold ==
  req.at \in Reading /\ ~unseen =>
    /\ ~mine.in => req.page.ch <= LastOut /\ req.page.th <= LastOut
    /\ \A i \in Ids : req.page.rows[i].seq # 0 => Told(i, req.page.rows[i].seq)
PageOurs ==
  req.at \in Reading =>
    /\ ~req.ours /\ Seen => mine.joined > req.upper
    /\ ~mine.in /\ LastOut <= req.upper => ~req.ours
    /\ ~req.ours /\ Sound /\ req.since # 0 => st.th.seq = 0 \/ st.th.gone
PageChannel ==
  /\ req.at \in AtChannels /\ mine.in /\ st.cursor < chan /\ chan <= req.upper => req.page.ch = chan
  /\ req.at \in AtMemberships /\ mine.in /\ st.cursor < mine.seq /\ mine.seq <= req.upper => req.page.my = mine.seq
PageJoin ==
  /\ req.at \in Reading /\ mine.joined <= req.upper =>
       (req.page.my # 0 => req.page.my >= mine.joined) /\ (req.page.ch # 0 => req.page.ch >= mine.joined)
  /\ Seen /\ st.cursor < mine.joined =>
       /\ req.at \in AtNewMembers /\ mine.joined <= req.upper => req.page.my >= mine.joined
       /\ req.at \in AtNewChannel /\ mine.joined <= req.upper => req.page.ch >= mine.joined
PageOut ==
  ~mine.in =>
    /\ req.at \in AtTombs /\ req.since # 0 /\ st.cursor < LastOut /\ LastOut <= req.upper => req.page.removed = LastOut
    /\ req.at \in Reading /\ LastOut <= st.cursor => req.page.ch = 0
    /\ req.at \in {"newMembers", "newChannel"} => LastOut > req.upper
PageRows ==
  Sound /\ req.at = "page" /\ req.since # 0 =>
    \A i \in DOMAIN msgs : Due(msgs[i].seq) /\ msgs[i].seq <= req.upper => req.page.rows[i] = msgs[i]
PageTheirs ==
  /\ req.at \in Reading /\ Sound /\ theirs.in /\ theirs.seq <= req.upper =>
       /\ req.at \in AtMemberships /\ req.since # 0 /\ st.cursor < theirs.seq /\ (st.my >= mine.joined \/ st.fence < PrevOut)
            => req.page.th = theirs.seq
       /\ req.at \in AtNewMembers /\ req.since # 0 /\ st.cursor < mine.joined /\ req.page.my >= mine.joined
            => req.page.th = theirs.seq
  /\ Sound /\ ~theirs.in /\ req.at \in AtTombs /\ req.since # 0 /\ st.cursor < LastLeft /\ LastLeft <= req.upper
       => st.th.seq = 0 \/ st.th.gone \/ req.page.left = LastLeft
  /\ req.at = "new" => req.page.my <= req.upper
PageStages ==
  /\ req.at \in {"state", "members"} => req.since = 0
  /\ req.at \in Reading \ {"state", "members", "page"} => req.since # 0
  /\ req.at \in {"state", "bound", "channels"} => req.page = NoBatch
  /\ req.at = "bound" => req.upper = req.current
  /\ req.at = "members" => req.page.my = 0 /\ req.page.th = 0 /\ req.page.ch # 0 /\ req.ours
FirstPage ==
  req.at \in {"state", "members", "page"} /\ req.since = 0 =>
    /\ req.page.left = 0 /\ req.page.removed = 0 /\ \A i \in Ids : req.page.rows[i].seq = 0
    /\ ~req.ours => req.page.ch = 0 /\ req.page.my = 0
    /\ req.page.my # 0 => req.page.ch # 0
    /\ req.at = "page" /\ req.page.my # 0 /\ theirs.in /\ theirs.seq <= req.upper => req.page.th = theirs.seq
    /\ Sound /\ (req.at = "page" \/ (req.at = "state" /\ ~req.ours)) =>
         st.fence >= PrevOut \/ (req.page.my # 0 /\ \A n \in Outs : n < PrevOut => n < req.page.my)

Feed ==
  /\ StaysOK /\ SendsOK /\ LiveKinds /\ LiveOK /\ LiveTold /\ LiveExact /\ LoadsOK /\ LoadsExact
  /\ CovOK /\ StoreOK /\ GoneOK /\ ChannelOK /\ JoinHeard /\ PrevHeard /\ OutHeard /\ RowsExact /\ RangeExact
  /\ TheirsOK /\ TheirsHeard
  /\ CountedOK /\ PageOK /\ PageTold /\ PageOurs /\ PageChannel /\ PageJoin /\ PageOut /\ PageRows /\ PageTheirs
  /\ PageStages /\ FirstPage

-----------------------------------------------------------------------------
(* The numbers.                                                            *)

Numbers ==
  /\ now \in Nat /\ LastOut \in 0..now /\ PrevOut \in 0..now /\ LastLeft \in 0..now
  /\ LastOut \in {0} \cup Outs /\ PrevOut \in {0} \cup {n \in Outs : n < mine.joined}
  /\ LastLeft \in {0} \cup Lefts
  /\ Outs \subseteq 1..now /\ Lefts \subseteq 1..now
  /\ \A n \in Outs : n <= LastOut /\ (n < mine.joined => n <= PrevOut)
  /\ \A n \in Lefts : n <= LastLeft

LEMMA LastIn ==
  ASSUME NEW n \in Nat, NEW S, S \subseteq 1..n
  PROVE  Max({0} \cup S) \in {0} \cup S /\ \A k \in S : k <= Max({0} \cup S)
<1> DEFINE T == {0} \cup S
<1>1. IsFiniteSet(0..n) /\ T \subseteq 0..n
  BY FS_Interval
<1>2. T \subseteq Int /\ T # {}
  BY <1>1
<1>5. IsFiniteSet(T)
  <2> HIDE DEF T
  <2> QED
    BY <1>1, FS_Subset
<1>3. Max(T) \in T /\ \A y \in T : Max(T) >= y
  <2> HIDE DEF T
  <2> QED
    BY <1>2, <1>5, Greatest
<1>4. Max(T) \in 0..n /\ \A k \in S : k \in 1..n
  BY <1>1, <1>3
<1> QED
  BY <1>3, <1>4

LEMMA NumbersHold == ServerOK => Numbers
<1> SUFFICES ASSUME ServerOK PROVE Numbers
  OBVIOUS
<1>1. now \in Nat /\ tombs \subseteq Tombs(now)
  BY BoundsAssumption DEF ServerOK
<1>2. \A t \in tombs : t.seq \in 1..now
  BY <1>1 DEF Tombs
<1>3. Outs \subseteq 1..now /\ Lefts \subseteq 1..now
  BY <1>2 DEF Outs, Lefts
<1>4. LastOut \in {0} \cup Outs /\ \A n \in Outs : n <= LastOut
  BY <1>1, <1>3, LastIn DEF LastOut, Outs
<1>5. LastLeft \in {0} \cup Lefts /\ \A n \in Lefts : n <= LastLeft
  BY <1>1, <1>3, LastIn DEF LastLeft
<1> DEFINE S == {n \in Outs : n < mine.joined}
<1>6. PrevOut \in {0} \cup S /\ \A n \in S : n <= PrevOut
  <2>1. S \subseteq 1..now /\ PrevOut = Max({0} \cup S)
    BY <1>3 DEF PrevOut
  <2> HIDE DEF S
  <2> QED
    BY <1>1, <2>1, LastIn
<1>7. LastOut \in 0..now /\ PrevOut \in 0..now /\ LastLeft \in 0..now
  BY <1>1, <1>3, <1>4, <1>5, <1>6
<1> QED
  BY <1>1, <1>3, <1>4, <1>5, <1>6, <1>7 DEF Numbers

LEMMA NumbersAfter == ServerOK' => Numbers'
  BY NumbersHold, PTL

\* What is in the records, with the numbers that bound it.
Server ==
  /\ now \in Nat /\ now <= MaxSeq /\ floor \in 0..now /\ chan \in 1..now
  /\ mine.in \in BOOLEAN /\ mine.seq \in 1..now /\ mine.joined \in 1..now
  /\ theirs.in \in BOOLEAN /\ theirs.seq \in 1..now
  /\ \A i \in DOMAIN msgs : i \in Ids /\ msgs[i].seq \in 1..now /\ msgs[i].gone \in BOOLEAN
Stored ==
  /\ st.cursor \in 0..now /\ st.gen \in Nat /\ st.ch \in 0..now /\ st.my \in 0..now
  /\ st.th.seq \in 0..now /\ st.th.gone \in BOOLEAN /\ st.fence \in 0..now /\ st.active \in BOOLEAN
  /\ \A i \in Ids : st.rows[i].seq \in 0..now /\ st.rows[i].gone \in BOOLEAN
InFlight ==
  /\ \A e \in live : /\ e.ch \in 0..now /\ e.removed \in 0..now
                     /\ \A i \in Ids : e.rows[i].seq \in 0..now /\ e.rows[i].gone \in BOOLEAN
  /\ \A l \in loads : /\ l.floor \in 0..now /\ l.gen \in Nat /\ l.before \in Nat
                      /\ \A i \in Ids : l.rows[i].seq \in 0..now /\ l.rows[i].gone \in BOOLEAN
Paged ==
  req.at \in Reading =>
    /\ req.since = st.cursor /\ req.upper \in 0..now /\ req.since <= req.upper /\ req.ours \in BOOLEAN
    /\ req.page.ch \in 0..now /\ req.page.my \in 0..now /\ req.page.th \in 0..now
    /\ req.page.removed \in 0..now /\ req.page.left \in 0..now
    /\ \A i \in Ids : req.page.rows[i].seq \in 0..now /\ req.page.rows[i].gone \in BOOLEAN
Shape == Numbers /\ Server /\ Stored /\ InFlight /\ Paged

LEMMA ShapeHolds == Inv => Shape
<1> SUFFICES ASSUME Inv PROVE Shape
  OBVIOUS
<1>1. ServerOK /\ DeviceOK /\ RequestOK /\ now \in Nat /\ now <= MaxSeq
  BY BoundsAssumption DEF Inv, ServerOK
<1>2. Numbers
  BY <1>1, NumbersHold
<1>3. Server
  <2>1. mine \in Memberships(now) /\ theirs \in Memberships(now) /\ floor \in 0..now /\ chan \in 1..now
    BY <1>1 DEF ServerOK
  <2>2. \A i \in DOMAIN msgs : i \in Ids /\ msgs[i] \in Messages(now)
    BY <1>1, BoundsAssumption DEF ServerOK, Ids
  <2> QED
    BY <1>1, <2>1, <2>2 DEF Server, Memberships, Messages
<1>4. Stored
  BY <1>1 DEF Stored, DeviceOK, IsStore
<1>5. ASSUME NEW b \in Batches(now)
      PROVE  /\ b.ch \in 0..now /\ b.my \in 0..now /\ b.th \in 0..now /\ b.removed \in 0..now /\ b.left \in 0..now
             /\ \A i \in Ids : b.rows[i].seq \in 0..now /\ b.rows[i].gone \in BOOLEAN
  BY <1>5 DEF Batches, Versions
<1>6. InFlight
  <2>1. \A e \in live : e \in Batches(now)
    BY <1>1 DEF ServerOK
  <2>2. ASSUME NEW l \in loads
        PROVE  /\ l.floor \in 0..now /\ l.gen \in Nat /\ l.before \in Nat
               /\ \A i \in Ids : l.rows[i].seq \in 0..now /\ l.rows[i].gone \in BOOLEAN
    BY <1>1 DEF DeviceOK, Loads, Versions
  <2> QED
    BY <1>5, <2>1, <2>2 DEF InFlight
<1>7. Paged
  <2> SUFFICES ASSUME req.at \in Reading PROVE Paged
    BY DEF Paged
  <2>1. req \in Underway(now)
    BY <1>1 DEF DeviceOK, Requests, Idle, Reading
  <2>2. req.page \in Batches(now) /\ req.upper \in 0..now /\ req.ours \in BOOLEAN
    BY <2>1 DEF Underway
  <2>3. req.since = st.cursor /\ req.since <= req.upper
    BY <1>1 DEF RequestOK, Reading
  <2> QED
    BY <1>5, <2>2, <2>3 DEF Paged
<1> QED
  BY <1>2, <1>3, <1>4, <1>6, <1>7 DEF Shape

LEMMA ShapeAfter == Inv' => Shape'
  BY ShapeHolds, PTL

LEMMA LastOutIs == LastOut = Max({0} \cup Outs)
  BY DEF LastOut, Outs
LEMMA LastOutAfter == LastOut' = Max({0} \cup Outs')
  BY DEF LastOut, Outs

-----------------------------------------------------------------------------
(* Steps that only tell the history more.                                  *)

\* The properties may only ask for less.
Still ==
  /\ UNCHANGED <<now, msgs, mine, theirs, chan, tombs, st, loads, base>>
  /\ early => early'
  /\ ~unseen' => ~unseen
  /\ Seen' => Seen

LEMMA StillNumbers ==
  ASSUME UNCHANGED <<mine, tombs>>
  PROVE  Outs' = Outs /\ Lefts' = Lefts /\ LastOut' = LastOut /\ PrevOut' = PrevOut /\ LastLeft' = LastLeft
<1>1. Outs' = Outs /\ Lefts' = Lefts
  BY DEF Outs, Lefts
<1> QED
  BY <1>1, LastOutIs, LastOutAfter DEF PrevOut, LastLeft

\* The parts of Feed, by what they are about.
StoreParts ==
  /\ StaysOK /\ LoadsOK /\ LoadsExact /\ CovOK /\ StoreOK /\ GoneOK /\ ChannelOK /\ JoinHeard /\ PrevHeard /\ OutHeard
  /\ RowsExact /\ RangeExact /\ TheirsOK /\ TheirsHeard
LiveParts == LiveKinds /\ LiveOK /\ LiveTold /\ LiveExact
PageParts ==
  /\ CountedOK /\ PageOK /\ PageTold /\ PageOurs /\ PageChannel /\ PageJoin /\ PageOut /\ PageRows /\ PageTheirs
  /\ PageStages /\ FirstPage

LEMMA FeedIs == Feed <=> SendsOK /\ StoreParts /\ LiveParts /\ PageParts
  BY DEF Feed, StoreParts, LiveParts, PageParts
LEMMA FeedIsAfter == Feed' <=> SendsOK' /\ StoreParts' /\ LiveParts' /\ PageParts'
  BY DEF Feed, StoreParts, LiveParts, PageParts

LEMMA StillStore ==
  ASSUME Feed, Still
  PROVE  StoreParts'
<1> USE DEF Still
<1>0. Outs' = Outs /\ Lefts' = Lefts /\ LastOut' = LastOut /\ PrevOut' = PrevOut /\ LastLeft' = LastLeft
  BY StillNumbers
<1>1. StaysOK' /\ LoadsOK' /\ CovOK' /\ StoreOK' /\ TheirsOK'
  BY <1>0 DEF Feed, StaysOK, LoadsOK, CovOK, StoreOK, TheirsOK, VersionIs
<1>2. (Sound' => Sound) /\ (Exact' => Exact)
  BY DEF Sound, Exact
<1>3. LoadsExact' /\ RowsExact' /\ RangeExact'
  BY <1>0, <1>2 DEF Feed, LoadsExact, RowsExact, RangeExact, Shown, Due
<1>4. GoneOK' /\ ChannelOK' /\ OutHeard'
  BY <1>0 DEF Feed, GoneOK, ChannelOK, OutHeard
<1>5. JoinHeard' /\ PrevHeard' /\ TheirsHeard'
  BY <1>0, <1>2 DEF Feed, JoinHeard, PrevHeard, TheirsHeard
<1> QED
  BY <1>1, <1>3, <1>4, <1>5 DEF StoreParts

LEMMA StillLive ==
  ASSUME Feed, Still, live' \subseteq live
  PROVE  LiveParts'
<1> USE DEF Still
<1>0. Outs' = Outs /\ LastOut' = LastOut /\ PrevOut' = PrevOut
  BY StillNumbers
<1>1. (Exact' => Exact)
  BY DEF Sound, Exact
<1> QED
  BY <1>0, <1>1 DEF Feed, LiveParts, LiveKinds, LiveOK, LiveTold, LiveExact, VersionIs, Told

LEMMA StillPage ==
  ASSUME Feed, Still, req' = req
  PROVE  PageParts'
<1> USE DEF Still
<1>0. Outs' = Outs /\ Lefts' = Lefts /\ LastOut' = LastOut /\ PrevOut' = PrevOut /\ LastLeft' = LastLeft
  BY StillNumbers
<1>1. Sound' => Sound
  BY DEF Sound
<1>2. CountedOK' /\ PageOK' /\ PageTold' /\ PageOurs'
  BY <1>0, <1>1 DEF Feed, CountedOK, PageOK, PageTold, PageOurs, VersionIs, Told
<1>3. PageChannel' /\ PageJoin' /\ PageOut' /\ PageRows' /\ PageTheirs'
  BY <1>0, <1>1 DEF Feed, PageChannel, PageJoin, PageOut, PageRows, PageTheirs, Due
<1>4. PageStages' /\ FirstPage'
  BY <1>0, <1>1 DEF Feed, PageStages, FirstPage
<1> QED
  BY <1>2, <1>3, <1>4 DEF PageParts

\* Without a request there is nothing to say of its page.
Paperless == req.at \notin Reading
LEMMA NoPage == Paperless /\ CountedOK => PageParts
<1> SUFFICES ASSUME Paperless, CountedOK PROVE PageParts
  OBVIOUS
<1>1. req.at \notin Reading
  BY DEF Paperless
<1>2. CountedOK /\ PageOK /\ PageTold /\ PageOurs
  BY <1>1 DEF CountedOK, PageOK, PageTold, PageOurs
<1>3. PageChannel /\ PageJoin /\ PageOut /\ PageRows /\ PageTheirs /\ PageStages /\ FirstPage
  BY <1>1 DEF PageChannel, PageJoin, PageOut, PageRows, PageTheirs, PageStages, FirstPage, Reading,
       AtChannels, AtMemberships, AtNewMembers, AtNewChannel, AtTombs
<1> QED
  BY <1>2, <1>3 DEF PageParts
LEMMA NoPageAfter == Paperless' /\ CountedOK' => PageParts'
  BY NoPage, PTL

-----------------------------------------------------------------------------
(* The events.                                                             *)

LEMMA EventFields ==
  /\ \A n : /\ ChannelRow(n).ch = n /\ ChannelRow(n).removed = 0
            /\ \A i \in Ids : ChannelRow(n).rows[i].seq = 0 /\ ChannelRow(n).tombstones[i] = 0
  /\ \A n : /\ Removal(n).removed = n /\ Removal(n).ch = 0
            /\ \A i \in Ids : Removal(n).rows[i].seq = 0 /\ Removal(n).tombstones[i] = 0
  /\ \A i \in Ids : \A n :
       /\ Tombstone(i, n).removed = 0 /\ Tombstone(i, n).ch = 0
       /\ \A k \in Ids : Tombstone(i, n).rows[k].seq = 0 /\ Tombstone(i, n).tombstones[k] = IF k = i THEN n ELSE 0
  /\ \A i \in Ids : \A v :
       /\ RowEvent(i, v).removed = 0 /\ RowEvent(i, v).ch = 0
       /\ \A k \in Ids : RowEvent(i, v).rows[k] = (IF k = i THEN v ELSE Version) /\ RowEvent(i, v).tombstones[k] = 0
  BY DEF RowEvent, ChannelRow, Removal, Tombstone, NoBatch, NoVersions, Version

LEMMA EventJoins ==
  ASSUME Feed, Still, Shape, NEW b, live' \subseteq live \cup {b},
         \/ \E n \in Nat \ {0} : b = ChannelRow(n) /\ n <= chan /\ (~unseen' /\ ~mine.in => n <= LastOut)
         \/ \E n \in Outs : n \in Nat \ {0} /\ b = Removal(n)
         \/ \E i \in DOMAIN msgs : i \in Ids /\ msgs[i].seq \in Nat \ {0} /\ b = Tombstone(i, msgs[i].seq) /\ msgs[i].gone
         \/ \E i \in DOMAIN msgs : /\ i \in Ids /\ msgs[i].seq \in Nat \ {0} /\ msgs[i].gone \in BOOLEAN
                                   /\ msgs[i] = [seq |-> msgs[i].seq, gone |-> msgs[i].gone]
                                   /\ b = RowEvent(i, msgs[i])
                                   /\ (~unseen' /\ ~mine.in => msgs[i].seq <= LastOut)
  PROVE  LiveParts'
<1> USE DEF Still
<1>0. Outs' = Outs /\ LastOut' = LastOut /\ PrevOut' = PrevOut
  BY StillNumbers
<1>1. (Exact' => Exact)
  BY DEF Sound, Exact
<1>2. \/ \E n \in Nat \ {0} : b = ChannelRow(n) \/ b = Removal(n)
      \/ \E n \in Nat \ {0}, i \in Ids : b = Tombstone(i, n)
      \/ \E n \in Nat \ {0}, i \in Ids, gone \in BOOLEAN : b = RowEvent(i, [seq |-> n, gone |-> gone])
  OBVIOUS
<1>3. /\ b.ch = 0 \/ (b.ch <= chan /\ (~unseen' /\ ~mine.in => b.ch <= LastOut))
      /\ b.removed = 0 \/ b.removed \in Outs
      /\ \A i \in Ids : /\ b.rows[i].seq = 0 \/ (i \in DOMAIN msgs /\ b.rows[i] = msgs[i] /\ (~unseen' /\ ~mine.in => msgs[i].seq <= LastOut))
                        /\ b.tombstones[i] # 0 => i \in DOMAIN msgs /\ b.tombstones[i] = msgs[i].seq /\ msgs[i].gone
  <2>1. CASE \E n \in Nat \ {0} : b = ChannelRow(n) /\ n <= chan /\ (~unseen' /\ ~mine.in => n <= LastOut)
    BY <2>1, EventFields
  <2>2. CASE \E n \in Outs : n \in Nat \ {0} /\ b = Removal(n)
    BY <2>2, EventFields
  <2>3. CASE \E i \in DOMAIN msgs : i \in Ids /\ msgs[i].seq \in Nat \ {0} /\ b = Tombstone(i, msgs[i].seq) /\ msgs[i].gone
    BY <2>3, EventFields
  <2>4. CASE \E i \in DOMAIN msgs : i \in Ids /\ b = RowEvent(i, msgs[i]) /\ (~unseen' /\ ~mine.in => msgs[i].seq <= LastOut)
    <3>1. PICK i \in DOMAIN msgs : i \in Ids /\ b = RowEvent(i, msgs[i]) /\ (~unseen' /\ ~mine.in => msgs[i].seq <= LastOut)
      BY <2>4
    <3>2. b.ch = 0 /\ b.removed = 0 /\ \A k \in Ids : b.rows[k] = (IF k = i THEN msgs[i] ELSE Version) /\ b.tombstones[k] = 0
      BY <3>1, EventFields
    <3> HIDE DEF Still
    <3> QED
      BY <3>1, <3>2 DEF Version
  <2> QED
    BY <2>1, <2>2, <2>3, <2>4
<1>4. \A e \in live' : e \in live \/ e = b
  OBVIOUS
<1>5. LiveKinds'
  BY <1>2, <1>4 DEF Feed, LiveKinds
<1>6. LiveOK'
  BY <1>0, <1>3, <1>4 DEF Feed, LiveOK, VersionIs, Shape, Server
<1>7. LiveTold'
  BY <1>0, <1>3, <1>4 DEF Feed, LiveTold, Told, Shape, Server, Numbers
<1>8. LiveExact'
  BY <1>0, <1>1, <1>3, <1>4 DEF Feed, LiveExact
<1> QED
  BY <1>5, <1>6, <1>7, <1>8 DEF LiveParts

LEMMA EmissionKeepsFeed ==
  ASSUME Inv, Shape, Feed, NEW e \in sends, ReadChannel(e) \/ Emit(e)
  PROVE  Feed'
<1>1. UNCHANGED <<now, msgs, mine, theirs, chan, tombs, st, req, loads, base, early, skipped>> /\ (~unseen' => ~unseen)
  <2>1. CASE ReadChannel(e)
    BY <2>1 DEF ReadChannel, historyVars
  <2>2. CASE Emit(e)
    BY <2>2 DEF Emit
  <2> QED
    BY <2>1, <2>2
<1>2. Still
  BY <1>1 DEF Still, Seen
<1>3. Outs' = Outs
  BY <1>1, StillNumbers
<1>4. ServerOK /\ SendsOK
  BY DEF Inv, Feed
<1>5. StoreParts' /\ PageParts'
  BY <1>1, <1>2, StillStore, StillPage
<1>6. CASE ReadChannel(e)
  <2>1. sends' = (sends \ {e}) \cup {[e EXCEPT !.seq = chan]} /\ e.kind = "channel" /\ live' = live
    BY <1>6 DEF ReadChannel
  <2>2. [e EXCEPT !.seq = chan].kind = "channel" /\ [e EXCEPT !.seq = chan].seq = chan
    BY <2>1, <1>4 DEF ServerOK, Sends
  <2>3. SendsOK'
    <3> DEFINE d == [e EXCEPT !.seq = chan]
    <3>1. \A x \in sends' : x \in sends \/ (x.kind = "channel" /\ x.seq = chan)
      BY <2>1, <2>2
    <3>2. chan <= chan
      BY DEF Shape, Server
    <3> HIDE DEF d
    <3> QED
      BY <1>1, <1>3, <1>4, <3>1, <3>2 DEF SendsOK
  <2> QED
    BY <1>2, <1>5, <2>1, <2>3, StillLive, FeedIsAfter
<1>7. CASE Emit(e)
  <2>1. SendsOK'
    BY <1>1, <1>3, <1>4, <1>7 DEF SendsOK, Emit
  <2>2. e.kind \in {"new", "update", "delete"} => e.id \in DOMAIN msgs
    BY <1>4 DEF ServerOK, Sends
  <2>3. \A i \in DOMAIN msgs : /\ i \in Ids /\ msgs[i].seq \in Nat \ {0} /\ msgs[i].gone \in BOOLEAN
                               /\ msgs[i] = [seq |-> msgs[i].seq, gone |-> msgs[i].gone]
    <3>1. \A i \in DOMAIN msgs : msgs[i] \in Messages(now)
      BY <1>4 DEF ServerOK
    <3>2. \A m \in Messages(now) : m = [seq |-> m.seq, gone |-> m.gone]
      BY DEF Messages
    <3> QED
      BY <3>1, <3>2 DEF Shape, Server
  <2>4. CASE e.kind = "new" \/ (e.kind = "update" /\ mine.in)
    <3>1. e.kind \in {"new", "update"} => e.kind # "delete" /\ e.kind # "channel" /\ e.kind # "out"
      OBVIOUS
    <3>2. live' = live \cup {Row(e.id)}
      BY <1>7, <2>4 DEF Emit
    <3>3. unseen' = (unseen \/ (e.kind = "new" /\ ~mine.in /\ msgs[e.id].seq > LastOut))
      BY <1>7 DEF Emit
    <3>4. ~unseen' /\ ~mine.in => msgs[e.id].seq <= LastOut
      <4>1. e.id \in DOMAIN msgs /\ msgs[e.id].seq \in Int /\ LastOut \in Int
        BY <2>2, <2>4 DEF Shape, Server, Numbers
      <4>2. ~unseen' => ~(e.kind = "new" /\ ~mine.in /\ msgs[e.id].seq > LastOut)
        BY <3>3
      <4> QED
        BY <2>4, <4>1, <4>2
    <3> QED
      BY <1>2, <1>5, <2>1, <2>2, <2>3, <2>4, <3>2, <3>4, EventJoins, FeedIsAfter DEF Row, RowEvent
  <2>5. CASE e.kind = "delete"
    <3>1. live' = live \cup {Tombstone(e.id, e.seq)} /\ e.seq = msgs[e.id].seq /\ msgs[e.id].gone
      BY <1>4, <1>7, <2>5 DEF Emit, SendsOK
    <3> QED
      BY <1>2, <1>5, <2>1, <2>2, <2>3, <2>5, <3>1, EventJoins, FeedIsAfter
  <2>6. CASE e.kind = "channel"
    <3>1. live' = live \cup {ChannelRow(e.seq)} /\ mine.in /\ e.seq # 0 /\ e.seq <= chan /\ e.seq \in Nat
      BY <1>4, <1>7, <2>6 DEF Emit, SendsOK, ServerOK, Sends
    <3> QED
      BY <1>2, <1>5, <2>1, <3>1, EventJoins, FeedIsAfter
  <2>7. CASE e.kind = "out"
    <3>1. live' = live \cup {Removal(e.seq)}
      BY <1>7, <2>7 DEF Emit
    <3>2. e.seq \in Outs
      BY <1>4, <2>7 DEF SendsOK
    <3>3. e.seq \in Nat \ {0}
      <4>1. Outs \subseteq 1..now /\ now \in Nat
        BY DEF Shape, Numbers
      <4>2. \A n \in 1..now : n \in Nat \ {0}
        BY <4>1
      <4> QED
        BY <3>2, <4>1, <4>2
    <3> QED
      BY <1>2, <1>5, <2>1, <3>1, <3>2, <3>3, EventJoins, FeedIsAfter
  <2> QED
    BY <1>7, <2>4, <2>5, <2>6, <2>7 DEF Emit
<1> QED
  BY <1>6, <1>7

-----------------------------------------------------------------------------
(* What Apply does to a store.                                             *)

Lifts(s, b) == b.my > s.my /\ ~Fenced(s, b.my)
MyAfter(s, b) == IF Lifts(s, b) THEN b.my ELSE s.my
Wipes(s, b) == b.removed # 0 /\ ~(MyAfter(s, b) # 0 /\ b.removed <= MyAfter(s, b)) /\ ~(b.removed <= s.fence)
\* Row i after the rows of a batch, and after its tombstones.
RowBefore(s, b, i) == IF Wipes(s, b) THEN NoRows[i] ELSE s.rows[i]
RowNext(r, b, t, i) ==
  IF /\ b.rows[i].seq # 0 /\ (b.history => b.floor = t.fence) /\ MayLand(t, b.rows[i].seq, b.history)
     /\ b.rows[i].seq > r.seq \/ (b.rows[i].seq = r.seq /\ r.partial)
  THEN [seq |-> b.rows[i].seq, gone |-> b.rows[i].gone, partial |-> FALSE] ELSE r
RowAfter(r, b, t, i) ==
  IF MayLand(t, b.tombstones[i], FALSE) /\ b.tombstones[i] > r.seq
  THEN [seq |-> b.tombstones[i], gone |-> TRUE, partial |-> TRUE] ELSE r
KeptBy(s, b, t) ==
  LET th == IF b.th > s.th.seq /\ ~Fenced(t, b.th) THEN [seq |-> b.th, gone |-> FALSE] ELSE s.th IN
  /\ t.fence = s.fence /\ t.my = MyAfter(s, b) /\ t.active = (s.active /\ ~Lifts(s, b)) /\ t.cov = s.cov
  /\ t.ch = IF b.ch > s.ch /\ ~Fenced(t, b.ch) THEN b.ch ELSE s.ch
  /\ t.th = IF b.left > th.seq THEN [seq |-> b.left, gone |-> TRUE] ELSE th
WipedBy(b, t) ==
  LET th == IF b.th > 0 /\ ~Fenced(t, b.th) THEN [seq |-> b.th, gone |-> FALSE] ELSE Version IN
  /\ t.fence = b.removed /\ t.my = 0 /\ t.active = TRUE /\ t.cov = NoCoverage
  /\ t.ch = IF b.ch > 0 /\ ~Fenced(t, b.ch) THEN b.ch ELSE 0
  /\ t.th = IF b.left > th.seq THEN [seq |-> b.left, gone |-> TRUE] ELSE th

LEMMA ApplyDoes ==
  ASSUME NEW n \in Nat, NEW s, IsStore(s, n), NEW b \in Batches(n), NEW t, t = Apply(s, b)
  PROVE  /\ t.cursor = s.cursor /\ t.gen = s.gen
         /\ ~Wipes(s, b) => KeptBy(s, b, t)
         /\ Wipes(s, b) => WipedBy(b, t)
<1> DEFINE s1 == ApplyMine(s, b)
           s2 == ApplyRemoval(s1, b)
           s3 == ApplyChannel(s2, b)
           s4 == ApplyTheirs(s3, b)
           s5 == ApplyLeft(s4, b)
           s6 == ApplyRows(s5, b)
<1>0. t = ApplyTombstones(s6, b)
  BY DEF Apply
<1>1. /\ IsStore(s1, n) /\ s1.cursor = s.cursor /\ s1.gen = s.gen /\ s1.fence = s.fence /\ s1.my = MyAfter(s, b)
      /\ s1.active = (s.active /\ ~Lifts(s, b)) /\ s1.cov = s.cov /\ s1.ch = s.ch /\ s1.th = s.th
  BY DEF ApplyMine, IsStore, Batches, Lifts, MyAfter
<1> HIDE DEF s1
<1>2. /\ s2.cursor = s.cursor /\ s2.gen = s.gen /\ IsStore(s2, n)
      /\ ~Wipes(s, b) => s2 = s1
      /\ Wipes(s, b) => /\ s2.fence = b.removed /\ s2.my = 0 /\ s2.active = TRUE /\ s2.cov = NoCoverage
                        /\ s2.ch = 0 /\ s2.th = Version
  <2>1. CASE Wipes(s, b)
    <3>1. s2 = [Empty EXCEPT !.cursor = s1.cursor, !.gen = s1.gen, !.fence = b.removed, !.active = TRUE]
      BY <1>1, <2>1 DEF Wipes, ApplyRemoval
    <3> QED
      BY <1>1, <2>1, <3>1, NothingStored DEF IsStore, Batches, Empty
  <2>2. CASE ~Wipes(s, b)
    BY <1>1, <2>2 DEF Wipes, ApplyRemoval
  <2> QED
    BY <2>1, <2>2
<1> HIDE DEF s2
<1>3. /\ IsStore(s3, n) /\ s3.cursor = s2.cursor /\ s3.gen = s2.gen /\ s3.fence = s2.fence /\ s3.my = s2.my
      /\ s3.active = s2.active /\ s3.cov = s2.cov /\ s3.th = s2.th
      /\ s3.ch = IF b.ch > s2.ch /\ ~Fenced(s2, b.ch) THEN b.ch ELSE s2.ch
  BY <1>2 DEF ApplyChannel, IsStore, Batches
<1> HIDE DEF s3
<1>4. /\ IsStore(s4, n) /\ s4.cursor = s3.cursor /\ s4.gen = s3.gen /\ s4.fence = s3.fence /\ s4.my = s3.my
      /\ s4.active = s3.active /\ s4.cov = s3.cov /\ s4.ch = s3.ch
      /\ s4.th = IF b.th > s3.th.seq /\ ~Fenced(s3, b.th) THEN [seq |-> b.th, gone |-> FALSE] ELSE s3.th
  BY <1>3 DEF ApplyTheirs, IsStore, Batches
<1> HIDE DEF s4
<1>5. /\ IsStore(s5, n) /\ s5.cursor = s4.cursor /\ s5.gen = s4.gen /\ s5.fence = s4.fence /\ s5.my = s4.my
      /\ s5.active = s4.active /\ s5.cov = s4.cov /\ s5.ch = s4.ch
      /\ s5.th = IF b.left > s4.th.seq THEN [seq |-> b.left, gone |-> TRUE] ELSE s4.th
  BY <1>4 DEF ApplyLeft, IsStore, Batches
<1> HIDE DEF s5
<1>6. /\ DOMAIN s6 = DOMAIN s5 /\ s6.cursor = s5.cursor /\ s6.gen = s5.gen /\ s6.fence = s5.fence /\ s6.my = s5.my
      /\ s6.active = s5.active /\ s6.cov = s5.cov /\ s6.ch = s5.ch /\ s6.th = s5.th
  BY <1>5 DEF ApplyRows, IsStore
<1> HIDE DEF s6
<1>7. /\ t.cursor = s5.cursor /\ t.gen = s5.gen /\ t.fence = s5.fence /\ t.my = s5.my
      /\ t.active = s5.active /\ t.cov = s5.cov /\ t.ch = s5.ch /\ t.th = s5.th
  BY <1>0, <1>5, <1>6 DEF ApplyTombstones, IsStore
<1>8. \A k : Fenced(t, k) = Fenced(s2, k) /\ Fenced(s3, k) = Fenced(s2, k)
  BY <1>3, <1>4, <1>5, <1>7 DEF Fenced
<1>9. t.cursor = s.cursor /\ t.gen = s.gen
  BY <1>2, <1>3, <1>4, <1>5, <1>7
<1>10. /\ t.fence = s2.fence /\ t.my = s2.my /\ t.active = s2.active /\ t.cov = s2.cov
       /\ t.ch = IF b.ch > s2.ch /\ ~Fenced(t, b.ch) THEN b.ch ELSE s2.ch
       /\ LET th == IF b.th > s2.th.seq /\ ~Fenced(t, b.th) THEN [seq |-> b.th, gone |-> FALSE] ELSE s2.th IN
          t.th = IF b.left > th.seq THEN [seq |-> b.left, gone |-> TRUE] ELSE th
  BY <1>3, <1>4, <1>5, <1>7, <1>8
<1>11. Version.seq = 0
  BY DEF Version
<1> QED
  BY <1>1, <1>2, <1>9, <1>10, <1>11 DEF KeptBy, WipedBy

LEMMA ApplyLands ==
  ASSUME NEW n \in Nat, NEW s, IsStore(s, n), NEW b \in Batches(n), NEW t, t = Apply(s, b)
  PROVE  \A i \in Ids : t.rows[i] = RowAfter(RowNext(RowBefore(s, b, i), b, t, i), b, t, i)
<1> DEFINE s1 == ApplyMine(s, b)
           s2 == ApplyRemoval(s1, b)
           s3 == ApplyChannel(s2, b)
           s4 == ApplyTheirs(s3, b)
           s5 == ApplyLeft(s4, b)
           s6 == ApplyRows(s5, b)
<1>0. t = ApplyTombstones(s6, b)
  BY DEF Apply
<1>1. IsStore(s1, n) /\ s1.fence = s.fence /\ s1.my = MyAfter(s, b) /\ s1.rows = s.rows
  BY DEF ApplyMine, IsStore, Batches, Lifts, MyAfter
<1> HIDE DEF s1
<1>2. IsStore(s2, n) /\ \A i \in Ids : s2.rows[i] = RowBefore(s, b, i)
  <2>1. CASE Wipes(s, b)
    <3>1. s2 = [Empty EXCEPT !.cursor = s1.cursor, !.gen = s1.gen, !.fence = b.removed, !.active = TRUE]
      BY <1>1, <2>1 DEF Wipes, ApplyRemoval
    <3>2. IsStore(s2, n)
      BY <1>1, <3>1, NothingStored DEF IsStore, Batches
    <3>3. s2.rows = NoRows
      BY <3>1 DEF Empty
    <3> QED
      BY <2>1, <3>2, <3>3 DEF RowBefore
  <2>2. CASE ~Wipes(s, b)
    BY <1>1, <2>2 DEF Wipes, ApplyRemoval, RowBefore
  <2> QED
    BY <2>1, <2>2
<1> HIDE DEF s2
<1>3. IsStore(s3, n) /\ s3.rows = s2.rows
  BY <1>2 DEF ApplyChannel, IsStore, Batches
<1> HIDE DEF s3
<1>4. IsStore(s4, n) /\ s4.rows = s3.rows
  BY <1>3 DEF ApplyTheirs, IsStore, Batches
<1> HIDE DEF s4
<1>5. IsStore(s5, n) /\ s5.rows = s4.rows
  BY <1>4 DEF ApplyLeft, IsStore, Batches
<1> HIDE DEF s5
<1>6. IsStore(s6, n)
  BY <1>5 DEF ApplyRows, IsStore, Batches, Versions
<1>7. s6.fence = s5.fence /\ s6.active = s5.active /\ s6.ch = s5.ch
  BY <1>5 DEF ApplyRows, IsStore
<1>8. \A i \in Ids : s6.rows[i] = RowNext(s5.rows[i], b, s5, i)
  BY <1>5 DEF ApplyRows, IsStore, RowNext
<1> HIDE DEF s6
<1>9. t.fence = s6.fence /\ t.active = s6.active /\ t.ch = s6.ch
  BY <1>0, <1>6 DEF ApplyTombstones, IsStore
<1>10. \A i \in Ids : t.rows[i] = RowAfter(s6.rows[i], b, s6, i)
  BY <1>0, <1>6 DEF ApplyTombstones, IsStore, RowAfter
<1>11. \A k, h : MayLand(t, k, h) = MayLand(s6, k, h) /\ MayLand(t, k, h) = MayLand(s5, k, h)
  BY <1>7, <1>9 DEF MayLand, Fenced
<1>12. \A i \in Ids : s6.rows[i] = RowNext(s5.rows[i], b, t, i)
  BY <1>7, <1>8, <1>9, <1>11 DEF RowNext
<1>13. \A i \in Ids : t.rows[i] = RowAfter(s6.rows[i], b, t, i)
  BY <1>10, <1>11 DEF RowAfter
<1> QED
  BY <1>2, <1>3, <1>4, <1>5, <1>12, <1>13

LEMMA NothingLands ==
  ASSUME NEW b, NEW t, NEW i, NEW r, r.seq \in Nat
  PROVE  /\ b.rows[i].seq = 0 => RowNext(r, b, t, i) = r
         /\ b.tombstones[i] = 0 => RowAfter(r, b, t, i) = r
<1>1. b.rows[i].seq = 0 => RowNext(r, b, t, i) = r
  BY Zenon DEF RowNext
<1>2. b.tombstones[i] = 0 => ~(b.tombstones[i] > r.seq)
  OBVIOUS
<1>3. b.tombstones[i] = 0 => RowAfter(r, b, t, i) = r
  BY <1>2, Zenon DEF RowAfter
<1> QED
  BY <1>1, <1>3

LEMMA RowLands ==
  ASSUME NEW b, NEW t, NEW i, NEW r, r.seq \in Nat, b.rows[i].seq \in Nat, b.tombstones[i] = 0,
         NEW x, x = RowAfter(RowNext(r, b, t, i), b, t, i)
  PROVE  /\ x.seq >= r.seq
         /\ x = r \/ (/\ x.seq = b.rows[i].seq /\ x.gone = b.rows[i].gone /\ b.rows[i].seq # 0
                      /\ MayLand(t, b.rows[i].seq, b.history) /\ (b.history => b.floor = t.fence))
         /\ b.rows[i].seq # 0 /\ (b.history => b.floor = t.fence) /\ MayLand(t, b.rows[i].seq, b.history)
              => x.seq >= b.rows[i].seq
<1> DEFINE May == b.rows[i].seq # 0 /\ (b.history => b.floor = t.fence) /\ MayLand(t, b.rows[i].seq, b.history)
           Newer == b.rows[i].seq > r.seq \/ (b.rows[i].seq = r.seq /\ r.partial)
           y == RowNext(r, b, t, i)
<1>1. ~(May /\ Newer) => y = r
  BY Zenon DEF RowNext
<1>2. May /\ Newer => y = [seq |-> b.rows[i].seq, gone |-> b.rows[i].gone, partial |-> FALSE]
  BY Zenon DEF RowNext
<1>3. Newer => b.rows[i].seq >= r.seq
  OBVIOUS
<1>4. ~Newer => r.seq >= b.rows[i].seq
  OBVIOUS
<1> HIDE DEF May, Newer, y
<1>5. May /\ Newer => y.seq = b.rows[i].seq /\ y.gone = b.rows[i].gone
  BY <1>2
<1>6. y.seq \in Nat
  BY <1>1, <1>5
<1>7. x = y
  BY <1>6, NothingLands DEF y
<1>8. r.seq >= r.seq /\ b.rows[i].seq >= b.rows[i].seq
  OBVIOUS
<1>9. x.seq >= r.seq /\ (May => x.seq >= b.rows[i].seq)
  BY <1>1, <1>3, <1>4, <1>5, <1>7, <1>8, Zenon
<1>10. x = r \/ (x.seq = b.rows[i].seq /\ x.gone = b.rows[i].gone /\ May)
  BY <1>1, <1>5, <1>7, Zenon
<1> QED
  BY <1>9, <1>10, Zenon DEF May

-----------------------------------------------------------------------------
(* What an event or a history page may do to the store.                    *)

\* The server and the cursor stand, nothing is added to what is under way.
Stands ==
  /\ UNCHANGED <<now, msgs, mine, theirs, chan, tombs, req, base, skipped, unseen>>
  /\ live' \subseteq live /\ loads' \subseteq loads
  /\ st'.cursor = st.cursor /\ st'.gen = st.gen /\ (early => early')

LEMMA StandsNumbers ==
  ASSUME Stands
  PROVE  /\ Outs' = Outs /\ Lefts' = Lefts /\ LastOut' = LastOut /\ PrevOut' = PrevOut /\ LastLeft' = LastLeft
         /\ Sound' = Sound /\ (Exact' => Exact)
<1>1. UNCHANGED <<mine, tombs>>
  BY DEF Stands
<1> QED
  BY <1>1, StillNumbers DEF Stands, Sound, Seen, Exact

\* Rows arrive, each the message's last version or one that a page corrects.
RowsMove ==
  /\ Stands /\ CovOK' /\ RangeExact'
  /\ st'.ch = st.ch /\ st'.my = st.my /\ st'.th = st.th /\ st'.fence = st.fence /\ st'.active = st.active
  /\ \A k \in Ids :
       /\ st'.rows[k].seq >= st.rows[k].seq /\ VersionIs(k, st'.rows[k])
       /\ st'.rows[k] = st.rows[k]
            \/ (st.ch # 0 /\ (Exact' => st'.rows[k].seq = msgs[k].seq \/ Due(msgs[k].seq)))

LEMMA RowsMoveKeeps ==
  ASSUME Feed, Shape, Shape', RowsMove
  PROVE  StoreParts' /\ LiveParts' /\ PageParts'
<1> USE DEF RowsMove
<1>0. /\ Outs' = Outs /\ Lefts' = Lefts /\ LastOut' = LastOut /\ PrevOut' = PrevOut /\ LastLeft' = LastLeft
      /\ Sound' = Sound /\ (Exact' => Exact)
  BY StandsNumbers
<1> USE DEF Stands
<1>1. StaysOK' /\ LoadsOK' /\ StoreOK' /\ TheirsOK'
  BY <1>0 DEF Feed, StaysOK, LoadsOK, StoreOK, TheirsOK, VersionIs, Shape, Stored, Server
<1>2. LoadsExact'
  BY <1>0 DEF Feed, LoadsExact, Shown, Due, VersionIs, Shape, Stored, Server
<1>3. RowsExact'
  BY <1>0 DEF Feed, RowsExact, Due
<1>4. GoneOK' /\ ChannelOK' /\ OutHeard'
  BY <1>0 DEF Feed, GoneOK, ChannelOK, OutHeard
<1>5. JoinHeard' /\ PrevHeard' /\ TheirsHeard'
  BY <1>0 DEF Feed, JoinHeard, PrevHeard, TheirsHeard
<1>6. LiveKinds' /\ LiveOK' /\ LiveTold'
  BY <1>0 DEF Feed, LiveKinds, LiveOK, LiveTold, VersionIs, Told
<1>7. LiveExact'
  <2>1. ASSUME NEW e \in live, NEW i \in Ids, e.rows[i].seq # 0, st.rows[i].seq = msgs[i].seq
        PROVE  st'.rows[i].seq = msgs[i].seq
    <3>1. i \in DOMAIN msgs
      BY <2>1 DEF Feed, LiveOK, VersionIs
    <3>2. msgs[i].seq \in 1..now /\ st'.rows[i].seq \in 0..now /\ st'.rows[i].seq >= msgs[i].seq /\ VersionIs(i, st'.rows[i])
      BY <2>1, <3>1 DEF Shape, Stored, Server
    <3> QED
      BY <3>2 DEF VersionIs
  <2>2. \A e \in live' : e \in live
    OBVIOUS
  <2> QED
    BY <1>0, <2>1, <2>2 DEF Feed, LiveExact
<1>8. CountedOK' /\ PageOK' /\ PageTold' /\ PageOurs'
  BY <1>0 DEF Feed, CountedOK, PageOK, PageTold, PageOurs, VersionIs, Told, Seen
<1>9. PageChannel' /\ PageJoin' /\ PageOut' /\ PageRows' /\ PageTheirs'
  BY <1>0 DEF Feed, PageChannel, PageJoin, PageOut, PageRows, PageTheirs, Due, Seen
<1>10. PageStages' /\ FirstPage'
  BY <1>0 DEF Feed, PageStages, FirstPage
<1> QED
  BY <1>1, <1>2, <1>3, <1>4, <1>5, <1>6, <1>7, <1>8, <1>9, <1>10 DEF StoreParts, LiveParts, PageParts

\* The channel's row arrives, through the fence.
ChannelMoves(n) ==
  /\ Stands
  /\ st'.ch = n /\ n > st.ch /\ n <= chan /\ ~Fenced(st, n)
  /\ ~unseen /\ ~mine.in => n <= LastOut
  /\ ~early' => n > base
  /\ st'.my = st.my /\ st'.th = st.th /\ st'.fence = st.fence /\ st'.active = st.active /\ st'.cov = st.cov
  /\ \A k \in Ids : st'.rows[k] = st.rows[k]

LEMMA ChannelMovesKeeps ==
  ASSUME Feed, Shape, Shape', NEW n \in Nat, ChannelMoves(n)
  PROVE  StoreParts' /\ LiveParts' /\ PageParts'
<1> USE DEF ChannelMoves
<1>0. /\ Outs' = Outs /\ Lefts' = Lefts /\ LastOut' = LastOut /\ PrevOut' = PrevOut /\ LastLeft' = LastLeft
      /\ Sound' = Sound /\ (Exact' => Exact)
  BY StandsNumbers
<1> USE DEF Stands
<1>00. st'.ch # 0
  BY DEF Shape, Stored
<1>1. StaysOK' /\ LoadsOK' /\ StoreOK' /\ TheirsOK' /\ CovOK'
  BY <1>0, <1>00 DEF Feed, StaysOK, LoadsOK, StoreOK, TheirsOK, CovOK, VersionIs
<1>2. LoadsExact' /\ RowsExact' /\ RangeExact'
  BY <1>0 DEF Feed, LoadsExact, RowsExact, RangeExact, Shown, Due, Shape, Server
<1>4. GoneOK' /\ ChannelOK' /\ OutHeard'
  BY <1>0 DEF Feed, GoneOK, ChannelOK, OutHeard, Fenced, Shape, Stored, Server, Numbers, StoreOK
<1>5. JoinHeard' /\ PrevHeard' /\ TheirsHeard'
  BY <1>0, <1>00 DEF Feed, JoinHeard, PrevHeard, TheirsHeard
<1>6. LiveKinds' /\ LiveOK' /\ LiveTold'
  BY <1>0 DEF Feed, LiveKinds, LiveOK, LiveTold, VersionIs, Told
<1>7. LiveExact'
  BY <1>0 DEF Feed, LiveExact
<1>8. CountedOK' /\ PageOK' /\ PageTold' /\ PageOurs'
  BY <1>0 DEF Feed, CountedOK, PageOK, PageTold, PageOurs, VersionIs, Told, Seen
<1>9. PageChannel' /\ PageJoin' /\ PageOut' /\ PageRows' /\ PageTheirs'
  BY <1>0 DEF Feed, PageChannel, PageJoin, PageOut, PageRows, PageTheirs, Due, Seen
<1>10. PageStages' /\ FirstPage'
  BY <1>0 DEF Feed, PageStages, FirstPage
<1> QED
  BY <1>1, <1>2, <1>4, <1>5, <1>6, <1>7, <1>8, <1>9, <1>10 DEF StoreParts, LiveParts, PageParts

\* A removal above the fence and the membership: the channel's rows go.
WipedOut(n) ==
  /\ Stands /\ n \in Outs /\ n > st.fence /\ (st.my = 0 \/ n > st.my)
  /\ st'.fence = n /\ st'.my = 0 /\ st'.active /\ st'.cov = NoCoverage /\ st'.ch = 0 /\ st'.th.seq = 0
  /\ \A k \in Ids : st'.rows[k].seq = 0

LEMMA WipedOutKeeps ==
  ASSUME Feed, Shape, Shape', NEW n \in Nat, WipedOut(n)
  PROVE  StoreParts' /\ LiveParts' /\ PageParts'
<1> USE DEF WipedOut
<1>0. /\ Outs' = Outs /\ Lefts' = Lefts /\ LastOut' = LastOut /\ PrevOut' = PrevOut /\ LastLeft' = LastLeft
      /\ Sound' = Sound /\ (Exact' => Exact)
  BY StandsNumbers
<1> USE DEF Stands
<1>a. n <= LastOut /\ n \in 1..now /\ (mine.in => n < mine.joined) /\ (~mine.in => n = LastOut \/ n < mine.joined)
  BY DEF Feed, StaysOK, Shape, Numbers, Server
<1>b. Sound /\ st.cursor # 0 => n >= PrevOut
  BY <1>a DEF Feed, PrevHeard, Shape, Numbers, Stored
<1>c. n >= mine.joined => n = LastOut /\ ~mine.in
  BY <1>a DEF Shape, Numbers, Server
<1>d. \A k \in Nat : Due(k)' => Due(k)
  BY <1>0, <1>a DEF Due, Shape, Numbers, Server, Stored
<1>1. StaysOK' /\ LoadsOK' /\ StoreOK' /\ TheirsOK' /\ CovOK'
  BY <1>0, <1>a DEF Feed, StaysOK, LoadsOK, StoreOK, TheirsOK, CovOK, VersionIs, NoCoverage, Shape, Server, Stored,
       Numbers, InFlight
<1>2. LoadsExact' /\ RowsExact' /\ RangeExact'
  BY <1>0, <1>a DEF Feed, LoadsOK, LoadsExact, RowsExact, RangeExact, NoCoverage, Shape, Stored, InFlight
<1>4. GoneOK' /\ ChannelOK' /\ OutHeard'
  BY <1>0, <1>a DEF Feed, StaysOK, GoneOK, ChannelOK, OutHeard, Shape, Stored, Server, Numbers
<1>5. JoinHeard' /\ PrevHeard' /\ TheirsHeard'
  BY <1>0, <1>a, <1>b, <1>c DEF Feed, JoinHeard, PrevHeard, TheirsHeard, Shape, Server, Stored, Numbers
<1>6. LiveKinds' /\ LiveOK' /\ LiveTold'
  BY <1>0 DEF Feed, LiveKinds, LiveOK, LiveTold, VersionIs, Told
<1>7. LiveExact'
  <2> SUFFICES ASSUME Exact, NEW e \in live, NEW i \in Ids, e.rows[i].seq # 0, e.rows[i].seq # msgs[i].seq,
                      st.rows[i].seq = msgs[i].seq, ~(msgs[i].seq > st.cursor)
               PROVE  e.rows[i].seq <= n
    BY <1>0, <1>a DEF Feed, LiveExact, Shape, Stored, InFlight, Numbers
  <2>1. i \in DOMAIN msgs /\ msgs[i].seq \in 1..now /\ st.cursor \in 1..now /\ e.rows[i].seq \in 0..now
    BY DEF Feed, LiveOK, VersionIs, Shape, Server, Stored, InFlight
  <2>2. Told(i, e.rows[i].seq) /\ Sound
    BY DEF Feed, LiveTold, Exact, Sound
  <2>3. CASE mine.joined <= st.cursor
    <3>1. n >= mine.joined
      BY <1>a, <2>2, <2>3 DEF Feed, JoinHeard, Shape, Numbers, Server, Stored
    <3> QED
      BY <1>c, <2>2, <3>1 DEF Told
  <2>4. CASE ~(mine.joined <= st.cursor)
    BY <1>b, <2>1, <2>2, <2>4 DEF Told, Shape, Numbers, Server, Stored
  <2> QED
    BY <2>3, <2>4
<1>8. CountedOK' /\ PageOK' /\ PageTold' /\ PageOurs'
  BY <1>0 DEF Feed, CountedOK, PageOK, PageTold, PageOurs, VersionIs, Told, Seen
<1>9. PageChannel' /\ PageJoin' /\ PageOut'
  BY <1>0 DEF Feed, PageChannel, PageJoin, PageOut, Seen
<1>10. PageRows'
  BY <1>0, <1>d DEF Feed, PageRows, Shape, Server
<1>11. PageTheirs'
  <2>1. req.at \in Reading /\ Sound /\ req.since # 0 => ~(st'.my >= mine.joined) /\ ~(n < PrevOut)
    BY <1>b DEF Shape, Numbers, Server, Paged
  <2>2. AtMemberships \subseteq Reading
    BY DEF AtMemberships, Reading
  <2> QED
    BY <1>0, <2>1, <2>2 DEF Feed, PageTheirs
<1>12. PageStages' /\ FirstPage'
  BY <1>0 DEF Feed, PageStages, FirstPage, Shape, Stored, Numbers
<1> QED
  BY <1>1, <1>2, <1>4, <1>5, <1>6, <1>7, <1>8, <1>9, <1>10, <1>11, <1>12 DEF StoreParts, LiveParts, PageParts

-----------------------------------------------------------------------------
(* An event arrives.                                                       *)

LEMMA OneVersion ==
  ASSUME NEW e, NEW n \in Nat, e.ch \in {0, n}, e.removed \in {0, n},
         \A i \in Ids : e.rows[i].seq \in {0, n} /\ e.tombstones[i] \in {0, n}
  PROVE  VersionOf(e) \in Int /\ VersionOf(e) <= n
<1> DEFINE S == {e.ch, e.removed} \cup {e.rows[i].seq : i \in Ids} \cup {e.tombstones[i] : i \in Ids}
<1>1. S \subseteq {0, n} /\ S # {}
  OBVIOUS
<1>2. IsFiniteSet({0, n}) /\ {0, n} \subseteq Int
  <2>1. {0, n} \subseteq 0..n /\ IsFiniteSet(0..n)
    BY FS_Interval
  <2> QED
    BY <2>1, FS_Subset
<1>3. VersionOf(e) = Max(S)
  BY DEF VersionOf
<1>4. IsFiniteSet(S)
  <2> HIDE DEF S
  <2> QED
    BY <1>1, <1>2, FS_Subset
<1>5. Max(S) \in S
  <2> HIDE DEF S
  <2> QED
    BY <1>1, <1>2, <1>4, Greatest
<1>6. Max(S) \in {0, n}
  BY <1>1, <1>5
<1> QED
  BY <1>3, <1>6

LEMMA EventRest ==
  /\ \A n : ChannelRow(n).my = 0 /\ ChannelRow(n).th = 0 /\ ChannelRow(n).left = 0 /\ ~ChannelRow(n).history
  /\ \A n : Removal(n).my = 0 /\ Removal(n).th = 0 /\ Removal(n).left = 0 /\ ~Removal(n).history
  /\ \A i, n : /\ Tombstone(i, n).my = 0 /\ Tombstone(i, n).th = 0
               /\ Tombstone(i, n).left = 0 /\ ~Tombstone(i, n).history
  /\ \A i, v : /\ RowEvent(i, v).my = 0 /\ RowEvent(i, v).th = 0
               /\ RowEvent(i, v).left = 0 /\ ~RowEvent(i, v).history
  BY DEF RowEvent, ChannelRow, Removal, Tombstone, NoBatch

LEMMA SameRange ==
  ASSUME Feed, Shape, Shape', Stands, st'.cov = st.cov, st'.ch = st.ch, st'.active = st.active,
         st'.fence = st.fence, st'.my = st.my, \A k \in Ids : st'.rows[k].seq >= st.rows[k].seq
  PROVE  CovOK' /\ RangeExact'
<1>0. PrevOut' = PrevOut /\ (Exact' => Exact)
  BY StandsNumbers
<1>1. CovOK'
  BY DEF Feed, CovOK
<1>2. ASSUME NEW i \in DOMAIN msgs, st.rows[i].seq # 0 PROVE st'.rows[i].seq # 0
  BY <1>2 DEF Shape, Server, Stored
<1>3. RangeExact'
  BY <1>0, <1>2 DEF Feed, RangeExact, Shown, Due, Stands
<1> QED
  BY <1>1, <1>3

LEMMA EventKeepsFeed ==
  ASSUME Inv, Shape, Shape', Feed, NEW e \in live, LiveEvent(e)
  PROVE  Feed'
<1>1. /\ now \in Nat /\ e \in Batches(now) /\ IsStore(st, now) /\ st' = Apply(st, e)
      /\ UNCHANGED <<now, msgs, mine, theirs, chan, tombs, sends, req, loads, base, skipped, unseen>>
      /\ live' \subseteq live /\ early' = (early \/ VersionOf(e) <= base)
  BY DEF LiveEvent, serverVars, Inv, ServerOK, DeviceOK, Shape, Server
<1>2. st'.cursor = st.cursor /\ st'.gen = st.gen
  BY <1>1, ApplyDoes
<1>3. Stands
  BY <1>1, <1>2 DEF Stands
<1>4. Outs' = Outs
  BY <1>3, StandsNumbers
<1>5. SendsOK'
  BY <1>1, <1>4 DEF Feed, SendsOK
<1> SUFFICES StoreParts' /\ LiveParts' /\ PageParts'
  BY <1>5, FeedIsAfter
<1>6. /\ now \in Nat /\ st.fence \in 0..now /\ st.my \in 0..now /\ st.ch \in 0..now /\ st.th.seq \in 0..now
      /\ base \in Int /\ base \in 0..now /\ st.active \in BOOLEAN /\ st'.ch \in 0..now
      /\ \A k \in Ids : st.rows[k].seq \in 0..now /\ st'.rows[k].seq \in 0..now
  BY <1>1 DEF Shape, Stored, Feed, StoreOK, Numbers
<1>a. e.my = 0 /\ e.th = 0 /\ e.left = 0 /\ ~e.history
  <2>1. ASSUME NEW n, e = ChannelRow(n) \/ e = Removal(n) PROVE e.my = 0 /\ e.th = 0 /\ e.left = 0 /\ ~e.history
    BY <2>1, EventRest
  <2>2. ASSUME NEW n, NEW i, e = Tombstone(i, n) PROVE e.my = 0 /\ e.th = 0 /\ e.left = 0 /\ ~e.history
    BY <2>2, EventRest
  <2>3. ASSUME NEW i, NEW v, e = RowEvent(i, v) PROVE e.my = 0 /\ e.th = 0 /\ e.left = 0 /\ ~e.history
    BY <2>3, EventRest
  <2> QED
    BY <2>1, <2>2, <2>3 DEF Feed, LiveKinds
<1>b. ~Lifts(st, e) /\ MyAfter(st, e) = st.my
  BY <1>6, <1>a DEF Lifts, MyAfter
<1>c. ASSUME ~Wipes(st, e)
      PROVE  /\ st'.fence = st.fence /\ st'.my = st.my /\ st'.active = st.active /\ st'.cov = st.cov /\ st'.th = st.th
             /\ st'.ch = IF e.ch > st.ch /\ ~Fenced(st', e.ch) THEN e.ch ELSE st.ch
  <2>1. KeptBy(st, e, st')
    BY <1>1, <1>c, ApplyDoes
  <2>2. ~(e.th > st.th.seq) /\ ~(e.left > st.th.seq)
    BY <1>6, <1>a
  <2> QED
    BY <1>6, <1>b, <2>1, <2>2 DEF KeptBy
<1>d. ASSUME Wipes(st, e)
      PROVE  /\ st'.fence = e.removed /\ st'.my = 0 /\ st'.active /\ st'.cov = NoCoverage /\ st'.th.seq = 0
             /\ st'.ch = IF e.ch > 0 /\ ~Fenced(st', e.ch) THEN e.ch ELSE 0
  <2>1. WipedBy(e, st')
    BY <1>1, <1>d, ApplyDoes
  <2> QED
    BY <1>a, <2>1 DEF WipedBy, Version
<1>e. \A k \in Ids : st'.rows[k] = RowAfter(RowNext(RowBefore(st, e, k), e, st', k), e, st', k)
  BY <1>1, ApplyLands
<1>f. \A k \in Ids : (~Wipes(st, e) => RowBefore(st, e, k) = st.rows[k]) /\ RowBefore(st, e, k).seq \in Nat
  BY <1>6 DEF RowBefore, NoRows
<1>g. \A k \in Ids : e.rows[k].seq = 0 /\ e.tombstones[k] = 0 => st'.rows[k] = RowBefore(st, e, k)
  BY <1>e, <1>f, NothingLands
<1>7. ASSUME NEW n \in Nat \ {0}, e = ChannelRow(n)
      PROVE  StoreParts' /\ LiveParts' /\ PageParts'
  <2>1. e.ch = n /\ e.removed = 0 /\ \A i \in Ids : e.rows[i].seq = 0 /\ e.tombstones[i] = 0
    BY <1>7, EventFields
  <2>2. ~Wipes(st, e)
    BY <2>1 DEF Wipes
  <2>3. \A k \in Ids : st'.rows[k] = st.rows[k]
    BY <1>f, <1>g, <2>1, <2>2
  <2>4. VersionOf(e) \in Int /\ VersionOf(e) <= n
    BY <2>1, OneVersion
  <2>5. n <= chan /\ (~unseen /\ ~mine.in => n <= LastOut)
    BY <2>1 DEF Feed, LiveOK, LiveTold
  <2>6. CASE st'.ch = st.ch
    <3>1. CovOK' /\ RangeExact'
      BY <1>3, <1>6, <1>c, <2>2, <2>3, <2>6, SameRange
    <3>2. \A k \in Ids : VersionIs(k, st.rows[k])
      BY DEF Feed, StoreOK
    <3>3. RowsMove
      BY <1>3, <1>6, <1>c, <2>2, <2>3, <2>6, <3>1, <3>2 DEF RowsMove
    <3> QED
      BY <3>3, RowsMoveKeeps
  <2>7. CASE st'.ch # st.ch
    <3>1. st'.ch = n /\ n > st.ch /\ ~Fenced(st', n)
      BY <1>c, <2>1, <2>2, <2>7
    <3>2. ~Fenced(st, n)
      BY <1>c, <2>2, <3>1 DEF Fenced
    <3>3. ~early' => n > base
      <4>1. ~early' => ~(VersionOf(e) <= base)
        BY <1>1
      <4> QED
        BY <1>6, <2>4, <4>1
    <3>4. ChannelMoves(n)
      BY <1>3, <1>c, <2>2, <2>3, <2>5, <3>1, <3>2, <3>3 DEF ChannelMoves
    <3> QED
      BY <3>4, ChannelMovesKeeps
  <2> QED
    BY <2>6, <2>7
<1>8. ASSUME NEW n \in Nat \ {0}, e = Removal(n)
      PROVE  StoreParts' /\ LiveParts' /\ PageParts'
  <2>1. e.removed = n /\ e.ch = 0 /\ \A i \in Ids : e.rows[i].seq = 0 /\ e.tombstones[i] = 0
    BY <1>8, EventFields
  <2>2. n \in Outs
    BY <2>1 DEF Feed, LiveOK
  <2>3. \A k \in Ids : st'.rows[k] = RowBefore(st, e, k)
    BY <1>g, <2>1
  <2>4. CASE Wipes(st, e)
    <3>1. n > st.fence /\ (st.my = 0 \/ n > st.my)
      BY <1>6, <1>b, <2>1, <2>4 DEF Wipes
    <3>2. \A k \in Ids : st'.rows[k].seq = 0
      BY <2>3, <2>4 DEF RowBefore, NoRows
    <3>3. WipedOut(n)
      BY <1>3, <1>d, <2>1, <2>2, <2>4, <3>1, <3>2 DEF WipedOut
    <3> QED
      BY <3>3, WipedOutKeeps
  <2>5. CASE ~Wipes(st, e)
    <3>0. st'.ch = st.ch /\ \A k \in Ids : st'.rows[k] = st.rows[k]
      BY <1>6, <1>c, <1>f, <2>1, <2>3, <2>5
    <3>1. CovOK' /\ RangeExact'
      BY <1>3, <1>6, <1>c, <2>5, <3>0, SameRange
    <3>2. \A k \in Ids : VersionIs(k, st.rows[k])
      BY DEF Feed, StoreOK
    <3>3. RowsMove
      BY <1>3, <1>6, <1>c, <2>5, <3>0, <3>1, <3>2 DEF RowsMove
    <3> QED
      BY <3>3, RowsMoveKeeps
  <2> QED
    BY <2>4, <2>5
\* One row: the message's, or the tombstone that it is deleted.
<1>9. ASSUME NEW i \in Ids, NEW v, NEW n \in Nat \ {0}, v.seq = n, e.ch = 0, e.removed = 0,
             \A k \in Ids : e.rows[k].seq \in {0, n} /\ e.tombstones[k] \in {0, n},
             \A k \in Ids : k # i => e.rows[k].seq = 0 /\ e.tombstones[k] = 0,
             (e.rows[i] = v /\ e.tombstones[i] = 0) \/ (e.rows[i].seq = 0 /\ e.tombstones[i] = n /\ v.gone = TRUE)
      PROVE  StoreParts' /\ LiveParts' /\ PageParts'
  <2>0. (e.rows[i] = v /\ e.tombstones[i] = 0) \/ (e.rows[i].seq = 0 /\ e.tombstones[i] = n /\ v.gone = TRUE)
    BY <1>9
  <2>1. ~Wipes(st, e)
    BY <1>9 DEF Wipes
  <2>2. /\ st'.fence = st.fence /\ st'.my = st.my /\ st'.active = st.active /\ st'.cov = st.cov /\ st'.th = st.th
        /\ st'.ch = st.ch
    BY <1>6, <1>9, <1>c, <2>1
  <2>3. \A k \in Ids : k # i => st'.rows[k] = st.rows[k]
    BY <1>9, <1>f, <1>g, <2>1
  <2>4. st'.rows[i] = RowAfter(RowNext(st.rows[i], e, st', i), e, st', i)
    BY <1>e, <1>f, <2>1
  <2>5. /\ st'.rows[i].seq >= st.rows[i].seq
        /\ \/ st'.rows[i] = st.rows[i]
           \/ /\ st'.rows[i].seq = n /\ st'.rows[i].gone = v.gone
              /\ st.ch # 0 /\ n > st.fence
    <3>1. CASE e.rows[i] = v /\ e.tombstones[i] = 0
      <4>1. /\ st'.rows[i].seq >= st.rows[i].seq
            /\ st'.rows[i] = st.rows[i] \/ (st'.rows[i].seq = n /\ st'.rows[i].gone = v.gone
                                             /\ MayLand(st', n, e.history))
        BY <1>6, <1>9, <2>4, <3>1, RowLands
      <4>2. MayLand(st', n, e.history) => st.ch # 0 /\ n > st.fence
        BY <1>a, <2>2 DEF MayLand
      <4> QED
        BY <4>1, <4>2
    <3>2. CASE e.rows[i].seq = 0 /\ e.tombstones[i] = n /\ v.gone = TRUE
      <4>1. RowNext(st.rows[i], e, st', i) = st.rows[i]
        BY <1>6, <3>2, NothingLands
      <4> DEFINE Lands == MayLand(st', n, FALSE) /\ n > st.rows[i].seq
      <4>2. Lands => st'.rows[i] = [seq |-> n, gone |-> TRUE, partial |-> TRUE]
        BY <2>4, <3>2, <4>1, Zenon DEF RowAfter
      <4>3. ~Lands => st'.rows[i] = st.rows[i]
        BY <2>4, <3>2, <4>1, Zenon DEF RowAfter
      <4>4. Lands => st.ch # 0 /\ n > st.fence /\ n >= st.rows[i].seq
        BY <1>6, <2>2 DEF MayLand
      <4>5. st.rows[i].seq >= st.rows[i].seq
        BY <1>6
      <4> HIDE DEF Lands
      <4> DEFINE r == [seq |-> n, gone |-> TRUE, partial |-> TRUE]
      <4>6. r.seq = n /\ r.gone = TRUE
        OBVIOUS
      <4>7. Lands => st'.rows[i] = r
        BY <4>2
      <4> HIDE DEF r
      <4> QED
        BY <3>2, <4>3, <4>4, <4>5, <4>6, <4>7, Zenon
    <3> QED
      BY <2>0, <3>1, <3>2, Zenon
  <2>6. VersionIs(i, v) /\ i \in DOMAIN msgs /\ n <= msgs[i].seq
    <3>1. VersionIs(i, e.rows[i]) /\ (e.tombstones[i] # 0 => i \in DOMAIN msgs /\ e.tombstones[i] = msgs[i].seq /\ msgs[i].gone)
      BY DEF Feed, LiveOK
    <3>2. \A k \in DOMAIN msgs : msgs[k].seq \in 1..now /\ msgs[k].gone \in BOOLEAN
      BY DEF Shape, Server
    <3>5. CASE e.rows[i].seq = 0 /\ e.tombstones[i] = n /\ v.gone = TRUE
      <4>1. i \in DOMAIN msgs /\ msgs[i].seq = n /\ msgs[i].gone = TRUE /\ n <= n
        BY <3>1, <3>2, <3>5
      <4> QED
        BY <1>9, <3>5, <4>1 DEF VersionIs
    <3>3. VersionIs(i, v)
      BY <2>0, <3>1, <3>5
    <3>4. v.seq # 0 /\ v.seq = n
      BY <1>9
    <3> QED
      BY <3>3, <3>4 DEF VersionIs
  <2>7. ASSUME Exact', st'.rows[i] # st.rows[i], n # msgs[i].seq
        PROVE  Due(msgs[i].seq)
    <3>1. Exact
      BY <1>3, <2>7, StandsNumbers
    <3>2. e.rows[i].seq = n
      <4>1. e.tombstones[i] # 0 => e.tombstones[i] = msgs[i].seq
        BY DEF Feed, LiveOK
      <4> QED
        BY <1>9, <2>7, <4>1
    <3>3. n > base
      <4>1. VersionOf(e) \in Int /\ VersionOf(e) <= n
        BY <1>9, OneVersion
      <4>2. ~(VersionOf(e) <= base)
        BY <1>1, <2>7 DEF Exact
      <4> QED
        BY <1>6, <4>1, <4>2
    <3>4. n > st.fence /\ st'.rows[i].seq = n /\ msgs[i].seq \in Int /\ n < msgs[i].seq
      BY <2>5, <2>6, <2>7 DEF Shape, Server
    <3>5. st.rows[i].seq # msgs[i].seq
      BY <1>6, <2>5, <3>4
    <3>6. msgs[i].seq > st.cursor
      BY <1>6, <2>7, <3>1, <3>2, <3>3, <3>4, <3>5 DEF Feed, LiveExact
    <3>7. Told(i, n)
      BY <3>1, <3>2 DEF Feed, LiveTold, Exact, Sound
    <3> QED
      BY <1>6, <2>7, <3>4, <3>6, <3>7 DEF Due, Told, Shape, Numbers, Server
  <2>8. \A k \in Ids :
          /\ st'.rows[k].seq >= st.rows[k].seq /\ VersionIs(k, st'.rows[k])
          /\ st'.rows[k] = st.rows[k] \/ (st.ch # 0 /\ (Exact' => st'.rows[k].seq = msgs[k].seq \/ Due(msgs[k].seq)))
    <3>1. \A k \in Ids : VersionIs(k, st.rows[k])
      BY DEF Feed, StoreOK
    <3>2. VersionIs(i, st'.rows[i])
      BY <1>9, <2>5, <2>6, <3>1 DEF VersionIs
    <3>3. st'.rows[i] = st.rows[i] \/ (st.ch # 0 /\ (Exact' => st'.rows[i].seq = msgs[i].seq \/ Due(msgs[i].seq)))
      BY <2>5, <2>7
    <3>4. \A k \in Ids : st.rows[k].seq >= st.rows[k].seq
      BY <1>6
    <3> QED
      BY <2>3, <2>5, <3>1, <3>2, <3>3, <3>4
  <2>9. CovOK' /\ RangeExact'
    BY <1>3, <2>2, <2>8, SameRange
  <2>10. RowsMove
    BY <1>3, <2>2, <2>8, <2>9 DEF RowsMove
  <2> QED
    BY <2>10, RowsMoveKeeps
<1>10. ASSUME NEW n \in Nat \ {0}, NEW i \in Ids, e = Tombstone(i, n)
       PROVE  StoreParts' /\ LiveParts' /\ PageParts'
  <2>1. e.removed = 0 /\ e.ch = 0 /\ \A k \in Ids : e.rows[k].seq = 0 /\ e.tombstones[k] = IF k = i THEN n ELSE 0
    BY <1>10, EventFields
  <2> DEFINE v == [seq |-> n, gone |-> TRUE]
  <2>2. v.seq = n /\ v.gone = TRUE
    OBVIOUS
  <2> HIDE DEF v
  <2>3. \A k \in Ids : e.rows[k].seq \in {0, n} /\ e.tombstones[k] \in {0, n}
    BY <2>1
  <2>4. \A k \in Ids : k # i => e.rows[k].seq = 0 /\ e.tombstones[k] = 0
    BY <2>1
  <2>5. e.rows[i].seq = 0 /\ e.tombstones[i] = n
    BY <2>1
  <2> QED
    BY <1>9, <2>1, <2>2, <2>3, <2>4, <2>5
<1>11. ASSUME NEW n \in Nat \ {0}, NEW i \in Ids, NEW gone \in BOOLEAN, e = RowEvent(i, [seq |-> n, gone |-> gone])
       PROVE  StoreParts' /\ LiveParts' /\ PageParts'
  <2> DEFINE v == [seq |-> n, gone |-> gone]
  <2>1. v.seq = n /\ e = RowEvent(i, v)
    BY <1>11
  <2> HIDE DEF v
  <2>2. e.removed = 0 /\ e.ch = 0 /\ \A k \in Ids : e.rows[k] = (IF k = i THEN v ELSE Version) /\ e.tombstones[k] = 0
    BY <2>1, EventFields
  <2>3. Version.seq = 0
    BY DEF Version
  <2> QED
    BY <1>9, <2>1, <2>2, <2>3
<1> QED
  BY <1>7, <1>8, <1>10, <1>11 DEF Feed, LiveKinds

-----------------------------------------------------------------------------
(* A history page is asked for and read.                                   *)

LEMMA Least ==
  ASSUME NEW S, S \subseteq Int, IsFiniteSet(S), S # {}
  PROVE  Min(S) \in S /\ \A y \in S : Min(S) <= y
<1> DEFINE f == [x \in S |-> 0 - x]
           T == {0 - x : x \in S}
<1>1. T = {f[x] : x \in S}
  OBVIOUS
<1>2. IsFiniteSet(T)
  <2> HIDE DEF T, f
  <2>1. IsFiniteSet({f[x] : x \in S})
    <3>1. f \in Surjection(S, {f[x] : x \in S})
      BY DEF f, Surjection
    <3> QED
      BY <3>1, FS_Surjection
  <2> QED
    BY <1>1, <2>1
<1>3. T \subseteq Int /\ T # {}
  <2>1. \A x \in S : 0 - x \in Int
    OBVIOUS
  <2> QED
    BY <2>1
<1>4. Max(T) \in T /\ \A y \in T : Max(T) >= y
  <2> HIDE DEF T
  <2> QED
    BY <1>2, <1>3, Greatest
<1>5. PICK x \in S : Max(T) = 0 - x
  BY <1>4
<1>6. \A y \in S : x <= y
  <2> TAKE y \in S
  <2>1. 0 - x >= 0 - y /\ x \in Int /\ y \in Int
    BY <1>4, <1>5
  <2> QED
    BY <2>1
<1> QED
  BY <1>6 DEF Min

LEMMA NewestIs ==
  ASSUME NEW S, S \subseteq Int, IsFiniteSet(S), NEW n \in Nat \ {0}
  PROVE  /\ Newest(S, n) \subseteq S /\ IsFiniteSet(Newest(S, n)) /\ Cardinality(Newest(S, n)) \in Nat
         /\ Cardinality(Newest(S, n)) < n => Newest(S, n) = S
         /\ \A i \in S : Newest(S, n) # {} /\ i >= Min(Newest(S, n)) => i \in Newest(S, n)
<1> DEFINE N == Newest(S, n)
           Above(i) == {j \in S : j > i}
<1>1. N \subseteq S /\ N = {i \in S : Cardinality(Above(i)) < n}
  BY DEF Newest
<1>2. \A T : T \subseteq S => IsFiniteSet(T) /\ Cardinality(T) \in Nat
  BY FS_Subset, FS_CardinalityType
<1>3. \A T, U : T \subseteq U /\ U \subseteq S => Cardinality(T) <= Cardinality(U)
  BY <1>2, FS_Subset
<1> HIDE DEF N
<1>4. ASSUME Cardinality(N) < n PROVE N = S
  <2> SUFFICES ASSUME N # S PROVE FALSE
    OBVIOUS
  <2> DEFINE D == S \ N
  <2>1. D \subseteq Int /\ IsFiniteSet(D) /\ D # {}
    BY <1>1, <1>2
  <2>2. Max(D) \in D /\ \A y \in D : Max(D) >= y
    <3> HIDE DEF D
    <3> QED
      BY <2>1, Greatest
  <2> DEFINE m == Max(D)
  <2>3. m \in S /\ ~(Cardinality(Above(m)) < n)
    BY <1>1, <2>2
  <2>4. Above(m) \subseteq N
    <3> SUFFICES ASSUME NEW j \in S, j > m, j \notin N PROVE FALSE
      OBVIOUS
    <3>1. m >= j
      BY <2>2
    <3>2. m \in Int /\ j \in Int
      BY <2>3
    <3> HIDE DEF m
    <3> QED
      BY <3>1, <3>2
  <2>5. Cardinality(Above(m)) <= Cardinality(N)
    BY <1>1, <1>3, <2>4
  <2>6. Cardinality(Above(m)) \in Nat /\ Cardinality(N) \in Nat
    BY <1>1, <1>2
  <2> HIDE DEF Above
  <2> QED
    BY <1>4, <2>3, <2>5, <2>6
<1>5. ASSUME NEW i \in S, N # {}, i >= Min(N) PROVE i \in N
  <2>1. Min(N) \in N
    BY <1>1, <1>2, <1>5, Least
  <2> DEFINE m == Min(N)
  <2>2. m \in S /\ Cardinality(Above(m)) < n
    BY <1>1, <2>1
  <2>3. Above(i) \subseteq Above(m)
    <3>1. m \in Int /\ i \in Int /\ i >= m
      BY <1>5, <2>2
    <3> HIDE DEF m
    <3>2. \A j \in S : j \in Int /\ (j > i => j > m)
      BY <3>1
    <3> QED
      BY <3>2
  <2>4. Cardinality(Above(i)) <= Cardinality(Above(m)) /\ Cardinality(Above(i)) \in Nat /\ Cardinality(Above(m)) \in Nat
    BY <1>2, <1>3, <2>3
  <2>5. Cardinality(Above(i)) < n
    <3> HIDE DEF Above, m
    <3> QED
      BY <2>2, <2>4
  <2> QED
    BY <1>1, <2>5
<1> QED
  BY <1>1, <1>2, <1>4, <1>5 DEF N

\* Only the history requests change.
LoadsStill ==
  UNCHANGED <<now, msgs, mine, theirs, chan, tombs, sends, live, st, req, base, early, skipped, unseen>>

LEMMA LoadsStillKeeps ==
  ASSUME Feed, LoadsStill, LoadsOK', LoadsExact'
  PROVE  Feed'
<1> USE DEF LoadsStill
<1>0. /\ Outs' = Outs /\ Lefts' = Lefts /\ LastOut' = LastOut /\ PrevOut' = PrevOut /\ LastLeft' = LastLeft
      /\ Sound' = Sound /\ Exact' = Exact
  BY StillNumbers DEF Sound, Exact, Seen
<1>1. StaysOK' /\ SendsOK' /\ CovOK' /\ StoreOK' /\ TheirsOK'
  BY <1>0 DEF Feed, StaysOK, SendsOK, CovOK, StoreOK, TheirsOK, VersionIs
<1>2. LiveKinds' /\ LiveOK' /\ LiveTold' /\ LiveExact'
  BY <1>0 DEF Feed, LiveKinds, LiveOK, LiveTold, LiveExact, VersionIs, Told
<1>3. RowsExact' /\ RangeExact'
  BY <1>0 DEF Feed, RowsExact, RangeExact, Shown, Due
<1>4. GoneOK' /\ ChannelOK' /\ OutHeard' /\ JoinHeard' /\ PrevHeard' /\ TheirsHeard'
  BY <1>0 DEF Feed, GoneOK, ChannelOK, OutHeard, JoinHeard, PrevHeard, TheirsHeard
<1>5. CountedOK' /\ PageOK' /\ PageTold' /\ PageOurs'
  BY <1>0 DEF Feed, CountedOK, PageOK, PageTold, PageOurs, VersionIs, Told, Seen
<1>6. PageChannel' /\ PageJoin' /\ PageOut' /\ PageRows' /\ PageTheirs'
  BY <1>0 DEF Feed, PageChannel, PageJoin, PageOut, PageRows, PageTheirs, Due, Seen
<1>7. PageStages' /\ FirstPage'
  BY <1>0 DEF Feed, PageStages, FirstPage
<1> QED
  BY <1>1, <1>2, <1>3, <1>4, <1>5, <1>6, <1>7 DEF Feed

LEMMA OneLoad ==
  ASSUME Feed, LoadsStill, NEW d, loads' \subseteq loads \cup {d},
         d.gen <= st.gen, d.gen = st.gen => d.floor <= st.fence /\ (d.floor = st.fence => st.ch # 0),
         \A i \in Ids : VersionIs(i, d.rows[i]),
         \A i \in DOMAIN msgs : d.at = "read" /\ d.rows[i].seq # msgs[i].seq => d.rows[i].seq = 0 /\ ~(Shown(i) /\ Within(d, i))
  PROVE  Feed'
<1> USE DEF LoadsStill
<1>0. PrevOut' = PrevOut /\ Exact' = Exact
  BY StillNumbers DEF Sound, Exact, Seen
<1>1. \A l \in loads' : l \in loads \/ l = d
  OBVIOUS
<1>2. LoadsOK'
  BY <1>1 DEF Feed, LoadsOK, VersionIs
<1>3. ASSUME Exact', NEW l \in loads', NEW i \in DOMAIN msgs, l.at = "read", l.gen = st.gen, l.floor = st.fence,
             l.rows[i].seq # msgs[i].seq, l.rows[i].seq # 0 \/ (Shown(i) /\ Within(l, i))
      PROVE  Due(msgs[i].seq) \/ st.rows[i].seq = msgs[i].seq
  <2>1. l \in loads
    BY <1>1, <1>3
  <2> QED
    BY <1>0, <1>3, <2>1 DEF Feed, LoadsExact
<1>4. /\ \A n : Due(n)' <=> Due(n)
      /\ \A i : Shown(i)' <=> Shown(i)
      /\ \A l, i : Within(l, i)' <=> Within(l, i)
  BY <1>0 DEF Due, Shown, Within
<1>5. LoadsExact'
  BY <1>3, <1>4 DEF LoadsExact
<1> QED
  BY <1>2, <1>5, LoadsStillKeeps

LEMMA AskingKeepsFeed ==
  ASSUME Inv, Shape, Feed,
         \/ \E before \in {0} \cup Ids : AskHistory(before)
         \/ \E l \in loads : CheckReader(l) \/ ReadHistory(l)
  PROVE  Feed'
<1>1. LoadsStill
  BY DEF AskHistory, CheckReader, ReadHistory, LoadsStill, serverVars, historyVars
<1>2. /\ loads \subseteq Loads(now) /\ now \in Nat /\ st.fence \in Nat /\ st.gen \in Nat
      /\ LoadsOK /\ \A i \in DOMAIN msgs : i \in Ids /\ msgs[i].seq \in 1..now
  BY DEF Inv, DeviceOK, Shape, Numbers, Stored, Feed, Server
<1>3. ASSUME NEW before \in {0} \cup Ids, AskHistory(before) PROVE Feed'
  <2> DEFINE d == [before |-> before, floor |-> st.fence, gen |-> st.gen, first |-> st.cursor = 0,
                   at |-> "asked", rows |-> NoVersions]
  <2>1. loads' = loads \cup {d} /\ st.ch # 0
    BY <1>3 DEF AskHistory
  <2>2. d.gen = st.gen /\ d.floor = st.fence /\ d.at = "asked" /\ \A i \in Ids : d.rows[i].seq = 0
    BY DEF NoVersions, Version
  <2>3. \A i \in Ids : VersionIs(i, d.rows[i])
    BY <2>2 DEF VersionIs
  <2> HIDE DEF d
  <2> QED
    BY <1>1, <1>2, <2>1, <2>2, <2>3, OneLoad
<1>4. ASSUME NEW l \in loads, CheckReader(l) PROVE Feed'
  <2> DEFINE d == [l EXCEPT !.at = "member"]
  <2>1. d.gen = l.gen /\ d.floor = l.floor /\ d.rows = l.rows /\ d.at = "member"
    BY <1>2 DEF Loads
  <2>2. loads' \subseteq loads \cup {d}
    BY <1>4 DEF CheckReader
  <2> HIDE DEF d
  <2>3. \A i \in Ids : VersionIs(i, d.rows[i])
    BY <1>2, <2>1 DEF LoadsOK
  <2>4. d.gen <= st.gen /\ (d.gen = st.gen => d.floor <= st.fence /\ (d.floor = st.fence => st.ch # 0))
    BY <1>2, <2>1 DEF LoadsOK
  <2> QED
    BY <1>1, <2>1, <2>2, <2>3, <2>4, OneLoad
<1>5. ASSUME NEW l \in loads, ReadHistory(l) PROVE Feed'
  <2> DEFINE S == {i \in DOMAIN msgs : ~msgs[i].gone /\ (l.before = 0 \/ i < l.before)}
             page == Newest(S, Limit)
             rows == [i \in Ids |-> IF i \in page THEN msgs[i] ELSE Version]
             d == [l EXCEPT !.at = "read", !.rows = rows]
  <2>1. loads' \subseteq loads \cup {d}
    BY <1>5 DEF ReadHistory
  <2>2. d.gen = l.gen /\ d.floor = l.floor /\ d.rows = rows /\ d.before = l.before
    BY <1>2 DEF Loads
  <2>3. S \subseteq Int /\ IsFiniteSet(S) /\ S \subseteq DOMAIN msgs
    <3>1. DOMAIN msgs = 1..Len(msgs) /\ Len(msgs) \in Nat
      BY DEF Inv, ServerOK
    <3>2. IsFiniteSet(1..Len(msgs)) /\ 1..Len(msgs) \subseteq Int
      BY <3>1, FS_Interval
    <3>3. S \subseteq 1..Len(msgs)
      BY <3>1
    <3> HIDE DEF S
    <3> QED
      BY <3>1, <3>2, <3>3, FS_Subset
  <2> DEFINE Is(i) == i \in DOMAIN msgs /\ ~msgs[i].gone /\ (l.before = 0 \/ i < l.before)
  <2>4. \A i : i \in S <=> Is(i)
    OBVIOUS
  <2> HIDE DEF S, d
  <2>5. /\ page \subseteq S /\ IsFiniteSet(page)
        /\ Cardinality(page) < Limit => page = S
        /\ \A i \in S : page # {} /\ i >= Min(page) => i \in page
    BY <2>3, NewestIs, BoundsAssumption
  <2> HIDE DEF page
  <2>6. \A i \in Ids : rows[i] = IF i \in page THEN msgs[i] ELSE Version
    OBVIOUS
  <2>7. \A i \in page : i \in DOMAIN msgs /\ i \in Ids /\ msgs[i].seq # 0 /\ msgs[i].seq \in Int
    BY <1>2, <2>3, <2>5
  <2> HIDE DEF rows
  <2>8. Version.seq = 0
    BY DEF Version
  <2>9. \A i \in Ids : VersionIs(i, d.rows[i])
    BY <2>2, <2>6, <2>7, <2>8 DEF VersionIs
  <2>10. page = {k \in Ids : d.rows[k].seq # 0}
    BY <2>2, <2>6, <2>7, <2>8
  <2>11. ASSUME NEW i \in DOMAIN msgs, d.rows[i].seq # msgs[i].seq
         PROVE  d.rows[i].seq = 0 /\ ~(Shown(i) /\ Within(d, i))
    <3>1. i \in Ids /\ i \notin page
      BY <1>2, <2>2, <2>6, <2>11
    <3>2. d.rows[i].seq = 0
      BY <2>2, <2>6, <2>8, <3>1
    <3>3. ASSUME Shown(i), Within(d, i) PROVE FALSE
      <4>1. (d.before = 0 \/ i < d.before) /\ (Cardinality(page) < Limit \/ (page # {} /\ i >= Min(page)))
        BY <2>10, <3>3 DEF Within
      <4>2. i \in S
        BY <2>2, <2>4, <3>3, <4>1 DEF Shown
      <4> QED
        BY <2>5, <3>1, <4>1, <4>2
    <3> QED
      BY <3>2, <3>3
  <2>12. d.gen <= st.gen /\ (d.gen = st.gen => d.floor <= st.fence /\ (d.floor = st.fence => st.ch # 0))
    BY <1>2, <2>2 DEF LoadsOK
  <2> QED
    BY <1>1, <2>1, <2>9, <2>11, <2>12, OneLoad
<1> QED
  BY <1>3, <1>4, <1>5

-----------------------------------------------------------------------------
(* A history page lands.                                                   *)

CovType == [held : BOOLEAN, top : Nat, bottom : Nat, complete : BOOLEAN]

LEMMA OnlyCov ==
  ASSUME NEW n \in Nat, NEW s, IsStore(s, n), NEW c, NEW t, t = [s EXCEPT !.cov = c]
  PROVE  /\ t.cursor = s.cursor /\ t.gen = s.gen /\ t.ch = s.ch /\ t.my = s.my /\ t.th = s.th
         /\ t.rows = s.rows /\ t.fence = s.fence /\ t.active = s.active /\ t.cov = c
  BY DEF IsStore

LEMMA OfTwo ==
  ASSUME NEW a \in Nat, NEW b \in Nat
  PROVE  /\ Max({a, b}) \in Nat /\ Max({a, b}) >= a /\ Max({a, b}) >= b
         /\ Min({a, b}) \in {a, b} /\ Min({a, b}) \in Nat /\ Min({a, b}) <= a /\ Min({a, b}) <= b
<1> DEFINE S == {a, b}
<1>1. IsFiniteSet({a} \cup {b})
  BY FS_Singleton, FS_AddElement
<1>2. S = {a} \cup {b} /\ S \subseteq Int /\ S # {}
  OBVIOUS
<1>3. a \in S /\ b \in S
  OBVIOUS
<1>4. IsFiniteSet(S)
  BY <1>1, <1>2
<1> HIDE DEF S
<1>5. Max(S) \in S /\ Max(S) >= a /\ Max(S) >= b
  BY <1>2, <1>3, <1>4, Greatest
<1>6. Min(S) \in S /\ Min(S) <= a /\ Min(S) <= b
  BY <1>2, <1>3, <1>4, Least
<1> QED
  BY <1>5, <1>6 DEF S

\* The range after the newest page, and after the page below an id.
HeadRange(c, d, page) ==
  \/ d = c
  \/ /\ page = {} /\ c.top = 0 /\ d.held /\ d.complete /\ d.top = c.top /\ d.bottom = c.bottom
  \/ LET overlaps == c.top # 0 /\ c.top >= Min(page) /\ Max(page) >= c.bottom IN
     /\ page # {} /\ d.held /\ d.top = Max({c.top, Max(page)})
     /\ d.bottom = IF overlaps THEN Min({c.bottom, Min(page)}) ELSE Min(page)
     /\ d.complete <=> (Cardinality(page) < Limit \/ (overlaps /\ c.complete))
OlderRange(c, d, before, page) ==
  \/ d = c
  \/ /\ c.held /\ c.bottom = before /\ d.held /\ d.top = c.top /\ d.bottom = IF page = {} THEN c.bottom ELSE Min(page)
     /\ d.complete <=> (c.complete \/ Cardinality(page) < Limit)

LEMMA RecordsDo ==
  ASSUME NEW n \in Nat, NEW s, IsStore(s, n), s.cov \in CovType, NEW page, page \subseteq Nat, IsFiniteSet(page), NEW before
  PROVE  /\ \E d \in CovType : RecordHead(s, page) = [s EXCEPT !.cov = d] /\ HeadRange(s.cov, d, page)
         /\ \E d \in CovType : RecordOlder(s, before, page) = [s EXCEPT !.cov = d] /\ OlderRange(s.cov, d, before, page)
<1> DEFINE c == s.cov
<1>0. s = [s EXCEPT !.cov = c]
  BY DEF IsStore
<1>1. HeadRange(c, c, page) /\ OlderRange(c, c, before, page)
  BY DEF HeadRange, OlderRange
<1>2. c.held \in BOOLEAN /\ c.top \in Nat /\ c.bottom \in Nat /\ c.complete \in BOOLEAN
  BY DEF CovType
<1>3. page # {} => Min(page) \in Nat /\ Max(page) \in Nat
  <2>1. page \subseteq Int
    OBVIOUS
  <2> QED
    BY <2>1, Greatest, Least
<1>4. \E d \in CovType : RecordHead(s, page) = [s EXCEPT !.cov = d] /\ HeadRange(c, d, page)
  <2>1. CASE RecordHead(s, page) = s
    BY <1>0, <1>1, <2>1
  <2>2. CASE page = {} /\ c.top = 0
    <3> DEFINE d == [held |-> TRUE, top |-> c.top, bottom |-> c.bottom, complete |-> TRUE]
               e == [c EXCEPT !.held = TRUE, !.complete = TRUE]
    <3>1. RecordHead(s, page) = [s EXCEPT !.cov.held = TRUE, !.cov.complete = TRUE]
      BY <2>2 DEF RecordHead
    <3>2. [s EXCEPT !.cov.held = TRUE, !.cov.complete = TRUE] = [s EXCEPT !.cov = e]
      BY DEF IsStore, CovType
    <3>3. d \in CovType /\ e \in CovType
      BY <1>2 DEF CovType
    <3>4. d.held /\ d.complete /\ d.top = c.top /\ d.bottom = c.bottom /\ (d.held = e.held) /\ d.complete = e.complete
          /\ d.top = e.top /\ d.bottom = e.bottom
      BY DEF CovType
    <3> HIDE DEF d, e
    <3>5. d = e
      BY <3>3, <3>4 DEF CovType
    <3>6. HeadRange(c, d, page)
      BY <2>2, <3>4, Zenon DEF HeadRange
    <3> QED
      BY <3>1, <3>2, <3>3, <3>5, <3>6
  <2>3. CASE page # {} /\ ~(c.bottom # 0 /\ Max(page) < c.bottom)
    <3> DEFINE overlaps == c.top # 0 /\ c.top >= Min(page) /\ Max(page) >= c.bottom
               bottom == IF overlaps THEN Min({c.bottom, Min(page)}) ELSE Min(page)
               d == [held |-> TRUE, top |-> Max({c.top, Max(page)}), bottom |-> bottom,
                     complete |-> Cardinality(page) < Limit \/ (overlaps /\ c.complete)]
    <3>1. RecordHead(s, page) = [s EXCEPT !.cov = d]
      BY <2>3 DEF RecordHead
    <3>2. Max({c.top, Max(page)}) \in Nat /\ bottom \in Nat
      <4>1. Min(page) \in Nat /\ Max(page) \in Nat
        BY <1>3, <2>3
      <4>2. Max({c.top, Max(page)}) \in Nat /\ Min({c.bottom, Min(page)}) \in Nat
        BY <1>2, <4>1, OfTwo
      <4> QED
        BY <4>1, <4>2
    <3>3. d.held /\ d.top = Max({c.top, Max(page)}) /\ d.bottom = bottom
          /\ (d.complete <=> Cardinality(page) < Limit \/ (overlaps /\ c.complete))
      OBVIOUS
    <3>4. d \in CovType
      <4> HIDE DEF bottom, overlaps
      <4> QED
        BY <3>2 DEF CovType
    <3> HIDE DEF d
    <3>5. HeadRange(c, d, page)
      BY <2>3, <3>3, Zenon DEF HeadRange
    <3> QED
      BY <3>1, <3>4, <3>5
  <2> QED
    BY <2>1, <2>2, <2>3 DEF RecordHead
<1>5. \E d \in CovType : RecordOlder(s, before, page) = [s EXCEPT !.cov = d] /\ OlderRange(c, d, before, page)
  <2>1. CASE ~c.held \/ c.bottom # before
    <3>1. RecordOlder(s, before, page) = s
      BY <2>1 DEF RecordOlder
    <3> QED
      BY <1>0, <1>1, <3>1
  <2>2. CASE c.held /\ c.bottom = before
    <3> DEFINE bottom == IF page = {} THEN c.bottom ELSE Min(page)
               complete == c.complete \/ Cardinality(page) < Limit
               d == [held |-> TRUE, top |-> c.top, bottom |-> bottom, complete |-> complete]
               e == [c EXCEPT !.bottom = bottom, !.complete = complete]
    <3>1. RecordOlder(s, before, page) =
            [s EXCEPT !.cov.bottom = IF page = {} THEN @ ELSE Min(page),
                      !.cov.complete = @ \/ Cardinality(page) < Limit]
      BY <2>2 DEF RecordOlder
    <3>2. RecordOlder(s, before, page) = [s EXCEPT !.cov = e]
      BY <3>1 DEF IsStore, CovType
    <3>3. bottom \in Nat /\ complete \in BOOLEAN
      BY <1>2, <1>3
    <3>4. (c.held <=> TRUE) /\ (complete <=> (c.complete \/ Cardinality(page) < Limit)) /\ bottom = IF page = {} THEN c.bottom ELSE Min(page)
      BY <2>2
    <3> HIDE DEF bottom, complete
    <3>5. d \in CovType /\ e \in CovType
      BY <1>2, <3>3 DEF CovType
    <3>10. d.held = TRUE /\ c.held = TRUE
      BY <1>2, <2>2
    <3>6. d.held /\ d.top = c.top /\ d.bottom = bottom /\ d.complete = complete
      OBVIOUS
    <3>7. e.held = c.held /\ e.top = c.top /\ e.bottom = bottom /\ e.complete = complete
      BY DEF CovType
    <3> HIDE DEF d, e
    <3>8. d = e
      BY <3>5, <3>6, <3>7, <3>10 DEF CovType
    <3>9. OlderRange(c, d, before, page)
      BY <2>2, <3>4, <3>6, Zenon DEF OlderRange
    <3> QED
      BY <3>2, <3>5, <3>8, <3>9
  <2> QED
    BY <2>1, <2>2
<1> QED
  BY <1>4, <1>5

\* What the page lacks a page of /sync will bring, or is here.
LEMMA LandingKeepsFeed ==
  ASSUME Inv, Shape, Shape', Feed, NEW l \in loads, LandHistory(l)
  PROVE  Feed'
<1> DEFINE page == {i \in Ids : l.rows[i].seq # 0}
           b == [NoBatch EXCEPT !.rows = l.rows, !.history = TRUE, !.floor = l.floor]
           after == Apply(st, b)
           covers == st.fence = l.floor /\ st.ch # 0 /\ ~st.active
<1>1. /\ l.at = "read" /\ loads' = loads \ {l}
      /\ st' = IF st.gen # l.gen THEN st
               ELSE IF ~covers THEN after
               ELSE IF l.before = 0 THEN RecordHead(after, page) ELSE RecordOlder(after, l.before, page)
      /\ early' = (early \/ (l.first /\ st.gen = l.gen))
      /\ UNCHANGED <<now, msgs, mine, theirs, chan, tombs, sends, live, req, base, skipped, unseen>>
  BY DEF LandHistory, serverVars
<1>2. now \in Nat /\ IsStore(st, now) /\ l \in Loads(now)
  BY DEF Inv, DeviceOK, Shape, Numbers
<1>3. b \in Batches(now)
  BY <1>2, NothingStored DEF Batches, Loads
<1>4. b.my = 0 /\ b.removed = 0 /\ b.ch = 0 /\ b.th = 0 /\ b.left = 0 /\ b.rows = l.rows /\ b.history = TRUE
      /\ b.floor = l.floor /\ \A i \in Ids : b.tombstones[i] = 0
  BY DEF NoBatch
<1> HIDE DEF b
<1>5. IsStore(after, now)
  BY <1>2, <1>3, ApplyKeeps
<1>6. /\ st.fence \in 0..now /\ st.my \in 0..now /\ st.ch \in 0..now /\ st.th.seq \in 0..now /\ st.active \in BOOLEAN
      /\ \A k \in Ids : st.rows[k].seq \in 0..now /\ l.rows[k].seq \in 0..now
  BY DEF Shape, Stored, InFlight
<1>7. ~Lifts(st, b) /\ ~Wipes(st, b) /\ MyAfter(st, b) = st.my
  BY <1>4, <1>6 DEF Lifts, Wipes, MyAfter
<1>8. /\ after.cursor = st.cursor /\ after.gen = st.gen /\ after.fence = st.fence /\ after.my = st.my
      /\ after.active = st.active /\ after.cov = st.cov /\ after.ch = st.ch /\ after.th = st.th
  <2>1. KeptBy(st, b, after) /\ after.cursor = st.cursor /\ after.gen = st.gen
    BY <1>2, <1>3, <1>7, ApplyDoes
  <2>2. ~(b.ch > st.ch) /\ ~(b.th > st.th.seq) /\ ~(b.left > st.th.seq)
    BY <1>4, <1>6
  <2> QED
    BY <1>6, <1>7, <2>1, <2>2 DEF KeptBy
<1>9. \A i \in Ids :
        /\ after.rows[i].seq >= st.rows[i].seq
        /\ after.rows[i] = st.rows[i] \/ (/\ after.rows[i].seq = l.rows[i].seq /\ after.rows[i].gone = l.rows[i].gone
                                          /\ l.rows[i].seq # 0 /\ st.ch # 0 /\ l.floor = st.fence)
        /\ l.rows[i].seq # 0 /\ covers => after.rows[i].seq >= l.rows[i].seq
  <2> TAKE i \in Ids
  <2>1. after.rows[i] = RowAfter(RowNext(st.rows[i], b, after, i), b, after, i)
    BY <1>2, <1>3, <1>7, ApplyLands DEF RowBefore
  <2> DEFINE r == st.rows[i]
             x == after.rows[i]
  <2>2. r.seq \in Nat /\ b.rows[i].seq \in Nat /\ b.tombstones[i] = 0
    BY <1>4, <1>6
  <2> HIDE DEF after
  <2>3. /\ x.seq >= r.seq
        /\ x = r \/ (/\ x.seq = b.rows[i].seq /\ x.gone = b.rows[i].gone /\ b.rows[i].seq # 0
                     /\ MayLand(after, b.rows[i].seq, b.history) /\ (b.history => b.floor = after.fence))
        /\ b.rows[i].seq # 0 /\ (b.history => b.floor = after.fence) /\ MayLand(after, b.rows[i].seq, b.history)
             => x.seq >= b.rows[i].seq
    <3> HIDE DEF r, x
    <3> QED
      BY <2>1, <2>2, RowLands DEF r, x
  <2>4. MayLand(after, b.rows[i].seq, b.history) => st.ch # 0
    BY <1>8 DEF MayLand
  <2>5. covers => MayLand(after, b.rows[i].seq, b.history) /\ b.floor = after.fence
    BY <1>4, <1>8 DEF MayLand, Fenced
  <2> QED
    BY <1>4, <1>8, <2>3, <2>4, <2>5
<1> HIDE DEF after
<1>10. page \subseteq Nat /\ IsFiniteSet(page) /\ \A i \in page : i # 0
  <2>1. Ids \subseteq Nat /\ IsFiniteSet(Ids) /\ \A i \in Ids : i # 0
    BY FS_Interval, BoundsAssumption DEF Ids
  <2> QED
    BY <2>1, FS_Subset
<1>11. st.cov \in CovType /\ CovOK
  BY DEF Feed, CovOK, CovType
<1> HIDE DEF page
<1>12. PICK d \in CovType :
         /\ st' = IF st.gen # l.gen THEN st ELSE [after EXCEPT !.cov = d]
         /\ d = st.cov \/ (covers /\ (IF l.before = 0 THEN HeadRange(st.cov, d, page) ELSE OlderRange(st.cov, d, l.before, page)))
  <2>1. after = [after EXCEPT !.cov = st.cov]
    BY <1>5, <1>8 DEF IsStore
  <2>2. CASE st.gen # l.gen \/ ~covers
    BY <1>1, <1>11, <2>1, <2>2
  <2>3. CASE st.gen = l.gen /\ covers
    <3>1. /\ \E d \in CovType : RecordHead(after, page) = [after EXCEPT !.cov = d] /\ HeadRange(st.cov, d, page)
          /\ \E d \in CovType : RecordOlder(after, l.before, page) = [after EXCEPT !.cov = d]
                                 /\ OlderRange(st.cov, d, l.before, page)
      BY <1>2, <1>5, <1>8, <1>10, <1>11, RecordsDo
    <3> HIDE DEF covers
    <3> QED
      BY <1>1, <2>3, <3>1
  <2> QED
    BY <2>2, <2>3
<1>13. /\ st'.cursor = st.cursor /\ st'.gen = st.gen /\ st'.fence = st.fence /\ st'.my = st.my
       /\ st'.active = st.active /\ st'.ch = st.ch /\ st'.th = st.th
       /\ IF st.gen = l.gen THEN st'.rows = after.rows /\ st'.cov = d ELSE st'.rows = st.rows /\ st'.cov = st.cov
  <2>1. CASE st.gen # l.gen
    BY <1>12, <2>1
  <2>2. CASE st.gen = l.gen
    <3> DEFINE t == [after EXCEPT !.cov = d]
    <3>1. st' = t
      BY <1>12, <2>2
    <3>2. /\ t.cursor = after.cursor /\ t.gen = after.gen /\ t.ch = after.ch /\ t.my = after.my /\ t.th = after.th
          /\ t.rows = after.rows /\ t.fence = after.fence /\ t.active = after.active /\ t.cov = d
      BY <1>2, <1>5, OnlyCov
    <3> HIDE DEF t
    <3> QED
      BY <1>8, <2>2, <3>1, <3>2
  <2> QED
    BY <2>1, <2>2
<1>14. Stands
  BY <1>1, <1>13 DEF Stands
<1>15. Outs' = Outs /\ PrevOut' = PrevOut /\ (Exact' => Exact)
  BY <1>14, StandsNumbers
<1>16. SendsOK'
  BY <1>1, <1>15 DEF Feed, SendsOK
<1>17. \A i \in DOMAIN msgs : i \in Ids /\ msgs[i].seq \in 1..now
  BY DEF Shape, Server
<1>18. \A k \in Ids : VersionIs(k, st.rows[k]) /\ VersionIs(k, l.rows[k])
  BY DEF Feed, StoreOK, LoadsOK
<1>19. \A k \in Ids :
         /\ st'.rows[k].seq >= st.rows[k].seq /\ VersionIs(k, st'.rows[k])
         /\ st'.rows[k] = st.rows[k] \/ (st.ch # 0 /\ (Exact' => st'.rows[k].seq = msgs[k].seq \/ Due(msgs[k].seq)))
  <2> TAKE k \in Ids
  <2>1. CASE st'.rows[k] = st.rows[k]
    BY <1>6, <1>18, <2>1
  <2>2. CASE st'.rows[k] # st.rows[k]
    <3>1. /\ st.gen = l.gen /\ st'.rows[k].seq = l.rows[k].seq /\ st'.rows[k].gone = l.rows[k].gone
          /\ l.rows[k].seq # 0 /\ st.ch # 0 /\ l.floor = st.fence /\ st'.rows[k].seq >= st.rows[k].seq
      BY <1>9, <1>13, <2>2
    <3>2. VersionIs(k, st'.rows[k]) /\ k \in DOMAIN msgs /\ l.rows[k].seq <= msgs[k].seq
      BY <1>18, <3>1 DEF VersionIs
    <3>3. ASSUME Exact', l.rows[k].seq # msgs[k].seq PROVE Due(msgs[k].seq)
      <4>1. Due(msgs[k].seq) \/ st.rows[k].seq = msgs[k].seq
        BY <1>1, <1>15, <3>1, <3>2, <3>3 DEF Feed, LoadsExact
      <4>2. st.rows[k].seq # msgs[k].seq
        BY <1>6, <1>17, <3>1, <3>2, <3>3
      <4> QED
        BY <4>1, <4>2
    <3> QED
      BY <3>1, <3>2, <3>3
  <2> QED
    BY <2>1, <2>2
<1>20. CovOK' /\ RangeExact'
  <2>1. CASE st'.cov = st.cov
    BY <1>13, <1>14, <1>19, <2>1, SameRange
  <2>2. CASE st'.cov # st.cov
    <3>1. st.gen = l.gen /\ covers /\ st'.cov = d /\ st'.rows = after.rows
          /\ IF l.before = 0 THEN HeadRange(st.cov, d, page) ELSE OlderRange(st.cov, d, l.before, page)
      BY <1>12, <1>13, <2>2
    <3> DEFINE c == st.cov
    <3>2. c.held \in BOOLEAN /\ c.top \in Nat /\ c.bottom \in Nat /\ c.complete \in BOOLEAN
          /\ (c.held => c.complete \/ c.bottom # 0) /\ (c.top # 0 => c.bottom # 0 /\ c.held)
      BY <1>11 DEF CovOK, CovType
    <3>3. page # {} => Min(page) \in page /\ Min(page) \in Nat /\ Min(page) # 0 /\ Max(page) \in Nat
      <4>1. page \subseteq Int
        BY <1>10
      <4> QED
        BY <1>10, <4>1, Least, Greatest
    <3>4. page # {} => /\ Min({c.bottom, Min(page)}) \in {c.bottom, Min(page)}
                       /\ Min({c.bottom, Min(page)}) <= c.bottom /\ Min({c.bottom, Min(page)}) <= Min(page)
      BY <3>2, <3>3, OfTwo
    <3>5. d.held /\ d # c
      BY <2>2, <3>1 DEF HeadRange, OlderRange
    <3>6. CovOK'
      <4>1. (d.complete \/ d.bottom # 0) /\ (d.top # 0 => d.bottom # 0)
        <5>1. CASE l.before = 0
          <6>1. HeadRange(c, d, page)
            BY <3>1, <5>1
          <6> QED
            BY <3>2, <3>3, <3>4, <3>5, <6>1 DEF HeadRange
        <5>2. CASE l.before # 0
          <6>1. OlderRange(c, d, l.before, page)
            BY <3>1, <5>2
          <6> QED
            BY <3>2, <3>3, <3>5, <6>1 DEF OlderRange
        <5> QED
          BY <5>1, <5>2
      <4> QED
        BY <1>13, <3>1, <3>5, <4>1 DEF CovOK, CovType
    <3>7. ASSUME Exact', NEW i \in DOMAIN msgs, Shown(i), Within(l, i)
          PROVE  st'.rows[i].seq # 0 \/ Due(msgs[i].seq)
      <4>1. i \in Ids /\ msgs[i].seq \in 1..now
        BY <1>17
      <4>2. CASE l.rows[i].seq = msgs[i].seq
        BY <1>6, <1>9, <3>1, <4>1, <4>2
      <4>3. CASE l.rows[i].seq # msgs[i].seq
        <5>1. Due(msgs[i].seq) \/ st.rows[i].seq = msgs[i].seq
          BY <1>1, <1>15, <3>1, <3>7, <4>3 DEF Feed, LoadsExact
        <5> QED
          BY <1>6, <1>9, <3>1, <4>1, <5>1
      <4> QED
        BY <4>2, <4>3
    <3>8. ASSUME Exact', NEW i \in DOMAIN msgs, Shown(i), c.held, c.complete \/ i >= c.bottom
          PROVE  st'.rows[i].seq # 0 \/ Due(msgs[i].seq)
      <4>1. st.rows[i].seq # 0 \/ Due(msgs[i].seq)
        BY <1>15, <3>8 DEF Feed, RangeExact
      <4> QED
        BY <1>6, <1>17, <1>19, <4>1
    <3>9. ASSUME NEW i \in DOMAIN msgs, d.complete \/ i >= d.bottom
          PROVE  Within(l, i) \/ (c.held /\ (c.complete \/ i >= c.bottom))
      <4>1. i \in Nat /\ l.before \in Nat
        BY <1>2, <1>17, BoundsAssumption DEF Ids, Loads
      <4>2. Within(l, i) <=> (l.before = 0 \/ i < l.before) /\ (Cardinality(page) < Limit \/ (page # {} /\ i >= Min(page)))
        BY DEF Within, page
      <4>3. page = {} => Cardinality(page) < Limit
        BY FS_EmptySet, BoundsAssumption
      <4>4. CASE l.before = 0
        <5>1. HeadRange(c, d, page)
          BY <3>1, <4>4
        <5> QED
          BY <3>2, <3>3, <3>4, <3>5, <3>9, <4>1, <4>2, <4>3, <4>4, <5>1 DEF HeadRange
      <4>5. CASE l.before # 0
        <5>1. OlderRange(c, d, l.before, page)
          BY <3>1, <4>5
        <5> QED
          BY <3>2, <3>3, <3>5, <3>9, <4>1, <4>2, <4>3, <4>5, <5>1 DEF OlderRange
      <4> QED
        BY <4>4, <4>5
    <3>10. \A n : Due(n)' <=> Due(n)
      BY <1>1, <1>13, <1>15 DEF Due
    <3>11. RangeExact'
      <4> SUFFICES ASSUME Exact', NEW i \in DOMAIN msgs, d.complete \/ i >= d.bottom, Shown(i)
                   PROVE  st'.rows[i].seq # 0 \/ Due(msgs[i].seq)
        BY <1>1, <3>1, <3>10 DEF RangeExact, Shown
      <4> QED
        BY <3>7, <3>8, <3>9
    <3> QED
      BY <3>6, <3>11
  <2> QED
    BY <2>1, <2>2
<1>21. RowsMove
  BY <1>13, <1>14, <1>19, <1>20 DEF RowsMove
<1> QED
  BY <1>16, <1>21, RowsMoveKeeps, FeedIsAfter

-----------------------------------------------------------------------------
(* The request goes on.                                                    *)

Asked == Still /\ UNCHANGED <<sends, live>>
\* A statement while the user is out has gone past their removal.
Read == Asked /\ (~mine.in => ~Seen')

LEMMA StatementsRead ==
  ASSUME NEW n, Statement \/ ReadsBlindly(n)
  PROVE  Read /\ (Statement => unseen' = unseen) /\ (ReadsBlindly(n) => unseen' = (unseen \/ (~mine.in /\ n > LastOut)))
<1>1. /\ UNCHANGED <<now, msgs, mine, theirs, chan, tombs, sends, live, st, loads, base, early>>
      /\ skipped' = (skipped \/ ~mine.in) /\ (~unseen' => ~unseen)
  <2>1. Stays /\ skipped' = (skipped \/ ~mine.in)
    BY DEF Statement, ReadsBlindly
  <2>2. ~unseen' => ~unseen
    BY DEF Statement, ReadsBlindly
  <2> QED
    BY <2>1, <2>2 DEF Stays, serverVars
<1>2. (Seen' => Seen) /\ (~mine.in => ~Seen')
  BY <1>1 DEF Seen
<1> QED
  BY <1>1, <1>2 DEF Read, Asked, Still, Statement, ReadsBlindly

LEMMA AskedKeeps ==
  ASSUME Feed, Asked, PageParts'
  PROVE  Feed'
<1>1. Outs' = Outs
  BY StillNumbers DEF Asked, Still
<1>2. SendsOK'
  BY <1>1 DEF Feed, SendsOK, Asked, Still
<1>3. StoreParts' /\ LiveParts'
  BY StillStore, StillLive DEF Asked
<1> QED
  BY <1>2, <1>3, FeedIsAfter

LEMMA AskKeepsFeed ==
  ASSUME Shape, Feed, AskSync \/ ReadCounter
  PROVE  Feed'
<1>1. Asked
  BY DEF AskSync, ReadCounter, Stays, serverVars, Asked, Still, Seen
<1>2. now' = now /\ now >= 1
  BY DEF AskSync, ReadCounter, Stays, serverVars, Shape, Server
<1>3. \/ req' = [at |-> "asked", since |-> st.cursor] \/ req' = [at |-> "reset"]
      \/ req' = [at |-> "ids", since |-> req.since, current |-> now]
  BY DEF AskSync, ReadCounter
<1>4. req'.at \in {"asked", "reset"} \/ (req'.at = "ids" /\ req'.current = now)
  BY <1>3
<1>5. Paperless' /\ CountedOK'
  BY <1>2, <1>4 DEF Paperless, CountedOK, Reading
<1> QED
  BY <1>1, <1>5, NoPageAfter, AskedKeeps

LEMMA ReadIdsKeeps ==
  ASSUME Shape, Feed, req.current \in Nat, ReadIds
  PROVE  PageParts'
<1>1. Read /\ unseen' = unseen
  BY StatementsRead DEF ReadIds
<1> USE DEF Read, Asked, Still
<1>0. /\ Outs' = Outs /\ Lefts' = Lefts /\ LastOut' = LastOut /\ PrevOut' = PrevOut /\ LastLeft' = LastLeft
      /\ Sound' => Sound /\ mine.in
  BY <1>1, StillNumbers DEF Sound
<1>2. /\ req.at = "ids" /\ req'.at = (IF req.since = 0 THEN "state" ELSE "bound") /\ req'.since = req.since
      /\ req'.ours = mine.in /\ req'.current = req.current /\ req'.upper = req.current /\ req'.page = NoBatch
  BY DEF ReadIds
<1>3. /\ NoBatch.ch = 0 /\ NoBatch.my = 0 /\ NoBatch.th = 0 /\ NoBatch.removed = 0 /\ NoBatch.left = 0
      /\ ~NoBatch.history /\ \A i \in Ids : NoBatch.rows[i].seq = 0 /\ NoBatch.tombstones[i] = 0
  BY DEF NoBatch, NoVersions, Version
<1>4. CountedOK' /\ PageOK'
  <2>1. req.current >= 1 /\ chan \in Nat /\ mine.seq \in Nat /\ theirs.seq \in Nat /\ DOMAIN msgs \subseteq Ids
    BY <1>2 DEF Feed, CountedOK, Shape, Server
  <2>2. CountedOK'
    BY <1>2, <2>1 DEF CountedOK
  <2>3. req'.upper >= 1 /\ req'.upper \in Int
    BY <1>2, <2>1
  <2> QED
    BY <1>0, <1>1, <1>2, <1>3, <2>1, <2>2, <2>3 DEF PageOK, VersionIs
<1>5. PageTold' /\ PageOurs'
  BY <1>0, <1>1, <1>2, <1>3 DEF PageTold, PageOurs, Shape, Numbers, Server
<1>6. PageChannel' /\ PageJoin' /\ PageOut'
  BY <1>0, <1>1, <1>2, <1>3 DEF PageChannel, PageJoin, PageOut, AtChannels, AtMemberships, AtNewMembers, AtNewChannel, AtTombs
<1>7. PageRows' /\ PageTheirs'
  BY <1>0, <1>1, <1>2, <1>3 DEF PageRows, PageTheirs, AtMemberships, AtNewMembers, AtTombs
<1>8. PageStages' /\ FirstPage'
  BY <1>0, <1>1, <1>2, <1>3 DEF PageStages, FirstPage, Reading
<1> QED
  BY <1>4, <1>5, <1>6, <1>7, <1>8 DEF PageParts

LEMMA ReadStateKeeps ==
  ASSUME Shape, Feed, req \in Underway(now), ReadState
  PROVE  PageParts'
<1>1. Read /\ (~unseen' => ~unseen) /\ (~unseen' /\ req.ours /\ ~mine.in => ~(chan > LastOut))
  BY StatementsRead DEF ReadState, Read, Asked, Still
<1> USE DEF Read, Asked, Still
<1>0. /\ Outs' = Outs /\ Lefts' = Lefts /\ LastOut' = LastOut /\ PrevOut' = PrevOut /\ LastLeft' = LastLeft
      /\ Sound' => Sound /\ mine.in
  BY <1>1, StillNumbers DEF Sound
<1>2. /\ req.at = "state" /\ req.at \in Reading /\ req.since = 0 /\ req.page = NoBatch /\ st.cursor = 0
  BY DEF ReadState, Feed, PageStages, Shape, Paged, Reading
<1>3. /\ NoBatch.ch = 0 /\ NoBatch.my = 0 /\ NoBatch.th = 0 /\ NoBatch.removed = 0 /\ NoBatch.left = 0
      /\ ~NoBatch.history /\ \A i \in Ids : NoBatch.rows[i].seq = 0 /\ NoBatch.tombstones[i] = 0
  BY DEF NoBatch, NoVersions, Version
<1>4. /\ req'.since = req.since /\ req'.ours = req.ours /\ req'.upper = req.upper /\ req'.current = req.current
      /\ req'.page.my = 0 /\ req'.page.th = 0 /\ req'.page.removed = 0 /\ req'.page.left = 0
      /\ ~req'.page.history /\ \A i \in Ids : req'.page.rows[i].seq = 0 /\ req'.page.tombstones[i] = 0
      /\ IF req.ours THEN req'.at = "members" /\ req'.page.ch = chan ELSE req'.at = "page" /\ req'.page.ch = 0
  <2>1. CASE req.ours
    <3>1. req' = [req EXCEPT !.at = "members", !.page.ch = chan]
      BY <2>1 DEF ReadState
    <3> QED
      BY <1>2, <1>3, <2>1, <3>1 DEF Underway, NoBatch
  <2>2. CASE ~req.ours
    <3>1. req' = [req EXCEPT !.at = "page"]
      BY <2>2 DEF ReadState
    <3> QED
      BY <1>2, <1>3, <2>2, <3>1 DEF Underway
  <2> QED
    BY <2>1, <2>2
<1>5. CountedOK' /\ PageOK'
  <2>1. /\ req.current >= 1 /\ req.upper >= 1 /\ req.upper \in Nat /\ chan \in Nat /\ mine.seq \in Nat /\ theirs.seq \in Nat
        /\ DOMAIN msgs \subseteq Ids
    BY <1>2 DEF Feed, CountedOK, PageOK, Shape, Server, Paged
  <2>2. CountedOK'
    BY <1>4, <2>1 DEF CountedOK
  <2>3. req'.page.ch <= chan /\ req'.upper = req.upper
    BY <1>4, <2>1
  <2> QED
    BY <1>0, <1>1, <1>4, <2>1, <2>2, <2>3 DEF PageOK, VersionIs
<1>6. PageTold' /\ PageOurs'
  BY <1>0, <1>1, <1>2, <1>4 DEF Feed, PageTold, PageOurs, Shape, Numbers, Server, Paged
<1>7. PageChannel' /\ PageJoin' /\ PageOut'
  <2>1. (req'.at = "members" /\ req'.page.ch = chan /\ req.ours) \/ (req'.at = "page" /\ req'.page.ch = 0 /\ ~req.ours)
    BY <1>4
  <2>2. /\ chan \in Nat /\ mine.seq \in 1..now /\ mine.joined \in 1..now /\ LastOut \in Int /\ now \in Nat /\ req.upper \in Int
        /\ mine.joined <= mine.seq /\ mine.joined <= chan /\ (~mine.in => LastOut > mine.seq)
    BY <1>2 DEF Feed, StaysOK, Shape, Server, Numbers, Paged
  <2>3. ~req.ours /\ Seen => mine.joined > req.upper
    BY <1>2 DEF Feed, PageOurs
  <2>4. ~mine.in => LastOut > st.cursor
    BY <1>2, <2>2
  <2>5. PageOut'
    BY <1>0, <1>1, <1>2, <1>4, <2>1, <2>2, <2>4 DEF PageOut, AtTombs
  <2>6. PageJoin'
    BY <1>0, <1>1, <1>2, <1>4, <2>1, <2>2, <2>3 DEF Seen, PageJoin, AtNewMembers, AtNewChannel
  <2>7. PageChannel'
    <3>1. CASE req.ours
      BY <1>0, <1>1, <1>2, <1>4, <2>1, <2>2, <3>1 DEF PageChannel, AtMemberships
    <3>2. CASE ~req.ours
      BY <1>0, <1>1, <1>2, <1>4, <2>1, <2>2, <2>3, <3>2 DEF Seen, PageChannel
    <3> QED
      BY <3>1, <3>2
  <2> QED
    BY <2>5, <2>6, <2>7
<1>8. PageRows' /\ PageTheirs'
  BY <1>0, <1>1, <1>2, <1>4 DEF PageRows, PageTheirs, AtMemberships, AtNewMembers, AtTombs
<1>9. PageStages' /\ FirstPage'
  BY <1>0, <1>1, <1>2, <1>4 DEF Feed, PageStages, FirstPage, Reading, Shape, Server
<1> QED
  BY <1>5, <1>6, <1>7, <1>8, <1>9 DEF PageParts

\* What a statement leaves of the request, and what that gives.
Onward ==
  /\ Read /\ req.at \in Reading /\ req'.at \in Reading
  /\ req'.since = req.since /\ req'.ours = req.ours /\ req'.current = req.current

LEMMA OnwardHas ==
  ASSUME Shape, Feed, Onward
  PROVE  /\ UNCHANGED <<now, msgs, mine, theirs, chan, tombs, st>>
         /\ Outs' = Outs /\ Lefts' = Lefts /\ LastOut' = LastOut /\ PrevOut' = PrevOut /\ LastLeft' = LastLeft
         /\ (Sound' => Sound /\ mine.in /\ Seen) /\ (Seen' => Seen /\ mine.in) /\ (~unseen' => ~unseen)
         /\ CountedOK' /\ DOMAIN msgs \subseteq Ids
         /\ chan \in Int /\ mine.seq \in Int /\ mine.joined \in Int /\ theirs.seq \in Int /\ LastOut \in Int /\ PrevOut \in Int
         /\ LastLeft \in Int /\ st.cursor \in Int /\ st.cursor >= 0 /\ req.upper \in Int /\ req.since = st.cursor
         /\ chan >= 1 /\ mine.seq >= 1 /\ theirs.seq >= 1 /\ mine.joined >= 1 /\ req.upper >= 1 /\ req.upper >= st.cursor
         /\ mine.joined <= mine.seq /\ mine.joined <= chan /\ (~mine.in => LastOut > mine.seq) /\ (mine.in => LastOut < mine.joined)
         /\ (\A n \in Outs : n \in Int /\ n <= LastOut) /\ LastOut >= 0 /\ PrevOut <= LastOut
<1>1. Still /\ Read
  BY DEF Onward, Read, Asked
<1>2. UNCHANGED <<now, msgs, mine, theirs, chan, tombs, st>> /\ (Seen' => Seen /\ mine.in) /\ (~unseen' => ~unseen)
  BY <1>1 DEF Still, Read
<1>3. Outs' = Outs /\ Lefts' = Lefts /\ LastOut' = LastOut /\ PrevOut' = PrevOut /\ LastLeft' = LastLeft
  BY <1>2, StillNumbers
<1>4. Sound' => Sound /\ mine.in /\ Seen
  BY <1>2 DEF Sound
<1>5. CountedOK'
  BY DEF Onward, Feed, CountedOK
<1>6. /\ DOMAIN msgs \subseteq Ids /\ now \in Nat
      /\ chan \in 1..now /\ mine.seq \in 1..now /\ mine.joined \in 1..now /\ theirs.seq \in 1..now
  BY DEF Shape, Server
<1>7. /\ LastOut \in 0..now /\ PrevOut \in {0} \cup Outs /\ PrevOut \in 0..now /\ LastLeft \in 0..now /\ Outs \subseteq 1..now
      /\ \A n \in Outs : n <= LastOut
  BY DEF Shape, Numbers
<1>8. st.cursor \in 0..now /\ req.upper \in 0..now /\ req.since = st.cursor /\ req.since <= req.upper /\ req.upper >= 1
  BY DEF Shape, Stored, Paged, Onward, Feed, PageOK
<1>9. mine.joined <= mine.seq /\ mine.joined <= chan /\ (~mine.in => LastOut > mine.seq) /\ (mine.in => LastOut < mine.joined)
  BY DEF Feed, StaysOK
<1> QED
  BY <1>2, <1>3, <1>4, <1>5, <1>6, <1>7, <1>8, <1>9

LEMMA OnwardOurs ==
  ASSUME Shape, Feed, Onward, req'.upper \in Int, req'.upper <= req.upper
  PROVE  PageOurs'
<1>1. PageOurs /\ req.at \in Reading
  BY DEF Feed, Onward
<1>2. req'.since = req.since /\ req'.ours = req.ours
  BY DEF Onward
<1> QED
  BY <1>1, <1>2, OnwardHas DEF PageOurs

LEMMA ReadStateMembersKeeps ==
  ASSUME Shape, Feed, req \in Underway(now), ReadStateMembers
  PROVE  PageParts'
<1> DEFINE my == IF mine.in THEN mine.seq ELSE 0
           th == IF theirs.in THEN theirs.seq ELSE 0
<1>1. Read /\ (~unseen' /\ ~mine.in => ~(theirs.seq > LastOut))
  BY StatementsRead DEF ReadStateMembers
<1>2. req.at = "members" /\ req' = [req EXCEPT !.at = "page", !.page.my = my, !.page.th = th]
  BY DEF ReadStateMembers
<1>3. /\ req'.at = "page" /\ req'.since = req.since /\ req'.ours = req.ours /\ req'.upper = req.upper
      /\ req'.current = req.current /\ req'.page = [req.page EXCEPT !.my = my, !.th = th]
  BY <1>2 DEF Underway
<1>4. /\ req'.page.my = my /\ req'.page.th = th
      /\ req'.page.ch = req.page.ch /\ req'.page.removed = req.page.removed /\ req'.page.left = req.page.left
      /\ req'.page.history = req.page.history /\ req'.page.rows = req.page.rows
      /\ req'.page.tombstones = req.page.tombstones
  BY <1>3 DEF Underway, Batches
<1> HIDE DEF my, th
<1>5. (my = IF mine.in THEN mine.seq ELSE 0) /\ (th = IF theirs.in THEN theirs.seq ELSE 0)
  BY DEF my, th
<1>6. Onward
  BY <1>1, <1>2, <1>3 DEF Onward, Reading
<1>7. PageOurs' /\ CountedOK'
  BY <1>3, <1>6, OnwardOurs, OnwardHas
<1>8. /\ req.since = 0 /\ req.page.my = 0 /\ req.page.th = 0 /\ req.page.ch # 0 /\ req.ours
      /\ req.page.left = 0 /\ req.page.removed = 0 /\ \A i \in Ids : req.page.rows[i].seq = 0
  BY <1>2 DEF Feed, PageStages, FirstPage
<1>9. PageOK'
  BY <1>3, <1>4, <1>5, <1>6, <1>8, OnwardHas DEF Onward, Feed, PageOK, VersionIs
<1>10. PageTold'
  BY <1>1, <1>3, <1>4, <1>5, <1>6, <1>8, OnwardHas DEF Onward, Feed, PageTold
<1>11. PageChannel'
  BY <1>2, <1>3, <1>4, <1>5, <1>6, OnwardHas DEF Feed, PageChannel, AtChannels
<1>12. PageJoin'
  BY <1>2, <1>3, <1>4, <1>5, <1>6, <1>8, OnwardHas DEF Onward, Feed, PageJoin
<1>13. PageOut'
  BY <1>2, <1>3, <1>4, <1>5, <1>6, <1>8, OnwardHas DEF Onward, Feed, PageOut
<1>14. PageRows' /\ PageTheirs'
  BY <1>3, <1>8 DEF PageRows, PageTheirs
<1>15. PageStages'
  BY <1>3, <1>8 DEF PageStages
<1>16. FirstPage'
  BY <1>3, <1>4, <1>5, <1>6, <1>8, OnwardHas DEF FirstPage
<1> QED
  BY <1>7, <1>9, <1>10, <1>11, <1>12, <1>13, <1>14, <1>15, <1>16 DEF PageParts

LEMMA ReadBoundKeeps ==
  ASSUME Shape, Feed, ServerOK, RequestOK, req \in Underway(now), ReadBound
  PROVE  PageParts'
<1>1. Read
  BY StatementsRead DEF ReadBound
<1>2. req.at = "bound" /\ req'.at = "channels" /\ req'.ours = req.ours /\ req'.page = req.page
  BY DEF ReadBound, Underway
<1>3. req' \in Underway(now) /\ req'.since = req.since /\ req'.current = req.current
        /\ IF req'.more THEN req.since < req'.upper /\ req'.upper <= req.current ELSE req'.upper = req.current
  BY BoundIsDue
<1>4. Onward
  BY <1>1, <1>2, <1>3 DEF Onward, Reading
<1>5. req.upper = req.current /\ req.since # 0 /\ req.page = NoBatch
  BY <1>2 DEF Feed, PageStages, Reading
<1>6. req'.upper \in Int /\ req'.upper <= req.upper /\ req'.upper >= 1
  <2>1. req'.upper \in Int /\ req.current \in Int /\ req.since \in Nat
    BY <1>3 DEF Underway
  <2>2. req.upper >= 1
    BY <1>4, OnwardHas
  <2> QED
    BY <1>3, <1>5, <2>1, <2>2
<1>7. PageOurs' /\ CountedOK'
  BY <1>4, <1>6, OnwardOurs, OnwardHas
<1>8. /\ req'.page.ch = 0 /\ req'.page.my = 0 /\ req'.page.th = 0 /\ req'.page.removed = 0 /\ req'.page.left = 0
      /\ ~req'.page.history /\ \A i \in Ids : req'.page.rows[i].seq = 0 /\ req'.page.tombstones[i] = 0
  BY <1>2, <1>5 DEF NoBatch, NoVersions, Version
<1>9. PageOK'
  BY <1>4, <1>6, <1>8, OnwardHas DEF PageOK, VersionIs
<1>10. PageTold'
  BY <1>4, <1>8, OnwardHas DEF PageTold
<1>11. PageChannel' /\ PageJoin' /\ PageOut'
  BY <1>2, <1>8 DEF PageChannel, PageJoin, PageOut, AtChannels, AtMemberships, AtNewMembers, AtNewChannel, AtTombs
<1>12. PageRows' /\ PageTheirs'
  BY <1>2, <1>8 DEF PageRows, PageTheirs, AtMemberships, AtNewMembers, AtTombs
<1>13. PageStages' /\ FirstPage'
  BY <1>2, <1>3, <1>5 DEF PageStages, FirstPage
<1> QED
  BY <1>7, <1>9, <1>10, <1>11, <1>12, <1>13 DEF PageParts

LEMMA ReadChannelsKeeps ==
  ASSUME Shape, Feed, req \in Underway(now), ReadChannels
  PROVE  PageParts'
<1> DEFINE ch == IF mine.in /\ InWindow(chan) THEN chan ELSE 0
<1>1. Read
  BY StatementsRead DEF ReadChannels
<1>2. req.at = "channels" /\ req' = [req EXCEPT !.at = "memberships", !.page.ch = ch]
  BY DEF ReadChannels
<1>3. /\ req'.at = "memberships" /\ req'.since = req.since /\ req'.ours = req.ours /\ req'.upper = req.upper
      /\ req'.current = req.current /\ req'.page = [req.page EXCEPT !.ch = ch]
  BY <1>2 DEF Underway
<1>4. Onward
  BY <1>1, <1>2, <1>3 DEF Onward, Reading
<1>5. req.since # 0 /\ req.page = NoBatch
  BY <1>2 DEF Feed, PageStages, Reading
<1>6. /\ ch = IF mine.in /\ st.cursor < chan /\ chan <= req.upper THEN chan ELSE 0
      /\ req'.page.ch = ch /\ req'.page.my = 0 /\ req'.page.th = 0 /\ req'.page.removed = 0 /\ req'.page.left = 0
      /\ ~req'.page.history /\ \A i \in Ids : req'.page.rows[i].seq = 0 /\ req'.page.tombstones[i] = 0
  <2>1. req.since = st.cursor
    BY <1>4, OnwardHas
  <2>2. ch = IF mine.in /\ st.cursor < chan /\ chan <= req.upper THEN chan ELSE 0
    BY <2>1 DEF InWindow
  <2> HIDE DEF ch
  <2> QED
    BY <1>3, <1>5, <2>2 DEF NoBatch, NoVersions, Version
<1> HIDE DEF ch
<1>7. PageOurs' /\ CountedOK'
  BY <1>3, <1>4, OnwardOurs, OnwardHas
<1>9. PageOK'
  BY <1>3, <1>4, <1>6, OnwardHas DEF Onward, Feed, PageOK, VersionIs
<1>10. PageTold'
  BY <1>3, <1>4, <1>6, OnwardHas DEF Onward, Feed, PageTold, Told
<1>11. PageChannel'
  BY <1>2, <1>3, <1>4, <1>6, OnwardHas DEF Feed, PageChannel, AtChannels, AtMemberships
<1>12. PageJoin'
  BY <1>3, <1>4, <1>6, OnwardHas DEF Onward, Feed, PageJoin, AtNewMembers, AtNewChannel
<1>13. PageOut'
  BY <1>3, <1>4, <1>6, OnwardHas DEF Onward, Feed, PageOut, AtTombs
<1>14. PageRows'
  BY <1>3 DEF PageRows
<1>15. PageTheirs'
  BY <1>3 DEF PageTheirs, AtMemberships, AtNewMembers, AtTombs
<1>16. PageStages' /\ FirstPage'
  BY <1>3, <1>5 DEF PageStages, FirstPage
<1> QED
  BY <1>7, <1>9, <1>10, <1>11, <1>12, <1>13, <1>14, <1>15, <1>16 DEF PageParts

LEMMA ReadMembershipsKeeps ==
  ASSUME Shape, Feed, req \in Underway(now), ReadMemberships
  PROVE  PageParts'
<1> DEFINE my == IF mine.in /\ InWindow(mine.seq) THEN mine.seq ELSE 0
           th == IF mine.in /\ theirs.in /\ InWindow(theirs.seq) THEN theirs.seq ELSE 0
<1>1. Read
  BY StatementsRead DEF ReadMemberships
<1>2. req.at = "memberships" /\ req' = [req EXCEPT !.at = "new", !.page.my = my, !.page.th = th]
  BY DEF ReadMemberships
<1>3. /\ req'.at = "new" /\ req'.since = req.since /\ req'.ours = req.ours /\ req'.upper = req.upper
      /\ req'.current = req.current /\ req'.page = [req.page EXCEPT !.my = my, !.th = th]
  BY <1>2 DEF Underway
<1>4. Onward
  BY <1>1, <1>2, <1>3 DEF Onward, Reading
<1>5. req.since # 0
  BY <1>2 DEF Feed, PageStages, Reading
<1>6. /\ my = IF mine.in /\ st.cursor < mine.seq /\ mine.seq <= req.upper THEN mine.seq ELSE 0
      /\ th = IF mine.in /\ theirs.in /\ st.cursor < theirs.seq /\ theirs.seq <= req.upper THEN theirs.seq ELSE 0
  <2>1. req.since = st.cursor
    BY <1>4, OnwardHas
  <2> QED
    BY <2>1 DEF InWindow
<1>8. /\ req'.page.my = my /\ req'.page.th = th
      /\ req'.page.ch = req.page.ch /\ req'.page.removed = req.page.removed /\ req'.page.left = req.page.left
      /\ req'.page.history = req.page.history /\ req'.page.rows = req.page.rows
      /\ req'.page.tombstones = req.page.tombstones
  BY <1>3 DEF Underway, Batches
<1> HIDE DEF my, th
<1>7. PageOurs' /\ CountedOK'
  BY <1>3, <1>4, OnwardOurs, OnwardHas
<1>9. PageOK'
  BY <1>3, <1>4, <1>6, <1>8, OnwardHas DEF Onward, Feed, PageOK, VersionIs
<1>10. PageTold'
  BY <1>3, <1>4, <1>6, <1>8, OnwardHas DEF Onward, Feed, PageTold, Told
<1>11. PageChannel'
  BY <1>2, <1>3, <1>4, <1>6, <1>8, OnwardHas DEF Feed, PageChannel, AtChannels, AtMemberships
<1>12. PageJoin'
  BY <1>3, <1>4, <1>6, <1>8, OnwardHas DEF Onward, Feed, PageJoin, AtNewMembers, AtNewChannel
<1>13. PageOut'
  BY <1>3, <1>4, <1>6, <1>8, OnwardHas DEF Onward, Feed, PageOut, AtTombs
<1>14. PageRows'
  BY <1>3 DEF PageRows
<1>15. PageTheirs'
  BY <1>3, <1>4, <1>6, <1>8, OnwardHas DEF Onward, Feed, PageTheirs, AtMemberships, AtNewMembers, AtTombs
<1>16. PageStages' /\ FirstPage'
  BY <1>3, <1>5 DEF PageStages, FirstPage
<1> QED
  BY <1>7, <1>9, <1>10, <1>11, <1>12, <1>13, <1>14, <1>15, <1>16 DEF PageParts

LEMMA ReadNewKeeps ==
  ASSUME Shape, Feed, req \in Underway(now), ReadNew
  PROVE  PageParts'
<1>1. Read
  BY StatementsRead DEF ReadNew
<1>2. req.at = "new" /\ req' = [req EXCEPT !.at = IF mine.in /\ InWindow(mine.joined) THEN "newMembers" ELSE "tombs"]
  BY DEF ReadNew
<1>3. /\ req'.at = (IF mine.in /\ InWindow(mine.joined) THEN "newMembers" ELSE "tombs")
      /\ req'.since = req.since /\ req'.ours = req.ours /\ req'.upper = req.upper
      /\ req'.current = req.current /\ req'.page = req.page
  BY <1>2 DEF Underway
<1>4. Onward
  BY <1>1, <1>2, <1>3 DEF Onward, Reading
<1>5. req.since # 0
  BY <1>2 DEF Feed, PageStages, Reading
<1>6. req'.at = IF mine.in /\ st.cursor < mine.joined /\ mine.joined <= req.upper THEN "newMembers" ELSE "tombs"
  <2>1. req.since = st.cursor
    BY <1>4, OnwardHas
  <2> QED
    BY <1>3, <2>1 DEF InWindow
<1>7. PageOurs' /\ CountedOK'
  BY <1>3, <1>4, OnwardOurs, OnwardHas
<1>9. PageOK'
  BY <1>3, <1>4, OnwardHas DEF Onward, Feed, PageOK, VersionIs
<1>10. PageTold'
  BY <1>3, <1>4, OnwardHas DEF Onward, Feed, PageTold, Told
<1>11. PageChannel'
  BY <1>2, <1>3, <1>4, <1>6, OnwardHas DEF Feed, PageChannel, AtChannels, AtMemberships
<1>12. PageJoin'
  BY <1>3, <1>4, <1>6, OnwardHas DEF Onward, Feed, PageJoin, AtNewMembers, AtNewChannel
<1>13. PageOut'
  BY <1>3, <1>4, <1>6, OnwardHas DEF Onward, Feed, PageOut, AtTombs
<1>14. PageRows'
  BY <1>6 DEF PageRows
<1>15. PageTheirs'
  <2>1. req.page.my \in Int /\ req.page.my <= req.upper
    BY <1>2, <1>4 DEF Feed, PageTheirs, Shape, Paged, Onward
  <2> QED
    BY <1>2, <1>3, <1>4, <1>6, <2>1, OnwardHas DEF Onward, Feed, PageTheirs, AtMemberships, AtNewMembers, AtTombs
<1>16. PageStages' /\ FirstPage'
  BY <1>3, <1>5, <1>6 DEF PageStages, FirstPage
<1> QED
  BY <1>7, <1>9, <1>10, <1>11, <1>12, <1>13, <1>14, <1>15, <1>16 DEF PageParts

LEMMA ReadNewMembersKeeps ==
  ASSUME Shape, Feed, req \in Underway(now), ReadNewMembers
  PROVE  PageParts'
<1> DEFINE my == IF req.page.my = 0 /\ mine.in THEN mine.seq ELSE req.page.my
           th == IF req.page.th = 0 /\ theirs.in THEN theirs.seq ELSE req.page.th
<1>1. Read /\ (~unseen' /\ ~mine.in => ~(theirs.seq > LastOut))
  BY StatementsRead DEF ReadNewMembers
<1>2. req.at = "newMembers" /\ req' = [req EXCEPT !.at = "newChannel", !.page.my = my, !.page.th = th]
  BY DEF ReadNewMembers, Underway, Batches
<1>3. /\ req'.at = "newChannel" /\ req'.since = req.since /\ req'.ours = req.ours /\ req'.upper = req.upper
      /\ req'.current = req.current /\ req'.page = [req.page EXCEPT !.my = my, !.th = th]
  BY <1>2 DEF Underway
<1>4. Onward
  BY <1>1, <1>2, <1>3 DEF Onward, Reading
<1>5. req.since # 0
  BY <1>2 DEF Feed, PageStages, Reading
<1>6. /\ my = IF req.page.my = 0 /\ mine.in THEN mine.seq ELSE req.page.my
      /\ th = IF req.page.th = 0 /\ theirs.in THEN theirs.seq ELSE req.page.th
  OBVIOUS
<1>8. /\ req'.page.my = my /\ req'.page.th = th
      /\ req'.page.ch = req.page.ch /\ req'.page.removed = req.page.removed /\ req'.page.left = req.page.left
      /\ req'.page.history = req.page.history /\ req'.page.rows = req.page.rows
      /\ req'.page.tombstones = req.page.tombstones
  BY <1>3 DEF Underway, Batches
<1> HIDE DEF my, th
<1>7. PageOurs' /\ CountedOK'
  BY <1>3, <1>4, OnwardOurs, OnwardHas
<1>9. PageOK'
  BY <1>3, <1>4, <1>6, <1>8, OnwardHas DEF Onward, Feed, PageOK, VersionIs
<1>10. PageTold'
  BY <1>1, <1>3, <1>4, <1>6, <1>8, OnwardHas DEF Onward, Feed, PageTold, Told
<1>11. PageChannel'
  BY <1>2, <1>3, <1>4, <1>6, <1>8, OnwardHas DEF Feed, PageChannel, AtChannels, AtMemberships
<1>12. PageJoin'
  BY <1>2, <1>3, <1>4, <1>6, <1>8, OnwardHas DEF Onward, Feed, PageJoin, AtNewMembers, AtNewChannel
<1>13. PageOut'
  BY <1>2, <1>3, <1>4, <1>6, <1>8, OnwardHas DEF Onward, Feed, PageOut, AtTombs
<1>14. PageRows'
  BY <1>3 DEF PageRows
<1>15. PageTheirs'
  BY <1>2, <1>3, <1>4, <1>6, <1>8, OnwardHas DEF Onward, Feed, PageOK, PageTheirs, AtMemberships, AtNewMembers, AtTombs
<1>16. PageStages' /\ FirstPage'
  BY <1>3, <1>5 DEF PageStages, FirstPage
<1> QED
  BY <1>7, <1>9, <1>10, <1>11, <1>12, <1>13, <1>14, <1>15, <1>16 DEF PageParts

LEMMA ReadNewChannelKeeps ==
  ASSUME Shape, Feed, req \in Underway(now), ReadNewChannel
  PROVE  PageParts'
<1> DEFINE ch == IF req.page.ch = 0 THEN chan ELSE req.page.ch
<1>1. Read /\ (~unseen' /\ ~mine.in => ~(chan > LastOut))
  BY StatementsRead DEF ReadNewChannel
<1>2. req.at = "newChannel" /\ req' = [req EXCEPT !.at = "tombs", !.page.ch = ch]
  BY DEF ReadNewChannel, Underway, Batches
<1>3. /\ req'.at = "tombs" /\ req'.since = req.since /\ req'.ours = req.ours /\ req'.upper = req.upper
      /\ req'.current = req.current /\ req'.page = [req.page EXCEPT !.ch = ch]
  BY <1>2 DEF Underway
<1>4. Onward
  BY <1>1, <1>2, <1>3 DEF Onward, Reading
<1>5. req.since # 0
  BY <1>2 DEF Feed, PageStages, Reading
<1>6. ch = IF req.page.ch = 0 THEN chan ELSE req.page.ch
  OBVIOUS
<1>8. /\ req'.page.ch = ch
      /\ req'.page.my = req.page.my /\ req'.page.th = req.page.th
      /\ req'.page.removed = req.page.removed /\ req'.page.left = req.page.left
      /\ req'.page.history = req.page.history /\ req'.page.rows = req.page.rows
      /\ req'.page.tombstones = req.page.tombstones
  BY <1>3 DEF Underway, Batches
<1> HIDE DEF ch
<1>7. PageOurs' /\ CountedOK'
  BY <1>3, <1>4, OnwardOurs, OnwardHas
<1>9. PageOK'
  BY <1>3, <1>4, <1>6, <1>8, OnwardHas DEF Onward, Feed, PageOK, VersionIs
<1>10. PageTold'
  BY <1>1, <1>3, <1>4, <1>6, <1>8, OnwardHas DEF Onward, Feed, PageTold, Told
<1>11. PageChannel'
  BY <1>2, <1>3, <1>4, <1>6, <1>8, OnwardHas DEF Feed, PageChannel, AtChannels, AtMemberships
<1>12. PageJoin'
  BY <1>2, <1>3, <1>4, <1>6, <1>8, OnwardHas DEF Onward, Feed, PageJoin, AtNewMembers, AtNewChannel
<1>13. PageOut'
  BY <1>2, <1>3, <1>4, <1>6, <1>8, OnwardHas DEF Onward, Feed, PageOut, AtTombs
<1>14. PageRows'
  BY <1>3 DEF PageRows
<1>15. PageTheirs'
  BY <1>2, <1>3, <1>4, <1>6, <1>8, OnwardHas DEF Onward, Feed, PageTheirs, AtMemberships, AtNewMembers, AtTombs
<1>16. PageStages' /\ FirstPage'
  BY <1>3, <1>5 DEF PageStages, FirstPage
<1> QED
  BY <1>7, <1>9, <1>10, <1>11, <1>12, <1>13, <1>14, <1>15, <1>16 DEF PageParts

LEMMA ReadTombsKeeps ==
  ASSUME Shape, Feed, req \in Underway(now), ReadTombs
  PROVE  PageParts'
<1> DEFINE Mine == {k \in Outs : st.cursor < k /\ k <= req.upper}
           Theirs == {k \in Lefts : st.cursor < k /\ k <= req.upper}
           ForMe == Max({0} \cup Mine)
           ForThem == Max({0} \cup Theirs)
           removed == IF req.ours THEN 0 ELSE ForMe
           left == IF req.ours /\ mine.in THEN ForThem ELSE 0
<1>1. Read
  BY StatementsRead DEF ReadTombs
<1>0. req.at = "tombs" /\ req.at \in Reading
  BY DEF ReadTombs, Reading
<1>2. req' = [req EXCEPT !.at = "messages", !.page.removed = removed, !.page.left = left]
  <2>1. req.since = st.cursor
    BY <1>0 DEF Shape, Paged
  <2>2. /\ {t.seq : t \in {t \in tombs : t.who = "me" /\ InWindow(t.seq)}} = Mine
        /\ {t.seq : t \in {t \in tombs : t.who = "them" /\ InWindow(t.seq)}} = Theirs
    BY <2>1 DEF Outs, Lefts, InWindow
  <2> HIDE DEF Mine, Theirs
  <2> QED
    BY <2>2 DEF ReadTombs
<1>20. /\ LastOut \in {0} \cup Outs /\ LastLeft \in {0} \cup Lefts /\ now \in Nat /\ Outs \subseteq 1..now /\ Lefts \subseteq 1..now
       /\ (\A n \in Outs : n <= LastOut) /\ (\A n \in Lefts : n <= LastLeft)
  BY DEF Shape, Numbers
<1>6. /\ (removed = 0 \/ removed \in Outs) /\ (left = 0 \/ left \in Lefts)
      /\ ~req.ours => \A n \in Outs : st.cursor < n /\ n <= req.upper => n <= removed
      /\ req.ours /\ mine.in => \A n \in Lefts : st.cursor < n /\ n <= req.upper => n <= left
  <2>1. Mine \subseteq 1..now /\ Theirs \subseteq 1..now
    BY <1>20
  <2>2. ForMe \in {0} \cup Mine /\ \A k \in Mine : k <= ForMe
    <3> HIDE DEF Mine
    <3> QED
      BY <1>20, <2>1, LastIn
  <2>3. ForThem \in {0} \cup Theirs /\ \A k \in Theirs : k <= ForThem
    <3> HIDE DEF Theirs
    <3> QED
      BY <1>20, <2>1, LastIn
  <2> HIDE DEF ForMe, ForThem
  <2> QED
    BY <2>2, <2>3
<1>3. /\ req'.at = "messages" /\ req'.since = req.since /\ req'.ours = req.ours /\ req'.upper = req.upper
      /\ req'.current = req.current /\ req'.page = [req.page EXCEPT !.removed = removed, !.left = left]
  <2> HIDE DEF removed, left
  <2> QED
    BY <1>2 DEF Underway
<1>4. Onward
  BY <1>0, <1>1, <1>3 DEF Onward, Reading
<1>5. req.since # 0
  BY <1>0 DEF Feed, PageStages, Reading
<1>21. /\ req.ours => removed = 0
       /\ ~(req.ours /\ mine.in) => left = 0
  OBVIOUS
<1> HIDE DEF removed, left
<1>8. /\ req'.page.removed = removed /\ req'.page.left = left
      /\ req'.page.ch = req.page.ch /\ req'.page.my = req.page.my /\ req'.page.th = req.page.th
      /\ req'.page.history = req.page.history /\ req'.page.rows = req.page.rows
      /\ req'.page.tombstones = req.page.tombstones
  BY <1>3 DEF Underway, Batches
<1>7. PageOurs' /\ CountedOK'
  BY <1>3, <1>4, OnwardOurs, OnwardHas
<1>22. Lefts' = Lefts
  BY <1>4, OnwardHas DEF Lefts
<1>9. PageOK'
  BY <1>3, <1>4, <1>6, <1>8, <1>22, OnwardHas DEF Onward, Feed, PageOK, VersionIs
<1>10. PageTold'
  BY <1>3, <1>4, <1>8, OnwardHas DEF Onward, Feed, PageTold, Told
<1>11. PageChannel'
  BY <1>0, <1>3, <1>4, <1>8, OnwardHas DEF Feed, PageChannel, AtChannels, AtMemberships
<1>12. PageJoin'
  BY <1>0, <1>3, <1>4, <1>8, OnwardHas DEF Onward, Feed, PageJoin, AtNewMembers, AtNewChannel
<1>13. PageOut'
  <2>1. ASSUME ~mine.in, st.cursor < LastOut, LastOut <= req.upper
        PROVE  removed = LastOut
    <3>1. ~req.ours
      BY <1>4, <2>1 DEF Feed, PageOurs, Onward
    <3>2. LastOut \in Int /\ LastOut > 0
      BY <1>4, <2>1, OnwardHas
    <3>3. LastOut \in Outs /\ LastOut <= removed
      BY <1>6, <1>20, <2>1, <3>1, <3>2
    <3>4. removed \in Outs
      BY <1>6, <3>2, <3>3
    <3>5. removed \in Int /\ removed <= LastOut
      BY <1>20, <3>4
    <3> QED
      BY <3>2, <3>3, <3>5
  <2> QED
    BY <1>3, <1>4, <1>8, <2>1, OnwardHas DEF Onward, Feed, PageOut, AtTombs
<1>14. PageRows'
  BY <1>3 DEF PageRows
<1>15. PageTheirs'
  <2>1. ASSUME Sound', ~theirs.in, st.cursor < LastLeft, LastLeft <= req.upper
        PROVE  st.th.seq = 0 \/ st.th.gone \/ left = LastLeft
    <3>1. mine.in /\ Sound
      BY <1>4, <2>1, OnwardHas
    <3>2. CASE ~req.ours
      BY <1>4, <1>5, <3>1, <3>2 DEF Feed, PageOurs, Onward
    <3>3. CASE req.ours
      <4>1. LastLeft \in Int /\ LastLeft > 0
        BY <1>4, <2>1, OnwardHas
      <4>2. LastLeft \in Lefts /\ LastLeft <= left
        BY <1>6, <1>20, <2>1, <3>1, <3>3, <4>1
      <4>3. left \in Lefts
        BY <1>6, <4>1, <4>2
      <4>4. left \in Int /\ left <= LastLeft
        BY <1>20, <4>3
      <4> QED
        BY <4>1, <4>2, <4>4
    <3> QED
      BY <3>2, <3>3
  <2>2. req.at \in AtMemberships /\ req.at \in AtNewMembers
    BY <1>0 DEF AtMemberships, AtNewMembers
  <2> QED
    BY <1>3, <1>4, <1>8, <2>1, <2>2, OnwardHas DEF Onward, Feed, PageTheirs, AtMemberships, AtNewMembers, AtTombs
<1>16. PageStages' /\ FirstPage'
  BY <1>3, <1>5 DEF PageStages, FirstPage
<1> QED
  BY <1>7, <1>9, <1>10, <1>11, <1>12, <1>13, <1>14, <1>15, <1>16 DEF PageParts

LEMMA ReadMessagesKeeps ==
  ASSUME Shape, Feed, req \in Underway(now), ReadMessages
  PROVE  PageParts'
<1> DEFINE rows == [i \in Ids |-> IF mine.in /\ i \in DOMAIN msgs /\ InWindow(msgs[i].seq) THEN msgs[i] ELSE Version]
<1>1. Read
  BY StatementsRead DEF ReadMessages
<1>2. req.at = "messages" /\ req' = [req EXCEPT !.at = "page", !.page.rows = rows]
  BY DEF ReadMessages
<1>15. /\ \A i \in Ids : \/ rows[i].seq = 0
                         \/ mine.in /\ i \in DOMAIN msgs /\ rows[i] = msgs[i] /\ msgs[i].seq <= req.upper
       /\ mine.in => \A i \in DOMAIN msgs : i \in Ids /\ req.since < msgs[i].seq /\ msgs[i].seq <= req.upper => rows[i] = msgs[i]
  BY DEF Version, InWindow
<1> HIDE DEF rows
<1>3. /\ req'.at = "page" /\ req'.since = req.since /\ req'.ours = req.ours /\ req'.upper = req.upper
      /\ req'.current = req.current /\ req'.page = [req.page EXCEPT !.rows = rows]
  BY <1>2 DEF Underway
<1>4. Onward
  BY <1>1, <1>2, <1>3 DEF Onward, Reading
<1>5. req.since # 0 /\ req.since = st.cursor
  BY <1>2, <1>4, OnwardHas DEF Feed, PageStages, Reading
<1>8. /\ req'.page.rows = rows
      /\ req'.page.ch = req.page.ch /\ req'.page.my = req.page.my /\ req'.page.th = req.page.th
      /\ req'.page.removed = req.page.removed /\ req'.page.left = req.page.left
      /\ req'.page.history = req.page.history /\ req'.page.tombstones = req.page.tombstones
  BY <1>3 DEF Underway, Batches
<1>7. PageOurs' /\ CountedOK'
  BY <1>3, <1>4, OnwardOurs, OnwardHas
<1>16. \A i \in DOMAIN msgs : i \in Ids /\ msgs[i].seq \in Int
  BY DEF Shape, Server
<1>22. Lefts' = Lefts
  BY <1>4, OnwardHas DEF Lefts
<1>9. PageOK'
  BY <1>3, <1>4, <1>8, <1>15, <1>16, <1>22, OnwardHas DEF Onward, Feed, PageOK, VersionIs
<1>10. PageTold'
  BY <1>3, <1>4, <1>8, <1>15, OnwardHas DEF Onward, Feed, PageTold, Told
<1>11. PageChannel'
  BY <1>2, <1>3, <1>4, <1>8, OnwardHas DEF Feed, PageChannel, AtChannels, AtMemberships
<1>12. PageJoin'
  BY <1>2, <1>3, <1>4, <1>8, OnwardHas DEF Onward, Feed, PageJoin, AtNewMembers, AtNewChannel
<1>13. PageOut'
  BY <1>2, <1>3, <1>4, <1>8, OnwardHas DEF Onward, Feed, PageOut, AtTombs
<1>14. PageRows'
  BY <1>3, <1>4, <1>5, <1>8, <1>15, <1>16, OnwardHas DEF PageRows, Due
<1>17. PageTheirs'
  BY <1>2, <1>3, <1>4, <1>8, OnwardHas DEF Onward, Feed, PageTheirs, AtMemberships, AtNewMembers, AtTombs
<1>18. PageStages' /\ FirstPage'
  BY <1>3, <1>5 DEF PageStages, FirstPage
<1> QED
  BY <1>7, <1>9, <1>10, <1>11, <1>12, <1>13, <1>14, <1>17, <1>18 DEF PageParts

LEMMA ReadsKeepFeed ==
  ASSUME Inv, Shape, Feed, Reads
  PROVE  Feed'
<1>1. ServerOK /\ RequestOK /\ req \in Requests(now)
  BY DEF Inv, DeviceOK
<1>2. CASE AskSync \/ ReadCounter
  BY <1>2, AskKeepsFeed
<1>3. CASE ReadIds
  <2>1. req.at = "ids"
    BY <1>3 DEF ReadIds
  <2>2. req.current \in Nat
    BY <1>1, <2>1 DEF Requests, Idle, Underway, Reading
  <2>3. Asked
    BY <1>3, StatementsRead DEF ReadIds, Read
  <2> QED
    BY <1>3, <2>2, <2>3, ReadIdsKeeps, AskedKeeps
<1>4. CASE ReadState \/ ReadStateMembers \/ ReadBound \/ ReadChannels \/ ReadMemberships \/ ReadNew
           \/ ReadNewMembers \/ ReadNewChannel \/ ReadTombs \/ ReadMessages
  <2>1. req.at \in Reading
    BY <1>4 DEF ReadState, ReadStateMembers, ReadBound, ReadChannels, ReadMemberships, ReadNew, ReadNewMembers,
                ReadNewChannel, ReadTombs, ReadMessages, Reading
  <2>2. req \in Underway(now)
    BY <1>1, <2>1 DEF Requests, Idle, Reading
  <2>3. PageParts'
    BY <1>1, <1>4, <2>2, ReadStateKeeps, ReadStateMembersKeeps, ReadBoundKeeps, ReadChannelsKeeps, ReadMembershipsKeeps,
       ReadNewKeeps, ReadNewMembersKeeps, ReadNewChannelKeeps, ReadTombsKeeps, ReadMessagesKeeps
  <2>4. Read
    BY <1>4, StatementsRead DEF ReadState, ReadStateMembers, ReadBound, ReadChannels, ReadMemberships, ReadNew, ReadNewMembers,
                ReadNewChannel, ReadTombs, ReadMessages
  <2> QED
    BY <2>3, <2>4, AskedKeeps DEF Read
<1> QED
  BY <1>2, <1>3, <1>4 DEF Reads

-----------------------------------------------------------------------------
(* What a page of /sync does to the store.                                 *)

\* The range after the last page of a run.
SettledRange(c, d) ==
  \/ d = c
  \/ /\ c.held /\ d.held /\ (d.complete <=> c.complete) /\ d.top # 0 /\ d.bottom # 0
     /\ c.bottom # 0 => d.bottom = c.bottom

LEMMA SettleDoes ==
  ASSUME NEW n \in Nat, NEW s, IsStore(s, n), s.cov \in CovType
  PROVE  \E d \in CovType : Settle(s) = [s EXCEPT !.cov = d] /\ SettledRange(s.cov, d)
<1> DEFINE known == {i \in Cached(s) : s.rows[i].seq <= s.cursor}
           c == s.cov
           grows == c.held /\ known # {} /\ Max(known) > c.top
<1>0. s = [s EXCEPT !.cov = c]
  BY DEF IsStore
<1>1. known \subseteq Ids
  BY DEF Cached
<1>2. Ids \subseteq Int /\ IsFiniteSet(Ids) /\ \A i \in Ids : i > 0
  BY FS_Interval, BoundsAssumption DEF Ids
<1>3. c.held \in BOOLEAN /\ c.top \in Nat /\ c.bottom \in Nat /\ c.complete \in BOOLEAN
  BY DEF CovType
<1>4. CASE ~grows
  <2>1. Settle(s) = s
    BY <1>4 DEF Settle
  <2>2. SettledRange(c, c)
    BY DEF SettledRange
  <2> QED
    BY <1>0, <2>1, <2>2
<1>5. CASE grows
  <2> DEFINE top == Max(known)
             bottom == IF c.bottom = 0 THEN Min(known) ELSE c.bottom
             d == [held |-> TRUE, top |-> top, bottom |-> bottom, complete |-> c.complete]
             e == [c EXCEPT !.top = top, !.bottom = bottom]
  <2>1. Settle(s) = [s EXCEPT !.cov.top = Max(known), !.cov.bottom = IF @ = 0 THEN Min(known) ELSE @]
    BY <1>5 DEF Settle
  <2>2. Max(known) \in known /\ Min(known) \in known
    <3>1. known # {}
      BY <1>5
    <3> HIDE DEF known
    <3> QED
      BY <1>1, <1>2, <3>1, FS_Subset, Greatest, Least
  <2>3. top \in Nat /\ top # 0 /\ bottom \in Nat /\ bottom # 0
    <3> HIDE DEF known
    <3>1. Max(known) \in Ids /\ Min(known) \in Ids
      BY <1>1, <2>2
    <3>2. \A i \in Ids : i \in Nat /\ i # 0
      BY <1>2
    <3>3. top \in Nat /\ top # 0
      BY <3>1, <3>2
    <3>4. bottom = Min(known) \/ (bottom = c.bottom /\ c.bottom # 0)
      OBVIOUS
    <3> HIDE DEF bottom
    <3> QED
      BY <1>3, <3>1, <3>2, <3>3, <3>4
  <2>4. Settle(s) = [s EXCEPT !.cov = e]
    <3> HIDE DEF known
    <3> QED
      BY <2>1 DEF IsStore, CovType
  <2>5. c.bottom # 0 => bottom = c.bottom
    OBVIOUS
  <2> HIDE DEF top, bottom
  <2>6. d \in CovType /\ e \in CovType
    BY <1>3, <2>3 DEF CovType
  <2>7. d.held = TRUE /\ c.held = TRUE
    BY <1>3, <1>5
  <2>8. d.top = top /\ d.bottom = bottom /\ d.complete = c.complete
    OBVIOUS
  <2>9. e.held = c.held /\ e.top = top /\ e.bottom = bottom /\ e.complete = c.complete
    BY DEF CovType
  <2> HIDE DEF d, e
  <2>10. d = e
    BY <2>6, <2>7, <2>8, <2>9 DEF CovType
  <2>11. SettledRange(c, d)
    BY <1>5, <2>3, <2>5, <2>7, <2>8 DEF SettledRange
  <2> QED
    BY <2>4, <2>6, <2>10, <2>11
<1> QED
  BY <1>4, <1>5

\* Row i is the page's.
Arrives(i) ==
  LET v == req.page.rows[i] IN
  v.seq # 0 /\ st'.rows[i].seq = v.seq /\ st'.rows[i].gone = v.gone /\ MayLand(st', v.seq, FALSE)

\* A page without a removal that counts, and one with.
PageKept ==
  LET b == req.page
      th == IF b.th > st.th.seq /\ ~Fenced(st', b.th) THEN [seq |-> b.th, gone |-> FALSE] ELSE st.th
  IN
  /\ st'.fence = st.fence /\ st'.my = MyAfter(st, b) /\ st'.active = (st.active /\ ~Lifts(st, b))
  /\ st'.ch = IF b.ch > st.ch /\ ~Fenced(st', b.ch) THEN b.ch ELSE st.ch
  /\ st'.th = IF b.left > th.seq THEN [seq |-> b.left, gone |-> TRUE] ELSE th
  /\ SettledRange(st.cov, st'.cov)
  /\ \A i \in Ids : /\ st'.rows[i].seq >= st.rows[i].seq /\ (st'.rows[i] = st.rows[i] \/ Arrives(i))
                    /\ b.rows[i].seq # 0 /\ MayLand(st', b.rows[i].seq, FALSE) => st'.rows[i].seq >= b.rows[i].seq
PageWiped ==
  LET b == req.page
      th == IF b.th > 0 /\ ~Fenced(st', b.th) THEN [seq |-> b.th, gone |-> FALSE] ELSE Version
  IN
  /\ st'.fence = b.removed /\ st'.my = 0 /\ st'.active = TRUE /\ st'.cov = NoCoverage
  /\ st'.ch = IF b.ch > 0 /\ ~Fenced(st', b.ch) THEN b.ch ELSE 0
  /\ st'.th = IF b.left > th.seq THEN [seq |-> b.left, gone |-> TRUE] ELSE th
  /\ \A i \in Ids : st'.rows[i].seq = 0 \/ Arrives(i)

LEMMA LandDoes ==
  ASSUME Inv, Shape, Feed, LandPage
  PROVE  /\ UNCHANGED <<now, msgs, mine, theirs, chan, tombs, sends, live, loads, skipped, unseen>>
         /\ req.at = "page" /\ req' = Idle /\ st'.cursor = req.upper /\ st'.gen = st.gen
         /\ base' = (IF st.cursor = 0 THEN req.upper ELSE base)
         /\ early => early'
         /\ st.cursor = 0 /\ st.ch # 0 => early'
         /\ st'.cov \in CovType
         /\ ~Wipes(st, req.page) => PageKept
         /\ Wipes(st, req.page) => PageWiped
<1> DEFINE b == req.page
           t == Apply(st, b)
           s == [t EXCEPT !.cursor = req.upper]
<1>1. /\ UNCHANGED <<now, msgs, mine, theirs, chan, tombs, sends, live, loads, skipped, unseen>>
      /\ req.at = "page" /\ req' = Idle /\ (st' = IF req.more THEN s ELSE Settle(s))
      /\ base' = (IF req.since = 0 THEN req.upper ELSE base)
      /\ early' = (early \/ (req.since = 0 /\ st.ch # 0))
  BY DEF LandPage, serverVars
<1>2. req.since = st.cursor /\ req.upper \in 0..now /\ now \in Nat /\ req.at \in Reading
  BY <1>1 DEF Shape, Paged, Numbers, Reading
<1>3. IsStore(st, now) /\ b \in Batches(now)
  <2>1. IsStore(st, now) /\ req \in Requests(now)
    BY DEF Inv, DeviceOK
  <2>2. req \in Underway(now)
    BY <1>1, <2>1 DEF Requests, Idle
  <2> QED
    BY <2>1, <2>2 DEF Underway
<1>5. IsStore(t, now) /\ t.cursor = st.cursor /\ t.gen = st.gen
  BY <1>2, <1>3, ApplyKeeps
<1>6. (~Wipes(st, b) => KeptBy(st, b, t)) /\ (Wipes(st, b) => WipedBy(b, t))
  BY <1>2, <1>3, ApplyDoes
<1>7. \A i \in Ids : t.rows[i] = RowAfter(RowNext(RowBefore(st, b, i), b, t, i), b, t, i)
  BY <1>2, <1>3, ApplyLands
<1>8. b.history = FALSE /\ \A i \in Ids : b.tombstones[i] = 0 /\ b.rows[i].seq \in Nat
  <2>1. ~b.history /\ \A i \in Ids : b.tombstones[i] = 0
    BY <1>2 DEF Feed, PageOK
  <2>2. b.history \in BOOLEAN /\ \A i \in Ids : b.rows[i].seq \in Nat
    BY <1>2, <1>3 DEF Batches, Versions
  <2> QED
    BY <2>1, <2>2
<1> HIDE DEF t
<1>9. t.cov \in CovType
  <2>1. st.cov \in CovType /\ NoCoverage \in CovType
    BY DEF Feed, CovOK, CovType, NoCoverage
  <2> QED
    BY <1>6, <2>1 DEF KeptBy, WipedBy
<1>10. /\ IsStore(s, now) /\ s.cursor = req.upper /\ s.gen = t.gen /\ s.ch = t.ch /\ s.my = t.my /\ s.th = t.th
       /\ s.rows = t.rows /\ s.fence = t.fence /\ s.active = t.active /\ s.cov = t.cov
  BY <1>2, <1>5 DEF IsStore
<1> HIDE DEF s
<1>11. PICK d \in CovType : SettledRange(s.cov, d) /\ st' = [s EXCEPT !.cov = d]
  <2>1. CASE req.more
    <3>1. st' = [s EXCEPT !.cov = s.cov]
      BY <1>1, <1>10, <2>1 DEF IsStore
    <3>2. SettledRange(s.cov, s.cov)
      BY DEF SettledRange
    <3> QED
      BY <1>9, <1>10, <3>1, <3>2
  <2>2. CASE ~req.more
    BY <1>1, <1>2, <1>9, <1>10, <2>2, SettleDoes
  <2> QED
    BY <2>1, <2>2
<1>12. /\ st'.cursor = s.cursor /\ st'.gen = s.gen /\ st'.ch = s.ch /\ st'.my = s.my /\ st'.th = s.th
       /\ st'.rows = s.rows /\ st'.fence = s.fence /\ st'.active = s.active /\ st'.cov = d
  BY <1>2, <1>10, <1>11, OnlyCov
<1>13. \A n : /\ Fenced(st', n) = Fenced(t, n)
              /\ MayLand(st', n, FALSE) = MayLand(t, n, FALSE)
  BY <1>10, <1>12 DEF MayLand, Fenced
<1>14. \A i \in Ids : RowBefore(st, b, i).seq \in Nat
  BY DEF RowBefore, NoRows, Shape, Stored, Numbers
<1>15. \A i \in Ids :
         /\ st'.rows[i].seq >= RowBefore(st, b, i).seq
         /\ st'.rows[i] = RowBefore(st, b, i) \/ Arrives(i)
         /\ b.rows[i].seq # 0 /\ MayLand(st', b.rows[i].seq, FALSE) => st'.rows[i].seq >= b.rows[i].seq
  <2> TAKE i \in Ids
  <2> DEFINE r == RowBefore(st, b, i)
             x == st'.rows[i]
  <2>1. r.seq \in Nat /\ b.rows[i].seq \in Nat /\ b.tombstones[i] = 0
    BY <1>8, <1>14
  <2>2. x = RowAfter(RowNext(r, b, t, i), b, t, i)
    BY <1>7, <1>10, <1>12
  <2> HIDE DEF r
  <2>3. /\ x.seq >= r.seq
        /\ x = r \/ (/\ x.seq = b.rows[i].seq /\ x.gone = b.rows[i].gone /\ b.rows[i].seq # 0
                     /\ MayLand(t, b.rows[i].seq, b.history) /\ (b.history => b.floor = t.fence))
        /\ b.rows[i].seq # 0 /\ (b.history => b.floor = t.fence) /\ MayLand(t, b.rows[i].seq, b.history)
             => x.seq >= b.rows[i].seq
    <3> HIDE DEF x, b
    <3> QED
      BY <2>1, <2>2, RowLands
  <2>4. /\ MayLand(t, b.rows[i].seq, b.history) = MayLand(st', b.rows[i].seq, FALSE)
        /\ ~b.history
    <3>1. MayLand(t, b.rows[i].seq, b.history) = MayLand(t, b.rows[i].seq, FALSE)
      BY <1>8, Zenon
    <3>2. MayLand(st', b.rows[i].seq, FALSE) = MayLand(t, b.rows[i].seq, FALSE)
      BY <1>13
    <3> QED
      BY <1>8, <3>1, <3>2, Zenon
  <2>5. x = r \/ Arrives(i)
    BY <2>3, <2>4, Zenon DEF Arrives
  <2>6. b.rows[i].seq # 0 /\ MayLand(st', b.rows[i].seq, FALSE) => x.seq >= b.rows[i].seq
    BY <2>3, <2>4, Zenon
  <2> QED
    BY <2>3, <2>5, <2>6, Zenon DEF r
<1>16. ASSUME ~Wipes(st, b) PROVE PageKept
  <2>1. KeptBy(st, b, t)
    BY <1>6, <1>16
  <2>2. \A i \in Ids : RowBefore(st, b, i) = st.rows[i]
    BY <1>16 DEF RowBefore
  <2>3. \A i \in Ids : /\ st'.rows[i].seq >= st.rows[i].seq /\ (st'.rows[i] = st.rows[i] \/ Arrives(i))
                       /\ b.rows[i].seq # 0 /\ MayLand(st', b.rows[i].seq, FALSE) => st'.rows[i].seq >= b.rows[i].seq
    BY <1>15, <2>2
  <2>4. SettledRange(st.cov, st'.cov)
    BY <1>10, <1>11, <1>12, <2>1 DEF KeptBy
  <2> HIDE DEF b
  <2>5. LET th == IF b.th > st.th.seq /\ ~Fenced(st', b.th) THEN [seq |-> b.th, gone |-> FALSE] ELSE st.th
        IN
        /\ st'.fence = st.fence /\ st'.my = MyAfter(st, b) /\ st'.active = (st.active /\ ~Lifts(st, b))
        /\ st'.ch = IF b.ch > st.ch /\ ~Fenced(st', b.ch) THEN b.ch ELSE st.ch
        /\ st'.th = IF b.left > th.seq THEN [seq |-> b.left, gone |-> TRUE] ELSE th
    BY <1>10, <1>12, <1>13, <2>1 DEF KeptBy
  <2> QED
    BY <2>3, <2>4, <2>5 DEF PageKept, b
<1>17. ASSUME Wipes(st, b) PROVE PageWiped
  <2>1. WipedBy(b, t)
    BY <1>6, <1>17
  <2>2. \A i \in Ids : RowBefore(st, b, i).seq = 0
    BY <1>17 DEF RowBefore, NoRows
  <2>3. \A i \in Ids : st'.rows[i].seq = 0 \/ Arrives(i)
    BY <1>15, <2>2
  <2>4. st'.cov = NoCoverage
    <3>1. s.cov = NoCoverage /\ NoCoverage.held = FALSE
      BY <1>10, <2>1 DEF WipedBy, NoCoverage
    <3> QED
      BY <1>11, <1>12, <3>1 DEF SettledRange
  <2> HIDE DEF b
  <2>5. LET th == IF b.th > 0 /\ ~Fenced(st', b.th) THEN [seq |-> b.th, gone |-> FALSE] ELSE Version
        IN
        /\ st'.fence = b.removed /\ st'.my = 0 /\ st'.active = TRUE
        /\ st'.ch = IF b.ch > 0 /\ ~Fenced(st', b.ch) THEN b.ch ELSE 0
        /\ st'.th = IF b.left > th.seq THEN [seq |-> b.left, gone |-> TRUE] ELSE th
    BY <1>10, <1>12, <1>13, <2>1 DEF WipedBy
  <2> QED
    BY <2>3, <2>4, <2>5 DEF PageWiped, b
<1>18. st'.cursor = req.upper /\ st'.gen = st.gen /\ st'.cov \in CovType
  BY <1>5, <1>10, <1>11, <1>12
<1>19. (early => early') /\ (st.cursor = 0 /\ st.ch # 0 => early') /\ base' = (IF st.cursor = 0 THEN req.upper ELSE base)
  BY <1>1, <1>2
<1> QED
  BY <1>1, <1>16, <1>17, <1>18, <1>19

\* A page has landed.
Landed ==
  /\ UNCHANGED <<now, msgs, mine, theirs, chan, tombs, live, loads, skipped, unseen>>
  /\ req.at = "page" /\ st'.cursor = req.upper /\ st'.gen = st.gen
  /\ base' = (IF st.cursor = 0 THEN req.upper ELSE base)
  /\ early => early'
  /\ st.cursor = 0 /\ st.ch # 0 => early'
  /\ st'.cov \in CovType

LEMMA LandedNumbers ==
  ASSUME Shape, Shape', Feed, Landed
  PROVE  /\ Outs' = Outs /\ Lefts' = Lefts /\ LastOut' = LastOut /\ PrevOut' = PrevOut /\ LastLeft' = LastLeft
         /\ Sound' = Sound /\ (Exact' => Exact) /\ Seen' = Seen
         /\ req.at \in Reading /\ req.since = st.cursor /\ req.upper \in Int /\ req.upper >= 1 /\ st.cursor <= req.upper
         /\ now \in Nat /\ chan \in 1..now /\ mine.seq \in 1..now /\ mine.joined \in 1..now /\ theirs.seq \in 1..now
         /\ LastOut \in 0..now /\ PrevOut \in 0..now /\ LastLeft \in 0..now
         /\ st.cursor \in 0..now /\ st.my \in 0..now /\ st.ch \in 0..now /\ st.fence \in 0..now /\ st.th.seq \in 0..now
         /\ st'.cursor \in 0..now /\ st'.my \in 0..now /\ st'.ch \in 0..now /\ st'.fence \in 0..now /\ st'.th.seq \in 0..now
         /\ req.page.ch \in 0..now /\ req.page.my \in 0..now /\ req.page.th \in 0..now
         /\ req.page.removed \in 0..now /\ req.page.left \in 0..now
<1>1. UNCHANGED <<now, mine, tombs, unseen, skipped>> /\ req.at \in Reading /\ (early => early')
  BY DEF Landed, Reading
<1>2. Sound' = Sound /\ (Exact' => Exact) /\ Seen' = Seen
  BY <1>1 DEF Sound, Exact, Seen
<1>3. Outs' = Outs /\ Lefts' = Lefts /\ LastOut' = LastOut /\ PrevOut' = PrevOut /\ LastLeft' = LastLeft
  BY <1>1, StillNumbers
<1>4. req.upper >= 1
  BY <1>1 DEF Feed, PageOK
<1>5. /\ now \in Nat /\ chan \in 1..now /\ mine.seq \in 1..now /\ mine.joined \in 1..now /\ theirs.seq \in 1..now
      /\ LastOut \in 0..now /\ PrevOut \in 0..now /\ LastLeft \in 0..now
  BY DEF Shape, Numbers, Server
<1>6. /\ st.cursor \in 0..now /\ st.my \in 0..now /\ st.ch \in 0..now /\ st.fence \in 0..now /\ st.th.seq \in 0..now
      /\ st'.cursor \in 0..now /\ st'.my \in 0..now /\ st'.ch \in 0..now /\ st'.fence \in 0..now /\ st'.th.seq \in 0..now
  BY <1>1 DEF Shape, Stored
<1>7. /\ req.since = st.cursor /\ req.upper \in 0..now /\ req.since <= req.upper
      /\ req.page.ch \in 0..now /\ req.page.my \in 0..now /\ req.page.th \in 0..now
      /\ req.page.removed \in 0..now /\ req.page.left \in 0..now
  BY <1>1 DEF Shape, Paged
<1> QED
  BY <1>1, <1>2, <1>3, <1>4, <1>5, <1>6, <1>7

LEMMA ThMoves ==
  ASSUME NEW o, o.seq \in Nat, NEW in \in Nat, NEW left \in Nat, NEW fenced,
         NEW th, th = (IF in > o.seq /\ ~fenced THEN [seq |-> in, gone |-> FALSE] ELSE o),
         NEW x, x = (IF left > th.seq THEN [seq |-> left, gone |-> TRUE] ELSE th)
  PROVE  /\ \/ x = o
            \/ x.seq = in /\ x.gone = FALSE /\ in > o.seq /\ ~fenced
            \/ x.seq = left /\ x.gone = TRUE /\ left > o.seq
         /\ in <= o.seq /\ left <= o.seq => x = o
         /\ in > o.seq /\ ~fenced /\ left <= in => x.seq = in /\ x.gone = FALSE
         /\ in = 0 /\ left > o.seq => x.gone = TRUE
<1>1. CASE in > o.seq /\ ~fenced
  <2>1. th = [seq |-> in, gone |-> FALSE] /\ th.seq = in /\ th.gone = FALSE
    BY <1>1
  <2>2. CASE left > th.seq
    <3>1. x.seq = left /\ x.gone = TRUE
      BY <2>2
    <3> QED
      BY <1>1, <2>1, <2>2, <3>1
  <2>3. CASE ~(left > th.seq)
    <3>1. x = th
      BY <2>3
    <3> QED
      BY <1>1, <2>1, <2>3, <3>1
  <2> QED
    BY <2>2, <2>3
<1>2. CASE ~(in > o.seq /\ ~fenced)
  <2>1. th = o
    BY <1>2
  <2>2. CASE left > th.seq
    <3>1. x.seq = left /\ x.gone = TRUE
      BY <2>2
    <3> QED
      BY <1>2, <2>1, <2>2, <3>1
  <2>3. CASE ~(left > th.seq)
    <3>1. x = o
      BY <2>1, <2>3
    <3> QED
      BY <1>2, <2>1, <2>3, <3>1
  <2> QED
    BY <2>2, <2>3
<1> QED
  BY <1>1, <1>2

\* What becomes of the store's numbers.
KeptMoves ==
  LET b == req.page IN
  /\ st'.fence = st.fence /\ st'.my >= st.my /\ st'.ch >= st.ch /\ (st'.active => st.active)
  /\ st'.my = st.my \/ (st'.my = b.my /\ (st.active => b.my > st.fence))
  /\ (b.my <= st'.my /\ (b.my > st.my => ~st'.active)) \/ (st.active /\ b.my <= st.fence)
  /\ st'.my # st.my => ~st'.active
  /\ st.active /\ ~st'.active => st'.my = b.my /\ b.my > st.fence
  /\ st'.ch = st.ch \/ (st'.ch = b.ch /\ (st'.active => b.ch > st.fence))
  /\ b.ch <= st'.ch \/ (st'.active /\ b.ch <= st.fence)
  /\ b.removed = 0 \/ b.removed <= st.fence \/ (st'.my # 0 /\ b.removed <= st'.my)
  /\ \/ st'.th = st.th
     \/ st'.th.seq = b.th /\ st'.th.gone = FALSE /\ b.th > st.th.seq /\ (st'.active => b.th > st.fence)
     \/ st'.th.seq = b.left /\ st'.th.gone = TRUE /\ b.left > st.th.seq
  /\ b.th <= st.th.seq /\ b.left <= st.th.seq => st'.th = st.th
  /\ b.th > st.th.seq /\ ~(st'.active /\ b.th <= st.fence) /\ b.left <= b.th => st'.th.seq = b.th
  /\ b.th = 0 /\ b.left > st.th.seq => st'.th.gone
WipedMoves ==
  LET b == req.page IN
  /\ st'.fence = b.removed /\ b.removed \in Outs /\ b.removed > st.fence
  /\ st.my = 0 \/ b.removed > st.my
  /\ b.my > st.my /\ ~(st.active /\ b.my <= st.fence) => b.removed > b.my
  /\ st'.my = 0 /\ st'.active /\ st'.cov = NoCoverage
  /\ st'.ch = 0 \/ (st'.ch = b.ch /\ b.ch > b.removed)
  /\ \/ st'.th.seq = 0
     \/ st'.th.seq = b.th /\ st'.th.gone = FALSE /\ b.th > b.removed
     \/ st'.th.seq = b.left /\ st'.th.gone = TRUE /\ b.left > 0

LEMMA PageMoves ==
  ASSUME Shape, Shape', Feed, Landed
  PROVE  /\ ~Wipes(st, req.page) /\ PageKept => KeptMoves
         /\ Wipes(st, req.page) /\ PageWiped => WipedMoves
<1> DEFINE b == req.page
<1>1. /\ now \in Nat
      /\ b.ch \in Nat /\ b.my \in Nat /\ b.th \in Nat /\ b.removed \in Nat /\ b.left \in Nat
      /\ st.my \in Nat /\ st.ch \in Nat /\ st.fence \in Nat /\ st.th.seq \in Nat
  BY LandedNumbers
<1>0. st.active \in BOOLEAN /\ (b.removed = 0 \/ b.removed \in Outs)
  BY LandedNumbers DEF Shape, Stored, Feed, PageOK
<1> HIDE DEF b
<1>2. ASSUME ~Wipes(st, b), PageKept PROVE KeptMoves
  <2>1. /\ st'.fence = st.fence /\ st'.my = MyAfter(st, b) /\ st'.active = (st.active /\ ~Lifts(st, b))
        /\ st'.ch = IF b.ch > st.ch /\ ~Fenced(st', b.ch) THEN b.ch ELSE st.ch
    BY <1>2 DEF PageKept, b
  <2>2. /\ st'.my >= st.my /\ (st'.active => st.active)
        /\ st'.my = st.my \/ (st'.my = b.my /\ (st.active => b.my > st.fence))
        /\ (b.my <= st'.my /\ (b.my > st.my => ~st'.active)) \/ (st.active /\ b.my <= st.fence)
        /\ st'.my # st.my => ~st'.active
        /\ st.active /\ ~st'.active => st'.my = b.my /\ b.my > st.fence
    <3>1. CASE Lifts(st, b)
      <4>1. st'.my = b.my /\ ~st'.active
        BY <2>1, <3>1 DEF MyAfter
      <4> QED
        BY <1>1, <3>1, <4>1 DEF Lifts, Fenced
    <3>2. CASE ~Lifts(st, b)
      <4>1. st'.my = st.my /\ st'.active = st.active
        BY <1>0, <2>1, <3>2 DEF MyAfter
      <4> QED
        BY <1>1, <3>2, <4>1 DEF Lifts, Fenced
    <3> QED
      BY <3>1, <3>2
  <2>3. /\ st'.ch >= st.ch
        /\ st'.ch = st.ch \/ (st'.ch = b.ch /\ (st'.active => b.ch > st.fence))
        /\ b.ch <= st'.ch \/ (st'.active /\ b.ch <= st.fence)
    BY <1>1, <2>1 DEF Fenced
  <2>4. b.removed = 0 \/ b.removed <= st.fence \/ (st'.my # 0 /\ b.removed <= st'.my)
    BY <1>2, <2>1 DEF Wipes
  <2>5. Fenced(st', b.th) <=> st'.active /\ b.th <= st.fence
    BY <2>1 DEF Fenced
  <2>6. /\ \/ st'.th = st.th
           \/ st'.th.seq = b.th /\ st'.th.gone = FALSE /\ b.th > st.th.seq /\ ~Fenced(st', b.th)
           \/ st'.th.seq = b.left /\ st'.th.gone = TRUE /\ b.left > st.th.seq
        /\ b.th <= st.th.seq /\ b.left <= st.th.seq => st'.th = st.th
        /\ b.th > st.th.seq /\ ~Fenced(st', b.th) /\ b.left <= b.th => st'.th.seq = b.th /\ st'.th.gone = FALSE
        /\ b.th = 0 /\ b.left > st.th.seq => st'.th.gone = TRUE
    <3> DEFINE th == IF b.th > st.th.seq /\ ~Fenced(st', b.th) THEN [seq |-> b.th, gone |-> FALSE] ELSE st.th
               x == st'.th
    <3>1. x = IF b.left > th.seq THEN [seq |-> b.left, gone |-> TRUE] ELSE th
      BY <1>2 DEF PageKept, b
    <3>2. th = IF b.th > st.th.seq /\ ~Fenced(st', b.th) THEN [seq |-> b.th, gone |-> FALSE] ELSE st.th
      OBVIOUS
    <3> HIDE DEF th, x
    <3>3. /\ \/ x = st.th
             \/ x.seq = b.th /\ x.gone = FALSE /\ b.th > st.th.seq /\ ~Fenced(st', b.th)
             \/ x.seq = b.left /\ x.gone = TRUE /\ b.left > st.th.seq
          /\ b.th <= st.th.seq /\ b.left <= st.th.seq => x = st.th
          /\ b.th > st.th.seq /\ ~Fenced(st', b.th) /\ b.left <= b.th => x.seq = b.th /\ x.gone = FALSE
          /\ b.th = 0 /\ b.left > st.th.seq => x.gone = TRUE
      BY <1>1, <3>1, <3>2, ThMoves
    <3> QED
      BY <3>3, Zenon DEF x
  <2>7. b.th > st.fence \/ b.th <= st.fence
    BY <1>1
  <2> QED
    BY <2>1, <2>2, <2>3, <2>4, <2>5, <2>6, <2>7 DEF KeptMoves, b
<1>3. ASSUME Wipes(st, b), PageWiped PROVE WipedMoves
  <2>1. /\ st'.fence = b.removed /\ st'.my = 0 /\ st'.active = TRUE /\ st'.cov = NoCoverage
        /\ st'.ch = IF b.ch > 0 /\ ~Fenced(st', b.ch) THEN b.ch ELSE 0
    BY <1>3 DEF PageWiped, b
  <2>2. b.removed \in Outs /\ b.removed > st.fence
    BY <1>0, <1>1, <1>3 DEF Wipes
  <2>3. /\ st.my = 0 \/ b.removed > st.my
        /\ b.my > st.my /\ ~(st.active /\ b.my <= st.fence) => b.removed > b.my
    BY <1>1, <1>3 DEF Wipes, MyAfter, Lifts, Fenced
  <2>4. st'.ch = 0 \/ (st'.ch = b.ch /\ b.ch > b.removed)
    BY <1>1, <2>1 DEF Fenced
  <2>5. ~Fenced(st', b.th) => b.th > b.removed
    BY <1>1, <2>1 DEF Fenced
  <2>6. \/ st'.th = Version
        \/ st'.th.seq = b.th /\ st'.th.gone = FALSE /\ b.th > 0 /\ ~Fenced(st', b.th)
        \/ st'.th.seq = b.left /\ st'.th.gone = TRUE /\ b.left > 0
    <3> DEFINE o == Version
               th == IF b.th > o.seq /\ ~Fenced(st', b.th) THEN [seq |-> b.th, gone |-> FALSE] ELSE o
               x == st'.th
    <3>0. o.seq = 0
      BY DEF Version
    <3>1. x = IF b.left > th.seq THEN [seq |-> b.left, gone |-> TRUE] ELSE th
      BY <1>3, <3>0 DEF PageWiped, b
    <3>2. th = IF b.th > o.seq /\ ~Fenced(st', b.th) THEN [seq |-> b.th, gone |-> FALSE] ELSE o
      OBVIOUS
    <3> HIDE DEF th, x, o
    <3>4. o.seq \in Nat
      BY <3>0
    <3>3. \/ x = o
          \/ x.seq = b.th /\ x.gone = FALSE /\ b.th > o.seq /\ ~Fenced(st', b.th)
          \/ x.seq = b.left /\ x.gone = TRUE /\ b.left > o.seq
      BY <1>1, <3>1, <3>2, <3>4, ThMoves
    <3> QED
      BY <3>0, <3>3, Zenon DEF x, o
  <2>7. Version.seq = 0
    BY DEF Version
  <2>8. \/ st'.th.seq = 0
        \/ st'.th.seq = b.th /\ st'.th.gone = FALSE /\ b.th > b.removed
        \/ st'.th.seq = b.left /\ st'.th.gone = TRUE /\ b.left > 0
    BY <2>5, <2>6, <2>7
  <2> QED
    BY <2>1, <2>2, <2>3, <2>4, <2>8 DEF WipedMoves, b
<1> QED
  BY <1>2, <1>3 DEF b

Stores == (KeptMoves /\ PageKept) \/ (WipedMoves /\ PageWiped)

\* What a page that is to land says.
LEMMA PageSays ==
  ASSUME Shape, Shape', Feed, Landed
  PROVE  LET b == req.page IN
         /\ b.ch <= chan /\ b.my <= mine.seq /\ b.th <= theirs.seq /\ (b.left = 0 \/ b.left \in Lefts)
         /\ b.th # 0 => IF theirs.in THEN b.th = theirs.seq \/ theirs.seq > req.upper ELSE LastLeft > req.upper
         /\ ~unseen /\ ~mine.in => b.ch <= LastOut /\ b.th <= LastOut
         /\ mine.in /\ st.cursor < chan /\ chan <= req.upper => b.ch = chan
         /\ mine.in /\ st.cursor < mine.seq /\ mine.seq <= req.upper => b.my = mine.seq
         /\ mine.joined <= req.upper => (b.my # 0 => b.my >= mine.joined) /\ (b.ch # 0 => b.ch >= mine.joined)
         /\ Seen /\ st.cursor < mine.joined /\ mine.joined <= req.upper => b.my >= mine.joined /\ b.ch >= mine.joined
         /\ ~mine.in /\ LastOut <= st.cursor => b.ch = 0
         /\ ~mine.in /\ st.cursor # 0 /\ st.cursor < LastOut /\ LastOut <= req.upper => b.removed = LastOut
<1>1. req.at = "page" /\ req.at \in Reading /\ req.since = st.cursor
  BY LandedNumbers DEF Landed
<1>2. PageOK /\ PageTold /\ PageChannel /\ PageJoin /\ PageOut
  BY DEF Feed
<1>3. req.at \in AtChannels /\ req.at \in AtMemberships /\ req.at \in AtNewMembers /\ req.at \in AtNewChannel /\ req.at \in AtTombs
  BY <1>1 DEF AtChannels, AtMemberships, AtNewMembers, AtNewChannel, AtTombs
<1>4. LET b == req.page IN
      /\ b.ch <= chan /\ b.my <= mine.seq /\ b.th <= theirs.seq /\ (b.left = 0 \/ b.left \in Lefts)
      /\ b.th # 0 => IF theirs.in THEN b.th = theirs.seq \/ theirs.seq > req.upper ELSE LastLeft > req.upper
      /\ ~unseen /\ ~mine.in => b.ch <= LastOut /\ b.th <= LastOut
  BY <1>1, <1>2 DEF PageOK, PageTold
<1>5. LET b == req.page IN
      /\ mine.in /\ st.cursor < chan /\ chan <= req.upper => b.ch = chan
      /\ mine.in /\ st.cursor < mine.seq /\ mine.seq <= req.upper => b.my = mine.seq
      /\ mine.joined <= req.upper => (b.my # 0 => b.my >= mine.joined) /\ (b.ch # 0 => b.ch >= mine.joined)
      /\ Seen /\ st.cursor < mine.joined /\ mine.joined <= req.upper => b.my >= mine.joined /\ b.ch >= mine.joined
  BY <1>1, <1>2, <1>3 DEF PageChannel, PageJoin
<1>6. LET b == req.page IN
      /\ ~mine.in /\ LastOut <= st.cursor => b.ch = 0
      /\ ~mine.in /\ st.cursor # 0 /\ st.cursor < LastOut /\ LastOut <= req.upper => b.removed = LastOut
  BY <1>1, <1>2, <1>3 DEF PageOut
<1> QED
  BY <1>4, <1>5, <1>6

\* What the server and the store say.
LEMMA StoreSays ==
  ASSUME Shape, Shape', Feed, Landed
  PROVE  /\ mine.joined <= mine.seq /\ mine.joined <= chan /\ (mine.in => LastOut < mine.joined) /\ (~mine.in => LastOut > mine.seq)
         /\ \A n \in Outs : n \in 1..now /\ n <= LastOut /\ (n < mine.joined => n <= PrevOut) /\ (n = LastOut \/ n < mine.joined)
         /\ \A n \in Lefts : n \in 1..now /\ n <= LastLeft
         /\ PrevOut < mine.joined /\ (PrevOut = 0 \/ PrevOut \in Outs)
         /\ (IF theirs.in THEN LastLeft < theirs.seq ELSE LastLeft > theirs.seq)
         /\ (st.fence = 0 \/ st.fence \in Outs) /\ (IF st.active THEN st.my = 0 ELSE st.fence = 0 \/ st.my > st.fence)
         /\ st.ch <= chan /\ st.my <= mine.seq
<1>1. StaysOK /\ StoreOK /\ Numbers
  BY DEF Feed, Shape
<1>2. /\ now \in Nat /\ chan \in 1..now /\ mine.seq \in 1..now /\ mine.joined \in 1..now /\ theirs.seq \in 1..now
      /\ LastOut \in 0..now /\ PrevOut \in 0..now /\ LastLeft \in 0..now
  BY LandedNumbers
<1>3. /\ \A n \in Outs : n \in 1..now /\ n <= LastOut /\ (n < mine.joined => n <= PrevOut)
      /\ \A n \in Lefts : n \in 1..now /\ n <= LastLeft
      /\ PrevOut < mine.joined /\ (PrevOut = 0 \/ PrevOut \in Outs)
  BY <1>1, <1>2 DEF Numbers
<1>4. \A n \in Outs : n = LastOut \/ n < mine.joined
  BY <1>1, <1>2, <1>3 DEF StaysOK
<1> QED
  BY <1>1, <1>3, <1>4 DEF StaysOK, StoreOK

LEMMA LandGone ==
  ASSUME Shape, Shape', Feed, Landed, Stores
  PROVE  GoneOK'
<1> SUFFICES ASSUME ~mine.in, st'.fence = LastOut
             PROVE  st'.active /\ (~unseen => st'.ch = 0 /\ (st'.th.seq = 0 \/ st'.th.gone))
  BY LandedNumbers DEF GoneOK, Landed
<1>1. req.page.my < LastOut /\ (~unseen => req.page.ch <= LastOut /\ req.page.th <= LastOut)
  BY LandedNumbers, PageSays, StoreSays
<1>2. CASE KeptMoves
  <2>1. st.fence = LastOut
    BY <1>2 DEF KeptMoves
  <2>2. st.active /\ (~unseen => st.ch = 0 /\ (st.th.seq = 0 \/ st.th.gone))
    BY <2>1 DEF Feed, GoneOK
  <2>3. st'.active
    BY <1>1, <1>2, <2>1, <2>2, LandedNumbers DEF KeptMoves, Shape, Stored
  <2>4. ~unseen => st'.ch = 0
    BY <1>1, <1>2, <2>1, <2>2, <2>3, LandedNumbers DEF KeptMoves
  <2>5. ~unseen => st'.th.seq = 0 \/ st'.th.gone
    BY <1>1, <1>2, <2>1, <2>2, <2>3, LandedNumbers DEF KeptMoves
  <2> QED
    BY <2>3, <2>4, <2>5
<1>3. CASE WipedMoves
  BY <1>1, <1>3, LandedNumbers DEF WipedMoves
<1> QED
  BY <1>2, <1>3 DEF Stores

LEMMA LandChannel ==
  ASSUME Shape, Shape', Feed, Landed, Stores
  PROVE  ChannelOK'
<1> SUFFICES ASSUME ~unseen, mine.in
             PROVE  /\ chan <= req.upper => st'.ch = chan
                    /\ mine.seq <= req.upper => st'.my = mine.seq
                    /\ mine.joined <= req.upper => st'.my >= mine.joined /\ st'.ch # 0
  BY LandedNumbers DEF ChannelOK, Landed
<1>0. Seen
  BY DEF Seen
<1>1. /\ chan <= st.cursor => st.ch = chan
      /\ mine.seq <= st.cursor => st.my = mine.seq
      /\ mine.joined <= st.cursor => st.my >= mine.joined /\ st.ch # 0
  BY DEF Feed, ChannelOK
<1>2. CASE mine.joined <= st.cursor
  <2>1. KeptMoves
    <3>1. st.my >= mine.joined /\ LastOut < mine.joined
      BY <1>1, <1>2, StoreSays
    <3> QED
      BY <3>1, StoreSays, LandedNumbers DEF Stores, WipedMoves
  <2>2. st.fence < mine.joined /\ ~st.active
    BY <1>1, <1>2, StoreSays, LandedNumbers
  <2>3. st'.my >= mine.joined /\ st'.ch # 0
    BY <1>1, <1>2, <2>1, LandedNumbers DEF KeptMoves
  <2>4. ~st'.active
    BY <2>1, <2>2 DEF KeptMoves
  <2>5. chan <= req.upper => st'.ch = chan
    BY <1>1, <2>1, <2>4, PageSays, StoreSays, LandedNumbers DEF KeptMoves
  <2>6. mine.seq <= req.upper => st'.my = mine.seq
    BY <1>1, <2>1, <2>2, PageSays, StoreSays, LandedNumbers DEF KeptMoves
  <2> QED
    BY <2>3, <2>5, <2>6
<1>3. CASE st.cursor < mine.joined /\ mine.joined <= req.upper
  <2>1. req.page.my >= mine.joined /\ req.page.ch >= mine.joined
    BY <1>0, <1>3, PageSays
  <2>2. st.fence < mine.joined
    BY StoreSays, LandedNumbers
  <2>3. KeptMoves
    <3>1. ~WipedMoves
      <4> SUFFICES ASSUME WipedMoves PROVE FALSE
        OBVIOUS
      <4>1. req.page.removed \in Outs /\ req.page.removed < mine.joined
        BY StoreSays, LandedNumbers DEF WipedMoves
      <4> QED
        BY <2>1, <2>2, <4>1, LandedNumbers DEF WipedMoves
    <3> QED
      BY <3>1 DEF Stores
  <2>4. req.page.my <= st'.my /\ st'.my >= mine.joined
    BY <2>1, <2>2, <2>3, LandedNumbers DEF KeptMoves
  <2>5. ~st'.active
    <3>1. st'.my = st.my => ~st.active
      BY <2>4, StoreSays, LandedNumbers
    <3> QED
      BY <2>3, <3>1 DEF KeptMoves
  <2>6. req.page.ch <= st'.ch
    BY <2>3, <2>5 DEF KeptMoves
  <2>7. st'.ch # 0
    BY <2>1, <2>6, LandedNumbers
  <2>8. chan <= req.upper => st'.ch = chan
    BY <1>1, <1>3, <2>3, <2>6, PageSays, StoreSays, LandedNumbers DEF KeptMoves
  <2>9. mine.seq <= req.upper => st'.my = mine.seq
    BY <1>1, <1>3, <2>3, <2>4, PageSays, StoreSays, LandedNumbers DEF KeptMoves
  <2> QED
    BY <2>4, <2>7, <2>8, <2>9
<1>4. CASE req.upper < mine.joined
  BY <1>4, StoreSays, LandedNumbers
<1> QED
  BY <1>2, <1>3, <1>4, LandedNumbers

LEMMA LandJoin ==
  ASSUME Shape, Shape', Feed, Landed, Stores
  PROVE  JoinHeard'
<1> SUFFICES ASSUME Sound, mine.joined <= req.upper
             PROVE  st'.fence = LastOut \/ (st'.my >= mine.joined /\ st'.ch # 0)
  BY LandedNumbers DEF JoinHeard, Landed
<1>1. CASE mine.joined <= st.cursor
  <2>1. st.fence = LastOut \/ (st.my >= mine.joined /\ st.ch # 0)
    BY <1>1 DEF Feed, JoinHeard
  <2>2. CASE KeptMoves
    BY <2>1, <2>2, LandedNumbers DEF KeptMoves
  <2>3. CASE WipedMoves
    BY <2>1, <2>3, StoreSays, LandedNumbers DEF WipedMoves
  <2> QED
    BY <2>2, <2>3 DEF Stores
<1>2. CASE ~(mine.joined <= st.cursor)
  <2>1. req.page.my >= mine.joined /\ req.page.ch >= mine.joined
    BY <1>2, PageSays, LandedNumbers DEF Sound
  <2>2. st.fence = LastOut \/ st.fence < mine.joined
    BY StoreSays, LandedNumbers
  <2>3. CASE KeptMoves
    <3>1. CASE st.fence = LastOut
      BY <2>3, <3>1 DEF KeptMoves
    <3>2. CASE st.fence < mine.joined
      <4>1. req.page.my <= st'.my /\ st'.my >= mine.joined
        BY <2>1, <2>3, <3>2, LandedNumbers DEF KeptMoves
      <4>2. ~st'.active
        <5>1. st'.my = st.my => ~st.active
          BY <4>1, StoreSays, LandedNumbers
        <5> QED
          BY <2>3, <5>1 DEF KeptMoves
      <4>3. req.page.ch <= st'.ch
        BY <2>3, <4>2 DEF KeptMoves
      <4> QED
        BY <2>1, <4>1, <4>3, LandedNumbers
    <3> QED
      BY <2>2, <3>1, <3>2
  <2>4. CASE WipedMoves
    <3> SUFFICES ASSUME req.page.removed # LastOut PROVE FALSE
      BY <2>4 DEF WipedMoves
    <3>1. req.page.removed < mine.joined
      BY <2>4, StoreSays DEF WipedMoves
    <3>2. st.fence < mine.joined /\ st.fence < req.page.removed
      BY <2>4, <3>1, StoreSays, LandedNumbers DEF WipedMoves
    <3> QED
      BY <2>1, <2>4, <3>1, <3>2, LandedNumbers DEF WipedMoves
  <2> QED
    BY <2>3, <2>4 DEF Stores
<1> QED
  BY <1>1, <1>2

\* The first page, onto a store without a membership.
LEMMA FirstSays ==
  ASSUME Shape, Shape', Feed, Landed, Stores, st.cursor = 0
  PROVE  LET b == req.page IN
         /\ st.my = 0 /\ st.th.seq = 0 /\ KeptMoves /\ PageKept
         /\ b.left = 0 /\ b.removed = 0 /\ \A i \in Ids : b.rows[i].seq = 0
         /\ ~req.ours => b.ch = 0 /\ b.my = 0
         /\ b.my # 0 => b.ch # 0
         /\ b.my # 0 /\ theirs.in /\ theirs.seq <= req.upper => b.th = theirs.seq
         /\ Sound => st.fence >= PrevOut \/ (b.my # 0 /\ \A n \in Outs : n < PrevOut => n < b.my)
<1>1. req.at = "page" /\ req.since = 0
  BY LandedNumbers DEF Landed
<1>2. FirstPage /\ StoreOK
  BY DEF Feed
<1>3. req.page.removed = 0
  BY <1>1, <1>2 DEF FirstPage
<1>4. ~WipedMoves
  BY <1>3, StoreSays, LandedNumbers DEF WipedMoves
<1>5. st.my = 0 /\ st.th.seq = 0
  BY <1>2 DEF StoreOK
<1> QED
  BY <1>1, <1>2, <1>4, <1>5 DEF FirstPage, Stores

LEMMA LandPrev ==
  ASSUME Shape, Shape', Feed, Landed, Stores
  PROVE  PrevHeard'
<1> SUFFICES ASSUME Sound
             PROVE  st'.fence >= PrevOut \/ (st'.ch # 0 /\ \A n \in Outs : n < PrevOut => n < st'.my)
  <2>1. Sound' = Sound /\ PrevOut' = PrevOut /\ Outs' = Outs
    BY LandedNumbers
  <2> QED
    BY <2>1 DEF PrevHeard
<1>0. \A n \in Outs : n \in 1..now
  BY StoreSays
<1>1. CASE st.cursor # 0
  <2>1. st.fence >= PrevOut \/ (st.ch # 0 /\ \A n \in Outs : n < PrevOut => n < st.my)
    BY <1>1 DEF Feed, PrevHeard
  <2>2. CASE KeptMoves
    <3>1. st'.fence = st.fence /\ st'.my >= st.my /\ st'.ch >= st.ch
      BY <2>2 DEF KeptMoves
    <3> QED
      BY <1>0, <2>1, <3>1, LandedNumbers
  <2>3. CASE WipedMoves
    <3>1. /\ st'.fence = req.page.removed /\ req.page.removed \in Outs /\ req.page.removed > st.fence
          /\ st.my = 0 \/ req.page.removed > st.my
      BY <2>3 DEF WipedMoves
    <3> SUFFICES ASSUME req.page.removed < PrevOut PROVE FALSE
      BY <3>1, LandedNumbers
    <3>2. ~(st.fence >= PrevOut)
      BY <3>1, LandedNumbers
    <3>3. req.page.removed < st.my
      BY <2>1, <3>1, <3>2
    <3> QED
      BY <3>1, <3>3, LandedNumbers
  <2> QED
    BY <2>2, <2>3 DEF Stores
<1>2. CASE st.cursor = 0
  <2>1. /\ st.my = 0 /\ KeptMoves /\ (req.page.my # 0 => req.page.ch # 0)
        /\ st.fence >= PrevOut \/ (req.page.my # 0 /\ \A n \in Outs : n < PrevOut => n < req.page.my)
    BY <1>2, FirstSays
  <2>2. CASE st.fence >= PrevOut
    BY <2>1, <2>2 DEF KeptMoves
  <2>3. CASE ~(st.fence >= PrevOut)
    <3>1. req.page.my # 0 /\ req.page.ch # 0 /\ \A n \in Outs : n < PrevOut => n < req.page.my
      BY <2>1, <2>3
    <3>2. st.fence = 0 \/ (st.fence \in Outs /\ st.fence < PrevOut)
      BY <2>3, StoreSays, LandedNumbers
    <3>3. req.page.my > st.fence
      BY <3>1, <3>2, LandedNumbers
    <3>4. st'.my >= req.page.my /\ ~st'.active /\ st'.fence = st.fence
      BY <2>1, <3>1, <3>3, LandedNumbers DEF KeptMoves
    <3>5. st'.ch # 0
      BY <2>1, <3>1, <3>4, LandedNumbers DEF KeptMoves
    <3> QED
      BY <1>0, <3>1, <3>4, <3>5, LandedNumbers
  <2> QED
    BY <2>2, <2>3
<1> QED
  BY <1>1, <1>2

LEMMA LandOut ==
  ASSUME Shape, Shape', Feed, Landed, Stores
  PROVE  OutHeard'
<1> SUFFICES ASSUME ~unseen, ~early', ~mine.in, LastOut <= req.upper
             PROVE  st'.ch = 0 /\ (st'.fence = LastOut \/ LastOut <= base')
  BY LandedNumbers DEF OutHeard, Landed
<1>0. ~early
  BY DEF Landed
<1>1. st'.fence = LastOut => st'.ch = 0
  BY LandGone, LandedNumbers DEF GoneOK, Landed
<1>2. LastOut >= 1
  BY StoreSays, LandedNumbers
<1>3. CASE st.cursor # 0 /\ LastOut <= st.cursor
  <2>1. st.ch = 0 /\ (st.fence = LastOut \/ LastOut <= base)
    BY <1>0, <1>3 DEF Feed, OutHeard
  <2>2. req.page.ch = 0 /\ base' = base
    BY <1>3, PageSays DEF Landed
  <2>3. CASE KeptMoves
    BY <2>1, <2>2, <2>3 DEF KeptMoves
  <2>4. CASE WipedMoves
    <3>1. st'.ch = 0
      BY <2>2, <2>4, LandedNumbers DEF WipedMoves
    <3>2. st.fence # LastOut
      BY <2>4, StoreSays, LandedNumbers DEF WipedMoves
    <3> QED
      BY <2>1, <2>2, <3>1, <3>2
  <2> QED
    BY <2>3, <2>4 DEF Stores
<1>4. CASE st.cursor # 0 /\ st.cursor < LastOut
  <2>1. req.page.removed = LastOut
    BY <1>4, PageSays
  <2>2. st'.fence = LastOut
    <3>1. CASE KeptMoves
      <4>1. st'.my < LastOut
        <5>1. st.my <= mine.seq /\ req.page.my <= mine.seq /\ mine.seq < LastOut
          BY PageSays, StoreSays
        <5> QED
          BY <3>1, <5>1, LandedNumbers DEF KeptMoves
      <4>2. LastOut <= st.fence
        BY <1>2, <2>1, <3>1, <4>1, LandedNumbers DEF KeptMoves
      <4>3. st.fence = LastOut
        BY <1>2, <4>2, StoreSays, LandedNumbers
      <4> QED
        BY <3>1, <4>3 DEF KeptMoves
    <3>2. CASE WipedMoves
      BY <2>1, <3>2 DEF WipedMoves
    <3> QED
      BY <3>1, <3>2 DEF Stores
  <2> QED
    BY <1>1, <2>2
<1>5. CASE st.cursor = 0
  <2>1. ~req.ours
    BY LandedNumbers DEF Feed, PageOurs
  <2>2. KeptMoves /\ req.page.ch = 0
    BY <1>5, <2>1, FirstSays
  <2>3. st.ch = 0
    BY <1>5 DEF Landed
  <2>4. base' = req.upper
    BY <1>5 DEF Landed
  <2> QED
    BY <2>2, <2>3, <2>4 DEF KeptMoves
<1> QED
  BY <1>3, <1>4, <1>5, LandedNumbers

LEMMA LandTheirs ==
  ASSUME Shape, Shape', Feed, Landed, Stores
  PROVE  TheirsOK'
<1>0. UNCHANGED <<theirs>> /\ LastLeft' = LastLeft
  BY LandedNumbers DEF Landed
<1>1. \/ st'.th = st.th \/ st'.th.seq = 0
      \/ st'.th.seq = req.page.th /\ ~st'.th.gone /\ req.page.th # 0
      \/ st'.th.seq = req.page.left /\ st'.th.gone /\ req.page.left \in Lefts
  BY PageSays, LandedNumbers DEF Stores, KeptMoves, WipedMoves
<1>2. TheirsOK
  BY DEF Feed
<1>3. CASE theirs.in
  BY <1>0, <1>1, <1>2, <1>3, PageSays, StoreSays, LandedNumbers DEF TheirsOK
<1>4. CASE ~theirs.in
  <2>1. /\ st.th.seq <= LastLeft /\ (st.th.seq = LastLeft => st.th.gone) /\ LastLeft > theirs.seq
        /\ req.page.th <= theirs.seq /\ \A n \in Lefts : n <= LastLeft
    BY <1>2, <1>4, PageSays, StoreSays DEF TheirsOK
  <2> QED
    BY <1>0, <1>1, <1>4, <2>1, LandedNumbers DEF TheirsOK
<1> QED
  BY <1>3, <1>4

\* The rows after a page: as they were, or not there, or the page's.
LEMMA RowsSay ==
  ASSUME Shape, Shape', Feed, Landed, Stores
  PROVE  \A i \in Ids :
           /\ st'.rows[i].seq \in 0..now /\ req.page.rows[i].seq \in 0..now
           /\ st'.rows[i].seq = 0 \/ (KeptMoves /\ st'.rows[i] = st.rows[i]) \/ Arrives(i)
<1>1. \A i \in Ids : st'.rows[i].seq \in 0..now /\ req.page.rows[i].seq \in 0..now
  BY LandedNumbers DEF Shape, Stored, Paged, Landed
<1>2. CASE KeptMoves /\ PageKept
  BY <1>1, <1>2 DEF PageKept
<1>3. CASE PageWiped
  BY <1>1, <1>3 DEF PageWiped
<1> QED
  BY <1>2, <1>3 DEF Stores

LEMMA LandStore ==
  ASSUME Shape, Shape', Feed, Landed, Stores
  PROVE  StaysOK' /\ StoreOK' /\ LoadsOK' /\ CovOK'
<1> USE DEF Landed
<1>0. /\ Outs' = Outs /\ LastOut' = LastOut /\ LastLeft' = LastLeft /\ now' = now
      /\ UNCHANGED <<msgs, mine, theirs, chan, loads>>
  BY LandedNumbers
<1>1. StaysOK'
  BY <1>0 DEF Feed, StaysOK
<1>2. StoreOK'
  <2>1. base' \in 0..now
    BY LandedNumbers DEF Feed, StoreOK
  <2>2. st'.fence = 0 \/ st'.fence \in Outs
    BY StoreSays DEF Stores, KeptMoves, WipedMoves
  <2>3. IF st'.active THEN st'.my = 0 ELSE st'.fence = 0 \/ st'.my > st'.fence
    <3>1. CASE KeptMoves
      <4>1. CASE st.active
        BY <3>1, <4>1, StoreSays, LandedNumbers DEF KeptMoves
      <4>2. CASE ~st.active
        BY <3>1, <4>2, StoreSays, LandedNumbers DEF KeptMoves
      <4> QED
        BY <4>1, <4>2
    <3>2. CASE WipedMoves
      BY <3>2 DEF WipedMoves
    <3> QED
      BY <3>1, <3>2 DEF Stores
  <2>4. st'.ch <= chan /\ st'.my <= mine.seq
    <3>1. st'.my \in {st.my, req.page.my, 0} /\ st'.ch \in {st.ch, req.page.ch, 0}
      BY DEF Stores, KeptMoves, WipedMoves
    <3> QED
      BY <3>1, StoreSays, PageSays, LandedNumbers
  <2>5. st'.cursor # 0
    BY LandedNumbers
  <2>6. ASSUME st'.ch = 0, NEW i \in Ids PROVE st'.rows[i].seq = 0
    <3>1. ~Arrives(i)
      BY <2>6 DEF Arrives, MayLand
    <3>2. CASE KeptMoves /\ st'.rows[i] = st.rows[i]
      <4>1. st.ch = 0
        BY <2>6, <3>2, LandedNumbers DEF KeptMoves
      <4> QED
        BY <3>2, <4>1 DEF Feed, StoreOK
    <3> QED
      BY <3>1, <3>2, RowsSay
  <2>7. ASSUME NEW i \in Ids PROVE VersionIs(i, st'.rows[i])
    <3>1. VersionIs(i, st.rows[i]) /\ VersionIs(i, req.page.rows[i])
      BY LandedNumbers DEF Feed, StoreOK, PageOK
    <3>2. CASE Arrives(i)
      BY <3>1, <3>2 DEF Arrives, VersionIs
    <3>3. CASE st'.rows[i].seq = 0
      BY <3>3 DEF VersionIs
    <3> QED
      BY <3>1, <3>2, <3>3, RowsSay
  <2>8. \A i \in Ids : VersionIs(i, st.rows[i])' <=> VersionIs(i, st'.rows[i])
    BY <1>0 DEF VersionIs
  <2>9. \A i \in Ids : VersionIs(i, st.rows[i])'
    BY <2>7, <2>8
  <2> QED
    BY <1>0, <2>1, <2>2, <2>3, <2>4, <2>5, <2>6, <2>9 DEF StoreOK
<1>3. LoadsOK'
  <2>1. ASSUME NEW l \in loads
        PROVE  /\ l.gen <= st'.gen
               /\ l.gen = st'.gen => l.floor <= st'.fence /\ (l.floor = st'.fence => st'.ch # 0)
    <3>1. l.gen <= st.gen /\ (l.gen = st.gen => l.floor <= st.fence /\ (l.floor = st.fence => st.ch # 0)) /\ l.floor \in 0..now
      BY DEF Feed, LoadsOK, Shape, InFlight
    <3>2. CASE KeptMoves
      BY <3>1, <3>2, LandedNumbers DEF KeptMoves
    <3>3. CASE WipedMoves
      BY <3>1, <3>3, LandedNumbers DEF WipedMoves
    <3> QED
      BY <3>2, <3>3 DEF Stores
  <2>2. \A l \in loads, i \in Ids : VersionIs(i, l.rows[i])'
    BY <1>0 DEF Feed, LoadsOK, VersionIs
  <2> QED
    BY <1>0, <2>1, <2>2 DEF LoadsOK, VersionIs
<1>4. CovOK'
  <2>1. CovOK
    BY DEF Feed
  <2>2. CASE KeptMoves /\ PageKept
    <3>1. SettledRange(st.cov, st'.cov)
      BY <2>2 DEF PageKept
    <3>2. st.ch # 0 /\ ~st.active => st'.ch # 0 /\ ~st'.active
      BY <2>2, LandedNumbers DEF KeptMoves
    <3> QED
      BY <2>1, <3>1, <3>2 DEF CovOK, CovType, SettledRange
  <2>3. CASE WipedMoves
    <3>1. st'.cov = NoCoverage
      BY <2>3 DEF WipedMoves
    <3> QED
      BY <3>1 DEF CovOK, NoCoverage
  <2> QED
    BY <2>2, <2>3 DEF Stores
<1> QED
  BY <1>1, <1>2, <1>3, <1>4

LEMMA LandLive ==
  ASSUME Shape, Shape', Feed, Landed
  PROVE  LiveKinds' /\ LiveOK' /\ LiveTold'
<1>0. /\ Outs' = Outs /\ LastOut' = LastOut /\ PrevOut' = PrevOut /\ UNCHANGED <<msgs, mine, chan, live, unseen>>
  BY LandedNumbers DEF Landed
<1> QED
  BY <1>0 DEF Feed, LiveKinds, LiveOK, LiveTold, VersionIs, Told

\* The other's membership lands.
LEMMA TheirsLand ==
  ASSUME Shape, Shape', Feed, Landed, KeptMoves, theirs.in,
         st.th.seq = theirs.seq \/ (req.page.th = theirs.seq /\ ~(st'.active /\ theirs.seq <= st.fence))
  PROVE  st'.th.seq = theirs.seq
<1>1. req.page.left < theirs.seq /\ req.page.th <= theirs.seq /\ st.th.seq <= theirs.seq
  BY PageSays, StoreSays, LandedNumbers DEF Feed, TheirsOK
<1>2. CASE st.th.seq = theirs.seq
  BY <1>1, <1>2, LandedNumbers DEF KeptMoves
<1>3. CASE st.th.seq # theirs.seq
  BY <1>1, <1>3, LandedNumbers DEF KeptMoves
<1> QED
  BY <1>2, <1>3

LEMMA LandHere ==
  ASSUME Shape, Shape', Feed, Landed, Stores, Sound, theirs.in, theirs.seq <= req.upper,
         st'.my >= mine.joined \/ st'.fence < PrevOut
  PROVE  st'.th.seq = theirs.seq
<1>0. PrevHeard' /\ Sound' /\ PrevOut' = PrevOut /\ Outs' = Outs /\ st'.cursor # 0
  <2>1. Sound' = Sound /\ PrevOut' = PrevOut /\ Outs' = Outs /\ req.upper >= 1
    BY LandedNumbers
  <2>2. st'.cursor = req.upper
    BY DEF Landed
  <2>3. st'.cursor # 0
    BY <2>1, <2>2, LandedNumbers
  <2>4. PrevHeard'
    BY LandPrev
  <2> QED
    BY <2>1, <2>3, <2>4
<1>1. st'.fence >= PrevOut \/ \A n \in Outs : n < PrevOut => n < st'.my
  BY <1>0 DEF PrevHeard
<1>2. CASE WipedMoves
  BY <1>1, <1>2, StoreSays, LandedNumbers DEF WipedMoves
<1>3. CASE KeptMoves /\ st.cursor = 0
  <2>1. /\ st.my = 0 /\ st.th.seq = 0
        /\ req.page.my # 0 => req.page.th = theirs.seq
        /\ st.fence >= PrevOut \/ (req.page.my # 0 /\ \A n \in Outs : n < PrevOut => n < req.page.my)
    BY <1>3, FirstSays
  <2>2. st'.my # 0
    <3>1. CASE st'.my >= mine.joined
      BY <3>1, LandedNumbers
    <3>2. CASE st'.fence < PrevOut
      <4>1. st.fence < PrevOut
        BY <1>3, <3>2 DEF KeptMoves
      <4>2. req.page.my # 0 /\ \A n \in Outs : n < PrevOut => n < req.page.my
        BY <2>1, <4>1, LandedNumbers
      <4>3. req.page.my > st.fence
        BY <4>1, <4>2, StoreSays, LandedNumbers
      <4> QED
        BY <1>3, <4>2, <4>3, LandedNumbers DEF KeptMoves
    <3> QED
      BY <3>1, <3>2
  <2>3. req.page.my # 0 /\ ~st'.active
    BY <1>3, <2>1, <2>2 DEF KeptMoves
  <2> QED
    BY <1>3, <2>1, <2>3, TheirsLand
<1>4. CASE KeptMoves /\ st.cursor # 0 /\ (st.my >= mine.joined \/ st.fence < PrevOut)
  <2>1. st.th.seq = theirs.seq \/ theirs.seq > st.cursor
    BY <1>4 DEF Feed, TheirsHeard
  <2>2. ~(st'.active /\ theirs.seq <= st.fence)
    <3>1. CASE st.my >= mine.joined
      BY <1>4, <3>1, StoreSays, LandedNumbers DEF KeptMoves
    <3>2. CASE st.fence < PrevOut
      <4>1. \A n \in Outs : n < PrevOut => n < st.my
        <5>1. st.fence >= PrevOut \/ \A n \in Outs : n < PrevOut => n < st.my
          BY <1>4 DEF Feed, PrevHeard
        <5>2. ~(st.fence >= PrevOut)
          BY <3>2, LandedNumbers
        <5> QED
          BY <5>1, <5>2
      <4>2. st.fence = 0 \/ st.fence < st.my
        BY <3>2, <4>1, StoreSays
      <4> QED
        BY <1>4, <4>2, StoreSays, LandedNumbers DEF KeptMoves
    <3> QED
      BY <1>4, <3>1, <3>2
  <2>3. theirs.seq > st.cursor => req.page.th = theirs.seq
    <3>1. req.at \in Reading /\ req.at \in AtMemberships /\ req.since # 0
      BY <1>4, LandedNumbers DEF Landed, AtMemberships
    <3> QED
      BY <1>4, <3>1, LandedNumbers DEF Feed, PageTheirs
  <2> QED
    BY <1>4, <2>1, <2>2, <2>3, TheirsLand
<1>5. CASE KeptMoves /\ st.cursor # 0 /\ ~(st.my >= mine.joined \/ st.fence < PrevOut)
  <2>1. st'.my >= mine.joined /\ st'.my # st.my /\ ~st'.active /\ st'.my = req.page.my /\ (st.active => req.page.my > st.fence)
    BY <1>5 DEF KeptMoves
  <2>2. st.cursor < mine.joined
    <3> SUFFICES ASSUME mine.joined <= st.cursor PROVE FALSE
      BY LandedNumbers
    <3>1. st.fence = LastOut
      BY <1>5 DEF Feed, JoinHeard
    <3>2. ~mine.in
      BY <1>5 DEF Feed, ChannelOK, Sound
    <3>3. st.active
      BY <3>1, <3>2 DEF Feed, GoneOK
    <3> QED
      BY <2>1, <3>1, <3>2, <3>3, PageSays, StoreSays, LandedNumbers
  <2>3. req.page.th = theirs.seq
    <3>1. req.at \in Reading /\ req.at \in AtNewMembers /\ req.since # 0
      BY <1>5, LandedNumbers DEF Landed, AtNewMembers
    <3> QED
      BY <2>1, <2>2, <3>1 DEF Feed, PageTheirs
  <2> QED
    BY <1>5, <2>1, <2>3, TheirsLand
<1> QED
  BY <1>2, <1>3, <1>4, <1>5 DEF Stores

LEMMA LandHeard ==
  ASSUME Shape, Shape', Feed, Landed, Stores
  PROVE  TheirsHeard'
<1>0. UNCHANGED <<theirs, mine>> /\ LastLeft' = LastLeft /\ PrevOut' = PrevOut /\ Sound' = Sound /\ st'.cursor = req.upper
  BY LandedNumbers DEF Landed
<1>1. ASSUME Sound, ~theirs.in, LastLeft <= req.upper
      PROVE  st'.th.seq = 0 \/ st'.th.gone
  <2>1. req.page.th = 0
    BY <1>1, PageSays, LandedNumbers
  <2>2. CASE WipedMoves
    BY <2>1, <2>2, LandedNumbers DEF WipedMoves
  <2>3. CASE KeptMoves
    <3>1. CASE st.cursor = 0
      <4>1. st.th.seq = 0
        BY <3>1, FirstSays
      <4> QED
        BY <2>1, <2>3, <4>1, LandedNumbers DEF KeptMoves
    <3>2. CASE st.cursor # 0
      <4>1. st.th.seq = 0 \/ st.th.gone \/ LastLeft > st.cursor
        BY <1>1, <3>2 DEF Feed, TheirsHeard
      <4>2. LastLeft > st.cursor => st.th.seq = 0 \/ st.th.gone \/ req.page.left = LastLeft
        <5>1. req.at \in AtTombs /\ req.since # 0
          BY <3>2, LandedNumbers DEF Landed, AtTombs
        <5> QED
          BY <1>1, <5>1, LandedNumbers DEF Feed, PageTheirs
      <4>3. st.th.seq <= LastLeft /\ (st.th.seq = LastLeft => st.th.gone)
        BY <1>1 DEF Feed, TheirsOK
      <4> QED
        BY <2>1, <2>3, <4>1, <4>2, <4>3, LandedNumbers DEF KeptMoves
    <3> QED
      BY <3>1, <3>2
  <2> QED
    BY <2>2, <2>3 DEF Stores
<1>2. ASSUME Sound, theirs.in, theirs.seq <= req.upper, st'.my >= mine.joined \/ st'.fence < PrevOut
      PROVE  st'.th.seq = theirs.seq
  BY <1>2, LandHere
<1> QED
  BY <1>0, <1>1, <1>2, LandedNumbers DEF TheirsHeard

\* A version a page was to bring is here after it, or still to come.
StillDue(n) ==
  n > st'.cursor /\ n > st'.fence /\ (st'.fence >= PrevOut /\ st'.my < mine.joined => n > mine.joined)

LEMMA DueAfter ==
  ASSUME Shape, Shape', Feed, Landed
  PROVE  \A i \in DOMAIN msgs : StillDue(msgs[i].seq) => Due(msgs[i].seq)'
<1>1. PrevOut' = PrevOut /\ mine' = mine /\ msgs' = msgs
  BY LandedNumbers DEF Landed
<1> QED
  BY <1>1 DEF StillDue, Due

LEMMA MessageIs ==
  ASSUME Shape, Shape', Feed, Landed, Stores, NEW i \in DOMAIN msgs
  PROVE  /\ i \in Ids /\ msgs[i].seq \in 1..now /\ msgs[i].seq \in Int /\ st'.rows[i].seq \in Int /\ st'.rows[i].seq <= msgs[i].seq
         /\ st.rows[i].seq \in Int /\ (st'.ch = 0 => st'.rows[i].seq = 0)
<1>1. i \in Ids /\ msgs[i].seq \in 1..now
  BY DEF Shape, Server
<1>2. StoreOK' /\ msgs' = msgs
  BY LandStore DEF Landed
<1>3. st'.rows[i].seq = 0 \/ st'.rows[i].seq <= msgs[i].seq
  BY <1>1, <1>2 DEF StoreOK, VersionIs
<1>4. st'.rows[i].seq \in 0..now /\ st.rows[i].seq \in 0..now
  BY <1>1, RowsSay DEF Shape, Stored
<1>5. st'.ch = 0 => st'.rows[i].seq = 0
  BY <1>1, <1>2 DEF StoreOK
<1> QED
  BY <1>1, <1>3, <1>4, <1>5, LandedNumbers

LEMMA Delivered ==
  ASSUME Shape, Shape', Feed, Landed, KeptMoves, PageKept, Sound, st.cursor # 0, st'.ch # 0,
         NEW i \in DOMAIN msgs, Due(msgs[i].seq)
  PROVE  st'.rows[i].seq = msgs[i].seq \/ StillDue(msgs[i].seq)
<1> DEFINE m == msgs[i].seq
<1>0. Stores
  BY DEF Stores
<1>1. i \in Ids /\ m \in 1..now /\ m \in Int /\ st'.rows[i].seq \in Int /\ st'.rows[i].seq <= m
  BY <1>0, MessageIs
<1>2. st'.fence = st.fence /\ st'.my >= st.my /\ st'.cursor = req.upper
  BY DEF KeptMoves, Landed
<1>3. m > st.fence /\ (st.fence >= PrevOut /\ st.my < mine.joined => m > mine.joined)
  BY DEF Due
<1>4. CASE m <= req.upper
  <2>1. req.page.rows[i] = msgs[i]
    <3>1. req.at = "page" /\ req.since # 0
      BY LandedNumbers DEF Landed
    <3> QED
      BY <1>4, <3>1 DEF Feed, PageRows
  <2>2. MayLand(st', m, FALSE)
    BY <1>1, <1>2, <1>3, LandedNumbers DEF MayLand, Fenced
  <2>3. req.page.rows[i].seq = m /\ m # 0
    BY <1>1, <2>1
  <2>4. st'.rows[i].seq >= req.page.rows[i].seq
    BY <1>1, <2>2, <2>3 DEF PageKept
  <2> QED
    BY <1>1, <2>3, <2>4
<1>5. CASE ~(m <= req.upper)
  BY <1>1, <1>2, <1>3, <1>5, LandedNumbers DEF StillDue
<1> QED
  BY <1>4, <1>5

\* What was here stays.
LEMMA RowStays ==
  ASSUME Shape, Shape', Feed, Landed, KeptMoves, PageKept, NEW i \in DOMAIN msgs
  PROVE  /\ st.rows[i].seq = msgs[i].seq => st'.rows[i].seq = msgs[i].seq
         /\ st.rows[i].seq # 0 => st'.rows[i].seq # 0
<1>0. Stores
  BY DEF Stores
<1>1. /\ i \in Ids /\ msgs[i].seq \in Int /\ st'.rows[i].seq \in Int /\ st'.rows[i].seq <= msgs[i].seq
      /\ st.rows[i].seq \in Int
  BY <1>0, MessageIs
<1>2. st.rows[i].seq \in 0..now /\ now \in Int
  BY <1>1, LandedNumbers DEF Shape, Stored
<1>3. st'.rows[i].seq >= st.rows[i].seq
  BY <1>1 DEF PageKept
<1> QED
  BY <1>1, <1>2, <1>3

\* The first page brings no messages, to a store without any.
LEMMA FirstEmpty ==
  ASSUME Shape, Shape', Feed, Landed, Stores, st.cursor = 0, ~early'
  PROVE  st.ch = 0 /\ ~st.cov.held /\ \A i \in Ids : st'.rows[i].seq = 0
<1>1. st.ch = 0
  BY DEF Landed
<1>2. ~st.cov.held /\ \A i \in Ids : st.rows[i].seq = 0
  BY <1>1 DEF Feed, CovOK, StoreOK
<1>3. \A i \in Ids : ~Arrives(i)
  BY FirstSays DEF Arrives
<1> QED
  BY <1>1, <1>2, <1>3, RowsSay

LEMMA LandRows ==
  ASSUME Shape, Shape', Feed, Landed, Stores
  PROVE  RowsExact'
<1> SUFFICES ASSUME Exact', NEW i \in DOMAIN msgs, i \in Ids, st'.rows[i].seq # 0, st'.rows[i].seq # msgs[i].seq
             PROVE  StillDue(msgs[i].seq)
  <2>1. StoreOK' /\ msgs' = msgs
    BY LandStore DEF Landed
  <2>2. \A i \in Ids : st'.rows[i].seq # 0 => i \in DOMAIN msgs
    BY <2>1 DEF StoreOK, VersionIs
  <2> QED
    BY <2>1, <2>2, DueAfter DEF RowsExact
<1>1. Exact /\ Sound /\ ~early' /\ ~unseen /\ st.cursor # 0
  <2>1. Exact /\ ~early'
    BY LandedNumbers DEF Exact
  <2> QED
    BY <2>1, FirstEmpty DEF Exact, Sound
<1>2. /\ msgs[i].seq \in Int /\ st'.rows[i].seq \in Int /\ st'.rows[i].seq <= msgs[i].seq /\ st'.ch # 0
  BY MessageIs
<1>3. CASE Arrives(i)
  <2> DEFINE v == req.page.rows[i]
  <2>1. v.seq # 0 /\ st'.rows[i].seq = v.seq /\ v.seq > st'.fence
    BY <1>3 DEF Arrives, MayLand
  <2>2. msgs[i].seq > req.upper
    BY <2>1, LandedNumbers DEF Feed, PageOK
  <2>3. v.seq = msgs[i].seq \/ msgs[i].seq > mine.joined \/ v.seq <= PrevOut
    BY <1>1, <2>1, LandedNumbers DEF Feed, PageTold, Told
  <2>4. st'.cursor = req.upper
    BY DEF Landed
  <2> HIDE DEF v
  <2> QED
    BY <1>2, <2>1, <2>2, <2>3, <2>4, LandedNumbers DEF StillDue
<1>4. CASE ~Arrives(i)
  <2>1. KeptMoves /\ st'.rows[i] = st.rows[i]
    BY <1>4, RowsSay
  <2>2. PageKept
    BY <2>1, LandedNumbers DEF Stores, KeptMoves, WipedMoves
  <2>3. Due(msgs[i].seq)
    BY <1>1, <2>1 DEF Feed, RowsExact
  <2> QED
    BY <1>1, <1>2, <2>1, <2>2, <2>3, Delivered
<1> QED
  BY <1>3, <1>4

LEMMA ExactBefore ==
  ASSUME Shape, Shape', Feed, Landed, Exact'
  PROVE  Exact /\ Sound /\ ~early' /\ ~unseen
<1>1. Exact /\ ~early'
  BY LandedNumbers DEF Exact
<1> QED
  BY <1>1 DEF Exact, Sound

LEMMA LandRange ==
  ASSUME Shape, Shape', Feed, Landed, Stores
  PROVE  RangeExact'
<1> SUFFICES ASSUME Exact', st'.cov.held, NEW i \in DOMAIN msgs, st'.cov.complete \/ i >= st'.cov.bottom, Shown(i)
             PROVE  st'.rows[i].seq # 0 \/ StillDue(msgs[i].seq)
  <2>1. msgs' = msgs
    BY DEF Landed
  <2> QED
    BY <2>1, DueAfter DEF RangeExact, Shown
<1>1. Exact /\ Sound /\ ~early' /\ ~unseen
  BY ExactBefore
<1>2. ~WipedMoves
  BY DEF WipedMoves, NoCoverage
<1>3. KeptMoves /\ PageKept /\ SettledRange(st.cov, st'.cov)
  BY <1>2 DEF Stores, PageKept
<1>4. st.cov.held /\ (st.cov.complete \/ i >= st.cov.bottom)
  BY <1>3 DEF SettledRange, Feed, CovOK
<1>5. st.cursor # 0
  BY <1>1, <1>4, FirstEmpty
<1>6. st'.ch # 0
  BY LandStore DEF CovOK
<1>7. st.rows[i].seq # 0 \/ Due(msgs[i].seq)
  BY <1>1, <1>4 DEF Feed, RangeExact
<1>8. msgs[i].seq # 0
  BY MessageIs, LandedNumbers
<1> QED
  BY <1>1, <1>3, <1>5, <1>6, <1>7, <1>8, RowStays, Delivered

LEMMA LandLoads ==
  ASSUME Shape, Shape', Feed, Landed, Stores
  PROVE  LoadsExact'
<1> SUFFICES ASSUME Exact', NEW l \in loads, NEW i \in DOMAIN msgs,
                    l.at = "read", l.gen = st.gen, l.floor = st'.fence,
                    l.rows[i].seq # msgs[i].seq, l.rows[i].seq # 0 \/ (Shown(i) /\ Within(l, i))
             PROVE  StillDue(msgs[i].seq) \/ st'.rows[i].seq = msgs[i].seq
  <2>1. msgs' = msgs /\ loads' = loads /\ st'.gen = st.gen
    BY DEF Landed
  <2> QED
    BY <2>1, DueAfter DEF LoadsExact, Shown
<1>1. Exact /\ Sound /\ ~early' /\ ~unseen
  BY ExactBefore
<1>2. l.floor \in 0..now /\ l.floor <= st.fence /\ (l.floor = st.fence => st.ch # 0)
  BY DEF Feed, LoadsOK, Shape, InFlight
<1>3. KeptMoves /\ PageKept /\ l.floor = st.fence
  <2>1. ~WipedMoves
    BY <1>2, LandedNumbers DEF WipedMoves
  <2> QED
    BY <2>1 DEF Stores, KeptMoves
<1>4. st.ch # 0 /\ st'.ch # 0
  BY <1>2, <1>3, LandedNumbers DEF KeptMoves
<1>5. st.cursor # 0
  BY <1>1, <1>4 DEF Landed
<1>6. Due(msgs[i].seq) \/ st.rows[i].seq = msgs[i].seq
  BY <1>1, <1>3 DEF Feed, LoadsExact
<1> QED
  BY <1>1, <1>3, <1>4, <1>5, <1>6, RowStays, Delivered

LEMMA LandEvents ==
  ASSUME Shape, Shape', Feed, Landed, Stores
  PROVE  LiveExact'
<1> SUFFICES ASSUME Exact', NEW e \in live, NEW i \in Ids, e.rows[i].seq # 0,
                    e.rows[i].seq # msgs[i].seq, ~(msgs[i].seq > req.upper), ~(e.rows[i].seq <= base')
             PROVE  st'.rows[i].seq = msgs[i].seq \/ e.rows[i].seq <= st'.fence
  <2>1. msgs' = msgs /\ live' = live /\ st'.cursor = req.upper
    BY DEF Landed
  <2> QED
    BY <2>1 DEF LiveExact
<1> DEFINE n == e.rows[i].seq
           m == msgs[i].seq
<1>1. Exact /\ Sound /\ ~early' /\ ~unseen
  BY ExactBefore
<1>2. i \in DOMAIN msgs /\ n <= m /\ n \in 0..now
  BY DEF Feed, LiveOK, VersionIs, Shape, InFlight
<1>3. m \in 1..now /\ m <= req.upper
  BY <1>2, MessageIs, LandedNumbers
<1>4. (~mine.in => n <= LastOut) /\ (n = m \/ m > mine.joined \/ n <= PrevOut)
  BY <1>1 DEF Feed, LiveTold, Told
<1>5. st.cursor # 0 /\ base' = base
  <2>1. st.cursor = 0 => base' = req.upper
    BY DEF Landed
  <2>2. st.cursor # 0
    BY <1>2, <1>3, <2>1, LandedNumbers
  <2> QED
    BY <2>2 DEF Landed
<1>6. st.rows[i].seq = m \/ m > st.cursor \/ n <= st.fence
  BY <1>1, <1>5 DEF Feed, LiveExact
<1>20. (st'.fence = LastOut \/ (st'.my >= mine.joined /\ st'.ch # 0)) \/ mine.joined > req.upper
  <2>1. JoinHeard' /\ Sound' = Sound /\ mine' = mine /\ LastOut' = LastOut /\ st'.cursor = req.upper
    BY LandJoin, LandedNumbers DEF Landed
  <2> QED
    BY <1>1, <2>1, LandedNumbers DEF JoinHeard
<1>21. mine.in /\ mine.joined <= req.upper => st'.my >= mine.joined /\ st'.ch # 0
  <2>1. ChannelOK' /\ unseen' = unseen /\ mine' = mine /\ st'.cursor = req.upper
    BY LandChannel DEF Landed
  <2> QED
    BY <1>1, <2>1 DEF ChannelOK
<1> HIDE DEF n, m
<1>7. CASE WipedMoves
  <2> SUFFICES ASSUME n > st'.fence PROVE FALSE
    BY <1>2, LandedNumbers DEF n
  <2>1. st'.my = 0 /\ st'.fence \in Outs
    BY <1>7 DEF WipedMoves
  <2>2. st'.fence >= PrevOut
    <3>1. PrevHeard' /\ Sound' = Sound /\ PrevOut' = PrevOut /\ Outs' = Outs /\ st'.cursor = req.upper
      BY LandPrev, LandedNumbers DEF Landed
    <3>2. st'.fence >= PrevOut \/ \A k \in Outs : k < PrevOut => k < st'.my
      BY <1>1, <3>1, LandedNumbers DEF PrevHeard
    <3> QED
      BY <2>1, <3>2, StoreSays, LandedNumbers
  <2>3. m > mine.joined
    BY <1>2, <1>4, <2>2, LandedNumbers DEF n, m
  <2>4. mine.joined <= req.upper /\ st'.fence = LastOut
    BY <1>3, <1>20, <2>1, <2>3, LandedNumbers
  <2>5. ~mine.in
    BY <1>21, <2>1, <2>4, LandedNumbers
  <2> QED
    BY <1>2, <1>4, <2>4, <2>5, LandedNumbers
<1>8. CASE KeptMoves /\ PageKept
  <2>1. CASE st.rows[i].seq = m
    BY <1>2, <1>8, <2>1, RowStays DEF m
  <2>2. CASE n <= st.fence
    BY <1>8, <2>2 DEF KeptMoves, n
  <2>3. CASE m > st.cursor /\ ~(n <= st.fence)
    <3>1. n > st.fence /\ m > st.fence
      BY <1>2, <1>3, <2>3, LandedNumbers
    <3>2. st.fence >= PrevOut => m > mine.joined /\ mine.joined <= req.upper
      BY <1>2, <1>3, <1>4, <3>1, LandedNumbers DEF n, m
    <3>3. Due(m)
      BY <2>3, <3>1, <3>2 DEF Due
    <3>4. st'.ch # 0
      <4>1. CASE st.fence >= PrevOut
        <5>1. CASE mine.in
          BY <1>21, <3>2, <4>1, <5>1
        <5>2. CASE ~mine.in
          <6>1. st'.fence = st.fence
            BY <1>8 DEF KeptMoves
          <6>2. st.fence # LastOut
            BY <1>2, <1>4, <3>1, <5>2, LandedNumbers
          <6> QED
            BY <1>20, <3>2, <4>1, <6>1, <6>2, LandedNumbers
        <5> QED
          BY <5>1, <5>2
      <4>2. CASE ~(st.fence >= PrevOut)
        <5>1. st.ch # 0
          BY <1>1, <1>5, <4>2 DEF Feed, PrevHeard
        <5> QED
          BY <1>8, <5>1, LandedNumbers DEF KeptMoves
      <4> QED
        BY <4>1, <4>2
    <3>5. st'.rows[i].seq = m \/ StillDue(m)
      BY <1>1, <1>2, <1>5, <1>8, <3>3, <3>4, Delivered DEF m
    <3>6. ~StillDue(m)
      BY <1>3, LandedNumbers DEF StillDue, Landed
    <3> QED
      BY <3>5, <3>6 DEF m
  <2> QED
    BY <1>6, <2>1, <2>2, <2>3
<1> QED
  BY <1>7, <1>8 DEF Stores

LEMMA PageKeepsFeed ==
  ASSUME Inv, Shape, Shape', Feed, LandPage
  PROVE  Feed'
<1>1. /\ sends' = sends /\ chan' = chan /\ msgs' = msgs /\ req' = Idle
      /\ Landed
      /\ ~Wipes(st, req.page) => PageKept
      /\ Wipes(st, req.page) => PageWiped
  BY LandDoes DEF Landed
<1>2. Stores
  BY <1>1, PageMoves DEF Stores
<1>3. Outs' = Outs
  BY <1>1, LandedNumbers
<1>4. SendsOK'
  BY <1>1, <1>3 DEF Feed, SendsOK
<1>5. Paperless' /\ CountedOK'
  BY <1>1 DEF Paperless, CountedOK, Idle, Reading
<1>6. PageParts'
  BY <1>5, NoPageAfter
<1>7. StoreParts'
  BY <1>1, <1>2, LandStore, LandLoads, LandGone, LandChannel, LandJoin, LandPrev, LandOut, LandRows, LandRange,
     LandTheirs, LandHeard DEF StoreParts
<1>8. LiveParts'
  BY <1>1, <1>2, LandLive, LandEvents DEF LiveParts
<1> QED
  BY <1>4, <1>6, <1>7, <1>8, FeedIsAfter

-----------------------------------------------------------------------------
(* The server's changes, but for those of the user's membership: whatever  *)
(* is changed has a number above all that is stored, sent and asked for.   *)

Quiet ==
  /\ now' = now + 1 /\ UNCHANGED <<live, st, req, loads, base, early, skipped, unseen>>
  /\ mine'.in = mine.in /\ mine'.joined = mine.joined /\ (mine'.seq = mine.seq \/ (mine.in /\ mine'.seq = now + 1))
  /\ chan' \in {chan, now + 1}
  /\ Outs' = Outs
  /\ \/ theirs' = theirs /\ Lefts' = Lefts
     \/ theirs.in /\ ~theirs'.in /\ theirs'.seq = theirs.seq /\ Lefts' = Lefts \cup {now + 1}
     \/ ~theirs.in /\ theirs'.in /\ theirs'.seq = now + 1 /\ Lefts' = Lefts
  /\ \A i \in DOMAIN msgs : i \in DOMAIN msgs' /\ (msgs'[i] = msgs[i] \/ (msgs'[i].seq = now + 1 /\ ~msgs[i].gone))
  /\ \A i \in DOMAIN msgs' : i \in DOMAIN msgs \/ msgs'[i].seq = now + 1
  /\ \A e \in sends' : \/ e \in sends \/ e.kind \in {"new", "update"}
                       \/ e.kind = "channel" /\ e.seq = 0
                       \/ e.kind = "delete" /\ e.seq = msgs'[e.id].seq /\ msgs'[e.id].gone

LEMMA SendIsQuiet ==
  ASSUME ServerOK, NEW own \in BOOLEAN, Send(own)
  PROVE  Quiet
<1>0. now \in Nat /\ Len(msgs) \in Nat /\ msgs \in Seq(Messages(now)) /\ mine \in Memberships(now)
  BY BoundsAssumption DEF ServerOK
<1>1. now' = now + 1 /\ UNCHANGED <<live, st, req, loads, base, early, skipped, unseen, theirs, chan, tombs>>
  BY DEF Send, Change
<1>2. mine'.in = mine.in /\ mine'.joined = mine.joined /\ (mine'.seq = mine.seq \/ (mine.in /\ mine'.seq = now + 1))
  <2>1. CASE own
    <3>1. mine.in /\ mine' = [mine EXCEPT !.seq = now + 1]
      BY <2>1 DEF Send
    <3> QED
      BY <3>1, <1>0 DEF Memberships
  <2>2. CASE ~own
    BY <2>2 DEF Send
  <2> QED
    BY <2>1, <2>2
<1>3. Outs' = Outs /\ Lefts' = Lefts
  BY <1>1 DEF Outs, Lefts
<1>4. msgs' = Append(msgs, [seq |-> now + 1, gone |-> FALSE])
  BY DEF Send
<1>5. /\ \A i \in DOMAIN msgs : i \in DOMAIN msgs' /\ msgs'[i] = msgs[i]
      /\ \A i \in DOMAIN msgs' : i \in DOMAIN msgs \/ msgs'[i].seq = now + 1
  BY <1>0, <1>4
<1>6. \A e \in sends' : e \in sends \/ e.kind = "new"
  <2>1. sends' = sends \cup (IF mine.in THEN {[kind |-> "new", id |-> Len(msgs) + 1]} ELSE {})
    BY DEF Send, Change
  <2> QED
    BY <2>1
<1> QED
  BY <1>1, <1>2, <1>3, <1>5, <1>6 DEF Quiet

LEMMA StampIsQuiet ==
  ASSUME ServerOK, NEW i \in DOMAIN msgs, Edit(i) \/ Delete(i)
  PROVE  Quiet
<1>0. now \in Nat /\ msgs \in Seq(Messages(now))
  BY BoundsAssumption DEF ServerOK
<1>1. now' = now + 1 /\ UNCHANGED <<live, st, req, loads, base, early, skipped, unseen, mine, theirs, chan, tombs>>
  BY DEF Edit, Delete, Change
<1>3. Outs' = Outs /\ Lefts' = Lefts
  BY <1>1 DEF Outs, Lefts
<1>4. DOMAIN msgs' = DOMAIN msgs /\ msgs'[i].seq = now + 1 /\ ~msgs[i].gone /\ \A k \in DOMAIN msgs : k # i => msgs'[k] = msgs[k]
  <2>1. msgs[i] \in Messages(now)
    BY <1>0
  <2>2. CASE Edit(i)
    BY <1>0, <2>1, <2>2 DEF Edit, Messages
  <2>3. CASE Delete(i)
    BY <1>0, <2>3 DEF Delete
  <2> QED
    BY <2>2, <2>3
<1>5. \A e \in sends' : e \in sends \/ e.kind = "update" \/ (e.kind = "delete" /\ e.seq = msgs'[e.id].seq /\ msgs'[e.id].gone)
  <2>1. CASE Edit(i)
    BY <2>1 DEF Edit, Change
  <2>2. CASE Delete(i)
    <3>1. sends' = sends \cup {[kind |-> "delete", id |-> i, seq |-> now + 1]} /\ msgs'[i] = [seq |-> now + 1, gone |-> TRUE]
      BY <1>0, <2>2 DEF Delete, Change
    <3> QED
      BY <3>1
  <2> QED
    BY <2>1, <2>2
<1> QED
  BY <1>1, <1>3, <1>4, <1>5 DEF Quiet

LEMMA OthersAreQuiet ==
  ASSUME ServerOK, Mark \/ OtherMember
  PROVE  Quiet
<1>0. now \in Nat /\ mine \in Memberships(now) /\ theirs \in Memberships(now)
  BY BoundsAssumption DEF ServerOK
<1>1. now' = now + 1 /\ UNCHANGED <<live, st, req, loads, base, early, skipped, unseen, msgs>>
  BY DEF Mark, OtherMember, Change
<1>2. \A e \in sends' : e \in sends \/ (e.kind = "channel" /\ e.seq = 0)
  BY DEF Mark, OtherMember, Change
<1>3. CASE Mark
  <2>1. mine.in /\ mine' = [mine EXCEPT !.seq = now + 1] /\ UNCHANGED <<theirs, chan, tombs>>
    BY <1>3 DEF Mark
  <2>2. mine'.in = mine.in /\ mine'.joined = mine.joined /\ mine'.seq = now + 1
    BY <2>1, <1>0 DEF Memberships
  <2>3. Outs' = Outs /\ Lefts' = Lefts
    BY <2>1 DEF Outs, Lefts
  <2> QED
    BY <1>1, <1>2, <2>1, <2>2, <2>3 DEF Quiet
<1>4. CASE OtherMember
  <2>1. mine' = mine /\ chan' = now + 1
    BY <1>4 DEF OtherMember
  <2>2. CASE theirs.in
    <3>1. theirs' = [theirs EXCEPT !.in = FALSE] /\ tombs' = tombs \cup {[who |-> "them", seq |-> now + 1]}
      BY <1>4, <2>2 DEF OtherMember
    <3>2. ~theirs'.in /\ theirs'.seq = theirs.seq
      BY <3>1, <1>0 DEF Memberships
    <3>3. Outs' = Outs
      BY <3>1 DEF Outs
    <3>4. Lefts' = Lefts \cup {now + 1}
      <4> DEFINE x == [who |-> "them", seq |-> now + 1]
      <4>1. x.who = "them" /\ x.seq = now + 1 /\ tombs' = tombs \cup {x}
        BY <3>1
      <4> HIDE DEF x
      <4>2. \A n \in Lefts' : n \in Lefts \/ n = now + 1
        BY <4>1 DEF Lefts
      <4>3. now + 1 \in Lefts' /\ \A n \in Lefts : n \in Lefts'
        BY <4>1 DEF Lefts
      <4> QED
        BY <4>2, <4>3
    <3> QED
      BY <1>1, <1>2, <2>1, <2>2, <3>2, <3>3, <3>4 DEF Quiet
  <2>3. CASE ~theirs.in
    <3>1. theirs' = [in |-> TRUE, seq |-> now + 1, joined |-> now + 1] /\ tombs' = tombs
      BY <1>4, <2>3 DEF OtherMember
    <3>2. Outs' = Outs /\ Lefts' = Lefts
      BY <3>1 DEF Outs, Lefts
    <3> QED
      BY <1>1, <1>2, <2>1, <2>3, <3>1, <3>2 DEF Quiet
  <2> QED
    BY <2>2, <2>3
<1> QED
  BY <1>3, <1>4

LEMMA QuietNumbers ==
  ASSUME Shape, Shape', Quiet
  PROVE  /\ LastOut' = LastOut /\ PrevOut' = PrevOut
         /\ LastLeft' = IF Lefts' = Lefts THEN LastLeft ELSE now + 1
         /\ Lefts' # Lefts => theirs.in /\ ~theirs'.in
<1>1. LastOut' = LastOut
  BY LastOutIs, LastOutAfter DEF Quiet
<1>2. {n \in Outs' : n < mine'.joined} = {n \in Outs : n < mine.joined}
  BY DEF Quiet
<1>3. PrevOut' = PrevOut
  BY <1>2 DEF PrevOut
<1>4. Lefts' = Lefts => LastLeft' = LastLeft
  BY DEF LastLeft
<1>5. Lefts' # Lefts => LastLeft' = now + 1
  <2> SUFFICES ASSUME Lefts' # Lefts PROVE LastLeft' = now + 1
    OBVIOUS
  <2>1. now + 1 \in Lefts' /\ now' = now + 1 /\ now \in Nat
    BY DEF Quiet, Shape, Numbers
  <2>2. LastLeft' \in 0..now' /\ now + 1 <= LastLeft'
    BY <2>1 DEF Shape, Numbers
  <2> QED
    BY <2>1, <2>2
<1> QED
  BY <1>1, <1>3, <1>4, <1>5 DEF Quiet

\* What a step of Quiet leaves, and what it brings.
LEMMA QuietSays ==
  ASSUME Shape, Shape', Quiet
  PROVE  /\ now \in Nat /\ now' = now + 1 /\ (Exact' => Exact) /\ (Sound' => Sound) /\ (Seen' => Seen)
         /\ UNCHANGED <<live, st, req, loads, base, early, unseen, Outs, LastOut, PrevOut>>
         /\ mine'.in = mine.in /\ mine'.joined = mine.joined
         /\ \A i \in DOMAIN msgs' : (i \in DOMAIN msgs /\ msgs'[i] = msgs[i]) \/ msgs'[i].seq = now + 1
         /\ \A i \in DOMAIN msgs : i \in DOMAIN msgs' /\ (msgs'[i] = msgs[i] \/ msgs'[i].seq = now + 1)
<1>1. now \in Nat /\ now' = now + 1
  BY DEF Quiet, Shape, Numbers
<1>2. (Exact' => Exact) /\ (Sound' => Sound) /\ (Seen' => Seen)
  BY DEF Quiet, Exact, Sound, Seen
<1>3. LastOut' = LastOut /\ PrevOut' = PrevOut
  BY QuietNumbers
<1>4. \A i \in DOMAIN msgs : i \in DOMAIN msgs' /\ (msgs'[i] = msgs[i] \/ msgs'[i].seq = now + 1)
  BY DEF Quiet
<1>5. \A i \in DOMAIN msgs' : (i \in DOMAIN msgs /\ msgs'[i] = msgs[i]) \/ msgs'[i].seq = now + 1
  BY <1>4 DEF Quiet
<1> QED
  BY <1>1, <1>2, <1>3, <1>4, <1>5 DEF Quiet

LEMMA VersionsStay ==
  ASSUME Shape, Shape', Quiet, NEW i \in Ids, NEW v, v.seq \in 0..now, VersionIs(i, v)
  PROVE  v.seq = 0 \/ (i \in DOMAIN msgs' /\ v.seq <= msgs'[i].seq /\ (v.seq = msgs'[i].seq => v.gone = msgs'[i].gone))
<1>1. CASE v.seq = 0
  BY <1>1
<1>2. CASE v.seq # 0
  <2>1. i \in DOMAIN msgs /\ v.seq <= msgs[i].seq /\ (v.seq = msgs[i].seq => v.gone = msgs[i].gone)
    BY <1>2 DEF VersionIs
  <2>2. i \in DOMAIN msgs' /\ (msgs'[i] = msgs[i] \/ msgs'[i].seq = now + 1)
    BY <2>1, QuietSays
  <2>3. CASE msgs'[i] = msgs[i]
    BY <2>1, <2>2, <2>3
  <2>4. CASE msgs'[i].seq = now + 1
    <3>1. v.seq <= msgs'[i].seq /\ v.seq # msgs'[i].seq
      BY <2>4 DEF Shape, Numbers
    <3> QED
      BY <2>2, <3>1
  <2> QED
    BY <2>2, <2>3, <2>4
<1> QED
  BY <1>1, <1>2

LEMMA QuietServer ==
  ASSUME Inv, Shape, Shape', Feed, Quiet
  PROVE  StaysOK' /\ SendsOK' /\ TheirsOK'
<1>1. /\ mine.seq \in 1..now /\ mine.joined \in 1..now /\ chan \in 1..now /\ theirs.seq \in 1..now /\ theirs.in \in BOOLEAN
      /\ LastOut \in 0..now /\ LastLeft \in 0..now /\ st.th.seq \in 0..now
  BY DEF Shape, Server, Numbers, Stored
<1>2. now \in Nat /\ now' = now + 1 /\ Outs' = Outs /\ LastOut' = LastOut /\ st' = st
      /\ mine'.in = mine.in /\ mine'.joined = mine.joined
  BY QuietSays
<1>3. LastLeft' = (IF Lefts' = Lefts THEN LastLeft ELSE now + 1) /\ (Lefts' # Lefts => theirs.in /\ ~theirs'.in)
  BY QuietNumbers
<1>4. \/ theirs' = theirs /\ LastLeft' = LastLeft
      \/ theirs.in /\ ~theirs'.in /\ theirs'.seq = theirs.seq /\ LastLeft' = now + 1
      \/ ~theirs.in /\ theirs'.in /\ theirs'.seq = now + 1 /\ LastLeft' = LastLeft
  <2>1. Lefts' = Lefts \cup {now + 1} => LastLeft' = now + 1
    <3> SUFFICES ASSUME Lefts' = Lefts \cup {now + 1} PROVE LastLeft' = now + 1
      OBVIOUS
    <3>1. now + 1 \notin Lefts
      BY <1>2 DEF Shape, Numbers
    <3>2. Lefts' # Lefts
      BY <3>1
    <3> QED
      BY <1>3, <3>2
  <2> QED
    BY <1>3, <2>1 DEF Quiet
<1>5. StaysOK'
  <2>1. (mine'.seq = mine.seq \/ (mine.in /\ mine'.seq = now + 1)) /\ chan' \in {chan, now + 1}
    BY DEF Quiet
  <2>2. mine'.joined <= mine'.seq /\ mine'.joined <= chan' /\ (mine'.in => LastOut' < mine'.joined)
    BY <1>1, <1>2, <2>1 DEF Feed, StaysOK
  <2>3. ~mine'.in => LastOut' > mine'.seq /\ LastOut' <= chan' /\ \A n \in Outs' : n = LastOut' \/ n < mine'.joined
    BY <1>1, <1>2, <2>1 DEF Feed, StaysOK
  <2>4. IF theirs'.in THEN LastLeft' < theirs'.seq ELSE LastLeft' > theirs'.seq
    BY <1>1, <1>2, <1>4 DEF Feed, StaysOK
  <2> QED
    BY <2>2, <2>3, <2>4 DEF StaysOK
<1>6. TheirsOK'
  BY <1>1, <1>2, <1>4 DEF Feed, TheirsOK
<1>7. SendsOK'
  <2> SUFFICES ASSUME NEW e \in sends'
               PROVE  /\ e.kind = "delete" => e.seq = msgs'[e.id].seq /\ msgs'[e.id].gone
                      /\ e.kind = "channel" => e.seq <= chan'
                      /\ e.kind = "out" => e.seq \in Outs'
    BY DEF SendsOK
  <2>1. chan <= chan' /\ 0 <= chan' /\ chan' \in Int
    BY <1>1, <1>2 DEF Quiet
  <2>2. CASE e \in sends
    <3>1. e.kind = "delete" => e.id \in DOMAIN msgs /\ e.seq = msgs[e.id].seq /\ msgs[e.id].gone
      BY <2>2 DEF Inv, ServerOK, Sends, Feed, SendsOK
    <3>2. e.kind = "delete" => msgs'[e.id] = msgs[e.id]
      BY <3>1 DEF Quiet
    <3>3. e.kind = "channel" => e.seq <= chan /\ e.seq \in Int
      BY <2>2 DEF Inv, ServerOK, Sends, Feed, SendsOK
    <3>4. e.kind = "out" => e.seq \in Outs'
      BY <1>2, <2>2 DEF Feed, SendsOK
    <3> QED
      BY <1>1, <2>1, <3>1, <3>2, <3>3, <3>4
  <2>3. CASE e \notin sends
    <3>1. \/ e.kind \in {"new", "update"}
          \/ e.kind = "channel" /\ e.seq = 0
          \/ e.kind = "delete" /\ e.seq = msgs'[e.id].seq /\ msgs'[e.id].gone
      BY <2>3 DEF Quiet
    <3> QED
      BY <2>1, <3>1
  <2> QED
    BY <2>2, <2>3
<1> QED
  BY <1>5, <1>6, <1>7

\* A number that is new is above all that the device knows of.
LEMMA QuietNew ==
  ASSUME Shape, Shape', Quiet
  PROVE  /\ now + 1 > st.cursor /\ now + 1 > st.fence /\ now + 1 > mine.joined
         /\ \A i \in DOMAIN msgs' : Due(msgs'[i].seq) \/ (i \in DOMAIN msgs /\ msgs'[i] = msgs[i])
<1>1. now + 1 > st.cursor /\ now + 1 > st.fence /\ now + 1 > mine.joined
  BY QuietSays DEF Shape, Stored, Server
<1>2. \A i \in DOMAIN msgs' : Due(msgs'[i].seq) \/ (i \in DOMAIN msgs /\ msgs'[i] = msgs[i])
  BY <1>1, QuietSays DEF Due
<1> QED
  BY <1>1, <1>2

LEMMA QuietStore ==
  ASSUME Inv, Shape, Shape', Feed, Quiet
  PROVE  StoreParts'
<1>0. /\ now \in Nat /\ now' = now + 1 /\ (Exact' => Exact) /\ (Sound' => Sound) /\ (Seen' => Seen)
      /\ UNCHANGED <<live, st, req, loads, base, early, unseen, Outs, LastOut, PrevOut>>
      /\ mine'.in = mine.in /\ mine'.joined = mine.joined
  BY QuietSays
<1>1. /\ mine.seq \in 1..now /\ mine.joined \in 1..now /\ chan \in 1..now /\ theirs.seq \in 1..now /\ theirs.in \in BOOLEAN
      /\ LastOut \in 0..now /\ LastLeft \in 0..now /\ st.th.seq \in 0..now /\ st.cursor \in 0..now /\ st.fence \in 0..now
      /\ st.ch \in 0..now /\ st.my \in 0..now
  BY DEF Shape, Server, Numbers, Stored
<1>2. (mine'.seq = mine.seq \/ mine'.seq = now + 1) /\ chan' \in {chan, now + 1}
  BY DEF Quiet
<1>3. \A i \in DOMAIN msgs' : Due(msgs[i].seq)' \/ (i \in DOMAIN msgs /\ msgs'[i] = msgs[i])
  BY <1>0, QuietNew DEF Due
<1>4. \A i \in DOMAIN msgs : Due(msgs[i].seq) /\ msgs'[i] = msgs[i] => Due(msgs[i].seq)'
  BY <1>0 DEF Due
<1>5. \A i \in DOMAIN msgs : i \in DOMAIN msgs' /\ (msgs'[i] = msgs[i] \/ msgs'[i].seq = now + 1)
  BY QuietSays
<1>6. CovOK'
  BY <1>0 DEF Feed, CovOK
<1>7. StoreOK'
  <2>1. \A i \in Ids : VersionIs(i, st.rows[i])'
    <3> SUFFICES ASSUME NEW i \in Ids PROVE VersionIs(i, st.rows[i])'
      OBVIOUS
    <3> DEFINE v == st.rows[i]
    <3>1. v.seq \in 0..now /\ VersionIs(i, v)
      BY DEF Shape, Stored, Feed, StoreOK
    <3>2. v.seq = 0 \/ (i \in DOMAIN msgs' /\ v.seq <= msgs'[i].seq /\ (v.seq = msgs'[i].seq => v.gone = msgs'[i].gone))
      <4> HIDE DEF v
      <4> QED
        BY <3>1, VersionsStay
    <3> QED
      BY <1>0, <3>2 DEF VersionIs
  <2>2. base \in 0..now' /\ st.ch <= chan' /\ st.my <= mine'.seq
    BY <1>0, <1>1, <1>2 DEF Feed, StoreOK
  <2> QED
    BY <1>0, <2>1, <2>2 DEF Feed, StoreOK
<1>8. LoadsOK'
  <2>1. ASSUME NEW l \in loads, NEW i \in Ids PROVE VersionIs(i, l.rows[i])'
    <3> DEFINE v == l.rows[i]
    <3>1. v.seq \in 0..now /\ VersionIs(i, v)
      BY DEF Shape, InFlight, Feed, LoadsOK
    <3>2. v.seq = 0 \/ (i \in DOMAIN msgs' /\ v.seq <= msgs'[i].seq /\ (v.seq = msgs'[i].seq => v.gone = msgs'[i].gone))
      <4> HIDE DEF v
      <4> QED
        BY <3>1, VersionsStay
    <3> QED
      BY <3>2 DEF VersionIs
  <2> QED
    BY <1>0, <2>1 DEF Feed, LoadsOK
<1>9. LoadsExact'
  BY <1>0, <1>3, <1>4 DEF Feed, LoadsExact, Shown
<1>10. RowsExact'
  <2> SUFFICES ASSUME Exact, NEW i \in Ids, st.rows[i].seq # 0
               PROVE  st.rows[i].seq = msgs'[i].seq \/ Due(msgs[i].seq)'
    BY <1>0 DEF RowsExact
  <2>1. i \in DOMAIN msgs /\ (st.rows[i].seq = msgs[i].seq \/ Due(msgs[i].seq))
    BY DEF Feed, RowsExact, StoreOK, VersionIs
  <2> QED
    BY <1>3, <1>4, <1>5, <2>1
<1>11. RangeExact'
  BY <1>0, <1>3, <1>4 DEF Feed, RangeExact, Shown
<1>12. GoneOK' /\ JoinHeard' /\ PrevHeard' /\ OutHeard'
  BY <1>0 DEF Feed, GoneOK, JoinHeard, PrevHeard, OutHeard
<1>13. ChannelOK'
  BY <1>0, <1>1, <1>2 DEF Feed, ChannelOK
<1>14. TheirsHeard'
  <2>1. \/ theirs' = theirs /\ LastLeft' = LastLeft
        \/ theirs.in /\ ~theirs'.in /\ LastLeft' = now + 1
        \/ ~theirs.in /\ theirs'.in /\ theirs'.seq = now + 1
    <3>1. now + 1 \notin Lefts
      BY <1>0 DEF Shape, Numbers
    <3> QED
      BY <3>1, QuietNumbers DEF Quiet
  <2> QED
    BY <1>0, <1>1, <2>1 DEF Feed, TheirsHeard
<1> QED
  BY <1>6, <1>7, <1>8, <1>9, <1>10, <1>11, <1>12, <1>13, <1>14, QuietServer DEF StoreParts

LEMMA QuietLive ==
  ASSUME Inv, Shape, Shape', Feed, Quiet
  PROVE  LiveParts'
<1>0. /\ now \in Nat /\ now' = now + 1 /\ (Exact' => Exact)
      /\ UNCHANGED <<live, st, base, unseen, Outs, LastOut, PrevOut>>
      /\ mine'.in = mine.in /\ mine'.joined = mine.joined
  BY QuietSays
<1>1. chan \in 1..now /\ chan' \in {chan, now + 1} /\ mine.joined \in 1..now /\ st.cursor \in 0..now
  BY DEF Shape, Server, Stored, Quiet
<1>2. \A i \in DOMAIN msgs : i \in DOMAIN msgs' /\ (msgs'[i] = msgs[i] \/ (msgs'[i].seq = now + 1 /\ ~msgs[i].gone))
  BY DEF Quiet
<1>3. LiveKinds'
  BY <1>0 DEF Feed, LiveKinds
<1>4. \A e \in live, i \in Ids : e.rows[i].seq # 0 => i \in DOMAIN msgs
  BY DEF Feed, LiveOK, VersionIs
<1>5. LiveOK'
  <2>1. ASSUME NEW e \in live, NEW i \in Ids PROVE VersionIs(i, e.rows[i])'
    <3> DEFINE v == e.rows[i]
    <3>1. v.seq \in 0..now /\ VersionIs(i, v)
      BY DEF Shape, InFlight, Feed, LiveOK
    <3>2. v.seq = 0 \/ (i \in DOMAIN msgs' /\ v.seq <= msgs'[i].seq /\ (v.seq = msgs'[i].seq => v.gone = msgs'[i].gone))
      <4> HIDE DEF v
      <4> QED
        BY <3>1, VersionsStay
    <3> QED
      BY <3>2 DEF VersionIs
  <2>2. ASSUME NEW e \in live, NEW i \in Ids, e.tombstones[i] # 0
        PROVE  i \in DOMAIN msgs' /\ e.tombstones[i] = msgs'[i].seq /\ msgs'[i].gone
    BY <1>2, <2>2 DEF Feed, LiveOK
  <2>3. ASSUME NEW e \in live PROVE e.ch <= chan' /\ (e.removed = 0 \/ e.removed \in Outs')
    BY <1>0, <1>1, <2>3 DEF Feed, LiveOK, Shape, InFlight
  <2> QED
    BY <1>0, <2>1, <2>2, <2>3 DEF LiveOK
<1>6. LiveTold'
  <2>1. ASSUME ~unseen, NEW e \in live, NEW i \in Ids, e.rows[i].seq # 0
        PROVE  Told(i, e.rows[i].seq)'
    <3>1. i \in DOMAIN msgs /\ Told(i, e.rows[i].seq)
      BY <1>4, <2>1 DEF Feed, LiveTold
    <3>2. msgs'[i].seq = msgs[i].seq \/ msgs'[i].seq > mine.joined
      BY <1>0, <1>1, <1>2, <3>1
    <3> QED
      BY <1>0, <3>1, <3>2 DEF Told
  <2> QED
    BY <1>0, <2>1 DEF Feed, LiveTold
<1>7. LiveExact'
  <2> SUFFICES ASSUME Exact, NEW e \in live, NEW i \in Ids, e.rows[i].seq # 0
               PROVE  \/ e.rows[i].seq = msgs'[i].seq \/ st.rows[i].seq = msgs'[i].seq \/ msgs'[i].seq > st.cursor
                      \/ e.rows[i].seq <= st.fence \/ e.rows[i].seq <= base
    BY <1>0 DEF LiveExact
  <2>1. \/ e.rows[i].seq = msgs[i].seq \/ st.rows[i].seq = msgs[i].seq \/ msgs[i].seq > st.cursor
        \/ e.rows[i].seq <= st.fence \/ e.rows[i].seq <= base
    BY DEF Feed, LiveExact
  <2>2. msgs'[i] = msgs[i] \/ msgs'[i].seq > st.cursor
    BY <1>0, <1>1, <1>2, <1>4
  <2> QED
    BY <2>1, <2>2
<1> QED
  BY <1>3, <1>5, <1>6, <1>7 DEF LiveParts

LEMMA QuietPage ==
  ASSUME Inv, Shape, Shape', Feed, Quiet
  PROVE  PageParts'
<1>0. /\ now \in Nat /\ now' = now + 1 /\ (Sound' => Sound) /\ (Seen' => Seen)
      /\ UNCHANGED <<st, req, unseen, Outs, LastOut, PrevOut>>
      /\ mine'.in = mine.in /\ mine'.joined = mine.joined
  BY QuietSays
<1>1. /\ mine.seq \in 1..now /\ mine.joined \in 1..now /\ chan \in 1..now /\ theirs.seq \in 1..now
      /\ LastOut \in 0..now /\ LastLeft \in 0..now /\ st.cursor \in 0..now /\ st.my \in 0..now /\ st.fence \in 0..now
      /\ (mine'.seq = mine.seq \/ mine'.seq = now + 1) /\ chan' \in {chan, now + 1}
  BY DEF Shape, Server, Numbers, Stored, Quiet
<1>2. \A i \in DOMAIN msgs' : (i \in DOMAIN msgs /\ msgs'[i] = msgs[i]) \/ msgs'[i].seq = now + 1
  BY QuietSays
<1>3. \A i \in DOMAIN msgs : i \in DOMAIN msgs' /\ (msgs'[i] = msgs[i] \/ msgs'[i].seq = now + 1)
  BY QuietSays
<1>4. /\ \/ theirs' = theirs /\ LastLeft' = LastLeft
         \/ theirs.in /\ ~theirs'.in /\ theirs'.seq = theirs.seq /\ LastLeft' = now + 1
         \/ ~theirs.in /\ theirs'.in /\ theirs'.seq = now + 1
      /\ Lefts \subseteq Lefts'
  <2>1. now + 1 \notin Lefts
    BY <1>0 DEF Shape, Numbers
  <2> QED
    BY <2>1, QuietNumbers DEF Quiet
<1>5. CASE req.at \notin Reading
  <2>1. Paperless' /\ CountedOK'
    BY <1>0, <1>5 DEF Paperless, CountedOK, Feed
  <2> QED
    BY <2>1, NoPageAfter
<1>6. CASE req.at \in Reading
  <2>1. /\ req.upper \in 0..now /\ req.page.ch \in 0..now /\ req.page.my \in 0..now /\ req.page.th \in 0..now
        /\ \A i \in Ids : req.page.rows[i].seq \in 0..now
    BY <1>6 DEF Shape, Paged
  <2>2. \A i \in Ids : req.page.rows[i].seq # 0 => i \in DOMAIN msgs
    BY <1>6 DEF Feed, PageOK, VersionIs
  <2>3. \A i \in DOMAIN msgs' : i \in Ids
    BY DEF Shape, Server
  <2>4. CountedOK' /\ PageStages'
    BY <1>0 DEF Feed, CountedOK, PageStages
  <2>5. PageOK'
    <3>1. ASSUME NEW i \in Ids PROVE VersionIs(i, req.page.rows[i])'
      <4> DEFINE v == req.page.rows[i]
      <4>1. v.seq \in 0..now /\ VersionIs(i, v)
        BY <1>6, <2>1 DEF Feed, PageOK
      <4>2. v.seq = 0 \/ (i \in DOMAIN msgs' /\ v.seq <= msgs'[i].seq /\ (v.seq = msgs'[i].seq => v.gone = msgs'[i].gone))
        <5> HIDE DEF v
        <5> QED
          BY <4>1, VersionsStay
      <4> QED
        BY <1>0, <4>2 DEF VersionIs
    <3>2. ASSUME NEW i \in DOMAIN msgs', req.page.rows[i].seq # 0
          PROVE  req.page.rows[i].seq = msgs'[i].seq \/ msgs'[i].seq > req.upper
      <4>1. CASE i \in DOMAIN msgs /\ msgs'[i] = msgs[i]
        BY <1>6, <3>2, <4>1 DEF Feed, PageOK
      <4>2. CASE msgs'[i].seq = now + 1
        BY <1>0, <2>1, <4>2
      <4> QED
        BY <1>2, <4>1, <4>2
    <3>3. req.page.th # 0 => IF theirs'.in THEN req.page.th = theirs'.seq \/ theirs'.seq > req.upper ELSE LastLeft' > req.upper
      BY <1>0, <1>1, <1>4, <1>6, <2>1 DEF Feed, PageOK
    <3>4. req.page.ch <= chan' /\ req.page.my <= mine'.seq /\ req.page.th <= theirs'.seq
      BY <1>0, <1>1, <1>4, <1>6, <2>1 DEF Feed, PageOK
    <3>5. (req.page.removed = 0 \/ req.page.removed \in Outs') /\ (req.page.left = 0 \/ req.page.left \in Lefts')
      BY <1>0, <1>4, <1>6 DEF Feed, PageOK
    <3> QED
      BY <1>0, <1>6, <3>1, <3>2, <3>3, <3>4, <3>5 DEF Feed, PageOK
  <2>6. PageTold'
    <3>1. ASSUME ~unseen, NEW i \in Ids, req.page.rows[i].seq # 0
          PROVE  Told(i, req.page.rows[i].seq)'
      <4>1. i \in DOMAIN msgs /\ Told(i, req.page.rows[i].seq)
        BY <1>6, <2>2, <3>1 DEF Feed, PageTold
      <4>2. msgs'[i].seq = msgs[i].seq \/ msgs'[i].seq > mine.joined
        BY <1>0, <1>1, <1>3, <4>1
      <4> QED
        BY <1>0, <4>1, <4>2 DEF Told
    <3> QED
      BY <1>0, <1>6, <3>1 DEF Feed, PageTold
  <2>7. PageOurs' /\ PageOut' /\ PageJoin'
    BY <1>0 DEF Feed, PageOurs, PageOut, PageJoin
  <2>8. PageChannel'
    BY <1>0, <1>1, <1>6, <2>1 DEF Feed, PageChannel
  <2>9. PageRows'
    <3> SUFFICES ASSUME Sound, req.at = "page", req.since # 0, NEW i \in DOMAIN msgs',
                        Due(msgs[i].seq)', msgs'[i].seq <= req.upper
                 PROVE  req.page.rows[i] = msgs'[i]
      BY <1>0 DEF PageRows
    <3>1. i \in DOMAIN msgs /\ msgs'[i] = msgs[i]
      BY <1>0, <1>2, <2>1
    <3>2. Due(msgs[i].seq)
      BY <1>0, <3>1 DEF Due
    <3> QED
      BY <3>1, <3>2 DEF Feed, PageRows
  <2>10. PageTheirs'
    BY <1>0, <1>1, <1>4, <1>6, <2>1 DEF Feed, PageTheirs
  <2>11. FirstPage'
    BY <1>0, <1>1, <1>4, <1>6, <2>1 DEF Feed, FirstPage
  <2> QED
    BY <2>4, <2>5, <2>6, <2>7, <2>8, <2>9, <2>10, <2>11 DEF PageParts
<1> QED
  BY <1>5, <1>6

LEMMA QuietKeepsFeed ==
  ASSUME Inv, Shape, Shape', Feed, Quiet
  PROVE  Feed'
BY QuietServer, QuietStore, QuietLive, QuietPage, FeedIsAfter

-----------------------------------------------------------------------------
(* The user is removed.                                                    *)

LEMMA OutSays ==
  ASSUME Inv, Shape, Shape', Out
  PROVE  /\ now \in Nat /\ now' = now + 1 /\ UNCHANGED <<msgs, theirs, live, st, req, loads, base, early, unseen>>
         /\ mine.in /\ ~mine'.in /\ mine'.seq = mine.seq /\ mine'.joined = mine.joined /\ chan' = now + 1
         /\ Outs' = Outs \cup {now + 1} /\ LastOut' = now + 1 /\ PrevOut' = PrevOut
         /\ Lefts' = Lefts /\ LastLeft' = LastLeft
         /\ Seen /\ Seen' /\ (Sound' => Sound) /\ (Exact' => Exact)
         /\ \A e \in sends' : \/ e \in sends \/ (e.kind = "channel" /\ e.seq = 0)
                              \/ e.kind = "out" /\ e.seq = now + 1
<1>1. now \in Nat /\ now' = now + 1 /\ UNCHANGED <<msgs, theirs, live, st, req, loads, base, early, unseen>> /\ mine.in
      /\ chan' = now + 1 /\ skipped' = FALSE /\ mine' = [mine EXCEPT !.in = FALSE]
      /\ tombs' = tombs \cup {[who |-> "me", seq |-> now + 1]}
  BY DEF Out, Change, Shape, Numbers
<1>2. ~mine'.in /\ mine'.seq = mine.seq /\ mine'.joined = mine.joined
  BY <1>1 DEF Inv, ServerOK, Memberships
<1> DEFINE x == [who |-> "me", seq |-> now + 1]
<1>3. x.who = "me" /\ x.seq = now + 1 /\ tombs' = tombs \cup {x}
  BY <1>1
<1> HIDE DEF x
<1>4. Outs' = Outs \cup {now + 1}
  <2>1. \A n \in Outs' : n \in Outs \/ n = now + 1
    BY <1>3 DEF Outs
  <2>2. now + 1 \in Outs' /\ \A n \in Outs : n \in Outs'
    BY <1>3 DEF Outs
  <2> QED
    BY <2>1, <2>2
<1>5. Lefts' = Lefts
  <2>1. "me" # "them"
    OBVIOUS
  <2>2. \A n \in Lefts' : n \in Lefts
    BY <1>3, <2>1 DEF Lefts
  <2>3. \A n \in Lefts : n \in Lefts'
    BY <1>3 DEF Lefts
  <2> QED
    BY <2>2, <2>3
<1>6. LastLeft' = LastLeft
  BY <1>5 DEF LastLeft
<1>7. LastOut' = now + 1
  <2>1. LastOut' \in 0..now' /\ now + 1 <= LastOut'
    BY <1>4 DEF Shape, Numbers
  <2> QED
    BY <1>1, <2>1
<1>8. PrevOut' = PrevOut
  <2>1. mine.joined \in 1..now
    BY DEF Shape, Server
  <2>2. ~(now + 1 < mine.joined)
    BY <1>1, <2>1
  <2>3. {n \in Outs' : n < mine'.joined} = {n \in Outs : n < mine.joined}
    BY <1>2, <1>4, <2>2
  <2> QED
    BY <2>3 DEF PrevOut
<1>9. Seen /\ Seen' /\ (Sound' => Sound) /\ (Exact' => Exact)
  BY <1>1 DEF Seen, Sound, Exact
<1>10. \A e \in sends' : e \in sends \/ (e.kind = "channel" /\ e.seq = 0) \/ (e.kind = "out" /\ e.seq = now + 1)
  <2>1. sends' = sends \cup {[kind |-> "out", seq |-> now + 1], [kind |-> "channel", seq |-> 0]}
    BY DEF Out, Change
  <2> QED
    BY <2>1
<1> QED
  BY <1>1, <1>2, <1>4, <1>5, <1>6, <1>7, <1>8, <1>9, <1>10

LEMMA OutStore ==
  ASSUME Inv, Shape, Shape', Feed, Out
  PROVE  SendsOK' /\ StoreParts'
<1>0. /\ now \in Nat /\ now' = now + 1 /\ UNCHANGED <<msgs, theirs, live, st, req, loads, base, early, unseen>>
      /\ mine.in /\ ~mine'.in /\ mine'.seq = mine.seq /\ mine'.joined = mine.joined /\ chan' = now + 1
      /\ Outs' = Outs \cup {now + 1} /\ LastOut' = now + 1 /\ PrevOut' = PrevOut
      /\ Lefts' = Lefts /\ LastLeft' = LastLeft
      /\ (Sound' => Sound) /\ (Exact' => Exact)
  BY OutSays
<1>1. /\ mine.seq \in 1..now /\ mine.joined \in 1..now /\ chan \in 1..now /\ LastOut \in 0..now
      /\ PrevOut \in 0..now /\ st.cursor \in 0..now /\ st.fence \in 0..now /\ st.ch \in 0..now
      /\ \A n \in Outs : n \in 1..now /\ n <= LastOut
  BY DEF Shape, Server, Numbers, Stored
<1>2. SendsOK'
  <2>1. \A e \in sends' : e \in sends \/ (e.kind = "channel" /\ e.seq = 0) \/ (e.kind = "out" /\ e.seq = now + 1)
    BY OutSays
  <2> SUFFICES ASSUME NEW e \in sends'
               PROVE  /\ e.kind = "delete" => e.seq = msgs[e.id].seq /\ msgs[e.id].gone
                      /\ e.kind = "channel" => e.seq <= chan'
                      /\ e.kind = "out" => e.seq \in Outs'
    BY <1>0 DEF SendsOK
  <2>2. CASE e \in sends
    <3>1. e.kind = "channel" => e.seq <= chan /\ e.seq \in Int
      BY <2>2 DEF Inv, ServerOK, Sends, Feed, SendsOK
    <3> QED
      BY <1>0, <1>1, <2>2, <3>1 DEF Feed, SendsOK
  <2>3. CASE e \notin sends
    BY <1>0, <2>1, <2>3
  <2> QED
    BY <2>2, <2>3
<1>3. StaysOK'
  <2>1. mine.joined <= mine.seq /\ LastOut < mine.joined
    BY <1>0 DEF Feed, StaysOK
  <2>2. \A n \in Outs' : n = LastOut' \/ n < mine'.joined
    BY <1>0, <1>1, <2>1
  <2>3. mine'.joined <= mine'.seq /\ mine'.joined <= chan' /\ LastOut' > mine'.seq /\ LastOut' <= chan'
    BY <1>0, <1>1, <2>1
  <2> QED
    BY <1>0, <2>2, <2>3 DEF Feed, StaysOK
<1>4. LoadsOK' /\ CovOK' /\ TheirsOK'
  BY <1>0 DEF Feed, LoadsOK, CovOK, TheirsOK, VersionIs
<1>5. StoreOK'
  BY <1>0, <1>1 DEF Feed, StoreOK, VersionIs
<1>6. LoadsExact' /\ RowsExact' /\ RangeExact'
  BY <1>0 DEF Feed, LoadsExact, RowsExact, RangeExact, Shown, Due
<1>7. GoneOK' /\ ChannelOK' /\ OutHeard'
  BY <1>0, <1>1 DEF GoneOK, ChannelOK, OutHeard
<1>8. JoinHeard'
  BY <1>0 DEF Feed, JoinHeard, ChannelOK, Sound
<1>9. PrevHeard'
  <2>1. \A n \in Outs' : n < PrevOut => n \in Outs
    BY <1>0, <1>1
  <2> QED
    BY <1>0, <2>1 DEF Feed, PrevHeard
<1>10. TheirsHeard'
  BY <1>0 DEF Feed, TheirsHeard
<1> QED
  BY <1>2, <1>3, <1>4, <1>5, <1>6, <1>7, <1>8, <1>9, <1>10 DEF StoreParts

LEMMA OutLive ==
  ASSUME Inv, Shape, Shape', Feed, Out
  PROVE  LiveParts'
<1>0. /\ now \in Nat /\ now' = now + 1 /\ UNCHANGED <<msgs, live, st, base, unseen>>
      /\ ~mine'.in /\ mine'.joined = mine.joined /\ chan' = now + 1
      /\ Outs' = Outs \cup {now + 1} /\ LastOut' = now + 1 /\ PrevOut' = PrevOut /\ (Exact' => Exact)
  BY OutSays
<1>1. /\ chan \in 1..now
      /\ \A e \in live : e.ch \in 0..now /\ \A i \in Ids : e.rows[i].seq \in 0..now
  BY DEF Shape, Server, InFlight
<1>2. LiveKinds' /\ LiveExact'
  BY <1>0 DEF Feed, LiveKinds, LiveExact
<1>3. LiveOK'
  BY <1>0, <1>1 DEF Feed, LiveOK, VersionIs
<1>4. LiveTold'
  BY <1>0, <1>1 DEF Feed, LiveTold, Told
<1> QED
  BY <1>2, <1>3, <1>4 DEF LiveParts

LEMMA OutPage ==
  ASSUME Inv, Shape, Shape', Feed, Out
  PROVE  PageParts'
<1>0. /\ now \in Nat /\ now' = now + 1 /\ UNCHANGED <<msgs, theirs, st, req, unseen>>
      /\ mine.in /\ ~mine'.in /\ mine'.seq = mine.seq /\ mine'.joined = mine.joined /\ chan' = now + 1
      /\ Outs' = Outs \cup {now + 1} /\ LastOut' = now + 1 /\ PrevOut' = PrevOut
      /\ Lefts' = Lefts /\ LastLeft' = LastLeft
      /\ Seen /\ (Sound' => Sound)
  BY OutSays
<1>1. chan \in 1..now /\ st.cursor \in 0..now /\ PrevOut \in 0..now
  BY DEF Shape, Server, Numbers, Stored
<1>2. CASE req.at \notin Reading
  <2>1. Paperless' /\ CountedOK'
    BY <1>0, <1>2 DEF Paperless, CountedOK, Feed
  <2> QED
    BY <2>1, NoPageAfter
<1>3. CASE req.at \in Reading
  <2>1. /\ req.upper \in 0..now /\ req.page.ch \in 0..now /\ req.page.my \in 0..now /\ req.page.th \in 0..now
        /\ \A i \in Ids : req.page.rows[i].seq \in 0..now
    BY <1>3 DEF Shape, Paged
  <2>2. CountedOK' /\ PageStages'
    BY <1>0 DEF Feed, CountedOK, PageStages
  <2>3. PageOK'
    BY <1>0, <1>1, <1>3, <2>1 DEF Feed, PageOK, VersionIs
  <2>4. PageTold'
    BY <1>0, <1>3, <2>1 DEF Feed, PageTold, Told
  <2>5. PageOurs' /\ PageOut' /\ PageChannel'
    BY <1>0, <1>1, <1>3, <2>1 DEF Feed, PageOurs, PageOut, PageChannel, AtTombs, Reading
  <2>6. PageJoin'
    BY <1>0 DEF Feed, PageJoin
  <2>7. PageRows'
    BY <1>0 DEF Feed, PageRows, Due
  <2>8. PageTheirs'
    BY <1>0 DEF Feed, PageTheirs
  <2>9. FirstPage'
    <3>1. \A n \in Outs' : n < PrevOut => n \in Outs
      BY <1>0, <1>1
    <3> QED
      BY <1>0, <3>1 DEF Feed, FirstPage
  <2> QED
    BY <2>2, <2>3, <2>4, <2>5, <2>6, <2>7, <2>8, <2>9 DEF PageParts
<1> QED
  BY <1>2, <1>3

LEMMA OutKeepsFeed ==
  ASSUME Inv, Shape, Shape', Feed, Out
  PROVE  Feed'
BY OutStore, OutLive, OutPage, FeedIsAfter

\* The deployment's floor is about the cursors of requests only.
LEMMA FloorKeepsFeed ==
  ASSUME Feed, RaiseFloor
  PROVE  Feed'
<1>1. UNCHANGED <<now, msgs, mine, theirs, chan, tombs, sends, live, st, req, loads, base, early, skipped, unseen>>
  BY DEF RaiseFloor, historyVars
<1>2. Asked
  BY <1>1 DEF Asked, Still, Seen
<1>3. PageParts'
  BY <1>1, <1>2, StillPage DEF Asked
<1> QED
  BY <1>2, <1>3, AskedKeeps

-----------------------------------------------------------------------------
(* The user is back.  What is said to hold from here on was said before of *)
(* their last stay: In tells the history when it wasn't.                   *)

LEMMA InSays ==
  ASSUME Inv, Shape, Shape', In
  PROVE  /\ now \in Nat /\ now' = now + 1 /\ UNCHANGED <<msgs, theirs, live, st, req, loads, base, early>>
         /\ ~mine.in /\ mine'.in /\ mine'.seq = now + 1 /\ mine'.joined = now + 1 /\ chan' = now + 1
         /\ Outs' = Outs /\ LastOut' = LastOut /\ PrevOut' = LastOut
         /\ Lefts' = Lefts /\ LastLeft' = LastLeft
         /\ (~unseen' => ~unseen /\ (skipped => ~(st.fence < LastOut)) /\ ~Unheard)
         /\ \A e \in sends' : e \in sends \/ (e.kind = "channel" /\ e.seq = 0)
<1>1. now \in Nat /\ now' = now + 1 /\ UNCHANGED <<msgs, theirs, tombs, live, st, req, loads, base, early>> /\ ~mine.in
      /\ chan' = now + 1 /\ mine' = [in |-> TRUE, seq |-> now + 1, joined |-> now + 1]
  BY DEF In, Change, Shape, Numbers
<1>2. mine'.in /\ mine'.seq = now + 1 /\ mine'.joined = now + 1
  BY <1>1
<1>3. Outs' = Outs /\ Lefts' = Lefts
  BY <1>1 DEF Outs, Lefts
<1>4. LastOut' = LastOut /\ LastLeft' = LastLeft
  BY <1>3, LastOutIs, LastOutAfter DEF LastLeft
<1>5. PrevOut' = LastOut
  <2>1. \A n \in Outs : n \in 1..now
    BY DEF Shape, Numbers
  <2>2. {n \in Outs' : n < mine'.joined} = Outs
    BY <1>1, <1>2, <1>3, <2>1
  <2> QED
    BY <2>2, LastOutIs DEF PrevOut
<1>6. ~unseen' => ~unseen /\ (skipped => ~(st.fence < LastOut)) /\ ~Unheard
  <2>1. unseen' = (unseen \/ (skipped /\ st.fence < LastOut) \/ Unheard)
    BY DEF In
  <2> QED
    BY <2>1
<1>7. \A e \in sends' : e \in sends \/ (e.kind = "channel" /\ e.seq = 0)
  <2>1. sends' = sends \cup {[kind |-> "channel", seq |-> 0]}
    BY DEF In, Change
  <2> QED
    BY <2>1
<1> QED
  BY <1>1, <1>2, <1>3, <1>4, <1>5, <1>6, <1>7

\* The device has heard of the removal, and has nothing; or of the beginning of the stay.
HeardOut ==
  /\ st.fence = LastOut /\ st.ch = 0 /\ st.my = 0 /\ ~st.cov.held /\ (st.th.seq = 0 \/ st.th.gone)
  /\ \A i \in Ids : st.rows[i].seq = 0
HeardJoin ==
  /\ st.fence < LastOut /\ Sound
  /\ st.cursor # 0 => st.my >= mine.joined /\ st.ch # 0
  /\ st.cursor = 0 /\ req.at \in {"state", "members", "page"} => req.page.my >= mine.joined

LEMMA InHeard ==
  ASSUME Inv, Shape, Shape', Feed, In, ~unseen'
  PROVE  ~unseen /\ (HeardOut \/ HeardJoin)
<1>1. ~mine.in /\ ~unseen /\ (skipped => ~(st.fence < LastOut)) /\ ~Unheard
  BY InSays
<1>2. /\ st.fence \in Int /\ LastOut \in Int /\ st.my \in Int /\ mine.joined \in Int
      /\ req.at \in {"state", "members", "page"} => req.page.my \in Int
  <2>1. st.fence \in 0..now /\ LastOut \in 0..now /\ st.my \in 0..now /\ mine.joined \in 1..now /\ now \in Nat
    BY DEF Shape, Stored, Server, Numbers
  <2>2. req.at \in {"state", "members", "page"} => req.page.my \in 0..now
    BY DEF Shape, Paged, Reading
  <2> QED
    BY <2>1, <2>2
<1>3. st.fence <= LastOut
  <2>1. st.fence = 0 \/ st.fence \in Outs
    BY DEF Feed, StoreOK
  <2> QED
    BY <1>2, <2>1 DEF Shape, Numbers
<1>4. CASE st.fence = LastOut
  <2>1. st.active /\ st.ch = 0 /\ (st.th.seq = 0 \/ st.th.gone)
    BY <1>1, <1>4 DEF Feed, GoneOK
  <2>2. st.my = 0 /\ \A i \in Ids : st.rows[i].seq = 0
    BY <2>1 DEF Feed, StoreOK
  <2>3. ~st.cov.held
    BY <2>1 DEF Feed, CovOK
  <2> QED
    BY <1>1, <1>4, <2>1, <2>2, <2>3 DEF HeardOut
<1>5. CASE st.fence < LastOut
  <2>1. Sound
    BY <1>1, <1>5 DEF Sound, Seen
  <2>2. st.cursor # 0 => st.my >= mine.joined /\ st.ch # 0
    BY <1>1, <1>2, <1>5 DEF Unheard
  <2>3. st.cursor = 0 /\ req.at \in {"state", "members", "page"} => req.page.my >= mine.joined
    BY <1>1, <1>2, <1>5 DEF Unheard
  <2> QED
    BY <1>1, <1>5, <2>1, <2>2, <2>3 DEF HeardJoin
<1> QED
  BY <1>2, <1>3, <1>4, <1>5

LEMMA InStore ==
  ASSUME Inv, Shape, Shape', Feed, In
  PROVE  SendsOK' /\ StoreParts'
<1>0. /\ now \in Nat /\ now' = now + 1 /\ UNCHANGED <<msgs, theirs, live, st, req, loads, base, early>>
      /\ ~mine.in /\ mine'.in /\ mine'.seq = now + 1 /\ mine'.joined = now + 1 /\ chan' = now + 1
      /\ Outs' = Outs /\ LastOut' = LastOut /\ PrevOut' = LastOut
      /\ Lefts' = Lefts /\ LastLeft' = LastLeft
  BY InSays
<1>1. /\ mine.seq \in 1..now /\ mine.joined \in 1..now /\ chan \in 1..now /\ LastOut \in 0..now
      /\ st.cursor \in 0..now /\ st.fence \in 0..now /\ st.ch \in 0..now /\ st.my \in 0..now
      /\ \A i \in DOMAIN msgs : i \in Ids /\ msgs[i].seq \in 1..now
  BY DEF Shape, Server, Numbers, Stored
<1>2. Sound' => ~unseen /\ (HeardOut \/ HeardJoin)
  BY InHeard DEF Sound
<1>3. Exact' /\ HeardJoin => Exact
  BY <1>0 DEF HeardJoin, Exact
<1>4. (Exact' => Sound')
  BY DEF Exact
<1>5. SendsOK'
  <2>1. \A e \in sends' : e \in sends \/ (e.kind = "channel" /\ e.seq = 0)
    BY InSays
  <2> SUFFICES ASSUME NEW e \in sends'
               PROVE  /\ e.kind = "delete" => e.seq = msgs[e.id].seq /\ msgs[e.id].gone
                      /\ e.kind = "channel" => e.seq <= chan'
                      /\ e.kind = "out" => e.seq \in Outs'
    BY <1>0 DEF SendsOK
  <2>2. CASE e \in sends
    <3>1. e.kind = "channel" => e.seq <= chan /\ e.seq \in Int
      BY <2>2 DEF Inv, ServerOK, Sends, Feed, SendsOK
    <3> QED
      BY <1>0, <1>1, <2>2, <3>1 DEF Feed, SendsOK
  <2>3. CASE e \notin sends
    BY <1>0, <2>1, <2>3
  <2> QED
    BY <2>2, <2>3
<1>6. StaysOK'
  BY <1>0, <1>1 DEF Feed, StaysOK
<1>7. LoadsOK' /\ CovOK' /\ TheirsOK'
  BY <1>0 DEF Feed, LoadsOK, CovOK, TheirsOK, VersionIs
<1>8. StoreOK'
  BY <1>0, <1>1 DEF Feed, StoreOK, VersionIs
<1>9. GoneOK' /\ ChannelOK' /\ OutHeard' /\ JoinHeard'
  BY <1>0, <1>1 DEF GoneOK, ChannelOK, OutHeard, JoinHeard
\* A version that was to come is, or is in what is gone.
<1>10. \A i \in DOMAIN msgs : HeardJoin /\ Due(msgs[i].seq) => Due(msgs[i].seq)'
  BY <1>0, <1>1 DEF HeardJoin, Due
<1>11. RowsExact'
  <2> SUFFICES ASSUME Exact', NEW i \in Ids, st.rows[i].seq # 0
               PROVE  st.rows[i].seq = msgs[i].seq \/ Due(msgs[i].seq)'
    BY <1>0 DEF RowsExact
  <2>1. HeardJoin /\ Exact
    BY <1>2, <1>3, <1>4 DEF HeardOut
  <2>2. i \in DOMAIN msgs /\ (st.rows[i].seq = msgs[i].seq \/ Due(msgs[i].seq))
    BY <2>1 DEF Feed, RowsExact, StoreOK, VersionIs
  <2> QED
    BY <1>10, <2>1, <2>2
<1>12. RangeExact'
  <2> SUFFICES ASSUME Exact', st.cov.held, NEW i \in DOMAIN msgs, (st.cov.complete \/ i >= st.cov.bottom) /\ Shown(i)
               PROVE  st.rows[i].seq # 0 \/ Due(msgs[i].seq)'
    BY <1>0 DEF RangeExact, Shown
  <2>1. HeardJoin /\ Exact
    BY <1>2, <1>3, <1>4 DEF HeardOut
  <2>2. st.rows[i].seq # 0 \/ Due(msgs[i].seq)
    BY <2>1 DEF Feed, RangeExact
  <2> QED
    BY <1>10, <2>1, <2>2
<1>13. LoadsExact'
  <2> SUFFICES ASSUME Exact', NEW l \in loads, NEW i \in DOMAIN msgs,
                      l.at = "read" /\ l.gen = st.gen /\ l.floor = st.fence,
                      l.rows[i].seq # msgs[i].seq /\ (l.rows[i].seq # 0 \/ (Shown(i) /\ Within(l, i)))
               PROVE  Due(msgs[i].seq)' \/ st.rows[i].seq = msgs[i].seq
    BY <1>0 DEF LoadsExact, Shown
  <2>1. st.ch # 0
    BY DEF Feed, LoadsOK
  <2>2. HeardJoin /\ Exact
    BY <1>2, <1>3, <1>4, <2>1 DEF HeardOut
  <2>3. Due(msgs[i].seq) \/ st.rows[i].seq = msgs[i].seq
    BY <2>2 DEF Feed, LoadsExact
  <2> QED
    BY <1>10, <2>2, <2>3
<1>14. PrevHeard'
  <2> SUFFICES ASSUME Sound', st.cursor # 0
               PROVE  st.fence >= LastOut \/ (st.ch # 0 /\ \A n \in Outs : n < LastOut => n < st.my)
    BY <1>0 DEF PrevHeard
  <2>1. CASE HeardOut
    BY <1>1, <2>1 DEF HeardOut
  <2>2. CASE HeardJoin
    <3>1. st.my >= mine.joined /\ st.ch # 0
      BY <2>2 DEF HeardJoin
    <3>2. \A n \in Outs : n \in 1..now /\ (n = LastOut \/ n < mine.joined)
      BY <1>0 DEF Feed, StaysOK, Shape, Numbers
    <3> QED
      BY <1>1, <3>1, <3>2
  <2> QED
    BY <1>2, <2>1, <2>2
<1>15. TheirsHeard'
  <2> SUFFICES ASSUME Sound', st.cursor # 0
               PROVE  /\ theirs.in /\ (st.my >= now + 1 \/ st.fence < LastOut) => st.th.seq = theirs.seq \/ theirs.seq > st.cursor
                      /\ ~theirs.in => st.th.seq = 0 \/ st.th.gone \/ LastLeft > st.cursor
    BY <1>0 DEF TheirsHeard
  <2>1. CASE HeardOut
    BY <1>0, <1>1, <2>1 DEF HeardOut
  <2>2. CASE HeardJoin
    BY <2>2 DEF HeardJoin, Feed, TheirsHeard
  <2> QED
    BY <1>2, <2>1, <2>2
<1> QED
  BY <1>5, <1>6, <1>7, <1>8, <1>9, <1>11, <1>12, <1>13, <1>14, <1>15 DEF StoreParts

LEMMA InLive ==
  ASSUME Inv, Shape, Shape', Feed, In
  PROVE  LiveParts'
<1>0. /\ now \in Nat /\ now' = now + 1 /\ UNCHANGED <<msgs, live, st, base, early>>
      /\ ~mine.in /\ mine'.in /\ mine'.joined = now + 1 /\ chan' = now + 1
      /\ Outs' = Outs /\ PrevOut' = LastOut /\ (~unseen' => ~unseen)
  BY InSays
<1>1. /\ chan \in 1..now /\ LastOut \in 0..now
      /\ \A e \in live : e.ch \in 0..now /\ \A i \in Ids : e.rows[i].seq \in 0..now
  BY DEF Shape, Server, InFlight, Numbers
<1>2. LiveKinds'
  BY <1>0 DEF Feed, LiveKinds
<1>3. LiveOK'
  BY <1>0, <1>1 DEF Feed, LiveOK, VersionIs
\* What was told while they were out is from before they left.
<1>4. ~unseen => \A e \in live, i \in Ids : e.rows[i].seq # 0 => e.rows[i].seq <= LastOut
  BY <1>0 DEF Feed, LiveTold, Told
<1>5. LiveTold'
  BY <1>0, <1>4 DEF LiveTold, Told
<1>6. LiveExact'
  <2> SUFFICES ASSUME Exact', NEW e \in live, NEW i \in Ids, e.rows[i].seq # 0
               PROVE  \/ e.rows[i].seq = msgs[i].seq \/ st.rows[i].seq = msgs[i].seq \/ msgs[i].seq > st.cursor
                      \/ e.rows[i].seq <= st.fence \/ e.rows[i].seq <= base
    BY <1>0 DEF LiveExact
  <2>1. ~unseen' /\ (~early)
    BY <1>0 DEF Exact, Sound
  <2>2. CASE HeardOut
    BY <1>0, <1>4, <2>1, <2>2 DEF HeardOut
  <2>3. CASE HeardJoin
    <3>1. Exact
      BY <2>1, <2>3 DEF HeardJoin, Exact
    <3> QED
      BY <3>1 DEF Feed, LiveExact
  <2> QED
    BY <2>1, <2>2, <2>3, InHeard
<1> QED
  BY <1>2, <1>3, <1>5, <1>6 DEF LiveParts

LEMMA InPage ==
  ASSUME Inv, Shape, Shape', Feed, In
  PROVE  PageParts'
<1>0. /\ now \in Nat /\ now' = now + 1 /\ UNCHANGED <<msgs, theirs, st, req>>
      /\ ~mine.in /\ mine'.in /\ mine'.seq = now + 1 /\ mine'.joined = now + 1 /\ chan' = now + 1
      /\ Outs' = Outs /\ LastOut' = LastOut /\ PrevOut' = LastOut
      /\ Lefts' = Lefts /\ LastLeft' = LastLeft /\ (~unseen' => ~unseen)
  BY InSays
<1>1. /\ chan \in 1..now /\ mine.seq \in 1..now /\ mine.joined \in 1..now /\ LastOut \in 0..now
      /\ st.cursor \in 0..now /\ st.my \in 0..now /\ st.fence \in 0..now
      /\ \A i \in DOMAIN msgs : i \in Ids /\ msgs[i].seq \in 1..now
  BY DEF Shape, Server, Numbers, Stored
<1>2. CASE req.at \notin Reading
  <2>1. Paperless' /\ CountedOK'
    BY <1>0, <1>2 DEF Paperless, CountedOK, Feed
  <2> QED
    BY <2>1, NoPageAfter
<1>3. CASE req.at \in Reading
  <2>1. /\ req.since = st.cursor /\ req.upper \in 0..now /\ req.page.ch \in 0..now /\ req.page.my \in 0..now /\ req.page.th \in 0..now
        /\ \A i \in Ids : req.page.rows[i].seq \in 0..now
    BY <1>3 DEF Shape, Paged
  <2>2. Sound' => ~unseen /\ (HeardOut \/ HeardJoin)
    BY InHeard DEF Sound
  <2>3. CountedOK' /\ PageStages'
    BY <1>0 DEF Feed, CountedOK, PageStages
  <2>4. PageOK'
    BY <1>0, <1>1, <1>3, <2>1 DEF Feed, PageOK, VersionIs
  <2>5. PageTold'
    <3>1. ~unseen => \A i \in Ids : req.page.rows[i].seq # 0 => req.page.rows[i].seq <= LastOut
      BY <1>0, <1>3 DEF Feed, PageTold, Told
    <3> QED
      BY <1>0, <3>1 DEF PageTold, Told
  <2>6. PageOurs'
    <3>1. Sound' /\ ~req.ours /\ req.since # 0 => st.th.seq = 0 \/ st.th.gone
      <4>1. HeardOut => st.th.seq = 0 \/ st.th.gone
        BY DEF HeardOut
      <4>2. HeardJoin /\ ~req.ours /\ req.since # 0 => st.th.seq = 0 \/ st.th.gone
        BY <1>3 DEF HeardJoin, Feed, PageOurs
      <4> QED
        BY <2>2, <4>1, <4>2
    <3> QED
      BY <1>0, <2>1, <3>1 DEF PageOurs
  <2>7. PageChannel' /\ PageJoin' /\ PageOut'
    BY <1>0, <1>1, <1>3, <2>1 DEF PageChannel, PageJoin, PageOut, AtChannels, AtMemberships, AtNewMembers, AtNewChannel, Reading
  <2>8. PageRows'
    <3> SUFFICES ASSUME Sound', req.at = "page", req.since # 0, NEW i \in DOMAIN msgs,
                        Due(msgs[i].seq)', msgs[i].seq <= req.upper
                 PROVE  req.page.rows[i] = msgs[i]
      BY <1>0 DEF PageRows
    <3>1. msgs[i].seq > st.cursor /\ msgs[i].seq > st.fence /\ ~(st.fence >= LastOut)
      BY <1>0, <1>1 DEF Due
    <3>2. HeardJoin
      BY <1>1, <2>2, <3>1 DEF HeardOut
    <3>3. Sound /\ st.my >= mine.joined
      BY <2>1, <3>2 DEF HeardJoin
    <3>4. Due(msgs[i].seq)
      BY <1>1, <3>1, <3>3 DEF Due
    <3> QED
      BY <3>3, <3>4 DEF Feed, PageRows
  <2>9. PageTheirs'
    <3>1. req.page.my >= now + 1 => FALSE
      BY <1>0, <2>1
    <3>2. Sound' /\ theirs.in /\ theirs.seq <= req.upper /\ req.at \in AtMemberships /\ req.since # 0 /\ st.cursor < theirs.seq
            /\ (st.my >= now + 1 \/ st.fence < LastOut) => req.page.th = theirs.seq
      <4> SUFFICES ASSUME Sound', theirs.in, theirs.seq <= req.upper, req.at \in AtMemberships, req.since # 0,
                          st.cursor < theirs.seq, st.my >= now + 1 \/ st.fence < LastOut
                   PROVE  req.page.th = theirs.seq
        OBVIOUS
      <4>1. HeardJoin
        BY <1>0, <1>1, <2>2 DEF HeardOut
      <4>2. Sound /\ st.my >= mine.joined
        BY <2>1, <4>1 DEF HeardJoin
      <4> QED
        BY <1>3, <4>2 DEF Feed, PageTheirs
    <3>3. Sound' /\ ~theirs.in /\ req.at \in AtTombs /\ req.since # 0 /\ st.cursor < LastLeft /\ LastLeft <= req.upper
            => st.th.seq = 0 \/ st.th.gone \/ req.page.left = LastLeft
      <4>1. HeardOut => st.th.seq = 0 \/ st.th.gone
        BY DEF HeardOut
      <4>2. HeardJoin => Sound
        BY DEF HeardJoin
      <4> QED
        BY <2>2, <4>1, <4>2 DEF Feed, PageTheirs
    <3>4. req.at = "new" => req.page.my <= req.upper
      BY DEF Feed, PageTheirs
    <3> QED
      BY <1>0, <3>1, <3>2, <3>3, <3>4 DEF PageTheirs
  <2>10. FirstPage'
    <3>1. Sound' /\ req.at \in {"state", "members", "page"} /\ req.since = 0 =>
            st.fence >= LastOut \/ (req.page.my # 0 /\ \A n \in Outs : n < LastOut => n < req.page.my)
      <4> SUFFICES ASSUME Sound', req.at \in {"state", "members", "page"}, req.since = 0
                   PROVE  st.fence >= LastOut \/ (req.page.my # 0 /\ \A n \in Outs : n < LastOut => n < req.page.my)
        OBVIOUS
      <4>1. CASE HeardOut
        BY <1>1, <4>1 DEF HeardOut
      <4>2. CASE HeardJoin
        <5>1. req.page.my >= mine.joined
          BY <2>1, <4>2 DEF HeardJoin
        <5>2. \A n \in Outs : n \in 1..now /\ (n = LastOut \/ n < mine.joined)
          BY <1>0 DEF Feed, StaysOK, Shape, Numbers
        <5> QED
          BY <1>1, <2>1, <5>1, <5>2
      <4> QED
        BY <2>2, <4>1, <4>2
    <3> QED
      BY <1>0, <3>1 DEF Feed, FirstPage
  <2> QED
    BY <2>3, <2>4, <2>5, <2>6, <2>7, <2>8, <2>9, <2>10 DEF PageParts
<1> QED
  BY <1>2, <1>3

LEMMA InKeepsFeed ==
  ASSUME Inv, Shape, Shape', Feed, In
  PROVE  Feed'
BY InStore, InLive, InPage, FeedIsAfter

LEMMA ChangesKeepFeed ==
  ASSUME Inv, Shape, Shape', Feed, Changes
  PROVE  Feed'
<1>0. ServerOK
  BY DEF Inv
<1>1. ASSUME NEW own \in BOOLEAN, Send(own) PROVE Feed'
  BY <1>0, <1>1, SendIsQuiet, QuietKeepsFeed
<1>2. ASSUME NEW i \in DOMAIN msgs, Edit(i) \/ Delete(i) PROVE Feed'
  BY <1>0, <1>2, StampIsQuiet, QuietKeepsFeed
<1>3. CASE Mark \/ OtherMember
  BY <1>0, <1>3, OthersAreQuiet, QuietKeepsFeed
<1> QED
  BY <1>1, <1>2, <1>3, OutKeepsFeed, InKeepsFeed, FloorKeepsFeed DEF Changes

-----------------------------------------------------------------------------
(* Runs that fail, what changes nothing here, and the beginning.           *)

LEMMA ResetKeepsFeed ==
  ASSUME Shape, Shape', Feed, Reset
  PROVE  Feed'
<1>0. /\ UNCHANGED <<now, msgs, mine, theirs, chan, tombs, sends, live, loads, base, skipped, unseen>>
      /\ st' = [Empty EXCEPT !.gen = st.gen + 1] /\ req' = Idle
  BY DEF Reset, serverVars
<1>1. /\ st'.cursor = 0 /\ st'.gen = st.gen + 1 /\ st'.ch = 0 /\ st'.my = 0 /\ st'.th.seq = 0 /\ ~st'.th.gone
      /\ st'.fence = 0 /\ ~st'.active /\ \A i \in Ids : st'.rows[i].seq = 0
      /\ st'.cov \in [held : BOOLEAN, top : Nat, bottom : Nat, complete : BOOLEAN] /\ ~st'.cov.held /\ st'.cov.top = 0
  BY <1>0 DEF Empty, Version, NoRows, NoCoverage
<1>2. Outs' = Outs /\ Lefts' = Lefts /\ LastOut' = LastOut /\ PrevOut' = PrevOut /\ LastLeft' = LastLeft
  BY <1>0, StillNumbers
<1>3. /\ now \in Nat /\ st.gen \in Nat /\ mine.seq \in 1..now /\ mine.joined \in 1..now /\ chan \in 1..now /\ theirs.seq \in 1..now
      /\ LastOut \in 0..now /\ LastLeft \in 0..now /\ \A i \in DOMAIN msgs : msgs[i].seq \in 1..now
      /\ \A l \in loads : l.gen \in Nat
  BY DEF Shape, Server, Numbers, Stored, InFlight
<1>4. StaysOK' /\ SendsOK'
  BY <1>0, <1>2 DEF Feed, StaysOK, SendsOK
<1>5. \A l \in loads : l.gen <= st'.gen /\ l.gen # st'.gen
  BY <1>1, <1>3 DEF Feed, LoadsOK
<1>6. LoadsOK' /\ LoadsExact'
  BY <1>0, <1>5 DEF Feed, LoadsOK, LoadsExact, VersionIs
<1>7. CovOK'
  BY <1>1 DEF CovOK
<1>8. StoreOK'
  BY <1>0, <1>1, <1>3 DEF Feed, StoreOK, VersionIs
<1>9. GoneOK' /\ ChannelOK' /\ JoinHeard' /\ PrevHeard' /\ OutHeard'
  BY <1>0, <1>1, <1>2, <1>3 DEF Feed, StaysOK, GoneOK, ChannelOK, JoinHeard, PrevHeard, OutHeard
<1>10. RowsExact' /\ RangeExact'
  BY <1>0, <1>1 DEF RowsExact, RangeExact
<1>11. TheirsOK' /\ TheirsHeard'
  BY <1>0, <1>1, <1>2, <1>3 DEF Feed, StaysOK, TheirsOK, TheirsHeard
<1>12. StoreParts'
  BY <1>4, <1>6, <1>7, <1>8, <1>9, <1>10, <1>11 DEF StoreParts
<1>13. LiveKinds' /\ LiveOK' /\ LiveTold'
  BY <1>0, <1>2 DEF Feed, LiveKinds, LiveOK, LiveTold, VersionIs, Told
<1>14. LiveExact'
  <2>1. \A e \in live, i \in Ids : e.rows[i].seq # 0 => msgs[i].seq > 0
    BY <1>3 DEF Feed, LiveOK, VersionIs
  <2> QED
    BY <1>0, <1>1, <2>1 DEF LiveExact
<1>15. Paperless' /\ CountedOK'
  BY <1>0 DEF Paperless, CountedOK, Idle, Reading
<1>16. PageParts'
  BY <1>15, NoPageAfter
<1>17. LiveParts'
  BY <1>13, <1>14 DEF LiveParts
<1> QED
  BY <1>4, <1>12, <1>16, <1>17, FeedIsAfter

LEMMA LosingKeepsFeed ==
  ASSUME Feed, LosePage
  PROVE  Feed'
<1>1. UNCHANGED <<now, msgs, mine, theirs, chan, tombs, sends, live, st, loads, base, early, skipped, unseen>> /\ req' = Idle
  BY DEF LosePage, serverVars, historyVars
<1>2. Asked
  BY <1>1 DEF Asked, Still, Seen
<1>3. Paperless' /\ CountedOK'
  BY <1>1 DEF Paperless, CountedOK, Idle, Reading
<1> QED
  BY <1>2, <1>3, NoPageAfter, AskedKeeps

LEMMA IdlingKeepsFeed ==
  ASSUME Feed, UNCHANGED <<serverVars, live, st, req, loads, historyVars>>
  PROVE  Feed'
<1>1. UNCHANGED <<now, msgs, mine, theirs, chan, tombs, sends, live, st, req, loads, base, early, skipped, unseen>>
  BY DEF serverVars, historyVars
<1>2. Asked
  BY <1>1 DEF Asked, Still, Seen
<1>3. PageParts'
  BY <1>1, <1>2, StillPage DEF Asked
<1> QED
  BY <1>2, <1>3, AskedKeeps

LEMMA InitFeed == Init => Feed
<1> SUFFICES ASSUME Init PROVE Feed
  OBVIOUS
<1>1. Shape
  BY InitInv, ShapeHolds
<1>2. /\ mine = Member /\ theirs = Member /\ chan = 1 /\ tombs = {} /\ sends = {} /\ live = {}
      /\ st = Empty /\ req = Idle /\ loads = {} /\ base = 0
  BY DEF Init
<1>4. /\ st.cursor = 0 /\ st.gen = 0 /\ st.ch = 0 /\ st.my = 0 /\ st.th.seq = 0 /\ ~st.th.gone
      /\ st.fence = 0 /\ ~st.active /\ \A i \in Ids : st.rows[i].seq = 0
      /\ st.cov \in [held : BOOLEAN, top : Nat, bottom : Nat, complete : BOOLEAN] /\ ~st.cov.held /\ st.cov.top = 0
  BY <1>2 DEF Empty, Version, NoRows, NoCoverage
<1>5. Outs = {} /\ Lefts = {}
  BY <1>2 DEF Outs, Lefts
<1>6. LastOut = 0 /\ PrevOut = 0 /\ LastLeft = 0 /\ now \in Nat
  BY <1>1, <1>5 DEF Shape, Numbers
<1>7. mine.in /\ mine.seq = 1 /\ mine.joined = 1 /\ theirs.in /\ theirs.seq = 1
  BY <1>2 DEF Member
<1>8. StaysOK /\ SendsOK
  BY <1>2, <1>5, <1>6, <1>7 DEF StaysOK, SendsOK
<1>9. LoadsOK /\ LoadsExact /\ LiveKinds /\ LiveOK /\ LiveTold /\ LiveExact
  BY <1>2 DEF LoadsOK, LoadsExact, LiveKinds, LiveOK, LiveTold, LiveExact
<1>10. CovOK /\ StoreOK
  BY <1>2, <1>4, <1>6, <1>7 DEF CovOK, StoreOK, VersionIs
<1>11. GoneOK /\ ChannelOK /\ JoinHeard /\ PrevHeard /\ OutHeard /\ RowsExact /\ RangeExact
  BY <1>2, <1>4, <1>6, <1>7 DEF GoneOK, ChannelOK, JoinHeard, PrevHeard, OutHeard, RowsExact, RangeExact
<1>12. TheirsOK /\ TheirsHeard
  BY <1>4, <1>6, <1>7 DEF TheirsOK, TheirsHeard
<1>13. Paperless /\ CountedOK
  BY <1>2 DEF Paperless, CountedOK, Idle, Reading
<1>14. PageParts
  BY <1>13, NoPage
<1> QED
  BY <1>8, <1>9, <1>10, <1>11, <1>12, <1>14 DEF Feed, PageParts

LEMMA StepFeed == Inv /\ Feed /\ [Next]_vars => Feed'
<1> SUFFICES ASSUME Inv, Feed, [Next]_vars PROVE Feed'
  OBVIOUS
<1>1. Shape /\ Shape'
  BY StepInv, ShapeHolds, ShapeAfter
<1>2. CASE Changes
  BY <1>1, <1>2, ChangesKeepFeed
<1>3. CASE Live
  BY <1>1, <1>3, EmissionKeepsFeed, EventKeepsFeed DEF Live
<1>4. CASE History
  BY <1>1, <1>4, AskingKeepsFeed, LandingKeepsFeed DEF History
<1>5. CASE Reads
  BY <1>1, <1>5, ReadsKeepFeed
<1>6. CASE Sync
  <2>1. CASE AskForSync
    BY <2>1, IdlingKeepsFeed DEF AskForSync
  <2>2. CASE LandPage
    BY <1>1, <2>2, PageKeepsFeed
  <2>3. CASE LosePage
    BY <2>3, LosingKeepsFeed
  <2>4. CASE Reset
    BY <1>1, <2>4, ResetKeepsFeed
  <2>5. CASE UNCHANGED <<budget, serverVars, live, st, req, loads, historyVars, wanted, refused>>
    BY <2>5, IdlingKeepsFeed
  <2> QED
    BY <1>6, <2>1, <2>2, <2>3, <2>4, <2>5 DEF Sync
<1>7. CASE UNCHANGED vars
  BY <1>7, IdlingKeepsFeed DEF vars
<1> QED
  BY <1>2, <1>3, <1>4, <1>5, <1>6, <1>7 DEF Next

-----------------------------------------------------------------------------
(* With the cursor at the counter nothing is still to come.                *)

LEMMA NothingDue ==
  ASSUME Shape, CaughtUp
  PROVE  /\ \A n \in 0..now : ~Due(n)
         /\ \A i \in DOMAIN msgs : ~Due(msgs[i].seq)
<1>1. now \in Nat /\ st.cursor = now /\ \A i \in DOMAIN msgs : msgs[i].seq \in 0..now
  BY DEF CaughtUp, Shape, Numbers, Server
<1>2. \A n \in 0..now : ~Due(n)
  BY <1>1 DEF Due
<1> QED
  BY <1>1, <1>2

LEMMA MemberAgrees ==
  ASSUME Inv, Shape, Feed, CaughtUp, ~unseen, ~early, mine.in
  PROVE  Agrees
<1>1. Exact /\ Sound
  BY DEF Exact, Sound, Seen
<1>2. /\ now \in Nat /\ now >= 1 /\ st.cursor = now /\ chan <= now /\ mine.seq <= now /\ mine.joined <= now
      /\ theirs.seq \in 0..now /\ LastLeft \in 0..now /\ st.th.gone \in BOOLEAN
  BY DEF CaughtUp, Shape, Numbers, Server, Stored
<1>3. st.ch = chan /\ st.my = mine.seq /\ st.my >= mine.joined
  BY <1>2 DEF Feed, ChannelOK
<1>4. IF theirs.in THEN st.th = [seq |-> theirs.seq, gone |-> FALSE] ELSE st.th.seq = 0 \/ st.th.gone
  <2>1. CASE theirs.in
    <3>1. st.th.seq = theirs.seq
      BY <1>1, <1>2, <1>3, <2>1 DEF Feed, TheirsHeard
    <3>2. ~st.th.gone
      BY <2>1, <3>1 DEF Feed, TheirsOK
    <3>3. st.th = [seq |-> st.th.seq, gone |-> st.th.gone]
      <4>1. st.th \in [seq : 0..now, gone : BOOLEAN]
        BY DEF Inv, DeviceOK, IsStore
      <4> QED
        BY <4>1
    <3>4. st.th.gone = FALSE
      BY <1>2, <3>2
    <3> QED
      BY <2>1, <3>1, <3>3, <3>4
  <2>2. CASE ~theirs.in
    BY <1>1, <1>2, <2>2 DEF Feed, TheirsHeard
  <2> QED
    BY <2>1, <2>2
<1>5. ASSUME NEW i \in Cached(st)
      PROVE  st.rows[i].seq = msgs[i].seq /\ st.rows[i].gone = msgs[i].gone
  <2>1. i \in Ids /\ st.rows[i].seq # 0
    BY DEF Cached
  <2>2. i \in DOMAIN msgs /\ (st.rows[i].seq = msgs[i].seq => st.rows[i].gone = msgs[i].gone)
    BY <2>1 DEF Feed, StoreOK, VersionIs
  <2>3. st.rows[i].seq = msgs[i].seq
    BY <1>1, <2>1, <2>2, NothingDue DEF Feed, RowsExact
  <2> QED
    BY <2>2, <2>3
<1> QED
  BY <1>3, <1>4, <1>5 DEF Agrees

LEMMA OutsiderAgrees ==
  ASSUME Shape, Feed, CaughtUp, ~unseen, ~early, ~mine.in
  PROVE  Agrees
<1>1. LastOut <= st.cursor
  BY DEF CaughtUp, Shape, Numbers
<1>2. st.ch = 0
  BY <1>1 DEF Feed, OutHeard
<1>3. Cached(st) = {}
  BY <1>2 DEF Feed, StoreOK, Cached
<1> QED
  BY <1>2, <1>3 DEF Agrees

LEMMA PageIs ==
  ASSUME NEW before, NEW n
  PROVE  /\ CachedPage(st, before, n).ids = Newest({i \in Cached(st) : before = 0 \/ i < before}, n)
         /\ ~CachedPage(st, before, n).needs =>
              /\ st.cov.held
              /\ \/ st.cov.complete
                 \/ /\ Cardinality(CachedPage(st, before, n).ids) >= n
                    /\ Min(CachedPage(st, before, n).ids) >= st.cov.bottom
  BY DEF CachedPage

LEMMA PagesAreWhole ==
  ASSUME Inv, Shape, Feed, CaughtUp, ~unseen, ~early, mine.in
  PROVE  NoGap
<1> SUFFICES ASSUME NEW before \in 0..Len(msgs), NEW n \in 1..Limit PROVE Whole(before, n)
  BY DEF NoGap
<1> DEFINE S == {i \in Cached(st) : before = 0 \/ i < before}
           ids == CachedPage(st, before, n).ids
           bottom == IF Cardinality(ids) < n THEN 1 ELSE Min(ids)
           top == IF before = 0 THEN Len(msgs) ELSE before - 1
<1>1. ids = Newest(S, n)
  BY PageIs
<1>2. S \subseteq Int /\ S \subseteq Ids /\ IsFiniteSet(S) /\ n \in Nat \ {0} /\ before \in Nat
  <2>1. S \subseteq Ids /\ IsFiniteSet(Ids)
    BY BoundsAssumption, FS_Interval DEF Cached, Ids
  <2>2. S \subseteq Int
    BY <2>1, BoundsAssumption DEF Ids
  <2>3. IsFiniteSet(S)
    <3> HIDE DEF S
    <3> QED
      BY <2>1, FS_Subset
  <2>4. n \in Nat \ {0} /\ before \in Nat
    BY BoundsAssumption DEF Inv, ServerOK
  <2> QED
    BY <2>1, <2>2, <2>3, <2>4
<1>3. /\ ids \subseteq S /\ IsFiniteSet(ids) /\ Cardinality(ids) \in Nat
      /\ Cardinality(ids) < n => ids = S
      /\ \A i \in S : ids # {} /\ i >= Min(ids) => i \in ids
  <2> HIDE DEF S, ids
  <2> QED
    BY <1>1, <1>2, NewestIs
<1>4. Cardinality(ids) >= n => ids # {} /\ Min(ids) \in Int
  <2> SUFFICES ASSUME Cardinality(ids) >= n PROVE ids # {} /\ Min(ids) \in Int
    OBVIOUS
  <2> HIDE DEF S, ids
  <2>1. ids # {}
    BY <1>2, FS_EmptySet
  <2>2. Min(ids) \in ids
    BY <1>2, <1>3, <2>1, Least
  <2> QED
    BY <1>2, <1>3, <2>1, <2>2
<1>5. ASSUME ~CachedPage(st, before, n).needs, NEW i \in bottom..top, Shown(i)
      PROVE  i \in ids
  <2>1. st.cov.held /\ (st.cov.complete \/ (Cardinality(ids) >= n /\ Min(ids) >= st.cov.bottom))
    BY <1>5, PageIs
  <2>2. i \in DOMAIN msgs /\ i \in Ids
    BY <1>5 DEF Shown, Shape, Server
  <2>3. i \in Int /\ st.cov.bottom \in Int /\ (before = 0 \/ i < before)
    <3>1. st.cov.bottom \in Nat
      BY DEF Feed, CovOK
    <3>2. i \in Int
      BY <2>2, BoundsAssumption DEF Ids
    <3>3. before # 0 => i <= before - 1
      BY <1>5
    <3> QED
      BY <1>2, <3>1, <3>2, <3>3
  <2>4. Cardinality(ids) >= n => i >= Min(ids)
    <3> HIDE DEF ids
    <3> QED
      BY <1>2, <1>3, <1>4, <1>5
  <2>5. st.cov.complete \/ i >= st.cov.bottom
    <3> HIDE DEF ids
    <3> QED
      BY <1>4, <2>1, <2>3, <2>4
  <2>6. Exact
    BY DEF Exact, Sound, Seen
  <2>7. st.rows[i].seq # 0
    BY <1>5, <2>1, <2>2, <2>5, <2>6, NothingDue DEF Feed, RangeExact
  <2>8. i \in S
    BY <2>2, <2>3, <2>7 DEF Cached
  <2> HIDE DEF S, ids
  <2> QED
    BY <1>2, <1>3, <1>4, <2>4, <2>8
<1> HIDE DEF S
<1> QED
  BY <1>5 DEF Whole

LEMMA FeedIsCurrent == Inv /\ Feed => Current
<1> SUFFICES ASSUME Inv, Feed, CaughtUp, ~unseen, ~early PROVE Agrees /\ (mine.in => NoGap)
  BY DEF Current
<1>1. Shape
  BY ShapeHolds
<1> QED
  BY <1>1, MemberAgrees, OutsiderAgrees, PagesAreWhole

\* Whenever the cursor is at the counter, and the history was not told of a removal that no
\* page found out or of what came outside the first sync, the cache is what the server has:
\* the channel, both memberships, each message that is here at its version, nothing of a
\* channel the user is out of; and a page that is said to be whole lacks no message.  For any
\* number of messages, changes, pages, late or lost events and history pages, in any order
\* (apply.rs, coverage.rs, sync.rs).
THEOREM CaughtUpIsCurrent == Spec => []Current
<1>1. Inv /\ Feed /\ [Next]_vars => (Inv /\ Feed)'
  BY StepInv, StepFeed
<1> QED
  BY <1>1, InitInv, InitFeed, FeedIsCurrent, PTL DEF Spec

=============================================================================
