--------------------------- MODULE FileCacheProofs ---------------------------
(***************************************************************************)
(* Proofs about FileCache, for any files, any number of chunks, any        *)
(* SYNC_EVERY and any room in the cache.                                   *)
(*                                                                         *)
(* The argument: rows and the sinks of downloads change apart, and only    *)
(* keys tie them.  A download gets its key from its row under blob_lock    *)
(* (LockHeld), and a sweep has that lock from its list of paths until it   *)
(* forgets them, so none of these has a download that knows a row          *)
(* (SweptAway).  A row goes with its key; a new one gets a key no sink     *)
(* has, and is then `crossed` if a sink has another.  So the sink of a     *)
(* row that is not crossed wrote every chunk the row counts under the      *)
(* row's key (SinksAgree), which is what a row says of its blob.           *)
(*                                                                         *)
(* FileInv is inductive.  It is taken apart by file (Holds): most steps    *)
(* change one file (OneFile) or none (Calm).                               *)
(***************************************************************************)
EXTENDS FileCache, FiniteSetTheorems, TLAPS

\* FileInv, one file at a time.
Holds(f) ==
  /\ rows[f].st # "none" => f \in listed
  /\ blob[f].there /\ rows[f].st = "none" => f \in journal \cup stray
  /\ f \notin crossed /\ rows[f].st # "none" => Counted(f)
  /\ At(f, "blob") /\ rows[f].st = "none" => f \in journal
  /\ sweep.at = "forget" /\ f \in sweep.paths => ~blob[f].there
  /\ f \in sweep.paths /\ f \notin crossed /\ rows[f].st # "none" => rows[f].done = 0 /\ flight[f].key = 0
  /\ SinkHolds(f)
  /\ f \notin crossed /\ rows[f].st # "none" /\ flight[f].key # 0 => SinkAgrees(f)

-----------------------------------------------------------------------------
(* What the operators return.                                              *)

LEMMA NumbersAre == Chunks \in Nat \ {0} /\ SyncEvery \in Nat \ {0} /\ MaxTries \in Nat \ {0} /\ Cap \in Nat
  BY NumbersAssumption

LEMMA FileInvIs == FileInv <=> TypeOK /\ LockHeld /\ \A f \in Files : Holds(f)
<1>1. ASSUME FileInv, NEW f \in Files PROVE Holds(f)
  BY <1>1 DEF FileInv, Holds, BelongsToAMessage, RowsHold, SweptAway, SinksAgree
<1>2. ASSUME TypeOK, LockHeld, \A f \in Files : Holds(f) PROVE FileInv
  <2>1. BelongsToAMessage BY <1>2 DEF Holds, BelongsToAMessage
  <2>2. RowsHold BY <1>2 DEF Holds, RowsHold
  <2>3. SweptAway
    <3>1. sweep.paths \subseteq Files BY <1>2 DEF TypeOK
    <3> QED BY <1>2, <3>1 DEF Holds, SweptAway
  <2>4. SinksAgree BY <1>2 DEF Holds, SinksAgree
  <2> QED BY <1>2, <2>1, <2>2, <2>3, <2>4 DEF FileInv
<1> QED BY <1>1, <1>2 DEF FileInv

LEMMA FileInvNext ==
  ASSUME TypeOK', LockHeld', \A f \in Files : Holds(f)'
  PROVE  FileInv'
<1>1. BelongsToAMessage' BY DEF Holds, BelongsToAMessage
<1>2. RowsHold' BY DEF Holds, RowsHold
<1>3. SweptAway'
  <2>1. sweep'.paths \subseteq Files BY DEF TypeOK
  <2> QED BY <2>1 DEF Holds, SweptAway
<1>4. SinksAgree' BY DEF Holds, SinksAgree
<1> QED BY <1>1, <1>2, <1>3, <1>4 DEF FileInv

LEMMA MinOfTwo ==
  ASSUME NEW a \in Int, NEW b \in Int
  PROVE  Min({a, b}) = IF a <= b THEN a ELSE b
  BY DEF Min

\* The keys in use are fewer than those there are.
LEMMA FreshKey ==
  ASSUME NEW f \in Files, TypeOK
  PROVE  Fresh(f) \in Nat /\ Fresh(f) # 0
<1> DEFINE K == {blob[f].chunks[i] : i \in DOMAIN blob[f].chunks}
           n == Len(blob[f].chunks)
           used == {rows[f].key, flight[f].key} \cup K
           S == 1..Chunks + 3
<1>1. n \in Nat /\ n <= Chunks /\ DOMAIN blob[f].chunks = 1..n
  BY NumbersAre DEF TypeOK, BlobRecords
<1>2. IsFiniteSet(K) /\ Cardinality(K) <= n
  <2> DEFINE g == [i \in 1..n |-> blob[f].chunks[i]]
  <2>1. g \in Surjection(1..n, K) BY <1>1 DEF Surjection
  <2>2. ExistsSurjection(1..n, K) BY <2>1 DEF ExistsSurjection
  <2>3. IsFiniteSet(K) BY <2>2, <1>1, FS_NatSurjection
  <2>4. Cardinality(K) <= n BY <2>2, <1>1, FS_SurjCardinalityBound
  <2> QED BY <2>3, <2>4
<1>3. IsFiniteSet(used) /\ Cardinality(used) < Chunks + 3
  <2> DEFINE a == rows[f].key
             b == flight[f].key
  <2> HIDE DEF K, a, b
  <2>1. Cardinality(K) \in Nat BY <1>2, FS_CardinalityType
  <2>2. IsFiniteSet(K \cup {a}) /\ Cardinality(K \cup {a}) \in {Cardinality(K), Cardinality(K) + 1}
    BY <1>2, FS_AddElement
  <2>3. /\ IsFiniteSet((K \cup {a}) \cup {b})
        /\ Cardinality((K \cup {a}) \cup {b}) \in {Cardinality(K \cup {a}), Cardinality(K \cup {a}) + 1}
    BY <2>2, FS_AddElement
  <2>4. used = (K \cup {a}) \cup {b} BY DEF a, b
  <2>5. n \in Nat /\ n <= Chunks /\ Cardinality(K) <= n BY <1>1, <1>2
  <2> HIDE DEF used, n
  <2> QED BY <2>1, <2>2, <2>3, <2>4, <2>5, NumbersAre
<1>4. \E k \in S : k \notin used
  <2>1. SUFFICES ASSUME S \subseteq used PROVE FALSE OBVIOUS
  <2>2. Cardinality(S) = Chunks + 3 BY NumbersAre, FS_Interval
  <2> HIDE DEF used, S
  <2>3. Cardinality(S) <= Cardinality(used) BY <2>1, <1>3, FS_Subset
  <2>4. Cardinality(used) \in Nat BY <1>3, FS_CardinalityType
  <2> QED BY <2>2, <2>3, <2>4, <1>3, NumbersAre
<1>5. Fresh(f) \in S
  BY <1>4 DEF Fresh
<1> QED BY <1>5, NumbersAre

LEMMA NewRowIs ==
  ASSUME NEW f \in Files, TypeOK, NEW pinned \in BOOLEAN
  PROVE  /\ NewRow(f, pinned) \in RowRecords
         /\ NewRow(f, pinned).st = "partial" /\ NewRow(f, pinned).done = 0
         /\ NewRow(f, pinned).key = Fresh(f) /\ NewRow(f, pinned).key # 0 /\ NewRow(f, pinned).key \in Nat
<1>1. Fresh(f) \in Nat /\ Fresh(f) # 0 BY FreshKey
<1> QED BY <1>1, NumbersAre DEF NewRow, RowRecords

LEMMA SetLenIs ==
  ASSUME NEW chunks \in Seq(Nat), NEW n \in Nat
  PROVE  /\ SetLen(chunks, n) \in Seq(Nat) /\ Len(SetLen(chunks, n)) = n
         /\ \A i \in 1..n : i <= Len(chunks) => SetLen(chunks, n)[i] = chunks[i]
<1>1. SetLen(chunks, n) \in [1..n -> Nat] BY DEF SetLen
<1>2. SetLen(chunks, n) \in Seq(Nat) BY <1>1
<1>3. Len(SetLen(chunks, n)) = n BY <1>1, <1>2
<1> QED BY <1>2, <1>3 DEF SetLen

\* What a written chunk leaves.
LEMMA WrittenIs ==
  ASSUME NEW chunks \in Seq(Nat), NEW n \in Nat, NEW key \in Nat
  PROVE  /\ SetLen(chunks, n) \o <<key>> \in Seq(Nat)
         /\ Len(SetLen(chunks, n) \o <<key>>) = n + 1 /\ (SetLen(chunks, n) \o <<key>>)[n + 1] = key
         /\ \A i \in 1..n : i <= Len(chunks) => (SetLen(chunks, n) \o <<key>>)[i] = chunks[i]
<1> DEFINE c == SetLen(chunks, n)
<1>1. /\ c \in Seq(Nat) /\ Len(c) = n
      /\ \A i \in 1..n : i <= Len(chunks) => c[i] = chunks[i]
  BY SetLenIs
<1> HIDE DEF c
<1>2. c \o <<key>> \in Seq(Nat) /\ Len(c \o <<key>>) = n + 1 BY <1>1
<1>3. (c \o <<key>>)[n + 1] = key BY <1>1
<1>4. \A i \in 1..n : (c \o <<key>>)[i] = c[i] BY <1>1
<1> QED BY <1>1, <1>2, <1>3, <1>4 DEF c

-----------------------------------------------------------------------------
(* Types.                                                                  *)

LEMMA SpendIs == ASSUME TypeOK, NEW w \in Outside, Spend(w) PROVE budget' \in [Outside -> Nat]
  BY DEF TypeOK, Spend

LEMMA RowIs == ASSUME TypeOK, NEW f \in Files
  PROVE /\ rows[f] \in RowRecords /\ rows[f].st \in {"none", "partial", "complete"} /\ rows[f].key \in Nat
        /\ rows[f].done \in 0..Chunks /\ rows[f].pinned \in BOOLEAN
  BY DEF TypeOK, RowRecords

LEMMA BlobIs == ASSUME TypeOK, NEW f \in Files
  PROVE /\ blob[f] \in BlobRecords /\ blob[f].there \in BOOLEAN /\ blob[f].chunks \in Seq(Nat)
        /\ blob[f].synced \in Nat /\ blob[f].synced <= Len(blob[f].chunks) /\ Len(blob[f].chunks) <= Chunks
        /\ Len(blob[f].chunks) \in Nat
<1>1. blob[f] \in BlobRecords /\ blob[f].synced <= Len(blob[f].chunks) /\ Len(blob[f].chunks) <= Chunks BY DEF TypeOK
<1> QED BY <1>1 DEF BlobRecords

LEMMA FlightIs == ASSUME TypeOK, NEW f \in Files
  PROVE /\ flight[f] \in FlightRecords /\ flight[f].at \in Stages /\ flight[f].key \in Nat
        /\ flight[f].sealed \in 0..Chunks /\ flight[f].durable \in 0..Chunks /\ flight[f].linked \in BOOLEAN
        /\ flight[f].res \in Answers
<1>1. flight[f] \in FlightRecords BY DEF TypeOK
<1> QED BY <1>1 DEF FlightRecords

LEMMA NoFlightIs == NoFlight \in FlightRecords
  BY NumbersAre DEF NoFlight, FlightRecords, Stages, Answers

\* A download moves on.
LEMMA FlightMoves ==
  ASSUME NEW r \in FlightRecords
  PROVE  /\ \A a \in Stages : [r EXCEPT !.at = a] \in FlightRecords
         /\ \A a \in Stages, res \in Answers : [r EXCEPT !.at = a, !.res = res] \in FlightRecords
  BY DEF FlightRecords

\* Only downloads change, and what comes from outside.
LEMMA FlightTypes ==
  ASSUME TypeOK, budget' \in [Outside -> Nat], flight' \in [Files -> FlightRecords],
         UNCHANGED <<listed, rows, journal, blob, up, session>>, UNCHANGED <<lock, sweep, sweeper>>,
         UNCHANGED <<caller, fetcher, unpinning, crossed, misled, stray>>
  PROVE  TypeOK'
  BY DEF TypeOK

-----------------------------------------------------------------------------
(* What leaves a file's part of the invariant alone.                       *)

\* Where a sink has nothing yet, and where its row may be complete.
Fresh0 == {"none", "start", "make"}
Whole  == {"none", "start", "make", "keep", "evict", "sweep", "end"}

\* A download that goes on, its sink as it was.
Calm(f) ==
  /\ flight'[f].key = flight[f].key /\ flight'[f].sealed = flight[f].sealed /\ flight'[f].linked = flight[f].linked
  /\ \/ flight'[f].at = flight[f].at
     \/ /\ flight[f].at \notin Fresh0 \cup {"blob", "cut", "end"}
        /\ flight'[f].at \notin Fresh0 \cup {"blob", "cut", "mark"}
        /\ flight'[f].at \in Whole \/ flight[f].at \notin Whole

LEMMA CalmHolds ==
  ASSUME NEW f \in Files, Holds(f), Calm(f), rows'[f] = rows[f], blob'[f] = blob[f],
         f \in listed => f \in listed', f \in journal => f \in journal' \/ rows[f].st # "none",
         f \in stray => f \in stray', f \in crossed' <=> f \in crossed,
         f \in sweep'.paths => f \in sweep.paths,
         f \in sweep'.paths /\ sweep'.at = "forget" => sweep.at = "forget"
  PROVE  Holds(f)'
<1>1. Counted(f)' <=> Counted(f) BY DEF Counted
<1>2. SinkHolds(f)' BY DEF Holds, SinkHolds, Calm, Fresh0, Whole
<1>3. f \notin crossed /\ rows[f].st # "none" /\ flight[f].key # 0 => SinkAgrees(f)'
  BY DEF Holds, SinkAgrees, Calm, Fresh0, At
<1>4. flight'[f].key = flight[f].key /\ (At(f, "blob")' => At(f, "blob")) BY DEF Calm, Fresh0, At
<1> QED BY <1>1, <1>2, <1>3, <1>4 DEF Holds

LEMMA SameHolds ==
  ASSUME NEW f \in Files, Holds(f), rows'[f] = rows[f], blob'[f] = blob[f], flight'[f] = flight[f],
         f \in listed => f \in listed', f \in journal => f \in journal' \/ rows[f].st # "none",
         f \in stray => f \in stray', f \in crossed' <=> f \in crossed,
         f \in sweep'.paths => f \in sweep.paths,
         f \in sweep'.paths /\ sweep'.at = "forget" => sweep.at = "forget"
  PROVE  Holds(f)'
<1>1. Calm(f) BY DEF Calm
<1> QED BY <1>1, CalmHolds

\* The lock stays with who has it.
LEMMA LockCalm ==
  ASSUME LockHeld, UNCHANGED <<lock, sweep>>, sweeper'.at = sweeper.at, up' = up,
         \A g \in Files :
           \/ flight'[g].at = flight[g].at
           \/ /\ flight[g].at \notin {"make", "blob", "sweep"} /\ flight'[g].at \notin {"make", "blob"}
              /\ flight[g].at # "none" \/ up # "down"
  PROVE  LockHeld'
<1>1. \A g \in Files : flight'[g].at \in {"make", "blob"} <=> flight[g].at \in {"make", "blob"} OBVIOUS
<1>2. WantsSweep(lock) => WantsSweep(lock)' BY DEF WantsSweep, At
<1>3. up = "down" /\ Flying = {} => Flying' = {} BY DEF Flying
<1> QED BY <1>1, <1>2, <1>3 DEF LockHeld

\* Only downloads change, each calmly or not at all.
LEMMA AllCalm ==
  ASSUME FileInv, budget' \in [Outside -> Nat], flight' \in [Files -> FlightRecords], \A g \in Files : Calm(g),
         UNCHANGED <<listed, rows, journal, blob, up, session>>, UNCHANGED <<lock, sweep, sweeper>>,
         UNCHANGED <<caller, fetcher, unpinning, crossed, misled, stray>>,
         \A g \in Files : flight'[g].at = flight[g].at \/ flight[g].at # "sweep"
  PROVE  FileInv'
<1>1. TypeOK /\ LockHeld /\ \A g \in Files : Holds(g) BY FileInvIs
<1>2. TypeOK' BY <1>1, FlightTypes
<1>3. \A g \in Files : Holds(g)' BY <1>1, CalmHolds
<1>4. ASSUME NEW g \in Files PROVE
           \/ flight'[g].at = flight[g].at
           \/ /\ flight[g].at \notin {"make", "blob", "sweep"} /\ flight'[g].at \notin {"make", "blob"}
              /\ flight[g].at # "none" \/ up # "down"
  BY DEF Calm, Fresh0
<1>5. LockHeld' BY <1>1, <1>4, LockCalm
<1> QED BY <1>2, <1>3, <1>5, FileInvNext

LEMMA OneCalm ==
  ASSUME FileInv, NEW f \in Files, NEW r \in FlightRecords, Fly(f, r), budget' \in [Outside -> Nat],
         r.key = flight[f].key, r.sealed = flight[f].sealed, r.linked = flight[f].linked,
         flight[f].at \notin Fresh0 \cup {"blob", "cut", "sweep", "end"},
         r.at \notin Fresh0 \cup {"blob", "cut", "mark"},
         r.at \in Whole \/ flight[f].at \notin Whole,
         UNCHANGED <<listed, rows, journal, blob, up, session>>, UNCHANGED <<lock, sweep, sweeper>>,
         UNCHANGED <<caller, fetcher, unpinning, crossed, misled, stray>>
  PROVE  FileInv'
<1>1. TypeOK BY DEF FileInv
<1>2. flight' \in [Files -> FlightRecords] /\ flight'[f] = r /\ \A g \in Files : g # f => flight'[g] = flight[g]
  BY <1>1 DEF TypeOK, Fly
<1>3. \A g \in Files : Calm(g) BY <1>2 DEF Calm
<1>4. \A g \in Files : flight'[g].at = flight[g].at \/ flight[g].at # "sweep" BY <1>2
<1> QED BY <1>2, <1>3, <1>4, AllCalm

-----------------------------------------------------------------------------
(* The steps of a download.                                                *)

LEMMA StopStep == ASSUME FileInv, NEW f \in Files, Stop(f) PROVE FileInv'
<1> DEFINE r == [flight[f] EXCEPT !.at = "abort", !.res = IF flight[f].cancel THEN "cancelled" ELSE "failed"]
<1>1. TypeOK BY DEF FileInv
<1>2. r \in FlightRecords BY <1>1, FlightIs, FlightMoves DEF Stages, Answers
<1>3. Fly(f, r) BY DEF Stop, Abort
<1>4. r.key = flight[f].key /\ r.sealed = flight[f].sealed /\ r.linked = flight[f].linked /\ r.at = "abort"
  BY <1>1, FlightIs DEF FlightRecords
<1> HIDE DEF r
<1> QED BY <1>1, <1>2, <1>3, <1>4, OneCalm DEF Stop, At, Others, NoSweeping, sweepVars, callVars, histVars, TypeOK, Fresh0, Whole

LEMMA EndsEarly ==
  ASSUME FileInv, NEW f \in Files, flight[f].at = "get", NEW r, Fly(f, r), budget' \in [Outside -> Nat],
         \/ \E res \in Answers : r = [flight[f] EXCEPT !.at = "abort", !.res = res]
         \/ r = [flight[f] EXCEPT !.at = "rekey"],
         UNCHANGED <<listed, rows, journal, blob, up, session>>, UNCHANGED <<lock, sweep, sweeper>>,
         UNCHANGED <<caller, fetcher, unpinning, crossed, misled, stray>>
  PROVE  FileInv'
<1>1. TypeOK BY DEF FileInv
<1>2. r \in FlightRecords
  <2>1. flight[f] \in FlightRecords BY <1>1, FlightIs
  <2>2. {"abort", "rekey"} \subseteq Stages BY DEF Stages
  <2>3. /\ \A a \in Stages : [flight[f] EXCEPT !.at = a] \in FlightRecords
        /\ \A a \in Stages, res \in Answers : [flight[f] EXCEPT !.at = a, !.res = res] \in FlightRecords
    BY <2>1, FlightMoves
  <2>4. CASE r = [flight[f] EXCEPT !.at = "rekey"] BY <2>2, <2>3, <2>4
  <2>5. ASSUME NEW res \in Answers, r = [flight[f] EXCEPT !.at = "abort", !.res = res] PROVE r \in FlightRecords
    BY <2>2, <2>3, <2>5
  <2> QED BY <2>4, <2>5
<1>3. /\ r.key = flight[f].key /\ r.sealed = flight[f].sealed /\ r.linked = flight[f].linked
      /\ r.at \in {"abort", "rekey"}
  BY <1>1, FlightIs DEF FlightRecords
<1> QED BY <1>2, <1>3, OneCalm DEF Fresh0, Whole

LEMMA FailStep == ASSUME FileInv, NEW f \in Files, Fail(f) \/ Gone(f) \/ Restart(f) PROVE FileInv'
<1>1. TypeOK BY DEF FileInv
<1>2. budget' \in [Outside -> Nat] BY <1>1, SpendIs DEF Fail, Gone, Restart, Outside
<1>3. \E r : /\ Fly(f, r)
             /\ \/ \E res \in Answers : r = [flight[f] EXCEPT !.at = "abort", !.res = res]
                \/ r = [flight[f] EXCEPT !.at = "rekey"]
  BY DEF Fail, Gone, Restart, Abort, Goto, Answers
<1> QED BY <1>2, <1>3, EndsEarly DEF Fail, Gone, Restart, At, Others, NoSweeping, sweepVars, callVars, histVars

LEMMA KeepStep == ASSUME FileInv, NEW f \in Files, Keep(f) PROVE FileInv'
<1> DEFINE r == [flight[f] EXCEPT !.at = "evict", !.keep = Flying \cup {f}]
<1>1. TypeOK BY DEF FileInv
<1>2. r \in FlightRecords
  <2>1. Flying \cup {f} \in SUBSET Files BY DEF Flying
  <2>2. flight[f] \in FlightRecords BY <1>1, FlightIs
  <2>3. "evict" \in Stages BY DEF Stages
  <2> QED BY <2>1, <2>2, <2>3 DEF FlightRecords
<1>3. Fly(f, r) BY DEF Keep
<1>4. r.key = flight[f].key /\ r.sealed = flight[f].sealed /\ r.linked = flight[f].linked /\ r.at = "evict"
  BY <1>1, FlightIs DEF FlightRecords
<1> HIDE DEF r
<1> QED BY <1>1, <1>2, <1>3, <1>4, OneCalm DEF Keep, At, Others, NoSweeping, sweepVars, callVars, histVars, TypeOK, Fresh0, Whole

\* What changes one file only.
LEMMA OneFile ==
  ASSUME FileInv, NEW f \in Files, TypeOK', LockHeld', Holds(f)',
         \A g \in Files : g # f =>
           /\ rows'[g] = rows[g] /\ blob'[g] = blob[g] /\ flight'[g] = flight[g]
           /\ (g \in listed => g \in listed') /\ (g \in journal => g \in journal' \/ rows[g].st # "none")
           /\ (g \in crossed' <=> g \in crossed) /\ (g \in stray => g \in stray'),
         sweep' = sweep
  PROVE  FileInv'
<1>1. \A g \in Files : Holds(g) BY FileInvIs
<1>2. ASSUME NEW g \in Files, g # f PROVE Holds(g)' BY <1>1, <1>2, SameHolds
<1> QED BY <1>2, FileInvNext

LEMMA StartStep == ASSUME FileInv, NEW f \in Files, Start(f) PROVE FileInv'
<1> DEFINE r == [flight[f] EXCEPT !.at = "end", !.res = "failed"]
<1> USE DEF At, Others, NoSweeping, sweepVars, callVars, histVars
<1>1. TypeOK /\ LockHeld /\ Holds(f) BY FileInvIs
<1>2. r \in FlightRecords BY <1>1, FlightIs, FlightMoves DEF Stages, Answers
<1>3. flight' = [flight EXCEPT ![f] = r] BY DEF Start, Fly
<1>4. r.key = flight[f].key /\ r.sealed = flight[f].sealed /\ r.linked = flight[f].linked /\ r.at = "end"
  BY <1>1, FlightIs DEF FlightRecords
<1> HIDE DEF r
<1>5. flight' \in [Files -> FlightRecords] /\ flight'[f] = r /\ \A g \in Files : g # f => flight'[g] = flight[g]
  BY <1>1, <1>2, <1>3 DEF TypeOK
<1>6. TypeOK' BY <1>1, <1>5, FlightTypes DEF Start, TypeOK
<1>7. LockHeld'
  <2>1. flight[f].at = "start" BY DEF Start
  <2> QED BY <1>1, <1>4, <1>5, <2>1, LockCalm DEF Start
<1>8. Holds(f)'
  <2>1. flight[f].at = "start" /\ flight[f].key = 0 BY <1>1 DEF Start, Holds, SinkHolds
  <2>2. Counted(f)' <=> Counted(f) BY DEF Counted, Start
  <2> QED BY <1>1, <1>4, <1>5, <2>1, <2>2 DEF Start, Holds, SinkHolds
<1> QED BY <1>5, <1>6, <1>7, <1>8, OneFile DEF Start

\* What a step of a download may change.
LEMMA StepTypes ==
  ASSUME TypeOK, budget' \in [Outside -> Nat], flight' \in [Files -> FlightRecords],
         rows' \in [Files -> RowRecords], blob' \in [Files -> BlobRecords],
         \A f \in Files : blob'[f].synced <= Len(blob'[f].chunks) /\ Len(blob'[f].chunks) <= Chunks,
         listed' \subseteq Files, journal' \subseteq Files, crossed' \cup misled' \cup stray' \subseteq Files,
         lock' \in Files \cup {Sweeper, Nobody},
         UNCHANGED <<up, session, sweep, sweeper>>, UNCHANGED <<caller, fetcher, unpinning>>
  PROVE  TypeOK'
  BY DEF TypeOK

LEMMA BlobsAre == ASSUME TypeOK
  PROVE \A f \in Files : blob[f].synced <= Len(blob[f].chunks) /\ Len(blob[f].chunks) <= Chunks
  BY DEF TypeOK

LEMMA LockTaken ==
  ASSUME LockHeld, NEW f \in Files, lock = Nobody, lock' = f, flight[f].at = "start", flight'[f].at \in {"make", "blob"},
         \A g \in Files : g # f => flight'[g] = flight[g], UNCHANGED <<up, sweep, sweeper>>
  PROVE  LockHeld'
<1>1. sweep.at = "rest" /\ sweep.paths = {} BY DEF LockHeld
<1>2. \A g \in Files : g # f => flight'[g].at \notin {"make", "blob"} BY NamesAssumption DEF LockHeld
<1>3. up # "down" BY DEF LockHeld, Flying
<1> QED BY <1>1, <1>2, <1>3 DEF LockHeld

LEMMA LockFreed ==
  ASSUME LockHeld, NEW f \in Files, lock = f, flight[f].at \in {"make", "blob"}, lock' = Nobody,
         flight'[f].at \notin {"make", "blob"},
         \A g \in Files : g # f => flight'[g] = flight[g], UNCHANGED <<up, sweep, sweeper>>
  PROVE  LockHeld'
<1>1. sweep.at = "rest" /\ sweep.paths = {} BY DEF LockHeld, WantsSweep, At
<1>2. \A g \in Files : flight'[g].at \notin {"make", "blob"} BY DEF LockHeld
<1>3. up # "down" BY DEF LockHeld, Flying
<1> QED BY <1>1, <1>2, <1>3 DEF LockHeld

LEMMA OpenRowStep == ASSUME FileInv, NEW f \in Files, OpenRow(f) PROVE FileInv'
<1> USE DEF At, Others, callVars, histVars
<1>1. TypeOK /\ LockHeld /\ Holds(f) BY FileInvIs
<1>2. flight[f] \in FlightRecords /\ rows[f] \in RowRecords BY <1>1, FlightIs, RowIs
<1>3. rows[f].done \in 0..Chunks /\ rows[f].key \in Nat BY <1>1, RowIs
<1>4. PICK r \in FlightRecords :
        /\ flight' = [flight EXCEPT ![f] = r] /\ r.linked = flight[f].linked
        /\ \/ /\ rows[f].st = "partial" /\ r.at = "blob" /\ r.key = rows[f].key /\ r.sealed = rows[f].done
           \/ /\ r.at = "make" /\ r.key = flight[f].key /\ r.sealed = flight[f].sealed
  <2>1. CASE rows[f].st = "partial"
    <3> DEFINE r == [flight[f] EXCEPT !.at = "blob", !.key = rows[f].key,
                                     !.sealed = rows[f].done, !.durable = rows[f].done]
    <3>1. flight' = [flight EXCEPT ![f] = r] BY <2>1 DEF OpenRow, Fly
    <3>2. r \in FlightRecords BY <1>2, <1>3 DEF FlightRecords, Stages
    <3>3. /\ r.linked = flight[f].linked /\ r.at = "blob" /\ r.key = rows[f].key /\ r.sealed = rows[f].done
      BY <1>2 DEF FlightRecords
    <3> QED BY <2>1, <3>1, <3>2, <3>3
  <2>2. CASE rows[f].st # "partial"
    <3> DEFINE r == [flight[f] EXCEPT !.at = "make"]
    <3>1. flight' = [flight EXCEPT ![f] = r] BY <2>2 DEF OpenRow, Fly, Goto
    <3>2. r \in FlightRecords BY <1>2 DEF FlightRecords, Stages
    <3>3. /\ r.linked = flight[f].linked /\ r.at = "make" /\ r.key = flight[f].key /\ r.sealed = flight[f].sealed
      BY <1>2 DEF FlightRecords
    <3> QED BY <3>1, <3>2, <3>3
  <2> QED BY <2>1, <2>2
<1>5. flight' \in [Files -> FlightRecords] /\ flight'[f] = r /\ \A g \in Files : g # f => flight'[g] = flight[g]
  BY <1>1, <1>4 DEF TypeOK
<1>6. TypeOK'
  <2>1. blob' = blob /\ rows' = rows /\ budget' = budget BY DEF OpenRow
  <2> QED BY <1>1, <1>5, <2>1, StepTypes, BlobsAre DEF OpenRow, TypeOK
<1>7. LockHeld' BY <1>1, <1>4, <1>5, LockTaken DEF OpenRow
<1>8. Holds(f)'
  <2>1. flight[f].at = "start" /\ flight[f].key = 0 /\ flight[f].sealed = 0 /\ ~flight[f].linked
    BY <1>1 DEF OpenRow, Holds, SinkHolds
  <2>2. sweep.paths = {} BY <1>1 DEF OpenRow, LockHeld
  <2>3. UNCHANGED <<rows, blob, listed, journal, crossed, stray, sweep>> BY DEF OpenRow
  <2>4. Counted(f)' <=> Counted(f) BY <2>3 DEF Counted
  <2>5. SinkHolds(f)' BY <1>1, <1>4, <1>5, <2>1, <2>3 DEF Holds, SinkHolds
  <2>6. CASE r.at = "make" BY <1>1, <1>4, <1>5, <2>1, <2>2, <2>3, <2>4, <2>5, <2>6 DEF Holds
  <2>7. CASE r.at = "blob"
    <3>1. r.key = rows[f].key /\ r.sealed = rows[f].done /\ rows[f].st = "partial" BY <1>4, <2>7
    <3>2. SinkAgrees(f)' BY <1>3, <1>5, <2>3, <2>7, <3>1 DEF SinkAgrees
    <3> QED BY <1>1, <1>5, <2>2, <2>3, <2>4, <2>5, <2>7, <3>1, <3>2 DEF Holds
  <2> QED BY <1>4, <2>6, <2>7
<1> QED BY <1>5, <1>6, <1>7, <1>8, OneFile DEF OpenRow

LEMMA MakeRowStep == ASSUME FileInv, NEW f \in Files, MakeRow(f) PROVE FileInv'
<1> USE DEF At, Others, callVars, histVars
<1>1. TypeOK /\ LockHeld /\ Holds(f) BY FileInvIs
<1>2. flight[f] \in FlightRecords /\ rows[f] \in RowRecords /\ rows[f].pinned \in BOOLEAN BY <1>1, FlightIs, RowIs
<1>3. flight[f].at = "make" /\ flight[f].key = 0 /\ flight[f].sealed = 0 /\ ~flight[f].linked
  BY <1>1 DEF MakeRow, Holds, SinkHolds
<1>4. lock = f /\ sweep.paths = {} BY <1>1, <1>3 DEF LockHeld, WantsSweep
<1>5. CASE f \in listed
  <2> DEFINE n == NewRow(f, rows[f].pinned)
             r == [flight[f] EXCEPT !.at = "blob", !.key = n.key]
  <2>1. /\ n \in RowRecords /\ n.st = "partial" /\ n.done = 0 /\ n.key # 0 /\ n.key \in Nat
    BY <1>1, <1>2, NewRowIs
  <2> HIDE DEF n
  <2>2. r \in FlightRecords BY <1>2, <2>1 DEF FlightRecords, Stages
  <2>3. r.at = "blob" /\ r.key = n.key /\ r.sealed = 0 /\ ~r.linked BY <1>2, <1>3 DEF FlightRecords
  <2>4. /\ rows' = [rows EXCEPT ![f] = n] /\ flight' = [flight EXCEPT ![f] = r]
        /\ journal' = journal \ {f} /\ crossed' = crossed \ {f} /\ misled' \subseteq misled \cup {f} /\ lock' = lock
        /\ stray' = stray \ {f}
        /\ UNCHANGED <<budget, blob, sweep, sweeper, listed, up, session, caller, fetcher, unpinning>>
    BY <1>5 DEF MakeRow, Fly, n
  <2> HIDE DEF r
  <2>5. /\ flight' \in [Files -> FlightRecords] /\ flight'[f] = r /\ rows' \in [Files -> RowRecords] /\ rows'[f] = n
        /\ \A g \in Files : g # f => flight'[g] = flight[g] /\ rows'[g] = rows[g]
    BY <1>1, <2>1, <2>2, <2>4 DEF TypeOK
  <2>6. TypeOK'
    <3>1. journal' \subseteq Files /\ crossed' \cup misled' \cup stray' \subseteq Files BY <1>1, <2>4 DEF TypeOK
    <3>2. budget' \in [Outside -> Nat] /\ blob' \in [Files -> BlobRecords] /\ listed' \subseteq Files
          /\ lock' \in Files \cup {Sweeper, Nobody}
      BY <1>1, <2>4 DEF TypeOK
    <3> QED BY <1>1, <2>4, <2>5, <3>1, <3>2, StepTypes, BlobsAre
  <2>7. LockHeld'
    <3>1. \A g \in Files : flight'[g].at \in {"make", "blob"} <=> flight[g].at \in {"make", "blob"}
      BY <1>3, <2>3, <2>5
    <3>2. sweep.at = "rest" BY <1>1, <1>3, <1>4 DEF LockHeld, WantsSweep
    <3>3. up # "down" BY <1>1, <1>3 DEF LockHeld, Flying
    <3> QED BY <1>1, <2>4, <3>1, <3>2, <3>3, <1>4 DEF LockHeld
  <2>8. Holds(f)'
    <3>1. Counted(f)' BY <2>1, <2>5 DEF Counted
    <3>2. SinkHolds(f)' BY <1>1, <2>1, <2>3, <2>4, <2>5 DEF Holds, SinkHolds
    <3>3. SinkAgrees(f)' BY <2>1, <2>3, <2>5 DEF SinkAgrees
    <3> QED BY <1>4, <1>5, <2>1, <2>4, <2>5, <3>1, <3>2, <3>3 DEF Holds
  <2> QED BY <2>4, <2>5, <2>6, <2>7, <2>8, OneFile
<1>6. CASE f \notin listed
  <2> DEFINE r == [flight[f] EXCEPT !.at = "end", !.res = "gone"]
  <2>2. r \in FlightRecords BY <1>2 DEF FlightRecords, Stages, Answers
  <2>3. r.at = "end" /\ r.key = 0 /\ r.sealed = 0 /\ ~r.linked BY <1>2, <1>3 DEF FlightRecords
  <2>4. /\ flight' = [flight EXCEPT ![f] = r] /\ lock' = Nobody
        /\ journal' = journal \ {f} /\ stray' = stray \cup (journal \cap {f})
        /\ UNCHANGED <<rows, crossed, misled>>
        /\ UNCHANGED <<budget, blob, sweep, sweeper, listed, up, session, caller, fetcher, unpinning>>
    BY <1>6 DEF MakeRow, Fly
  <2> HIDE DEF r
  <2>5. flight' \in [Files -> FlightRecords] /\ flight'[f] = r /\ \A g \in Files : g # f => flight'[g] = flight[g]
    BY <1>1, <2>2, <2>4 DEF TypeOK
  <2>6. TypeOK'
    <3>1. blob' = blob /\ rows' = rows /\ budget' = budget BY <2>4
    <3> QED BY <1>1, <2>4, <2>5, <3>1, StepTypes, BlobsAre DEF TypeOK
  <2>7. LockHeld' BY <1>1, <1>3, <1>4, <2>3, <2>4, <2>5, LockFreed
  <2>8. Holds(f)'
    <3>1. rows[f].st = "none" BY <1>1, <1>6 DEF Holds
    <3>2. SinkHolds(f)' BY <1>1, <2>3, <2>4, <2>5, <3>1 DEF Holds, SinkHolds
    <3> QED BY <1>1, <1>4, <2>3, <2>4, <2>5, <3>1, <3>2 DEF Holds
  <2> QED BY <2>4, <2>5, <2>6, <2>7, <2>8, OneFile
<1> QED BY <1>5, <1>6

LEMMA OpenBlobStep == ASSUME FileInv, NEW f \in Files, OpenBlob(f) PROVE FileInv'
<1> USE DEF At, Others, callVars, histVars
<1> DEFINE sealed == flight[f].sealed
           b == [there |-> TRUE, chunks |-> SetLen(blob[f].chunks, sealed), synced |-> Min({blob[f].synced, sealed})]
           r == [flight[f] EXCEPT !.at = "get", !.linked = TRUE]
<1>1. TypeOK /\ LockHeld /\ Holds(f) BY FileInvIs
<1>2. flight[f] \in FlightRecords /\ sealed \in 0..Chunks BY <1>1, FlightIs
<1>3. flight[f].at = "blob" BY DEF OpenBlob
<1>4. lock = f /\ sweep.paths = {} BY <1>1, <1>3 DEF LockHeld, WantsSweep
<1>5. /\ blob[f].chunks \in Seq(Nat) /\ blob[f].synced \in Nat /\ blob[f].synced <= Len(blob[f].chunks)
      /\ Len(blob[f].chunks) \in Nat
  BY <1>1, BlobIs
<1>6. /\ b \in BlobRecords /\ b.there /\ Len(b.chunks) = sealed /\ b.synced <= sealed
      /\ b.synced = (IF blob[f].synced <= sealed THEN blob[f].synced ELSE sealed)
      /\ \A i \in 1..sealed : i <= Len(blob[f].chunks) => b.chunks[i] = blob[f].chunks[i]
  <2>1. sealed \in Nat /\ sealed \in Int /\ blob[f].synced \in Int BY <1>2, <1>5, NumbersAre
  <2>2. Min({blob[f].synced, sealed}) = IF blob[f].synced <= sealed THEN blob[f].synced ELSE sealed
    BY <2>1, MinOfTwo
  <2>3. /\ SetLen(blob[f].chunks, sealed) \in Seq(Nat) /\ Len(SetLen(blob[f].chunks, sealed)) = sealed
        /\ \A i \in 1..sealed : i <= Len(blob[f].chunks) => SetLen(blob[f].chunks, sealed)[i] = blob[f].chunks[i]
    BY <1>5, <2>1, SetLenIs
  <2> QED BY <1>5, <2>1, <2>2, <2>3 DEF BlobRecords
<1>7. r \in FlightRecords BY <1>2 DEF FlightRecords, Stages
<1>8. r.at = "get" /\ r.key = flight[f].key /\ r.sealed = sealed /\ r.linked BY <1>2 DEF FlightRecords
<1>9. /\ blob' = [blob EXCEPT ![f] = b] /\ flight' = [flight EXCEPT ![f] = r] /\ lock' = Nobody
      /\ UNCHANGED <<budget, rows, journal, sweep, sweeper, crossed, misled, stray, listed, up, session>>
      /\ UNCHANGED <<caller, fetcher, unpinning>>
  BY <1>1 DEF OpenBlob, Fly, TypeOK
<1> HIDE DEF b, r
<1>10. /\ flight' \in [Files -> FlightRecords] /\ flight'[f] = r /\ blob' \in [Files -> BlobRecords] /\ blob'[f] = b
       /\ \A g \in Files : g # f => flight'[g] = flight[g] /\ blob'[g] = blob[g]
  BY <1>1, <1>6, <1>7, <1>9 DEF TypeOK
<1>11. TypeOK'
  <2>1. \A g \in Files : blob'[g].synced <= Len(blob'[g].chunks) /\ Len(blob'[g].chunks) <= Chunks
    BY <1>1, <1>2, <1>6, <1>10, BlobsAre, NumbersAre
  <2>2. /\ budget' \in [Outside -> Nat] /\ rows' \in [Files -> RowRecords] /\ listed' \subseteq Files
        /\ journal' \subseteq Files /\ crossed' \cup misled' \cup stray' \subseteq Files
    BY <1>1, <1>9 DEF TypeOK
  <2> QED BY <1>1, <1>9, <1>10, <2>1, <2>2, StepTypes
<1>12. LockHeld' BY <1>1, <1>3, <1>4, <1>8, <1>9, <1>10, LockFreed
<1>13. Holds(f)'
  <2>1. rows' = rows /\ crossed' = crossed /\ rows[f].done \in 0..Chunks BY <1>1, <1>9, RowIs
  <2>2. flight[f].key # 0 BY <1>1, <1>3 DEF Holds, SinkHolds
  <2>3. ASSUME f \notin crossed, rows[f].st # "none" PROVE Counted(f)' /\ SinkAgrees(f)'
    <3>1. /\ rows[f].key = flight[f].key /\ rows[f].st = "partial" /\ rows[f].done = sealed
          /\ \A i \in 1..rows[f].done : i <= blob[f].synced /\ blob[f].chunks[i] = rows[f].key
      BY <1>1, <1>3, <2>2, <2>3 DEF Holds, SinkAgrees, Counted
    <3>2. \A i \in 1..sealed : i <= b.synced /\ b.chunks[i] = rows[f].key
      BY <1>2, <1>5, <1>6, <3>1, NumbersAre
    <3> HIDE DEF sealed
    <3>3. Counted(f)' BY <1>10, <2>1, <3>1, <3>2 DEF Counted
    <3>4. SinkAgrees(f)' BY <1>8, <1>10, <2>1, <3>1, <3>2 DEF SinkAgrees
    <3> QED BY <3>3, <3>4
  <2>4. SinkHolds(f)'
    <3> HIDE DEF sealed
    <3> QED BY <1>1, <1>3, <1>6, <1>8, <1>10, <2>1, <2>2 DEF Holds, SinkHolds
  <2> QED BY <1>1, <1>3, <1>4, <1>8, <1>9, <1>10, <2>1, <2>3, <2>4 DEF Holds
<1> QED BY <1>9, <1>10, <1>11, <1>12, <1>13, OneFile

\* A step of one download that leaves the lock alone.
LEMMA FlightStep ==
  ASSUME FileInv, NEW f \in Files, NEW r \in FlightRecords, flight' = [flight EXCEPT ![f] = r],
         flight[f].at \notin {"none", "make", "blob", "sweep"}, r.at \notin {"make", "blob"},
         NEW b \in BlobRecords, blob' = [blob EXCEPT ![f] = b], b.synced <= Len(b.chunks), Len(b.chunks) <= Chunks,
         NEW n \in RowRecords, rows' = [rows EXCEPT ![f] = n],
         budget' \in [Outside -> Nat], crossed' \in SUBSET Files,
         \A g \in Files : g # f => (g \in crossed' <=> g \in crossed),
         UNCHANGED <<journal, listed, misled, stray, up, session>>,
         UNCHANGED <<lock, sweep, sweeper>>, UNCHANGED <<caller, fetcher, unpinning>>,
         flight'[f] = r /\ blob'[f] = b /\ rows'[f] = n => Holds(f)'
  PROVE  FileInv'
<1>1. TypeOK /\ LockHeld BY FileInvIs
<1>2. /\ flight' \in [Files -> FlightRecords] /\ flight'[f] = r /\ blob' \in [Files -> BlobRecords] /\ blob'[f] = b
      /\ rows' \in [Files -> RowRecords] /\ rows'[f] = n
      /\ \A g \in Files : g # f => flight'[g] = flight[g] /\ blob'[g] = blob[g] /\ rows'[g] = rows[g]
  BY <1>1 DEF TypeOK
<1>3. TypeOK'
  <2>1. \A g \in Files : blob'[g].synced <= Len(blob'[g].chunks) /\ Len(blob'[g].chunks) <= Chunks
    BY <1>1, <1>2, BlobsAre
  <2>2. listed' \subseteq Files /\ journal' \subseteq Files /\ crossed' \cup misled' \cup stray' \subseteq Files
        /\ lock' \in Files \cup {Sweeper, Nobody}
    BY <1>1 DEF TypeOK
  <2> QED BY <1>1, <1>2, <2>1, <2>2, StepTypes
<1>4. LockHeld' BY <1>1, <1>2, LockCalm
<1> QED BY <1>2, <1>3, <1>4, OneFile

LEMMA SinkIs ==
  ASSUME FileInv, NEW f \in Files
  PROVE  /\ SinkHolds(f) /\ flight[f] \in FlightRecords /\ rows[f] \in RowRecords /\ blob[f] \in BlobRecords
         /\ flight[f].at \notin Fresh0 \cup {"end"} => flight[f].key # 0
         /\ flight[f].linked =>
              Len(blob[f].chunks) = flight[f].sealed /\ blob[f].synced <= flight[f].sealed
         /\ flight[f].at \notin Fresh0 \cup {"end"} /\ f \notin crossed /\ rows[f].st # "none" =>
              SinkAgrees(f) /\ Counted(f) /\ f \notin sweep.paths
<1>1. TypeOK /\ Holds(f) BY FileInvIs
<1>2. SinkHolds(f) BY <1>1 DEF Holds
<1>3. flight[f] \in FlightRecords /\ rows[f] \in RowRecords /\ blob[f] \in BlobRecords
  BY <1>1, FlightIs, RowIs, BlobIs
<1>4. flight[f].at \notin Fresh0 \cup {"end"} => flight[f].key # 0 BY <1>2 DEF SinkHolds, Fresh0
<1>5. flight[f].linked => Len(blob[f].chunks) = flight[f].sealed /\ blob[f].synced <= flight[f].sealed
  BY <1>1, <1>2, BlobIs DEF SinkHolds
<1> QED BY <1>1, <1>2, <1>3, <1>4, <1>5 DEF Holds

LEMMA WriteStep == ASSUME FileInv, NEW f \in Files, Write(f) PROVE FileInv'
<1> USE DEF At, Others, callVars, histVars, NoSweeping, sweepVars
<1> DEFINE n == flight[f].sealed + 1
           w == SetLen(blob[f].chunks, flight[f].sealed) \o <<flight[f].key>>
           b == IF flight[f].linked THEN [blob[f] EXCEPT !.chunks = w] ELSE blob[f]
           a == IF n - flight[f].durable >= SyncEvery THEN "save" ELSE "get"
           r == [flight[f] EXCEPT !.sealed = n, !.at = a]
<1>1. TypeOK BY FileInvIs
<1>2. /\ flight[f] \in FlightRecords /\ flight[f].sealed \in 0..Chunks /\ flight[f].key \in Nat /\ rows[f] \in RowRecords
      /\ flight[f].linked \in BOOLEAN /\ rows[f].done \in 0..Chunks
  BY <1>1, FlightIs, RowIs
<1>3. flight[f].at = "get" /\ n \in 1..Chunks /\ n \in Nat \ {0} /\ n - 1 = flight[f].sealed
  BY <1>2, NumbersAre DEF Write
<1>4. /\ blob[f] \in BlobRecords /\ blob[f].chunks \in Seq(Nat) /\ Len(blob[f].chunks) \in Nat /\ blob[f].synced \in Nat
      /\ blob[f].synced <= Len(blob[f].chunks) /\ Len(blob[f].chunks) <= Chunks
  BY <1>1, BlobIs
<1>5. /\ w \in Seq(Nat) /\ Len(w) = n /\ w[n] = flight[f].key
      /\ \A i \in 1..flight[f].sealed : i <= Len(blob[f].chunks) => w[i] = blob[f].chunks[i]
  <2>1. flight[f].sealed \in Nat BY <1>2, NumbersAre
  <2>2. blob[f].chunks \in Seq(Nat) /\ flight[f].key \in Nat BY <1>2, <1>4
  <2>3. Len(w) = n
    <3> DEFINE c == SetLen(blob[f].chunks, flight[f].sealed)
    <3>1. c \in Seq(Nat) /\ Len(c) = flight[f].sealed BY <2>1, <2>2, SetLenIs
    <3> HIDE DEF c
    <3>2. Len(c \o <<flight[f].key>>) = flight[f].sealed + 1 BY <2>1, <2>2, <3>1
    <3> QED BY <3>2 DEF c
  <2>4. w \in Seq(Nat) BY <2>1, <2>2, WrittenIs
  <2>5. w[n] = flight[f].key BY <2>1, <2>2, WrittenIs
  <2>6. \A i \in 1..flight[f].sealed : i <= Len(blob[f].chunks) => w[i] = blob[f].chunks[i] BY <2>1, <2>2, WrittenIs
  <2> QED BY <2>3, <2>4, <2>5, <2>6
<1>6. /\ r \in FlightRecords /\ r.sealed = n /\ r.at \in {"get", "save"} /\ r.key = flight[f].key
      /\ r.linked = flight[f].linked
  <2>1. a \in {"get", "save"} OBVIOUS
  <2>2. n \in 0..Chunks BY <1>3
  <2> HIDE DEF n, a
  <2>3. a \in Stages BY <2>1 DEF Stages
  <2> QED BY <1>2, <2>1, <2>2, <2>3 DEF FlightRecords
<1>7. /\ flight' = [flight EXCEPT ![f] = r] /\ blob' = [blob EXCEPT ![f] = b] /\ rows' = [rows EXCEPT ![f] = rows[f]]
      /\ crossed' = crossed /\ budget' = budget /\ UNCHANGED <<journal, listed, misled, stray, up, session>>
      /\ UNCHANGED <<lock, sweep, sweeper>> /\ UNCHANGED <<caller, fetcher, unpinning>>
  <2>1. (flight[f].sealed + 1) - 1 = flight[f].sealed BY <1>2
  <2> QED BY <1>1, <2>1 DEF Write, Fly, TypeOK
<1>8. flight[f].linked => Len(blob[f].chunks) = n - 1 /\ blob[f].synced <= n - 1
  BY <1>3, SinkIs
<1> HIDE DEF w
<1>9. /\ b \in BlobRecords /\ b.synced = blob[f].synced /\ b.there = blob[f].there
      /\ flight[f].linked => b.chunks = w
      /\ ~flight[f].linked => b.chunks = blob[f].chunks
  BY <1>2, <1>4, <1>5 DEF BlobRecords
<1>10. b.synced <= Len(b.chunks) /\ Len(b.chunks) <= Chunks
  <2> HIDE DEF b, n
  <2>1. n <= Chunks /\ blob[f].synced <= Len(blob[f].chunks) BY <1>3, <1>4, NumbersAre
  <2> QED BY <1>2, <1>3, <1>4, <1>5, <1>8, <1>9, <2>1, NumbersAre
<1>11. ASSUME flight'[f] = r, blob'[f] = b, rows'[f] = rows[f] PROVE Holds(f)'
  <2>1. SinkHolds(f) /\ Holds(f) BY FileInvIs DEF Holds
  <2>2. SinkHolds(f)'
    <3> HIDE DEF n
    <3>1. flight[f].linked => b.there /\ Len(b.chunks) = n BY <1>5, <1>9, <2>1 DEF SinkHolds
    <3>2. ~b.there => Len(b.chunks) = 0 BY <1>9, <2>1, <3>1 DEF SinkHolds
    <3> QED BY <1>3, <1>6, <1>11, <2>1, <3>1, <3>2 DEF SinkHolds
  <2>3. ASSUME f \notin crossed, rows[f].st # "none" PROVE Counted(f)' /\ SinkAgrees(f)' /\ f \notin sweep.paths
    <3>1. SinkAgrees(f) /\ Counted(f) /\ f \notin sweep.paths BY <1>3, <2>3, SinkIs DEF Fresh0
    <3>2. /\ rows[f].key = flight[f].key /\ rows[f].st = "partial" /\ rows[f].done <= n - 1 /\ flight[f].linked
          /\ \A i \in 1..n - 1 : blob[f].chunks[i] = flight[f].key
          /\ \A i \in 1..rows[f].done : i <= blob[f].synced /\ blob[f].chunks[i] = rows[f].key
      <4>1. rows[f].st = "partial" BY <1>1, <1>3, <2>1, <2>3, RowIs DEF SinkHolds
      <4> QED BY <1>3, <3>1, <4>1 DEF SinkAgrees, Counted
    <3>3. \A i \in 1..n : b.chunks[i] = flight[f].key
      BY <1>3, <1>5, <1>8, <1>9, <3>2
    <3>4. \A i \in 1..rows[f].done : i <= b.synced /\ b.chunks[i] = rows[f].key
      BY <1>2, <1>3, <1>9, <3>2, <3>3, NumbersAre
    <3> HIDE DEF n, b, r
    <3>5. Counted(f)' BY <1>11, <3>4 DEF Counted
    <3>6. rows[f].done <= n BY <1>2, <1>3, <3>2, NumbersAre
    <3>7. SinkAgrees(f)' BY <1>6, <1>11, <3>2, <3>3, <3>6 DEF SinkAgrees
    <3> QED BY <3>1, <3>5, <3>7
  <2> HIDE DEF n, b, r
  <2>4. flight[f].key # 0 BY <1>3, <2>1 DEF SinkHolds
  <2> QED BY <1>3, <1>6, <1>7, <1>9, <1>11, <2>1, <2>2, <2>3, <2>4 DEF Holds
<1>12. budget' \in [Outside -> Nat] /\ crossed' \in SUBSET Files BY <1>1, <1>7 DEF TypeOK
<1> HIDE DEF n, b, r
<1> QED BY <1>2, <1>3, <1>6, <1>7, <1>9, <1>10, <1>11, <1>12, FlightStep

LEMMA RecordIs ==
  ASSUME TypeOK, NEW f \in Files, Record(f), flight[f].linked => Len(blob[f].chunks) = flight[f].sealed
  PROVE  \E b \in BlobRecords, n \in RowRecords :
           /\ blob' = [blob EXCEPT ![f] = b] /\ rows' = [rows EXCEPT ![f] = n]
           /\ b.synced <= Len(b.chunks) /\ Len(b.chunks) <= Chunks /\ b.chunks = blob[f].chunks /\ b.there = blob[f].there
           /\ flight[f].linked => b.synced = flight[f].sealed
           /\ n.st = rows[f].st /\ n.key = rows[f].key
           /\ n.done = IF rows[f].st = "partial" THEN flight[f].sealed ELSE rows[f].done
<1> DEFINE b == IF flight[f].linked THEN [blob[f] EXCEPT !.synced = flight[f].sealed] ELSE blob[f]
           n == IF rows[f].st = "partial" THEN [rows[f] EXCEPT !.done = flight[f].sealed] ELSE rows[f]
<1>1. /\ flight[f].sealed \in 0..Chunks /\ flight[f].sealed \in Nat /\ flight[f].linked \in BOOLEAN
      /\ rows[f] \in RowRecords
  BY FlightIs, RowIs, NumbersAre
<1>2. /\ blob[f] \in BlobRecords /\ blob[f].chunks \in Seq(Nat) /\ Len(blob[f].chunks) \in Nat /\ blob[f].synced \in Nat
      /\ blob[f].synced <= Len(blob[f].chunks) /\ Len(blob[f].chunks) <= Chunks
  BY BlobIs
<1>3. blob' = [blob EXCEPT ![f] = b] /\ rows' = [rows EXCEPT ![f] = n] BY DEF Record, TypeOK
<1>4. /\ b \in BlobRecords /\ b.chunks = blob[f].chunks /\ b.there = blob[f].there
      /\ b.synced = IF flight[f].linked THEN flight[f].sealed ELSE blob[f].synced
  BY <1>1, <1>2 DEF BlobRecords
<1>5. /\ n \in RowRecords /\ n.st = rows[f].st /\ n.key = rows[f].key
      /\ n.done = IF rows[f].st = "partial" THEN flight[f].sealed ELSE rows[f].done
  BY <1>1 DEF RowRecords
<1> HIDE DEF b, n
<1>6. b.synced <= Len(b.chunks) /\ Len(b.chunks) <= Chunks BY <1>1, <1>2, <1>4
<1> QED BY <1>3, <1>4, <1>5, <1>6

LEMMA RecordStep ==
  ASSUME FileInv, NEW f \in Files, Record(f), flight[f].at \in {"save", "abort"},
         NEW r \in FlightRecords, flight' = [flight EXCEPT ![f] = r], r.at \in {"get", "drop", "end"},
         r.key = flight[f].key, r.sealed = flight[f].sealed, r.linked = flight[f].linked,
         UNCHANGED <<budget, journal, listed, crossed, misled, stray, up, session>>,
         UNCHANGED <<lock, sweep, sweeper>>, UNCHANGED <<caller, fetcher, unpinning>>
  PROVE  FileInv'
<1> USE DEF At
<1>1. TypeOK /\ Holds(f) /\ SinkHolds(f) BY FileInvIs DEF Holds
<1>2. PICK b \in BlobRecords, n \in RowRecords :
        /\ blob' = [blob EXCEPT ![f] = b] /\ rows' = [rows EXCEPT ![f] = n]
        /\ b.synced <= Len(b.chunks) /\ Len(b.chunks) <= Chunks /\ b.chunks = blob[f].chunks /\ b.there = blob[f].there
        /\ flight[f].linked => b.synced = flight[f].sealed
        /\ n.st = rows[f].st /\ n.key = rows[f].key
        /\ n.done = IF rows[f].st = "partial" THEN flight[f].sealed ELSE rows[f].done
  BY <1>1, RecordIs DEF SinkHolds
<1>3. flight[f].sealed \in 0..Chunks BY <1>1, FlightIs
<1>4. ASSUME flight'[f] = r, blob'[f] = b, rows'[f] = n PROVE Holds(f)'
  <2>1. SinkHolds(f)' BY <1>1, <1>2, <1>4 DEF SinkHolds
  <2>2. ASSUME f \notin crossed, rows[f].st # "none" PROVE Counted(f)' /\ SinkAgrees(f)' /\ f \notin sweep.paths
    <3>1. SinkAgrees(f) /\ f \notin sweep.paths BY <2>2, SinkIs DEF Fresh0
    <3>2. rows[f].st = "partial" BY <1>1, <2>2, RowIs DEF SinkHolds
    <3>3. /\ rows[f].key = flight[f].key /\ flight[f].linked
          /\ \A i \in 1..flight[f].sealed : blob[f].chunks[i] = flight[f].key
      BY <3>1 DEF SinkAgrees
    <3>4. Counted(f)' BY <1>2, <1>3, <1>4, <3>2, <3>3 DEF Counted
    <3>5. SinkAgrees(f)'
      <4>1. n.done = flight[f].sealed /\ n.done <= flight[f].sealed BY <1>2, <1>3, <3>2, NumbersAre
      <4>2. flight'[f].linked /\ flight'[f].at \in {"get", "drop", "end"} BY <1>4, <3>3
      <4> QED BY <1>2, <1>4, <3>2, <3>3, <4>1, <4>2 DEF SinkAgrees
    <3> QED BY <3>1, <3>4, <3>5
  <2>3. flight[f].key # 0 BY <1>1 DEF SinkHolds
  <2> QED BY <1>1, <1>2, <1>4, <2>1, <2>2, <2>3 DEF Holds
<1>5. budget' \in [Outside -> Nat] /\ crossed' \in SUBSET Files BY <1>1 DEF TypeOK
<1> QED BY <1>2, <1>4, <1>5, FlightStep

LEMMA SaveStep == ASSUME FileInv, NEW f \in Files, Save(f) PROVE FileInv'
<1> DEFINE r == [flight[f] EXCEPT !.at = "get", !.durable = flight[f].sealed]
<1>1. TypeOK BY FileInvIs
<1>2. flight[f] \in FlightRecords /\ flight[f].sealed \in 0..Chunks BY <1>1, FlightIs
<1>3. /\ r \in FlightRecords /\ r.at = "get" /\ r.key = flight[f].key /\ r.sealed = flight[f].sealed
      /\ r.linked = flight[f].linked
  BY <1>2 DEF FlightRecords, Stages
<1>4. flight' = [flight EXCEPT ![f] = r] BY DEF Save, Fly
<1> HIDE DEF r
<1> QED BY <1>3, <1>4, RecordStep DEF Save, At, Others, callVars, histVars, NoSweeping, sweepVars

LEMMA AbortStep == ASSUME FileInv, NEW f \in Files, AbortSink(f) PROVE FileInv'
<1> DEFINE a == IF flight[f].res = "gone" THEN "drop" ELSE "end"
           r == [flight[f] EXCEPT !.at = a]
<1>1. TypeOK BY FileInvIs
<1>2. flight[f] \in FlightRecords BY <1>1, FlightIs
<1>3. a \in {"drop", "end"} OBVIOUS
<1> HIDE DEF a
<1>4. /\ r \in FlightRecords /\ r.at = a /\ r.key = flight[f].key /\ r.sealed = flight[f].sealed
      /\ r.linked = flight[f].linked
  <2>1. a \in Stages BY <1>3 DEF Stages
  <2> QED BY <1>2, <2>1 DEF FlightRecords
<1>5. flight' = [flight EXCEPT ![f] = r] BY DEF AbortSink, Fly, Goto, a
<1> HIDE DEF r
<1> QED BY <1>3, <1>4, <1>5, RecordStep DEF AbortSink, At, Others, callVars, histVars, NoSweeping, sweepVars

LEMMA RekeyStep == ASSUME FileInv, NEW f \in Files, Rekey(f) PROVE FileInv'
<1> USE DEF At, Others, callVars, histVars, NoSweeping, sweepVars
<1>1. TypeOK /\ LockHeld /\ Holds(f) /\ SinkHolds(f) BY FileInvIs DEF Holds
<1>2. flight[f] \in FlightRecords /\ rows[f] \in RowRecords /\ blob[f] \in BlobRecords
      /\ blob[f].synced <= Len(blob[f].chunks) /\ Len(blob[f].chunks) <= Chunks
  BY <1>1, FlightIs, RowIs, BlobIs
<1>3. flight[f].at = "rekey" BY DEF Rekey
<1>4. CASE rows[f].st = "none"
  <2> DEFINE r == [flight[f] EXCEPT !.at = "abort", !.res = "failed"]
  <2>1. /\ r \in FlightRecords /\ r.at = "abort" /\ r.key = flight[f].key /\ r.sealed = flight[f].sealed
        /\ r.linked = flight[f].linked
    BY <1>2 DEF FlightRecords, Stages, Answers
  <2>2. Fly(f, r) BY <1>4 DEF Rekey, Abort
  <2> HIDE DEF r
  <2>3. UNCHANGED <<rows, crossed>> BY <1>4 DEF Rekey
  <2> QED BY <1>1, <1>3, <2>1, <2>2, <2>3, OneCalm DEF Rekey, Fresh0, Whole, TypeOK
<1>5. CASE rows[f].st # "none"
  <2> DEFINE k == Fresh(f)
             n == [rows[f] EXCEPT !.key = k, !.done = 0, !.st = "partial"]
             r == [flight[f] EXCEPT !.at = "cut", !.key = k]
  <2>1. k \in Nat /\ k # 0 BY <1>1, FreshKey
  <2>2. /\ rows' = [rows EXCEPT ![f] = n] /\ flight' = [flight EXCEPT ![f] = r]
        /\ crossed' = IF flight[f].linked /\ f \notin sweep.paths THEN crossed \ {f} ELSE crossed
    BY <1>1, <1>5 DEF Rekey, Fly, TypeOK
  <2> HIDE DEF k
  <2>3. n \in RowRecords /\ n.st = "partial" /\ n.done = 0 /\ n.key = k
    <3>1. 0 \in 0..Chunks BY NumbersAre
    <3> QED BY <1>2, <2>1, <3>1 DEF RowRecords
  <2>4. r \in FlightRecords /\ r.at = "cut" /\ r.key = k /\ r.sealed = flight[f].sealed /\ r.linked = flight[f].linked
    BY <1>2, <2>1 DEF FlightRecords, Stages
  <2> HIDE DEF n, r
  <2>5. blob' = [blob EXCEPT ![f] = blob[f]] BY <1>1 DEF Rekey, TypeOK
  <2>6. flight[f].linked \in BOOLEAN BY <1>1, FlightIs
  <2>7. ASSUME flight'[f] = r, blob'[f] = blob[f], rows'[f] = n PROVE Holds(f)'
    <3>1. SinkHolds(f)' BY <1>1, <1>3, <2>1, <2>3, <2>4, <2>7 DEF SinkHolds
    <3>2. Counted(f)' BY <2>3, <2>7 DEF Counted
    <3>3. f \notin crossed' => flight[f].linked /\ f \notin sweep.paths
      <4>1. f \notin crossed => flight[f].linked /\ f \notin sweep.paths
        BY <1>3, <1>5, SinkIs DEF Fresh0, SinkAgrees
      <4> QED BY <2>2, <2>6, <4>1
    <3>4. f \notin crossed' => SinkAgrees(f)'
      <4>1. flight[f].sealed \in 0..Chunks BY <1>1, FlightIs
      <4> QED BY <2>3, <2>4, <2>7, <3>3, <4>1 DEF SinkAgrees
    <3> QED BY <1>1, <1>5, <2>3, <2>4, <2>7, <3>1, <3>2, <3>3, <3>4 DEF Holds, Rekey
  <2>8. crossed' \in SUBSET Files /\ budget' \in [Outside -> Nat] /\ \A g \in Files : g # f => (g \in crossed' <=> g \in crossed)
    BY <1>1, <2>2 DEF TypeOK, Rekey
  <2>9. /\ UNCHANGED <<journal, listed, misled, stray, up, session>> /\ UNCHANGED <<lock, sweep, sweeper>>
        /\ UNCHANGED <<caller, fetcher, unpinning>>
    BY DEF Rekey
  <2>10. flight[f].at \notin {"none", "make", "blob", "sweep"} /\ r.at \notin {"make", "blob"} BY <1>3, <2>4
  <2>11. flight' = [flight EXCEPT ![f] = r] /\ rows' = [rows EXCEPT ![f] = n] BY <2>2
  <2> QED BY <1>2, <2>3, <2>4, <2>5, <2>7, <2>8, <2>9, <2>10, <2>11, FlightStep
<1> QED BY <1>4, <1>5

LEMMA CutStep == ASSUME FileInv, NEW f \in Files, Cut(f) PROVE FileInv'
<1> USE DEF At, Others, callVars, histVars, NoSweeping, sweepVars
<1> DEFINE a == IF flight[f].res = "ok" THEN "get" ELSE "abort"
           r == [flight[f] EXCEPT !.at = a, !.sealed = 0, !.durable = 0]
           b == IF flight[f].linked THEN [blob[f] EXCEPT !.chunks = <<>>, !.synced = 0] ELSE blob[f]
<1>1. TypeOK /\ Holds(f) /\ SinkHolds(f) BY FileInvIs DEF Holds
<1>2. /\ flight[f] \in FlightRecords /\ flight[f].linked \in BOOLEAN /\ blob[f] \in BlobRecords /\ rows[f] \in RowRecords
      /\ blob[f].synced <= Len(blob[f].chunks) /\ Len(blob[f].chunks) <= Chunks
  BY <1>1, FlightIs, RowIs, BlobIs
<1>3. flight[f].at = "cut" BY DEF Cut
<1>4. a \in {"get", "abort"} OBVIOUS
<1>5. /\ flight' = [flight EXCEPT ![f] = r] /\ blob' = [blob EXCEPT ![f] = b] /\ rows' = [rows EXCEPT ![f] = rows[f]]
  BY <1>1 DEF Cut, Fly, TypeOK
<1> HIDE DEF a
<1>6. r \in FlightRecords /\ r.at = a /\ r.sealed = 0 /\ r.key = flight[f].key /\ r.linked = flight[f].linked
  <2>1. a \in Stages /\ 0 \in 0..Chunks BY <1>4, NumbersAre DEF Stages
  <2> QED BY <1>2, <2>1 DEF FlightRecords
<1>7. /\ b \in BlobRecords /\ b.there = blob[f].there /\ b.synced <= Len(b.chunks) /\ Len(b.chunks) <= Chunks
      /\ flight[f].linked => Len(b.chunks) = 0
      /\ ~flight[f].linked => b = blob[f]
  <2>1. CASE flight[f].linked
    <3>1. b = [blob[f] EXCEPT !.chunks = <<>>, !.synced = 0] BY <2>1
    <3>2. b \in BlobRecords /\ b.chunks = <<>> /\ b.synced = 0 /\ b.there = blob[f].there
      <4>1. <<>> \in Seq(Nat) /\ 0 \in Nat OBVIOUS
      <4> QED BY <1>2, <3>1, <4>1 DEF BlobRecords
    <3> QED BY <3>2, NumbersAre
  <2>2. CASE ~flight[f].linked BY <1>2, <2>2
  <2> QED BY <1>2, <2>1, <2>2
<1> HIDE DEF b, r
<1>8. ASSUME flight'[f] = r, blob'[f] = b, rows'[f] = rows[f] PROVE Holds(f)'
  <2>1. SinkHolds(f)' BY <1>1, <1>3, <1>4, <1>6, <1>7, <1>8 DEF SinkHolds
  <2>2. ASSUME f \notin crossed, rows[f].st # "none" PROVE Counted(f)' /\ SinkAgrees(f)' /\ f \notin sweep.paths
    <3>1. SinkAgrees(f) /\ f \notin sweep.paths BY <1>3, <2>2, SinkIs DEF Fresh0
    <3>2. /\ rows[f].key = flight[f].key /\ flight[f].linked /\ rows[f].done = 0
      BY <1>3, <3>1 DEF SinkAgrees
    <3>3. Counted(f)' BY <1>8, <3>2 DEF Counted
    <3>4. SinkAgrees(f)'
      <4>1. /\ flight'[f].at \in {"get", "abort"} /\ flight'[f].sealed = 0 /\ flight'[f].key = flight[f].key
            /\ flight'[f].linked /\ rows'[f].done = 0 /\ rows'[f].key = rows[f].key
        BY <1>4, <1>6, <1>8, <3>2
      <4>2. \A i \in 1..0 : FALSE OBVIOUS
      <4> QED BY <3>2, <4>1, <4>2 DEF SinkAgrees
    <3> QED BY <3>1, <3>3, <3>4
  <2>3. flight[f].key # 0 BY <1>1, <1>3 DEF SinkHolds
  <2> QED BY <1>1, <1>3, <1>4, <1>6, <1>7, <1>8, <2>1, <2>2, <2>3 DEF Holds, Cut
<1>9. /\ budget' \in [Outside -> Nat] /\ crossed' \in SUBSET Files /\ crossed' = crossed
      /\ UNCHANGED <<journal, listed, misled, stray, up, session>> /\ UNCHANGED <<lock, sweep, sweeper>>
      /\ UNCHANGED <<caller, fetcher, unpinning>>
  BY <1>1 DEF TypeOK, Cut
<1> QED BY <1>2, <1>3, <1>4, <1>5, <1>6, <1>7, <1>8, <1>9, FlightStep

LEMMA VerifyStep == ASSUME FileInv, NEW f \in Files, Verify(f) PROVE FileInv'
<1> USE DEF At, Others, callVars, histVars, NoSweeping, sweepVars
<1> DEFINE b == IF flight[f].linked THEN [blob[f] EXCEPT !.synced = Chunks] ELSE blob[f]
<1>1. TypeOK /\ Holds(f) /\ SinkHolds(f) BY FileInvIs DEF Holds
<1>2. /\ flight[f] \in FlightRecords /\ flight[f].linked \in BOOLEAN /\ blob[f] \in BlobRecords /\ rows[f] \in RowRecords
      /\ blob[f].synced <= Len(blob[f].chunks) /\ Len(blob[f].chunks) <= Chunks /\ rows[f].done \in 0..Chunks
  BY <1>1, FlightIs, RowIs, BlobIs
<1>3. flight[f].at = "get" /\ flight[f].sealed = Chunks BY DEF Verify
<1>4. PICK r \in FlightRecords :
        /\ flight' = [flight EXCEPT ![f] = r] /\ r.at \in {"mark", "rekey"}
        /\ r.key = flight[f].key /\ r.sealed = flight[f].sealed /\ r.linked = flight[f].linked
  <2>1. \/ flight' = [flight EXCEPT ![f] = [flight[f] EXCEPT !.at = "mark"]]
        \/ flight' = [flight EXCEPT ![f] = [flight[f] EXCEPT !.at = "rekey", !.res = "failed"]]
    BY DEF Verify, Fly, Goto
  <2>2. ASSUME NEW r, r = [flight[f] EXCEPT !.at = "mark"] \/ r = [flight[f] EXCEPT !.at = "rekey", !.res = "failed"]
        PROVE  /\ r \in FlightRecords /\ r.at \in {"mark", "rekey"}
               /\ r.key = flight[f].key /\ r.sealed = flight[f].sealed /\ r.linked = flight[f].linked
    BY <1>2, <2>2 DEF FlightRecords, Stages, Answers
  <2> QED BY <2>1, <2>2
<1>5. blob' = [blob EXCEPT ![f] = b] /\ rows' = [rows EXCEPT ![f] = rows[f]]
  BY <1>1 DEF Verify, TypeOK
<1>6. /\ b \in BlobRecords /\ b.there = blob[f].there /\ b.chunks = blob[f].chunks
      /\ b.synced <= Len(b.chunks) /\ Len(b.chunks) <= Chunks
      /\ flight[f].linked => b.synced = Chunks
      /\ blob[f].synced <= b.synced
  <2>1. flight[f].linked => Len(blob[f].chunks) = Chunks BY <1>1, <1>3 DEF SinkHolds
  <2> QED BY <1>2, <2>1, NumbersAre DEF BlobRecords
<1> HIDE DEF b
<1>7. ASSUME flight'[f] = r, blob'[f] = b, rows'[f] = rows[f] PROVE Holds(f)'
  <2>1. SinkHolds(f)' BY <1>1, <1>3, <1>4, <1>6, <1>7 DEF SinkHolds
  <2>2. ASSUME f \notin crossed, rows[f].st # "none" PROVE Counted(f)' /\ SinkAgrees(f)' /\ f \notin sweep.paths
    <3>1. SinkAgrees(f) /\ Counted(f) /\ f \notin sweep.paths BY <1>3, <2>2, SinkIs DEF Fresh0
    <3>2. flight[f].linked /\ b.synced = Chunks BY <1>3, <1>6, <3>1 DEF SinkAgrees
    <3>3. Counted(f)' BY <1>2, <1>6, <1>7, <3>1, <3>2, NumbersAre DEF Counted
    <3>4. SinkAgrees(f)' BY <1>3, <1>4, <1>6, <1>7, <3>1, <3>2 DEF SinkAgrees
    <3> QED BY <3>1, <3>3, <3>4
  <2>3. flight[f].key # 0 BY <1>1, <1>3 DEF SinkHolds
  <2> QED BY <1>1, <1>3, <1>4, <1>6, <1>7, <2>1, <2>2, <2>3 DEF Holds, Verify
<1>8. /\ budget' \in [Outside -> Nat] /\ crossed' \in SUBSET Files /\ crossed' = crossed
      /\ UNCHANGED <<journal, listed, misled, stray, up, session>> /\ UNCHANGED <<lock, sweep, sweeper>>
      /\ UNCHANGED <<caller, fetcher, unpinning>>
  BY <1>1, SpendIs DEF TypeOK, Verify, Outside
<1> QED BY <1>2, <1>3, <1>4, <1>5, <1>6, <1>7, <1>8, FlightStep

LEMMA MarkStep == ASSUME FileInv, NEW f \in Files, Mark(f) PROVE FileInv'
<1> USE DEF At, Others, callVars, histVars, NoSweeping, sweepVars
<1>1. TypeOK /\ Holds(f) /\ SinkHolds(f) BY FileInvIs DEF Holds
<1>2. /\ flight[f] \in FlightRecords /\ blob[f] \in BlobRecords /\ rows[f] \in RowRecords
      /\ blob[f].synced <= Len(blob[f].chunks) /\ Len(blob[f].chunks) <= Chunks
  BY <1>1, FlightIs, RowIs, BlobIs
<1>3. flight[f].at = "mark" BY DEF Mark
<1>4. CASE rows[f].st = "none"
  <2> DEFINE r == [flight[f] EXCEPT !.at = "abort", !.res = "failed"]
  <2>1. /\ r \in FlightRecords /\ r.at = "abort" /\ r.key = flight[f].key /\ r.sealed = flight[f].sealed
        /\ r.linked = flight[f].linked
    BY <1>2 DEF FlightRecords, Stages, Answers
  <2>2. Fly(f, r) BY <1>4 DEF Mark, Abort
  <2> HIDE DEF r
  <2>3. rows' = rows BY <1>4 DEF Mark
  <2> QED BY <1>1, <1>3, <2>1, <2>2, <2>3, OneCalm DEF Mark, Fresh0, Whole, TypeOK
<1>5. CASE rows[f].st # "none"
  <2> DEFINE n == [rows[f] EXCEPT !.st = "complete", !.done = Chunks]
             r == [flight[f] EXCEPT !.at = "keep"]
  <2>1. rows' = [rows EXCEPT ![f] = n] /\ flight' = [flight EXCEPT ![f] = r] /\ blob' = [blob EXCEPT ![f] = blob[f]]
    BY <1>1, <1>5 DEF Mark, Fly, Goto, TypeOK
  <2>2. n \in RowRecords /\ n.st = "complete" /\ n.done = Chunks /\ n.key = rows[f].key
    <3>1. Chunks \in 0..Chunks BY NumbersAre
    <3> QED BY <1>2, <3>1 DEF RowRecords
  <2>3. r \in FlightRecords /\ r.at = "keep" /\ r.key = flight[f].key /\ r.sealed = flight[f].sealed
        /\ r.linked = flight[f].linked
    BY <1>2 DEF FlightRecords, Stages
  <2> HIDE DEF n, r
  <2>4. ASSUME flight'[f] = r, blob'[f] = blob[f], rows'[f] = n PROVE Holds(f)'
    <3>1. SinkHolds(f)' BY <1>1, <1>3, <1>5, <2>2, <2>3, <2>4 DEF SinkHolds
    <3>2. ASSUME f \notin crossed PROVE Counted(f)' /\ SinkAgrees(f)' /\ f \notin sweep.paths
      <4>1. SinkAgrees(f) /\ f \notin sweep.paths BY <1>3, <1>5, <3>2, SinkIs DEF Fresh0
      <4>2. /\ rows[f].key = flight[f].key /\ flight[f].linked /\ flight[f].sealed = Chunks
            /\ blob[f].synced = Chunks /\ \A i \in 1..Chunks : blob[f].chunks[i] = flight[f].key
        BY <1>3, <4>1 DEF SinkAgrees
      <4>3. Counted(f)' BY <2>2, <2>4, <4>2, NumbersAre DEF Counted
      <4>4. SinkAgrees(f)' BY <2>2, <2>3, <2>4, <4>2 DEF SinkAgrees
      <4> QED BY <4>1, <4>3, <4>4
    <3>3. flight[f].key # 0 BY <1>1, <1>3 DEF SinkHolds
    <3> QED BY <1>1, <1>3, <1>5, <2>2, <2>3, <2>4, <3>1, <3>2, <3>3 DEF Holds, Mark
  <2>5. /\ budget' \in [Outside -> Nat] /\ crossed' \in SUBSET Files /\ crossed' = crossed
        /\ UNCHANGED <<journal, listed, misled, stray, up, session>> /\ UNCHANGED <<lock, sweep, sweeper>>
        /\ UNCHANGED <<caller, fetcher, unpinning>>
    BY <1>1 DEF TypeOK, Mark
  <2>6. flight[f].at \notin {"none", "make", "blob", "sweep"} /\ r.at \notin {"make", "blob"} BY <1>3, <2>3
  <2> QED BY <1>2, <2>1, <2>2, <2>3, <2>4, <2>5, <2>6, FlightStep
<1> QED BY <1>4, <1>5

LEMMA DropFilesIs ==
  ASSUME TypeOK, NEW F \in SUBSET Files, DropFiles(F)
  PROVE  /\ rows' \in [Files -> RowRecords] /\ journal' \subseteq Files /\ journal \subseteq journal'
         /\ \A g \in Files : rows'[g] = rows[g] \/ (rows'[g].st = "none" /\ g \in journal')
         /\ \A g \in F : rows'[g].st = "none"
<1>1. NoRow \in RowRecords /\ NoRow.st = "none" BY NumbersAre DEF NoRow, RowRecords
<1>2. \A g \in F : rows[g].st # "none" => rows'[g] = NoRow /\ g \in journal' BY DEF DropFiles
<1>3. \A g \in Files : rows'[g] = rows[g] \/ (rows'[g] = NoRow /\ g \in journal') BY DEF DropFiles
<1>4. rows' \in [Files -> RowRecords] BY <1>1 DEF DropFiles, TypeOK
<1>5. journal' \subseteq Files /\ journal \subseteq journal' BY DEF DropFiles, TypeOK
<1>6. \A g \in F : rows[g].st = "none" => rows'[g] = rows[g] BY DEF DropFiles
<1> QED BY <1>1, <1>2, <1>3, <1>4, <1>5, <1>6

LEMMA DropHolds ==
  ASSUME NEW g \in Files, Holds(g), Calm(g), blob'[g] = blob[g], sweep' = sweep, crossed' = crossed, stray' = stray,
         rows'[g] = rows[g] \/ (rows'[g].st = "none" /\ g \in journal'), g \in journal => g \in journal',
         rows'[g].st # "none" => (g \in listed => g \in listed')
  PROVE  Holds(g)'
<1>1. CASE rows'[g] = rows[g]
  <2>1. CASE g \in listed => g \in listed' BY <1>1, <2>1, CalmHolds
  <2>2. CASE rows[g].st = "none"
    <3>1. SinkHolds(g)' BY <1>1, <2>2 DEF Holds, SinkHolds, Calm, Fresh0
    <3>2. At(g, "blob")' => At(g, "blob") BY DEF Calm, Fresh0, At
    <3> QED BY <1>1, <2>2, <3>1, <3>2 DEF Holds
  <2> QED BY <1>1, <2>1, <2>2
<1>2. CASE rows'[g].st = "none" /\ g \in journal'
  <2>1. SinkHolds(g)' BY <1>2 DEF Holds, SinkHolds, Calm, Fresh0
  <2> QED BY <1>2, <2>1 DEF Holds
<1> QED BY <1>1, <1>2

LEMMA DropGoneStep == ASSUME FileInv, NEW f \in Files, DropGone(f) PROVE FileInv'
<1> USE DEF At, callVars, histVars, NoSweeping, sweepVars
<1> DEFINE r == [flight[f] EXCEPT !.at = "sweep"]
<1>1. TypeOK /\ LockHeld /\ \A g \in Files : Holds(g) BY FileInvIs
<1>2. flight[f] \in FlightRecords /\ flight[f].at = "drop" BY <1>1, FlightIs DEF DropGone
<1>3. /\ r \in FlightRecords /\ r.at = "sweep" /\ r.key = flight[f].key /\ r.sealed = flight[f].sealed
      /\ r.linked = flight[f].linked
  BY <1>2 DEF FlightRecords, Stages
<1>4. flight' = [flight EXCEPT ![f] = r] BY DEF DropGone, Goto, Fly
<1> HIDE DEF r
<1>5. flight' \in [Files -> FlightRecords] /\ flight'[f] = r /\ \A g \in Files : g # f => flight'[g] = flight[g]
  BY <1>1, <1>3, <1>4 DEF TypeOK
<1>6. /\ rows' \in [Files -> RowRecords] /\ journal' \subseteq Files /\ journal \subseteq journal'
      /\ \A g \in Files : rows'[g] = rows[g] \/ (rows'[g].st = "none" /\ g \in journal')
      /\ rows'[f].st = "none"
  BY <1>1, DropFilesIs DEF DropGone
<1>7. TypeOK'
  <2>1. /\ budget' \in [Outside -> Nat] /\ listed' \subseteq Files /\ crossed' \cup misled' \cup stray' \subseteq Files
        /\ blob' = blob /\ blob' \in [Files -> BlobRecords] /\ lock' \in Files \cup {Sweeper, Nobody}
    BY <1>1 DEF TypeOK, DropGone
  <2> QED BY <1>1, <1>5, <1>6, <2>1, BlobsAre, StepTypes DEF DropGone
<1>8. LockHeld' BY <1>1, <1>2, <1>3, <1>5, LockCalm DEF DropGone
<1>9. ASSUME NEW g \in Files PROVE Holds(g)'
  <2>1. Calm(g) BY <1>2, <1>3, <1>5 DEF Calm, Fresh0, Whole
  <2>2. rows'[g].st # "none" => (g \in listed => g \in listed') BY <1>6 DEF DropGone
  <2> QED BY <1>1, <1>6, <2>1, <2>2, DropHolds DEF DropGone
<1> QED BY <1>7, <1>8, <1>9, FileInvNext

LEMMA EvictStep == ASSUME FileInv, NEW f \in Files, Evict(f) PROVE FileInv'
<1> USE DEF At, Others, callVars, histVars, NoSweeping, sweepVars
<1>1. TypeOK /\ LockHeld /\ \A g \in Files : Holds(g) BY FileInvIs
<1>2. flight[f] \in FlightRecords /\ flight[f].at = "evict" BY <1>1, FlightIs DEF Evict
<1>3. PICK D \in SUBSET (Unpinned \ flight[f].keep) : DropFiles(D) /\ Goto(f, IF D = {} THEN "end" ELSE "sweep")
  BY DEF Evict
<1>4. D \in SUBSET Files BY <1>3 DEF Unpinned
<1> DEFINE a == IF D = {} THEN "end" ELSE "sweep"
           r == [flight[f] EXCEPT !.at = a]
<1>5. a \in {"end", "sweep"} OBVIOUS
<1>6. flight' = [flight EXCEPT ![f] = r] BY <1>3 DEF Goto, Fly
<1> HIDE DEF a
<1>7. /\ r \in FlightRecords /\ r.at \in {"end", "sweep"} /\ r.key = flight[f].key /\ r.sealed = flight[f].sealed
      /\ r.linked = flight[f].linked
  <2>1. a \in Stages BY <1>5 DEF Stages
  <2> QED BY <1>2, <1>5, <2>1 DEF FlightRecords
<1> HIDE DEF r
<1>8. flight' \in [Files -> FlightRecords] /\ flight'[f] = r /\ \A g \in Files : g # f => flight'[g] = flight[g]
  BY <1>1, <1>6, <1>7 DEF TypeOK
<1>9. /\ rows' \in [Files -> RowRecords] /\ journal' \subseteq Files /\ journal \subseteq journal'
      /\ \A g \in Files : rows'[g] = rows[g] \/ (rows'[g].st = "none" /\ g \in journal')
  BY <1>1, <1>3, <1>4, DropFilesIs
<1>10. TypeOK'
  <2>1. /\ budget' \in [Outside -> Nat] /\ listed' \subseteq Files /\ crossed' \cup misled' \cup stray' \subseteq Files
        /\ blob' = blob /\ blob' \in [Files -> BlobRecords] /\ lock' \in Files \cup {Sweeper, Nobody}
    BY <1>1 DEF TypeOK, Evict
  <2> QED BY <1>1, <1>8, <1>9, <2>1, BlobsAre, StepTypes DEF Evict
<1>11. LockHeld' BY <1>1, <1>2, <1>7, <1>8, LockCalm DEF Evict
<1>12. ASSUME NEW g \in Files PROVE Holds(g)'
  <2>1. Calm(g) BY <1>2, <1>7, <1>8 DEF Calm, Fresh0, Whole
  <2> QED BY <1>1, <1>9, <2>1, DropHolds DEF Evict
<1> QED BY <1>10, <1>11, <1>12, FileInvNext

LEMMA DropStep == ASSUME FileInv, NEW F \in SUBSET Files, Drop(F) PROVE FileInv'
<1> USE DEF callVars, histVars
<1>1. TypeOK /\ LockHeld /\ \A g \in Files : Holds(g) BY FileInvIs
<1>2. /\ rows' \in [Files -> RowRecords] /\ journal' \subseteq Files /\ journal \subseteq journal'
      /\ \A g \in Files : rows'[g] = rows[g] \/ (rows'[g].st = "none" /\ g \in journal')
      /\ \A g \in F : rows'[g].st = "none"
  BY <1>1, DropFilesIs DEF Drop
<1>3. /\ listed' = listed \ F /\ sweeper' = [sweeper EXCEPT !.permit = TRUE] /\ budget' \in [Outside -> Nat]
      /\ UNCHANGED <<blob, up, session, flight, lock, sweep>> /\ UNCHANGED <<caller, fetcher, unpinning, crossed, misled, stray>>
  BY <1>1, SpendIs DEF Drop, Outside
<1>4. sweeper'.at = sweeper.at BY <1>1, <1>3 DEF TypeOK
<1>5. TypeOK' BY <1>1, <1>2, <1>3 DEF TypeOK
<1>6. LockHeld' BY <1>1, <1>3, <1>4, LockCalm
<1>7. ASSUME NEW g \in Files PROVE Holds(g)'
  <2>1. Calm(g) BY <1>3 DEF Calm
  <2>2. rows'[g].st # "none" => (g \in listed => g \in listed') BY <1>2, <1>3
  <2> QED BY <1>1, <1>2, <1>3, <2>1, <2>2, DropHolds
<1> QED BY <1>5, <1>6, <1>7, FileInvNext

LEMMA EndStep == ASSUME FileInv, NEW f \in Files, End(f) PROVE FileInv'
<1> USE DEF At, NoSweeping, sweepVars, storeVars
<1>1. TypeOK /\ LockHeld /\ \A g \in Files : Holds(g) BY FileInvIs
<1>2. flight[f] \in FlightRecords /\ flight[f].res \in Answers /\ flight[f].at = "end" BY <1>1, FlightIs DEF End
<1>3. /\ NoFlight \in FlightRecords /\ NoFlight.at = "none" /\ NoFlight.key = 0 /\ NoFlight.sealed = 0 /\ ~NoFlight.linked
  BY NoFlightIs DEF NoFlight
<1>4. flight' = [flight EXCEPT ![f] = NoFlight] BY DEF End, Fly
<1>5. flight' \in [Files -> FlightRecords] /\ flight'[f] = NoFlight /\ \A g \in Files : g # f => flight'[g] = flight[g]
  BY <1>1, <1>3, <1>4 DEF TypeOK
<1>6. caller' \in [Callers -> CallRecords] /\ \A c \in Callers : caller'[c].at # "rest" => caller'[c].f \in Files
  <2>1. ASSUME NEW c \in Callers
        PROVE  /\ caller'[c] \in CallRecords /\ caller'[c].at = caller[c].at /\ caller'[c].f = caller[c].f
    <3>1. caller[c] \in CallRecords BY <1>1 DEF TypeOK
    <3>2. \A ans \in Answers : /\ [caller[c] EXCEPT !.ans = ans] \in CallRecords
                               /\ [caller[c] EXCEPT !.ans = ans].at = caller[c].at
                               /\ [caller[c] EXCEPT !.ans = ans].f = caller[c].f
      BY <3>1 DEF CallRecords
    <3>3. caller'[c] = [caller[c] EXCEPT !.ans = flight[f].res] \/ caller'[c] = caller[c] BY DEF End
    <3> QED BY <1>2, <3>1, <3>2, <3>3
  <2>2. caller' = [c \in Callers |->
                    IF Waits(c, f) THEN [caller[c] EXCEPT !.ans = flight[f].res] ELSE caller[c]]
    BY DEF End
  <2>3. caller' \in [Callers -> CallRecords] BY <2>1, <2>2
  <2> QED BY <1>1, <2>1, <2>3 DEF TypeOK
<1>7. TypeOK' BY <1>1, <1>5, <1>6 DEF TypeOK, End
<1>8. LockHeld' BY <1>1, <1>2, <1>3, <1>5, LockCalm DEF End
<1>9. Holds(f)'
  <2>1. SinkHolds(f)' BY <1>1, <1>3, <1>5 DEF Holds, SinkHolds, End
  <2>2. Counted(f)' <=> Counted(f) BY DEF Counted, End
  <2> QED BY <1>1, <1>3, <1>5, <2>1, <2>2 DEF Holds, End
<1> QED BY <1>5, <1>7, <1>8, <1>9, OneFile DEF End

-----------------------------------------------------------------------------
(* The sweeps.                                                             *)

LEMMA ByIs == ASSUME TypeOK, NEW by \in Files \cup {Sweeper}, WantsSweep(by)
  PROVE  /\ by # Nobody
         /\ by \in Files => flight[by].at = "sweep" /\ flight[by] \in FlightRecords
         /\ by \notin Files => by = Sweeper /\ sweeper.at = "sweep"
<1>1. Sweeper # Nobody BY DEF Sweeper, Nobody
<1> QED BY <1>1, NamesAssumption, FlightIs DEF WantsSweep, At

\* A sweep is over: the download that made it ends, the sweeper goes on.
LEMMA SweptIs ==
  ASSUME TypeOK, NEW by \in Files \cup {Sweeper}, WantsSweep(by), Swept(by)
  PROVE  /\ flight' \in [Files -> FlightRecords]
         /\ \A g \in Files : Calm(g) /\ (g # by => flight'[g] = flight[g])
         /\ by \in Files => flight'[by].at = "end" /\ sweeper' = sweeper
         /\ by \notin Files => flight' = flight /\ sweeper' = [sweeper EXCEPT !.at = "flying"]
<1>1. CASE by \in Files
  <2> DEFINE r == [flight[by] EXCEPT !.at = "end"]
  <2>1. flight[by].at = "sweep" /\ flight[by] \in FlightRecords BY <1>1, ByIs
  <2>2. /\ r \in FlightRecords /\ r.at = "end" /\ r.key = flight[by].key /\ r.sealed = flight[by].sealed
        /\ r.linked = flight[by].linked
    BY <2>1 DEF FlightRecords, Stages
  <2>3. flight' = [flight EXCEPT ![by] = r] /\ sweeper' = sweeper BY <1>1 DEF Swept, Goto, Fly
  <2> HIDE DEF r
  <2>4. flight' \in [Files -> FlightRecords] /\ flight'[by] = r /\ \A g \in Files : g # by => flight'[g] = flight[g]
    BY <1>1, <2>2, <2>3 DEF TypeOK
  <2>5. \A g \in Files : Calm(g) BY <2>1, <2>2, <2>4 DEF Calm, Fresh0, Whole
  <2> QED BY <1>1, <2>2, <2>3, <2>4, <2>5
<1>2. CASE by \notin Files BY <1>2 DEF Swept, Calm, TypeOK
<1> QED BY <1>1, <1>2

LEMMA SweepReadStep == ASSUME FileInv, NEW by \in Files \cup {Sweeper}, SweepRead(by) PROVE FileInv'
<1> USE DEF At, callVars, histVars
<1> DEFINE paths == {f \in journal : rows[f].st = "none"}
<1>1. TypeOK /\ LockHeld /\ \A g \in Files : Holds(g) BY FileInvIs
<1>2. WantsSweep(by) /\ lock = Nobody /\ journal' = paths BY DEF SweepRead
<1>3. /\ UNCHANGED <<rows, blob>> /\ UNCHANGED <<budget, listed, up, session>>
      /\ UNCHANGED <<caller, fetcher, unpinning, crossed, misled, stray>>
  BY DEF SweepRead, SweepUnchanged
<1>4. sweep.at = "rest" /\ sweep.paths = {} BY <1>1, <1>2 DEF LockHeld
<1>5. paths \subseteq Files /\ \A g \in Files : g \in journal => g \in paths \/ rows[g].st # "none"
  BY <1>1 DEF TypeOK
<1>6. CASE paths = {}
  <2>1. Swept(by) /\ UNCHANGED <<lock, sweep>> BY <1>2, <1>6 DEF SweepRead
  <2>2. /\ flight' \in [Files -> FlightRecords] /\ \A g \in Files : Calm(g) /\ (g # by => flight'[g] = flight[g])
        /\ by \in Files => flight'[by].at = "end" /\ sweeper' = sweeper
        /\ by \notin Files => flight' = flight /\ sweeper' = [sweeper EXCEPT !.at = "flying"]
    BY <1>1, <1>2, <2>1, SweptIs
  <2>3. sweeper' \in [at : {"rest", "sweep", "flying", "listed", "cancel"}, permit : BOOLEAN, known : SUBSET Files]
    BY <1>1, <2>2 DEF TypeOK
  <2>4. TypeOK' BY <1>1, <1>2, <1>3, <1>5, <2>1, <2>2, <2>3 DEF TypeOK
  <2>5. LockHeld'
    <3>1. \A g \in Files : flight'[g].at \in {"make", "blob"} <=> flight[g].at \in {"make", "blob"}
      BY <1>1, <1>2, <2>2, ByIs
    <3>2. Flying' = Flying BY <1>1, <1>2, <2>2, ByIs DEF Flying
    <3>3. up # "up" => sweeper'.at = "rest"
      <4>1. CASE by \in Files BY <1>1, <2>2, <4>1 DEF LockHeld
      <4>2. CASE by \notin Files BY <1>1, <1>2, <4>2, ByIs DEF LockHeld
      <4> QED BY <4>1, <4>2
    <3> QED BY <1>1, <1>2, <1>3, <1>4, <2>1, <3>1, <3>2, <3>3 DEF LockHeld
  <2>6. \A g \in Files : Holds(g)' BY <1>1, <1>2, <1>3, <1>5, <2>1, <2>2, CalmHolds
  <2> QED BY <2>4, <2>5, <2>6, FileInvNext
<1>7. CASE paths # {}
  <2>1. lock' = by /\ sweep' = [at |-> "unlink", paths |-> paths] /\ UNCHANGED <<flight, sweeper>>
    BY <1>2, <1>7 DEF SweepRead
  <2>2. /\ sweep'.at = "unlink" /\ sweep'.paths = paths
        /\ sweep' \in [at : {"rest", "unlink", "forget"}, paths : SUBSET Files]
    BY <1>5, <2>1
  <2>3. TypeOK' BY <1>1, <1>2, <1>3, <1>5, <2>1, <2>2 DEF TypeOK
  <2>4. LockHeld'
    <3>1. \A g \in Files : flight[g].at \notin {"make", "blob"} BY <1>1, <1>2, NamesAssumption DEF LockHeld
    <3>2. by # Nobody BY <1>1, <1>2, ByIs
    <3>3. WantsSweep(lock)' BY <1>2, <2>1 DEF WantsSweep
    <3>4. Flying' = Flying BY <2>1 DEF Flying
    <3> QED BY <1>1, <1>3, <2>1, <2>2, <3>1, <3>2, <3>3, <3>4 DEF LockHeld
  <2>5. ASSUME NEW g \in Files PROVE Holds(g)'
    <3>1. CASE g \in paths
      <4>1. rows[g].st = "none" BY <3>1
      <4>2. SinkHolds(g)' BY <1>1, <1>3, <2>1 DEF Holds, SinkHolds
      <4> QED BY <1>1, <1>2, <1>3, <2>1, <2>2, <3>1, <4>1, <4>2 DEF Holds
    <3>2. CASE g \notin paths BY <1>1, <1>2, <1>3, <1>5, <2>1, <2>2, <3>2, SameHolds
    <3> QED BY <3>1, <3>2
  <2> QED BY <2>3, <2>4, <2>5, FileInvNext
<1> QED BY <1>6, <1>7

LEMMA UnlinkStep == ASSUME FileInv, NEW by \in Files \cup {Sweeper}, Unlink(by) PROVE FileInv'
<1> USE DEF At, callVars, histVars
<1>1. TypeOK /\ LockHeld /\ \A g \in Files : Holds(g) BY FileInvIs
<1>2. WantsSweep(by) /\ lock = by /\ sweep.at = "unlink" /\ sweep' = [sweep EXCEPT !.at = "forget"] BY DEF Unlink
<1>3. /\ UNCHANGED <<rows, journal, lock, sweeper>> /\ UNCHANGED <<budget, listed, up, session>>
      /\ UNCHANGED <<caller, fetcher, unpinning, crossed, misled, stray>>
  BY DEF Unlink, SweepUnchanged
<1>4. /\ sweep'.at = "forget" /\ sweep'.paths = sweep.paths
      /\ sweep' \in [at : {"rest", "unlink", "forget"}, paths : SUBSET Files]
  BY <1>1, <1>2 DEF TypeOK
<1>5. /\ \A g \in Files : g \in sweep.paths =>
           /\ blob'[g] = NoBlob /\ flight'[g] = [flight[g] EXCEPT !.linked = FALSE]
      /\ \A g \in Files : g \notin sweep.paths => blob'[g] = blob[g] /\ flight'[g] = flight[g]
  BY DEF Unlink
<1>6. NoBlob \in BlobRecords /\ NoBlob.synced = 0 /\ Len(NoBlob.chunks) = 0 /\ ~NoBlob.there
  <2>1. <<>> \in Seq(Nat) /\ 0 \in Nat /\ Len(<<>>) = 0 OBVIOUS
  <2> QED BY <2>1 DEF NoBlob, BlobRecords
<1>7. ASSUME NEW g \in Files 
      PROVE /\ flight'[g] \in FlightRecords /\ flight'[g].at = flight[g].at
            /\ flight'[g].key = flight[g].key /\ flight'[g].sealed = flight[g].sealed
            /\ (g \in sweep.paths => ~flight'[g].linked)
  <2>1. flight[g] \in FlightRecords BY <1>1, FlightIs
  <2>2. [flight[g] EXCEPT !.linked = FALSE] \in FlightRecords BY <2>1 DEF FlightRecords
  <2>3. /\ [flight[g] EXCEPT !.linked = FALSE].at = flight[g].at /\ [flight[g] EXCEPT !.linked = FALSE].key = flight[g].key
        /\ [flight[g] EXCEPT !.linked = FALSE].sealed = flight[g].sealed /\ ~[flight[g] EXCEPT !.linked = FALSE].linked
    BY <2>1 DEF FlightRecords
  <2> QED BY <1>5, <2>1, <2>2, <2>3
<1>8. TypeOK'
  <2>1. flight' \in [Files -> FlightRecords]
    <3>1. flight' = [f \in Files |-> IF f \in sweep.paths THEN [flight[f] EXCEPT !.linked = FALSE] ELSE flight[f]]
      BY DEF Unlink
    <3> QED BY <1>7, <3>1
  <2>2. blob' \in [Files -> BlobRecords]
    <3>1. blob' = [f \in Files |-> IF f \in sweep.paths THEN NoBlob ELSE blob[f]] BY DEF Unlink
    <3> QED BY <1>1, <1>6, <3>1, BlobIs
  <2>3. ASSUME NEW g \in Files PROVE blob'[g].synced <= Len(blob'[g].chunks) /\ Len(blob'[g].chunks) <= Chunks
    <3>1. CASE g \in sweep.paths
      <4>1. blob'[g] = NoBlob BY <1>5, <3>1
      <4>2. NoBlob.synced <= Len(NoBlob.chunks) /\ Len(NoBlob.chunks) <= Chunks BY <1>6, NumbersAre
      <4> QED BY <4>1, <4>2
    <3>2. CASE g \notin sweep.paths BY <1>1, <1>5, <3>2 DEF TypeOK
    <3> QED BY <3>1, <3>2
  <2> QED BY <1>1, <1>3, <1>4, <2>1, <2>2, <2>3 DEF TypeOK
<1>9. LockHeld'
  <2>1. WantsSweep(lock)' BY <1>2, <1>3, <1>7 DEF WantsSweep
  <2>2. Flying' = Flying BY <1>7 DEF Flying
  <2> QED BY <1>1, <1>2, <1>3, <1>4, <1>7, <2>1, <2>2 DEF LockHeld
<1>10. ASSUME NEW g \in Files PROVE Holds(g)'
  <2>1. CASE g \in sweep.paths
    <3>1. blob'[g] = NoBlob /\ flight'[g].at = flight[g].at /\ flight'[g].key = flight[g].key
          /\ flight'[g].sealed = flight[g].sealed /\ ~flight'[g].linked
      BY <1>5, <1>7, <2>1
    <3>2. g \notin crossed /\ rows[g].st # "none" => rows[g].done = 0 /\ flight[g].key = 0
      BY <1>1, <2>1 DEF Holds
    <3>3. g \notin crossed /\ rows[g].st # "none" => Counted(g)' BY <1>3, <3>2 DEF Counted
    <3>4. SinkHolds(g)' BY <1>1, <1>3, <1>6, <3>1 DEF Holds, SinkHolds
    <3> QED BY <1>1, <1>3, <1>4, <1>6, <2>1, <3>1, <3>2, <3>3, <3>4 DEF Holds
  <2>2. CASE g \notin sweep.paths BY <1>1, <1>3, <1>4, <1>5, <2>2, SameHolds
  <2> QED BY <2>1, <2>2
<1> QED BY <1>8, <1>9, <1>10, FileInvNext

LEMMA ForgetStep == ASSUME FileInv, NEW by \in Files \cup {Sweeper}, Forget(by) PROVE FileInv'
<1> USE DEF At, callVars, histVars
<1>1. TypeOK /\ LockHeld /\ \A g \in Files : Holds(g) BY FileInvIs
<1>2. WantsSweep(by) /\ lock = by /\ sweep.at = "forget" /\ sweep' = NoSweep /\ lock' = Nobody /\ Swept(by)
      /\ journal' = journal \ sweep.paths
  BY DEF Forget, Remaining
<1>3. /\ UNCHANGED <<rows, blob>> /\ UNCHANGED <<budget, listed, up, session>>
      /\ UNCHANGED <<caller, fetcher, unpinning, crossed, misled, stray>>
  BY DEF Forget, SweepUnchanged
<1>4. NoSweep.at = "rest" /\ NoSweep.paths = {}
      /\ NoSweep \in [at : {"rest", "unlink", "forget"}, paths : SUBSET Files]
  BY DEF NoSweep
<1>5. /\ flight' \in [Files -> FlightRecords] /\ \A g \in Files : Calm(g) /\ (g # by => flight'[g] = flight[g])
      /\ by \in Files => flight'[by].at = "end" /\ sweeper' = sweeper
      /\ by \notin Files => flight' = flight /\ sweeper' = [sweeper EXCEPT !.at = "flying"]
  BY <1>1, <1>2, SweptIs
<1>6. TypeOK'
  <2>1. sweeper' \in [at : {"rest", "sweep", "flying", "listed", "cancel"}, permit : BOOLEAN, known : SUBSET Files]
    BY <1>1, <1>5 DEF TypeOK
  <2> QED BY <1>1, <1>2, <1>3, <1>4, <1>5, <2>1 DEF TypeOK
<1>7. \A g \in Files : flight[g].at \notin {"make", "blob"}
  <2>1. by \in Files => flight[by].at = "sweep" BY <1>1, <1>2, ByIs
  <2> QED BY <1>1, <1>2, <2>1 DEF LockHeld
<1>8. LockHeld'
  <2>1. \A g \in Files : flight'[g].at \notin {"make", "blob"} BY <1>5, <1>7
  <2>2. Flying' = Flying BY <1>1, <1>2, <1>5, ByIs DEF Flying
  <2>3. up # "up" => sweeper'.at = "rest"
    <3>1. CASE by \in Files BY <1>1, <1>5, <3>1 DEF LockHeld
    <3>2. CASE by \notin Files BY <1>1, <1>2, <3>2, ByIs DEF LockHeld
    <3> QED BY <3>1, <3>2
  <2> QED BY <1>1, <1>2, <1>3, <1>4, <2>1, <2>2, <2>3 DEF LockHeld
<1>9. ASSUME NEW g \in Files PROVE Holds(g)'
  <2>1. CASE g \in sweep.paths
    <3>1. ~blob[g].there BY <1>1, <1>2, <2>1 DEF Holds
    <3>2. flight'[g].at # "blob" /\ flight'[g].key = flight[g].key /\ flight'[g].linked = flight[g].linked
          /\ flight'[g].sealed = flight[g].sealed
      BY <1>5, <1>7 DEF Calm
    <3>3. SinkHolds(g)' BY <1>1, <1>3, <1>5 DEF Holds, SinkHolds, Calm, Fresh0, Whole
    <3>4. Counted(g)' <=> Counted(g) BY <1>3 DEF Counted
    <3>5. g \notin crossed /\ rows[g].st # "none" => flight[g].key = 0 BY <1>1, <2>1 DEF Holds
    <3> QED BY <1>1, <1>2, <1>3, <1>4, <3>1, <3>2, <3>3, <3>4, <3>5 DEF Holds
  <2>2. CASE g \notin sweep.paths BY <1>1, <1>2, <1>3, <1>4, <1>5, <2>2, CalmHolds
  <2> QED BY <2>1, <2>2
<1> QED BY <1>6, <1>8, <1>9, FileInvNext

-----------------------------------------------------------------------------
(* What changes neither the store's rows and blobs nor where a download is. *)

LEMMA QuietStep ==
  ASSUME FileInv, TypeOK', UNCHANGED <<rows, blob, journal, lock, sweep, up, crossed, stray>>, listed \subseteq listed',
         \A g \in Files : Calm(g) /\ flight'[g].at = flight[g].at,
         sweeper'.at = sweeper.at \/ (sweeper.at # "sweep" /\ up = "up")
  PROVE  FileInv'
<1>1. TypeOK /\ LockHeld /\ \A g \in Files : Holds(g) BY FileInvIs
<1>2. \A g \in Files : Holds(g)' BY <1>1, CalmHolds
<1>3. LockHeld'
  <2>1. Flying' = Flying BY DEF Flying
  <2>2. WantsSweep(lock) => WantsSweep(lock)' BY <1>1 DEF WantsSweep, At
  <2>3. up' # "up" => sweeper'.at = "rest" BY <1>1 DEF LockHeld
  <2> QED BY <1>1, <2>1, <2>2, <2>3 DEF LockHeld
<1> QED BY <1>2, <1>3, FileInvNext

LEMMA FlightSame ==
  ASSUME NEW r \in FlightRecords, NEW q,
         \/ \E S \in SUBSET Callers : q = [r EXCEPT !.callers = S]
         \/ \E S \in SUBSET Callers, b \in BOOLEAN : q = [r EXCEPT !.callers = S, !.cancel = b]
         \/ \E b \in BOOLEAN : q = [r EXCEPT !.cancel = b]
         \/ \E b \in BOOLEAN : q = [r EXCEPT !.pause = b]
         \/ q = r
  PROVE  q \in FlightRecords /\ q.at = r.at /\ q.key = r.key /\ q.sealed = r.sealed /\ q.linked = r.linked
  BY DEF FlightRecords

LEMMA CancelsStep == ASSUME FileInv, Cancels PROVE FileInv'
<1> USE DEF callVars, histVars, SweepUnchanged
<1>1. TypeOK /\ LockHeld BY FileInvIs
<1>2. /\ UNCHANGED <<rows, journal, blob, lock, sweep>> /\ UNCHANGED <<budget, listed, up, session>>
      /\ UNCHANGED <<caller, fetcher, unpinning, crossed, misled, stray>>
  BY DEF Cancels, SweeperWakes, ReadFlying, ReadListed, CancelUnlisted
<1>3. sweeper' \in [at : {"rest", "sweep", "flying", "listed", "cancel"}, permit : BOOLEAN, known : SUBSET Files]
  <2>1. Flying \in SUBSET Files BY DEF Flying
  <2>2. \A k \in SUBSET Files : k \cap listed \in SUBSET Files OBVIOUS
  <2>3. sweeper \in [at : {"rest", "sweep", "flying", "listed", "cancel"}, permit : BOOLEAN, known : SUBSET Files]
    BY <1>1 DEF TypeOK
  <2>4. CASE SweeperWakes BY ONLY <2>3, <2>4 DEF SweeperWakes
  <2>5. CASE ReadFlying
    <3> DEFINE x == IF Flying = {} THEN "rest" ELSE "listed"
    <3>1. x \in {"rest", "listed"} OBVIOUS
    <3>2. sweeper' = [sweeper EXCEPT !.at = x, !.known = Flying] BY ONLY <2>5 DEF ReadFlying
    <3> HIDE DEF x
    <3> QED BY ONLY <2>1, <2>3, <3>1, <3>2
  <2>6. CASE ReadListed BY ONLY <2>2, <2>3, <2>6 DEF ReadListed
  <2>7. CASE CancelUnlisted BY ONLY <2>3, <2>7 DEF CancelUnlisted
  <2> QED BY ONLY <2>4, <2>5, <2>6, <2>7, Cancels DEF Cancels
<1>4. up = "up" /\ sweeper.at # "sweep"
  BY <1>1 DEF Cancels, SweeperWakes, ReadFlying, ReadListed, CancelUnlisted, LockHeld
<1>5. ASSUME NEW g \in Files
      PROVE /\ flight'[g] \in FlightRecords /\ flight'[g].at = flight[g].at /\ flight'[g].key = flight[g].key
            /\ flight'[g].sealed = flight[g].sealed /\ flight'[g].linked = flight[g].linked
  <2>1. flight[g] \in FlightRecords BY <1>1, FlightIs
  <2>2. flight'[g] = flight[g] \/ flight'[g] = [flight[g] EXCEPT !.cancel = TRUE]
    BY DEF Cancels, SweeperWakes, ReadFlying, ReadListed, CancelUnlisted
  <2> QED BY <2>1, <2>2, FlightSame
<1>6. flight' \in [Files -> FlightRecords]
  <2>1. \/ flight' = flight
        \/ flight' = [f \in Files |-> IF f \in Flying \ sweeper.known
                                        THEN [flight[f] EXCEPT !.cancel = TRUE] ELSE flight[f]]
    BY DEF Cancels, SweeperWakes, ReadFlying, ReadListed, CancelUnlisted
  <2> QED BY <1>1, <1>5, <2>1 DEF TypeOK
<1>7. TypeOK' BY <1>1, <1>2, <1>3, <1>6 DEF TypeOK
<1>8. \A g \in Files : Calm(g) BY <1>5 DEF Calm
<1> QED BY <1>2, <1>4, <1>5, <1>7, <1>8, QuietStep

-----------------------------------------------------------------------------
(* Calls, and files kept offline.                                          *)

FetcherRecords == [todo : SUBSET Files, failed : BOOLEAN, wake : BOOLEAN, news : BOOLEAN]

\* Callers and the fetcher change, and what a download knows of them.
LEMMA CallsChange ==
  ASSUME FileInv, budget' \in [Outside -> Nat], UNCHANGED <<listed, rows, journal, blob>>, UNCHANGED <<up, session>>,
         UNCHANGED <<lock, sweep, sweeper>>, UNCHANGED <<crossed, misled, stray>>, unpinning' \subseteq Files,
         caller' \in [Callers -> CallRecords],
         \A c \in Callers : caller'[c].at # "rest" => caller'[c].f \in Files,
         fetcher' \in FetcherRecords, flight' \in [Files -> FlightRecords],
         \A g \in Files : Calm(g) /\ flight'[g].at = flight[g].at
  PROVE  FileInv'
<1>1. TypeOK BY DEF FileInv
<1>2. TypeOK' BY <1>1 DEF TypeOK, FetcherRecords
<1> QED BY <1>2, QuietStep

LEMMA CallIs ==
  ASSUME TypeOK, NEW c \in Callers, NEW r \in CallRecords, r.at # "rest" => r.f \in Files, Call(c, r)
  PROVE  caller' \in [Callers -> CallRecords] /\ \A d \in Callers : caller'[d].at # "rest" => caller'[d].f \in Files
  BY DEF TypeOK, Call

LEMMA NoCallIs == NoCall \in CallRecords /\ NoCall.at = "rest"
  BY DEF NoCall, CallRecords

LEMMA CallMoves ==
  ASSUME NEW r \in CallRecords
  PROVE  /\ \A a \in {"rest", "check", "join", "wait"} :
              [r EXCEPT !.at = a] \in CallRecords /\ [r EXCEPT !.at = a].f = r.f
         /\ \A a \in {"rest", "check", "join", "wait"} :
              [r EXCEPT !.at = a, !.ans = ""] \in CallRecords /\ [r EXCEPT !.at = a, !.ans = ""].f = r.f
         /\ \A a \in {"rest", "check", "join", "wait"}, n \in Nat :
              [r EXCEPT !.at = a, !.tries = n] \in CallRecords /\ [r EXCEPT !.at = a, !.tries = n].f = r.f
         /\ \A b \in BOOLEAN :
              /\ [r EXCEPT !.cancel = b] \in CallRecords /\ [r EXCEPT !.cancel = b].at = r.at
              /\ [r EXCEPT !.cancel = b].f = r.f
         /\ \A a \in {"rest", "check", "join", "wait"}, f \in Files :
              [r EXCEPT !.at = a, !.f = f] \in CallRecords /\ [r EXCEPT !.at = a, !.f = f].f = f
  BY DEF CallRecords

LEMMA CallerIs ==
  ASSUME TypeOK, NEW c \in Callers
  PROVE  /\ caller[c] \in CallRecords /\ caller[c].tries \in Nat /\ caller[c].cancel \in BOOLEAN
         /\ caller[c].at # "rest" => caller[c].f \in Files
<1>1. caller[c] \in CallRecords BY DEF TypeOK
<1> QED BY <1>1 DEF TypeOK, CallRecords

LEMMA ReturnsIs ==
  ASSUME TypeOK, NEW c \in Callers, NEW ans, Returns(c, ans)
  PROVE  /\ caller' \in [Callers -> CallRecords] /\ \A d \in Callers : caller'[d].at # "rest" => caller'[d].f \in Files
         /\ fetcher' \in FetcherRecords
<1>1. caller' \in [Callers -> CallRecords] /\ \A d \in Callers : caller'[d].at # "rest" => caller'[d].f \in Files
  BY NoCallIs, CallIs DEF Returns
<1>2. fetcher' \in FetcherRecords BY DEF Returns, TypeOK, FetcherRecords
<1> QED BY <1>1, <1>2

LEMMA CancelCallIs ==
  ASSUME TypeOK, NEW c \in Callers, CancelCall(c)
  PROVE  caller' \in [Callers -> CallRecords] /\ \A d \in Callers : caller'[d].at # "rest" => caller'[d].f \in Files
<1> DEFINE b == caller[c].cancel \/ caller[c].tries > 0
           r == [caller[c] EXCEPT !.cancel = b]
<1>1. caller[c] \in CallRecords /\ (caller[c].at # "rest" => caller[c].f \in Files) BY CallerIs
<1>2. b \in BOOLEAN BY CallerIs
<1>3. Call(c, r) BY DEF CancelCall
<1> HIDE DEF b
<1>4. r \in CallRecords /\ r.at = caller[c].at /\ r.f = caller[c].f BY <1>1, <1>2, CallMoves
<1> QED BY <1>1, <1>3, <1>4, CallIs

LEMMA CheckStep == ASSUME FileInv, NEW c \in Callers, Check(c) PROVE FileInv'
<1> USE DEF CallUnchanged, storeVars, sweepVars, histVars
<1>1. TypeOK BY DEF FileInv
<1>2. caller[c].at = "check" BY DEF Check
<1>3. CASE Returns(c, "") BY <1>1, <1>3, ReturnsIs, CallsChange DEF Check, TypeOK, Calm
<1>4. CASE Call(c, [caller[c] EXCEPT !.at = "join"]) /\ UNCHANGED fetcher
  <2>1. caller' \in [Callers -> CallRecords] /\ \A d \in Callers : caller'[d].at # "rest" => caller'[d].f \in Files
    <3>1. [caller[c] EXCEPT !.at = "join"] \in CallRecords /\ [caller[c] EXCEPT !.at = "join"].f = caller[c].f
      BY <1>1, CallerIs, CallMoves
    <3>2. caller[c].f \in Files BY <1>1, <1>2, CallerIs
    <3> QED BY <1>1, <1>4, <3>1, <3>2, CallIs
  <2>2. fetcher' \in FetcherRecords BY <1>1, <1>4 DEF TypeOK, FetcherRecords
  <2> QED BY <1>1, <2>1, <2>2, CallsChange DEF Check, TypeOK, Calm
<1> QED BY <1>3, <1>4 DEF Check

LEMMA AnsweredStep == ASSUME FileInv, NEW c \in Callers, Answered(c) PROVE FileInv'
<1> USE DEF CallUnchanged, storeVars, sweepVars, histVars
<1>1. TypeOK BY DEF FileInv
<1>2. caller[c].at = "wait" BY DEF Answered
<1>3. CASE Returns(c, caller[c].ans) BY <1>1, <1>3, ReturnsIs, CallsChange DEF Answered, TypeOK, Calm
<1>4. CASE Call(c, [caller[c] EXCEPT !.at = "join", !.ans = ""]) /\ UNCHANGED fetcher
  <2>1. caller' \in [Callers -> CallRecords] /\ \A d \in Callers : caller'[d].at # "rest" => caller'[d].f \in Files
    <3>1. /\ [caller[c] EXCEPT !.at = "join", !.ans = ""] \in CallRecords
          /\ [caller[c] EXCEPT !.at = "join", !.ans = ""].f = caller[c].f
      BY <1>1, CallerIs, CallMoves
    <3>2. caller[c].f \in Files BY <1>1, <1>2, CallerIs
    <3> QED BY <1>1, <1>4, <3>1, <3>2, CallIs
  <2>2. fetcher' \in FetcherRecords BY <1>1, <1>4 DEF TypeOK, FetcherRecords
  <2> QED BY <1>1, <2>1, <2>2, CallsChange DEF Answered, TypeOK, Calm
<1> QED BY <1>3, <1>4 DEF Answered

\* A file whose download is new: nothing of it is sealed or linked.
LEMMA JoinStep == ASSUME FileInv, NEW c \in Callers, JoinOrStart(c) PROVE FileInv'
<1> USE DEF CallUnchanged, storeVars, sweepVars, histVars
<1>1. TypeOK /\ LockHeld /\ \A g \in Files : Holds(g) BY FileInvIs
<1>2. PICK f \in Files : f = caller[c].f BY <1>1, CallerIs DEF JoinOrStart
<1>3. /\ UNCHANGED <<listed, rows, journal, blob>> /\ UNCHANGED <<up, session, unpinning, crossed, misled, stray, budget>>
      /\ UNCHANGED <<lock, sweep, sweeper>>
  BY DEF JoinOrStart
<1>4. CASE up # "up"
  <2>1. Returns(c, "cancelled") /\ UNCHANGED flight BY <1>4 DEF JoinOrStart
  <2> QED BY <1>1, <1>3, <2>1, ReturnsIs, CallsChange DEF TypeOK, Calm
<1>5. CASE up = "up"
  <2> DEFINE n == caller[c].tries + 1
             q == [caller[c] EXCEPT !.at = "wait", !.tries = n]
  <2>1. Call(c, q) /\ UNCHANGED fetcher BY <1>5 DEF JoinOrStart
  <2>2. caller' \in [Callers -> CallRecords] /\ \A d \in Callers : caller'[d].at # "rest" => caller'[d].f \in Files
    <3>1. n \in Nat /\ caller[c] \in CallRecords BY <1>1, CallerIs
    <3> HIDE DEF n
    <3>2. q \in CallRecords /\ q.f = f BY <1>2, <3>1, CallMoves
    <3> QED BY <1>1, <1>2, <2>1, <3>2, CallIs
  <2>3. fetcher' \in FetcherRecords BY <1>1, <2>1 DEF TypeOK, FetcherRecords
  <2>4. CASE At(f, "none")
    <3> DEFINE r == [NoFlight EXCEPT !.at = "start", !.callers = {c}]
    <3>1. flight' = [flight EXCEPT ![f] = r] BY <1>2, <1>5, <2>4 DEF JoinOrStart, Fly
    <3>2. r \in FlightRecords /\ r.at = "start" /\ r.key = 0 /\ r.sealed = 0 /\ ~r.linked
      <4>1. NoFlight \in FlightRecords /\ "start" \in Stages /\ {c} \in SUBSET Callers BY NoFlightIs DEF Stages
      <4>2. NoFlight.key = 0 /\ NoFlight.sealed = 0 /\ ~NoFlight.linked BY DEF NoFlight
      <4> QED BY <4>1, <4>2 DEF FlightRecords
    <3>3. flight[f].at = "none" BY <2>4 DEF At
    <3> HIDE DEF r
    <3>4. flight' \in [Files -> FlightRecords] /\ flight'[f] = r /\ \A g \in Files : g # f => flight'[g] = flight[g]
      BY <1>1, <1>2, <3>1, <3>2 DEF TypeOK
    <3>5. TypeOK' BY <1>1, <1>3, <2>2, <2>3, <3>4 DEF TypeOK, FetcherRecords
    <3>6. LockHeld' BY <1>1, <1>2, <1>3, <1>5, <3>2, <3>3, <3>4, LockCalm
    <3>7. Holds(f)'
      <4>1. SinkHolds(f)' BY <1>1, <1>2, <1>3, <3>2, <3>3, <3>4 DEF Holds, SinkHolds
      <4>2. Counted(f)' <=> Counted(f) BY <1>3 DEF Counted
      <4> QED BY <1>1, <1>2, <1>3, <3>2, <3>3, <3>4, <4>1, <4>2 DEF Holds, At
    <3> QED BY <1>2, <1>3, <3>4, <3>5, <3>6, <3>7, OneFile
  <2>5. CASE ~At(f, "none")
    <3> DEFINE r == [flight[f] EXCEPT !.callers = @ \cup {c}]
               S == flight[f].callers \cup {c}
    <3>1. flight' = flight \/ flight' = [flight EXCEPT ![f] = r] BY <1>2, <1>5, <2>5 DEF JoinOrStart, Fly
    <3>2. r \in FlightRecords /\ r.at = flight[f].at /\ r.key = flight[f].key /\ r.sealed = flight[f].sealed
          /\ r.linked = flight[f].linked
      <4>1. flight[f] \in FlightRecords BY <1>1, <1>2, FlightIs
      <4>2. S \in SUBSET Callers BY <4>1 DEF FlightRecords
      <4>3. r = [flight[f] EXCEPT !.callers = S] OBVIOUS
      <4> HIDE DEF r, S
      <4> QED BY <4>1, <4>2, <4>3, FlightSame
    <3> HIDE DEF r
    <3>3. flight' \in [Files -> FlightRecords] BY <1>1, <1>2, <3>1, <3>2 DEF TypeOK
    <3>4. \A g \in Files : Calm(g) /\ flight'[g].at = flight[g].at BY <1>1, <1>2, <3>1, <3>2 DEF TypeOK, Calm
    <3> QED BY <1>1, <1>3, <2>2, <2>3, <3>3, <3>4, CallsChange DEF TypeOK
  <2> QED BY <2>4, <2>5
<1> QED BY <1>4, <1>5

LEMMA LeaveStep == ASSUME FileInv, NEW c \in Callers, Leave(c) PROVE FileInv'
<1> USE DEF CallUnchanged, storeVars, sweepVars, histVars
<1> DEFINE f == caller[c].f
           S == flight[f].callers \ {c}
           b == flight[f].cancel \/ S = {}
           r == [flight[f] EXCEPT !.callers = S, !.cancel = b]
<1>1. TypeOK BY DEF FileInv
<1>2. f \in Files BY <1>1, CallerIs DEF Leave
<1>3. /\ UNCHANGED <<listed, rows, journal, blob>> /\ UNCHANGED <<up, session, unpinning, crossed, misled, stray, budget>>
      /\ UNCHANGED <<lock, sweep, sweeper>> /\ Returns(c, "cancelled")
  BY DEF Leave
<1>4. flight' = [flight EXCEPT ![f] = r] BY DEF Leave, Fly
<1>5. r \in FlightRecords /\ r.at = flight[f].at /\ r.key = flight[f].key /\ r.sealed = flight[f].sealed
      /\ r.linked = flight[f].linked
  <2>1. flight[f] \in FlightRecords BY <1>1, <1>2, FlightIs
  <2>2. S \in SUBSET Callers /\ b \in BOOLEAN BY <2>1 DEF FlightRecords
  <2> HIDE DEF S, b, f
  <2> QED BY <2>1, <2>2, FlightSame
<1> HIDE DEF r, f
<1>6. flight' \in [Files -> FlightRecords] BY <1>1, <1>2, <1>4, <1>5 DEF TypeOK
<1>7. \A g \in Files : Calm(g) /\ flight'[g].at = flight[g].at BY <1>1, <1>2, <1>4, <1>5 DEF TypeOK, Calm
<1> QED BY <1>1, <1>3, <1>6, <1>7, ReturnsIs, CallsChange DEF TypeOK

LEMMA AskStep == ASSUME FileInv, NEW f \in Files, Ask(f) PROVE FileInv'
<1> USE DEF CallUnchanged, storeVars, sweepVars, histVars
<1>1. TypeOK BY DEF FileInv
<1>2. "user" \in Callers BY DEF Callers
<1>3. caller' \in [Callers -> CallRecords] /\ \A d \in Callers : caller'[d].at # "rest" => caller'[d].f \in Files
  <2>1. /\ [NoCall EXCEPT !.at = "check", !.f = f] \in CallRecords
        /\ [NoCall EXCEPT !.at = "check", !.f = f].f = f
    BY NoCallIs, CallMoves
  <2> QED BY <1>1, <1>2, <2>1, CallIs DEF Ask
<1>4. fetcher' \in FetcherRecords BY <1>1 DEF Ask, TypeOK, FetcherRecords
<1> QED BY <1>1, <1>3, <1>4, SpendIs, CallsChange DEF Ask, TypeOK, Calm, Outside

LEMMA CancelStep == ASSUME FileInv, Cancel PROVE FileInv'
<1> USE DEF CallUnchanged, storeVars, sweepVars, histVars
<1>1. TypeOK BY DEF FileInv
<1>2. "user" \in Callers BY DEF Callers
<1>3. caller' \in [Callers -> CallRecords] /\ \A d \in Callers : caller'[d].at # "rest" => caller'[d].f \in Files
  BY <1>1, <1>2, CancelCallIs DEF Cancel
<1>4. fetcher' \in FetcherRecords BY <1>1 DEF Cancel, TypeOK, FetcherRecords
<1> QED BY <1>1, <1>3, <1>4, SpendIs, CallsChange DEF Cancel, TypeOK, Calm, Outside

LEMMA StopFetchStep == ASSUME FileInv, NEW f \in Files, StopFetch(f) PROVE FileInv'
<1> USE DEF storeVars, sweepVars, histVars
<1>1. TypeOK BY DEF FileInv
<1>2. "fetcher" \in Callers BY DEF Callers
<1>3. caller' \in [Callers -> CallRecords] /\ \A d \in Callers : caller'[d].at # "rest" => caller'[d].f \in Files
  <2>1. CASE CancelCall("fetcher") BY <1>1, <1>2, <2>1, CancelCallIs
  <2>2. CASE UNCHANGED caller BY <1>1, <2>2 DEF TypeOK
  <2> QED BY <2>1, <2>2 DEF StopFetch
<1>4. fetcher' \in FetcherRecords /\ unpinning' \subseteq Files BY <1>1 DEF StopFetch, TypeOK, FetcherRecords
<1> QED BY <1>1, <1>3, <1>4, CallsChange DEF StopFetch, TypeOK, Calm

LEMMA FetcherStep == ASSUME FileInv, Fetcher PROVE FileInv'
<1> USE DEF CallUnchanged, storeVars, sweepVars, histVars
<1>1. TypeOK BY DEF FileInv
<1>2. fetcher \in FetcherRecords BY <1>1 DEF TypeOK, FetcherRecords
<1>3. /\ UNCHANGED <<listed, rows, journal, blob>> /\ UNCHANGED <<up, session, unpinning, crossed, misled, stray, budget>>
      /\ UNCHANGED <<lock, sweep, sweeper, flight>>
  BY DEF Fetcher, Wake, Retry, SeeNews, Round, Fetch
<1>4. fetcher' \in FetcherRecords
  <2>1. Wanted \in SUBSET Files BY DEF Wanted
  <2>2. ASSUME NEW woken \in FetcherRecords, Round(woken) PROVE fetcher' \in FetcherRecords
    <3>1. \A W \in SUBSET Files : [woken EXCEPT !.todo = W, !.failed = FALSE] \in FetcherRecords
      BY DEF FetcherRecords
    <3>2. (IF session THEN Wanted ELSE {}) \in SUBSET Files BY <2>1
    <3> QED BY <2>2, <3>1, <3>2 DEF Round
  <2>3. [fetcher EXCEPT !.wake = FALSE] \in FetcherRecords /\ [fetcher EXCEPT !.news = FALSE] \in FetcherRecords
    BY <1>2 DEF FetcherRecords
  <2>4. \A W \in SUBSET Files : [fetcher EXCEPT !.todo = W] \in FetcherRecords BY <1>2 DEF FetcherRecords
  <2>5. CASE Wake \/ Retry \/ SeeNews BY <1>2, <2>2, <2>3, <2>5 DEF Wake, Retry, SeeNews
  <2>6. ASSUME NEW f \in Files, Fetch(f) PROVE fetcher' \in FetcherRecords
    <3>1. fetcher.todo \ {f} \in SUBSET Files BY <1>2 DEF FetcherRecords
    <3>2. fetcher' = [fetcher EXCEPT !.todo = fetcher.todo \ {f}] \/ fetcher' = [fetcher EXCEPT !.todo = {}]
      BY <2>6 DEF Fetch
    <3> QED BY <2>4, <3>1, <3>2
  <2> QED BY <2>5, <2>6 DEF Fetcher
<1>5. caller' \in [Callers -> CallRecords] /\ \A d \in Callers : caller'[d].at # "rest" => caller'[d].f \in Files
  <2>1. CASE UNCHANGED caller BY <1>1, <2>1 DEF TypeOK
  <2>2. ASSUME NEW f \in Files, Call("fetcher", [NoCall EXCEPT !.at = "check", !.f = f])
        PROVE  caller' \in [Callers -> CallRecords] /\ \A d \in Callers : caller'[d].at # "rest" => caller'[d].f \in Files
    <3>1. "fetcher" \in Callers BY DEF Callers
    <3>2. /\ [NoCall EXCEPT !.at = "check", !.f = f] \in CallRecords
          /\ [NoCall EXCEPT !.at = "check", !.f = f].f = f
      BY NoCallIs, CallMoves
    <3> QED BY <1>1, <2>2, <3>1, <3>2, CallIs
  <2> QED BY <2>1, <2>2 DEF Fetcher, Wake, Retry, SeeNews, Round, Fetch
<1> QED BY <1>1, <1>3, <1>4, <1>5, CallsChange DEF TypeOK, Calm

LEMMA PinStep == ASSUME FileInv, NEW f \in Files, PinFile(f) \/ UnpinFile(f) PROVE FileInv'
<1> USE DEF sweepVars, histVars
<1>1. TypeOK /\ LockHeld /\ \A g \in Files : Holds(g) BY FileInvIs
<1>2. /\ UNCHANGED <<listed, journal, blob>> /\ UNCHANGED <<up, session, flight, caller, misled>>
      /\ UNCHANGED <<lock, sweep, sweeper>> /\ budget' \in [Outside -> Nat] /\ unpinning' \subseteq Files
      /\ fetcher' \in FetcherRecords
  BY <1>1, SpendIs DEF PinFile, UnpinFile, TypeOK, FetcherRecords, Outside
<1>3. LockHeld' BY <1>1, <1>2, LockCalm
<1>4. CASE \E p \in BOOLEAN : rows' = [rows EXCEPT ![f].pinned = p] /\ UNCHANGED <<crossed, stray>>
  <2>1. PICK p \in BOOLEAN : rows' = [rows EXCEPT ![f].pinned = p] /\ UNCHANGED <<crossed, stray>> BY <1>4
  <2> DEFINE r == [rows[f] EXCEPT !.pinned = p]
  <2>2. rows' = [rows EXCEPT ![f] = r] BY <2>1
  <2>3. r \in RowRecords /\ r.st = rows[f].st /\ r.key = rows[f].key /\ r.done = rows[f].done
    <3>1. rows[f] \in RowRecords BY <1>1, RowIs
    <3> QED BY <3>1 DEF RowRecords
  <2> HIDE DEF r
  <2>4. rows' \in [Files -> RowRecords] /\ rows'[f] = r /\ \A g \in Files : g # f => rows'[g] = rows[g]
    BY <1>1, <2>2, <2>3 DEF TypeOK
  <2>5. TypeOK' BY <1>1, <1>2, <2>1, <2>4 DEF TypeOK, FetcherRecords
  <2>6. Holds(f)'
    <3>1. SinkHolds(f)' BY <1>1, <1>2, <2>3, <2>4 DEF Holds, SinkHolds
    <3>2. Counted(f)' <=> Counted(f) BY <1>2, <2>3, <2>4 DEF Counted
    <3>3. SinkAgrees(f) => SinkAgrees(f)' BY <1>2, <2>3, <2>4 DEF SinkAgrees, At
    <3> QED BY <1>1, <1>2, <2>1, <2>3, <2>4, <3>1, <3>2, <3>3 DEF Holds, At
  <2> QED BY <1>2, <1>3, <2>1, <2>4, <2>5, <2>6, OneFile
<1>5. CASE /\ f \in listed /\ rows[f].st = "none" /\ rows' = [rows EXCEPT ![f] = NewRow(f, TRUE)]
           /\ crossed' = IF flight[f].key # 0 THEN crossed \cup {f} ELSE crossed
           /\ stray' = stray \ {f}
  <2> DEFINE r == NewRow(f, TRUE)
  <2>1. r \in RowRecords /\ r.st = "partial" /\ r.done = 0 /\ r.key # 0 BY <1>1, NewRowIs
  <2>2. rows' = [rows EXCEPT ![f] = r] BY <1>5
  <2> HIDE DEF r
  <2>3. rows' \in [Files -> RowRecords] /\ rows'[f] = r /\ \A g \in Files : g # f => rows'[g] = rows[g]
    BY <1>1, <2>1, <2>2 DEF TypeOK
  <2>4. /\ crossed' \subseteq Files /\ \A g \in Files : g # f => (g \in crossed' <=> g \in crossed)
        /\ f \notin crossed' => flight[f].key = 0
        /\ stray' \subseteq Files /\ \A g \in Files : g # f => (g \in stray => g \in stray')
    BY <1>1, <1>5 DEF TypeOK
  <2>5. TypeOK' BY <1>1, <1>2, <2>3, <2>4 DEF TypeOK, FetcherRecords
  <2>6. Holds(f)'
    <3>1. SinkHolds(f)' BY <1>1, <1>2, <2>1, <2>3 DEF Holds, SinkHolds
    <3>2. Counted(f)' BY <2>1, <2>3 DEF Counted
    <3> QED BY <1>1, <1>2, <1>5, <2>1, <2>3, <2>4, <3>1, <3>2 DEF Holds, At
  <2> QED BY <1>2, <1>3, <2>3, <2>4, <2>5, <2>6, OneFile
<1> QED BY <1>4, <1>5 DEF PinFile, UnpinFile

LEMMA ListStep == ASSUME FileInv, NEW f \in Files, List(f) PROVE FileInv'
<1> USE DEF sweepVars, callVars, histVars
<1>1. TypeOK BY DEF FileInv
<1>2. /\ UNCHANGED <<rows, journal, blob>> /\ UNCHANGED <<up, session, flight, crossed, misled, stray>>
      /\ UNCHANGED <<lock, sweep, sweeper>> /\ UNCHANGED <<caller, fetcher, unpinning>>
      /\ budget' \in [Outside -> Nat] /\ listed' = listed \cup {f}
  BY <1>1, SpendIs DEF List, Outside
<1>3. TypeOK' BY <1>1, <1>2 DEF TypeOK
<1> QED BY <1>2, <1>3, QuietStep DEF Calm

-----------------------------------------------------------------------------
(* The session and the process.                                            *)

LEMMA SessionStep == ASSUME FileInv, Session PROVE FileInv'
<1> USE DEF storeVars, sweepVars, histVars
<1>1. TypeOK BY DEF FileInv
<1>2. ASSUME NEW g \in Files
      PROVE /\ flight'[g] \in FlightRecords /\ flight'[g].at = flight[g].at /\ flight'[g].key = flight[g].key
            /\ flight'[g].sealed = flight[g].sealed /\ flight'[g].linked = flight[g].linked
  <2>1. flight[g] \in FlightRecords BY <1>1, FlightIs
  <2>2. flight'[g] = flight[g] \/ flight'[g] = [flight[g] EXCEPT !.pause = TRUE] BY DEF Session
  <2> QED BY <2>1, <2>2, FlightSame
<1>3. flight' \in [Files -> FlightRecords]
  <2>1. flight' = [f \in Files |-> IF session /\ flight[f].at \notin {"none", "start"}
                                     THEN [flight[f] EXCEPT !.pause = TRUE] ELSE flight[f]]
    BY DEF Session
  <2> QED BY <1>2, <2>1
<1>4. TypeOK' BY <1>1, <1>3, SpendIs DEF Session, TypeOK, Outside
<1>5. \A g \in Files : Calm(g) BY <1>2 DEF Calm
<1> QED BY <1>2, <1>4, <1>5, QuietStep DEF Session

LEMMA CloseStep == ASSUME FileInv, Close PROVE FileInv'
<1> USE DEF storeVars, callVars, histVars
<1>1. TypeOK /\ LockHeld /\ \A g \in Files : Holds(g) BY FileInvIs
<1>2. ASSUME NEW g \in Files
      PROVE /\ flight'[g] \in FlightRecords /\ flight'[g].at = flight[g].at /\ flight'[g].key = flight[g].key
            /\ flight'[g].sealed = flight[g].sealed /\ flight'[g].linked = flight[g].linked
  <2>1. flight[g] \in FlightRecords BY <1>1, FlightIs
  <2>2. flight'[g] = flight[g] \/ flight'[g] = [flight[g] EXCEPT !.cancel = TRUE] BY DEF Close
  <2> QED BY <2>1, <2>2, FlightSame
<1>3. flight' \in [Files -> FlightRecords]
  <2>1. flight' = [f \in Files |-> IF f \in Flying THEN [flight[f] EXCEPT !.cancel = TRUE] ELSE flight[f]]
    BY DEF Close
  <2> QED BY <1>2, <2>1
<1>4. /\ UNCHANGED <<listed, rows, journal, blob>> /\ UNCHANGED <<session, caller, fetcher, unpinning, crossed, misled, stray>>
      /\ budget' \in [Outside -> Nat] /\ up' = "closing" /\ up = "up"
      /\ sweeper' = [at |-> "rest", permit |-> FALSE, known |-> {}]
  BY <1>1, SpendIs DEF Close, TypeOK, Outside
<1>5. /\ NoSweep.at = "rest" /\ NoSweep.paths = {}
      /\ NoSweep \in [at : {"rest", "unlink", "forget"}, paths : SUBSET Files]
  BY DEF NoSweep
<1>6. \/ lock = Sweeper /\ lock' = Nobody /\ sweep' = NoSweep
      \/ lock # Sweeper /\ lock' = lock /\ sweep' = sweep
  BY DEF Close
<1>7. TypeOK' BY <1>1, <1>3, <1>4, <1>5, <1>6 DEF TypeOK
<1>8. LockHeld'
  <2>1. CASE lock = Sweeper
    <3>1. \A g \in Files : flight[g].at \notin {"make", "blob"} BY <1>1, <2>1, NamesAssumption DEF LockHeld
    <3>2. lock' = Nobody /\ sweep' = NoSweep BY <1>6, <2>1
    <3> QED BY <1>2, <1>4, <1>5, <3>1, <3>2 DEF LockHeld
  <2>2. CASE lock # Sweeper
    <3>1. lock' = lock /\ sweep' = sweep BY <1>6, <2>2
    <3>2. sweep.at # "rest" => lock \in Files BY <1>1, <2>2 DEF LockHeld, TypeOK
    <3>3. lock \in Files /\ WantsSweep(lock) => WantsSweep(lock)' BY <1>2, <3>1 DEF WantsSweep, At
    <3> QED BY <1>1, <1>2, <1>4, <3>1, <3>2, <3>3 DEF LockHeld
  <2> QED BY <2>1, <2>2
<1>9. ASSUME NEW g \in Files PROVE Holds(g)'
  <2>1. Calm(g) BY <1>2 DEF Calm
  <2> QED BY <1>1, <1>4, <1>5, <1>6, <2>1, CalmHolds
<1> QED BY <1>7, <1>8, <1>9, FileInvNext

LEMMA ClosedStep == ASSUME FileInv, Closed PROVE FileInv'
<1> USE DEF storeVars, histVars
<1>1. TypeOK /\ LockHeld /\ \A g \in Files : Holds(g) BY FileInvIs
<1>2. /\ UNCHANGED <<listed, rows, journal, blob>> /\ UNCHANGED <<budget, session, flight, lock, sweep>>
      /\ UNCHANGED <<caller, crossed, misled, stray>> /\ up' = "down" /\ up = "closing" /\ Flying = {}
      /\ sweeper' = [sweeper EXCEPT !.permit = FALSE] /\ unpinning' = {} /\ fetcher' = Gone0
  BY DEF Closed
<1>3. TypeOK' BY <1>1, <1>2 DEF TypeOK, Gone0
<1>4. LockHeld'
  <2>1. sweeper'.at = sweeper.at BY <1>1, <1>2 DEF TypeOK
  <2>2. Flying' = Flying BY <1>2 DEF Flying
  <2>3. WantsSweep(lock) => WantsSweep(lock)' BY <1>2, <2>1 DEF WantsSweep, At
  <2> QED BY <1>1, <1>2, <2>1, <2>2, <2>3 DEF LockHeld
<1>5. \A g \in Files : Holds(g)' BY <1>1, <1>2, SameHolds
<1> QED BY <1>3, <1>4, <1>5, FileInvNext

\* What a crash leaves of a blob: no less than was synced.
LEMMA TornIs ==
  ASSUME TypeOK, NEW f \in Files, SinkHolds(f), NEW b \in Torn(blob[f])
  PROVE  /\ b \in BlobRecords /\ b.there = blob[f].there /\ b.synced = blob[f].synced
         /\ b.synced <= Len(b.chunks) /\ Len(b.chunks) <= Chunks /\ (~b.there => Len(b.chunks) = 0)
         /\ \A i \in 1..b.synced : b.chunks[i] = blob[f].chunks[i]
<1>1. /\ blob[f] \in BlobRecords /\ blob[f].chunks \in Seq(Nat) /\ blob[f].synced \in Nat
      /\ Len(blob[f].chunks) \in Nat /\ blob[f].synced <= Len(blob[f].chunks) /\ Len(blob[f].chunks) <= Chunks
  BY BlobIs
<1>2. PICK n \in blob[f].synced..Len(blob[f].chunks) : b = [blob[f] EXCEPT !.chunks = SubSeq(blob[f].chunks, 1, n)]
  BY DEF Torn
<1> DEFINE c == SubSeq(blob[f].chunks, 1, n)
<1>3. n \in Nat /\ blob[f].synced <= n /\ n <= Len(blob[f].chunks) BY <1>1, <1>2
<1>4. c \in Seq(Nat) /\ Len(c) = n /\ \A i \in 1..n : c[i] = blob[f].chunks[i]
  BY <1>1, <1>3
<1> HIDE DEF c
<1>5. b = [blob[f] EXCEPT !.chunks = c] BY <1>2 DEF c
<1>6. b \in BlobRecords /\ b.there = blob[f].there /\ b.synced = blob[f].synced /\ b.chunks = c
  BY <1>1, <1>4, <1>5 DEF BlobRecords
<1>7. ~blob[f].there => Len(blob[f].chunks) = 0 BY DEF SinkHolds
<1> QED BY <1>1, <1>3, <1>4, <1>6, <1>7, NumbersAre

LEMMA CrashStep == ASSUME FileInv, Crash PROVE FileInv'
<1> USE DEF At, histVars
<1>1. TypeOK /\ LockHeld /\ \A g \in Files : Holds(g) BY FileInvIs
<1>2. \A g \in Files : blob'[g] \in Torn(blob[g]) BY DEF Crash
<1>3. ASSUME NEW g \in Files
      PROVE  /\ blob'[g] \in BlobRecords /\ blob'[g].there = blob[g].there /\ blob'[g].synced = blob[g].synced
             /\ blob'[g].synced <= Len(blob'[g].chunks) /\ Len(blob'[g].chunks) <= Chunks
             /\ (~blob'[g].there => Len(blob'[g].chunks) = 0)
             /\ \A i \in 1..blob'[g].synced : blob'[g].chunks[i] = blob[g].chunks[i]
  <2>1. blob'[g] \in Torn(blob[g]) BY <1>2
  <2> QED BY <1>1, <2>1, TornIs DEF Holds
<1>4. blob' \in [Files -> BlobRecords]
  <2>1. \E S : blob' \in [Files -> S] BY DEF Crash
  <2> QED BY <1>3, <2>1
<1>5. /\ NoFlight \in FlightRecords /\ NoFlight.at = "none" /\ NoFlight.key = 0 /\ NoFlight.sealed = 0 /\ ~NoFlight.linked
  BY NoFlightIs DEF NoFlight
<1>6. /\ flight' = [f \in Files |-> NoFlight] /\ lock' = Nobody /\ sweep' = NoSweep /\ up' = "down"
      /\ sweeper' = [at |-> "rest", permit |-> FALSE, known |-> {}] /\ budget' \in [Outside -> Nat]
      /\ caller' = [c \in Callers |-> NoCall] /\ fetcher' = Gone0 /\ unpinning' = {}
      /\ UNCHANGED <<listed, rows, journal, session, crossed, misled, stray>>
  BY <1>1, SpendIs DEF Crash, Outside
<1>7. NoSweep.at = "rest" /\ NoSweep.paths = {} BY DEF NoSweep
<1>8. TypeOK' BY <1>1, <1>3, <1>4, <1>5, <1>6, NoCallIs DEF TypeOK, NoSweep, Gone0
<1>9. LockHeld'
  <2>1. Flying' = {} BY <1>5, <1>6 DEF Flying
  <2> QED BY <1>5, <1>6, <1>7, <2>1 DEF LockHeld
<1>10. ASSUME NEW g \in Files PROVE Holds(g)'
  <2>1. SinkHolds(g)' BY <1>1, <1>3, <1>5, <1>6 DEF Holds, SinkHolds
  <2>2. Counted(g) => Counted(g)'
    <3>1. rows[g].done \in Nat /\ blob[g].synced \in Nat BY <1>1, RowIs, BlobIs
    <3> QED BY <1>3, <1>6, <3>1 DEF Counted
  <2> QED BY <1>1, <1>3, <1>5, <1>6, <1>7, <2>1, <2>2 DEF Holds
<1> QED BY <1>8, <1>9, <1>10, FileInvNext

LEMMA OpenStep == ASSUME FileInv, Open PROVE FileInv'
<1> USE DEF At, callVars, histVars, sweepVars
<1> DEFINE lost == {f \in Files : Short(f) /\ ~rows[f].pinned}
<1>1. TypeOK /\ LockHeld /\ \A g \in Files : Holds(g) BY FileInvIs
<1>2. /\ UNCHANGED <<listed, flight, session, caller, fetcher, unpinning, crossed, misled>> /\ stray' = {}
      /\ UNCHANGED <<budget, lock, sweep, sweeper>> /\ up = "down" /\ up' = "up" /\ journal' = {}
  BY DEF Open
<1>3. /\ rows' = [f \in Files |-> IF f \in lost THEN NoRow ELSE IF Short(f) THEN NewRow(f, TRUE) ELSE rows[f]]
      /\ blob' = [f \in Files |-> IF rows[f].st = "none" \/ f \in lost THEN NoBlob ELSE blob[f]]
  BY DEF Open
<1>4. (\A g \in Files : flight[g].at = "none") /\ sweeper.at = "rest" BY <1>1, <1>2 DEF LockHeld, Flying
<1>5. sweep.at = "rest" /\ sweep.paths = {}
  <2>1. ~WantsSweep(lock) BY <1>4 DEF WantsSweep
  <2> QED BY <1>1, <2>1 DEF LockHeld
<1>6. lock = Nobody BY <1>1, <1>4, <1>5 DEF LockHeld
<1>7. NoRow \in RowRecords /\ NoRow.st = "none" BY NumbersAre DEF NoRow, RowRecords
<1>8. NoBlob \in BlobRecords /\ NoBlob.synced = 0 /\ Len(NoBlob.chunks) = 0 /\ ~NoBlob.there
  <2>1. <<>> \in Seq(Nat) /\ 0 \in Nat /\ Len(<<>>) = 0 OBVIOUS
  <2> QED BY <2>1 DEF NoBlob, BlobRecords
<1>9. ASSUME NEW g \in Files
      PROVE  \/ rows'[g] = rows[g] /\ blob'[g] = blob[g] /\ rows[g].st # "none"
             \/ rows'[g].st = "none" /\ rows'[g] \in RowRecords /\ blob'[g] = NoBlob
             \/ /\ rows[g].st # "none" /\ rows'[g] \in RowRecords /\ rows'[g].st = "partial" /\ rows'[g].key # 0
                /\ rows'[g].done = 0 /\ blob'[g] = blob[g]
  <2>1. CASE g \in lost BY <1>3, <1>7, <2>1
  <2>2. CASE g \notin lost /\ Short(g)
    <3>1. rows'[g] = NewRow(g, TRUE) BY <1>3, <2>2
    <3>2. rows[g].st # "none" BY <2>2 DEF Short
    <3>3. blob'[g] = blob[g] BY <1>3, <2>2, <3>2
    <3> QED BY <1>1, <3>1, <3>2, <3>3, NewRowIs
  <2>3. CASE ~Short(g)
    <3>1. rows'[g] = rows[g] BY <1>3, <2>3
    <3>2. CASE rows[g].st = "none" BY <1>1, <1>3, <3>1, <3>2, RowIs
    <3>3. CASE rows[g].st # "none"
      <4>1. blob'[g] = blob[g] BY <1>3, <2>3, <3>3
      <4> QED BY <3>1, <3>3, <4>1
    <3> QED BY <3>2, <3>3
  <2> QED BY <2>1, <2>2, <2>3
<1>10. TypeOK'
  <2>1. rows' \in [Files -> RowRecords]
    <3>1. \A g \in Files : rows'[g] \in RowRecords BY <1>1, <1>9, RowIs
    <3>2. \E S : rows' \in [Files -> S]
      <4>1. rows' \in [Files -> {rows'[g] : g \in Files}] BY <1>3
      <4> QED BY <4>1
    <3> QED BY <3>1, <3>2
  <2>2. ASSUME NEW g \in Files
        PROVE blob'[g] \in BlobRecords /\ blob'[g].synced <= Len(blob'[g].chunks) /\ Len(blob'[g].chunks) <= Chunks
    <3>1. CASE blob'[g] = NoBlob BY <1>8, <3>1, NumbersAre
    <3>2. CASE blob'[g] = blob[g] BY <1>1, <3>2, BlobIs
    <3> QED BY <1>9, <3>1, <3>2
  <2>3. blob' \in [Files -> BlobRecords]
    <3>1. blob' \in [Files -> {blob'[g] : g \in Files}] BY <1>3
    <3> QED BY <2>2, <3>1
  <2> QED BY <1>1, <1>2, <2>1, <2>2, <2>3 DEF TypeOK
<1>11. LockHeld'
  <2>1. Flying' = {} BY <1>2, <1>4 DEF Flying
  <2> QED BY <1>2, <1>4, <1>5, <1>6, <2>1 DEF LockHeld
<1>12. ASSUME NEW g \in Files PROVE Holds(g)'
  <2>1. flight'[g].at = "none" /\ flight'[g].key = 0 /\ flight'[g].sealed = 0 /\ ~flight'[g].linked
    BY <1>1, <1>2, <1>4 DEF Holds, SinkHolds
  <2>2. SinkHolds(g)' BY <1>1, <1>8, <1>9, <2>1 DEF Holds, SinkHolds
  <2>3. rows'[g].st # "none" /\ g \notin crossed => Counted(g)'
    <3>1. CASE rows'[g] = rows[g] /\ blob'[g] = blob[g] /\ rows[g].st # "none"
      BY <1>1, <3>1 DEF Holds, Counted
    <3>2. CASE rows'[g].st # "none" /\ rows'[g].done = 0 BY <3>2 DEF Counted
    <3> QED BY <1>9, <3>1, <3>2
  <2> QED BY <1>1, <1>2, <1>5, <1>8, <1>9, <2>1, <2>2, <2>3 DEF Holds
<1> QED BY <1>10, <1>11, <1>12, FileInvNext

LEMMA SameStep == ASSUME FileInv, UNCHANGED vars PROVE FileInv'
<1> USE DEF vars, storeVars, sweepVars, callVars, histVars
<1>1. TypeOK BY DEF FileInv
<1>2. TypeOK' BY <1>1 DEF TypeOK
<1> QED BY <1>2, QuietStep DEF Calm

LEMMA InitHolds == Init => FileInv
<1> SUFFICES ASSUME Init PROVE FileInv OBVIOUS
<1> USE DEF Init
<1>1. NoRow \in RowRecords /\ NoRow.st = "none" BY NumbersAre DEF NoRow, RowRecords
<1>2. NoBlob \in BlobRecords /\ NoBlob.synced = 0 /\ Len(NoBlob.chunks) = 0 /\ ~NoBlob.there
  <2>1. <<>> \in Seq(Nat) /\ 0 \in Nat /\ Len(<<>>) = 0 OBVIOUS
  <2> QED BY <2>1 DEF NoBlob, BlobRecords
<1>3. /\ NoFlight \in FlightRecords /\ NoFlight.at = "none" /\ NoFlight.key = 0 /\ NoFlight.sealed = 0 /\ ~NoFlight.linked
  BY NoFlightIs DEF NoFlight
<1>4. TypeOK
  <2>1. budget \in [Outside -> Nat] BY BudgetsAssumption
  <2>2. \A f \in Files : blob[f].synced <= Len(blob[f].chunks) /\ Len(blob[f].chunks) <= Chunks
    BY <1>2, NumbersAre
  <2>3. rows \in [Files -> RowRecords] /\ blob \in [Files -> BlobRecords] /\ flight \in [Files -> FlightRecords]
    BY <1>1, <1>2, <1>3
  <2>4. caller \in [Callers -> CallRecords] /\ \A c \in Callers : caller[c].at # "rest" => caller[c].f \in Files
    BY NoCallIs
  <2> QED BY <2>1, <2>2, <2>3, <2>4 DEF TypeOK, NoSweep
<1>5. LockHeld BY <1>3 DEF LockHeld, NoSweep
<1>6. ASSUME NEW f \in Files PROVE Holds(f)
  BY <1>1, <1>2, <1>3 DEF Holds, SinkHolds, NoSweep, At
<1> QED BY <1>4, <1>5, <1>6, FileInvIs

-----------------------------------------------------------------------------
(* The theorems.                                                           *)

\* FileInv is inductive.
LEMMA NextHolds == FileInv /\ [Next]_vars => FileInv'
<1> SUFFICES ASSUME FileInv, [Next]_vars PROVE FileInv' OBVIOUS
<1>1. ASSUME NEW f \in Files, Flight(f) PROVE FileInv'
  BY <1>1, StartStep, OpenRowStep, MakeRowStep, OpenBlobStep, StopStep, WriteStep, SaveStep, RekeyStep, CutStep,
     VerifyStep, MarkStep, AbortStep, DropGoneStep, KeepStep, EvictStep, EndStep DEF Flight
<1>2. ASSUME NEW by \in Files \cup {Sweeper}, SweepBy(by) PROVE FileInv'
  BY <1>2, SweepReadStep, UnlinkStep, ForgetStep DEF SweepBy
<1>3. ASSUME NEW c \in Callers, Calls(c) PROVE FileInv'
  BY <1>3, CheckStep, JoinStep, AnsweredStep, LeaveStep DEF Calls
<1>4. ASSUME Outer PROVE FileInv'
  <2>1. ASSUME NEW F \in SUBSET Files, Drop(F) PROVE FileInv' BY <2>1, DropStep
  <2>2. ASSUME NEW f \in Files,
               List(f) \/ Fail(f) \/ Gone(f) \/ Restart(f) \/ Ask(f) \/ PinFile(f) \/ UnpinFile(f)
        PROVE  FileInv'
    BY <2>2, ListStep, FailStep, AskStep, PinStep
  <2> QED BY <1>4, <2>1, <2>2, CancelStep, SessionStep, CloseStep, CrashStep DEF Outer
<1>5. ASSUME Tasks PROVE FileInv'
  BY <1>1, <1>2, <1>3, <1>5, CancelsStep, FetcherStep, ClosedStep, OpenStep, StopFetchStep DEF Tasks
<1> QED BY <1>4, <1>5, SameStep DEF Next

\* Whatever is asked, fails, is dropped or pinned, and wherever the process stops: a row belongs
\* to a message, what it counts of its blob is durable and under its key, and a blob without a row
\* is in the journal.
THEOREM RowsAreTrue == Spec => []FileInv
BY InitHolds, NextHolds, PTL DEF Spec

\* A complete file that is not crossed opens with no connection, crash or not.
THEOREM CompleteFilesOpen == Spec => []UncrossedOpen
<1>1. ASSUME FileInv, NEW f \in Files \ crossed, rows[f].st = "complete" PROVE Opens(f, rows[f].key)
  <2>1. TypeOK /\ SinkHolds(f) /\ Counted(f) BY <1>1, FileInvIs DEF Holds
  <2>2. /\ blob[f].chunks \in Seq(Nat) /\ Len(blob[f].chunks) \in Nat /\ Len(blob[f].chunks) <= Chunks
        /\ blob[f].synced \in Nat /\ blob[f].synced <= Len(blob[f].chunks)
    BY <2>1, BlobIs
  <2>3. rows[f].done = Chunks BY <1>1, <2>1 DEF SinkHolds
  <2>4. \A i \in 1..Chunks : i <= blob[f].synced /\ blob[f].chunks[i] = rows[f].key BY <2>1, <2>3 DEF Counted
  <2>5. Chunks <= blob[f].synced BY <2>4, NumbersAre
  <2>6. Len(blob[f].chunks) = Chunks BY <2>2, <2>5, NumbersAre
  <2>7. blob[f].there BY <2>1, <2>6, NumbersAre DEF SinkHolds
  <2>8. blob[f].chunks = [i \in 1..Chunks |-> rows[f].key] BY <2>2, <2>4, <2>6
  <2> QED BY <2>7, <2>8 DEF Opens
<1>2. FileInv => UncrossedOpen BY <1>1 DEF UncrossedOpen
<1> QED BY <1>2, RowsAreTrue, PTL

=============================================================================
