------------------------------ MODULE FileCache ------------------------------
(***************************************************************************)
(* The files a device keeps of the messages it has cached                  *)
(* (core/src/files.rs, file_rows.rs, the Downloader of transfer.rs):       *)
(* downloads shared by their callers, files kept offline by the pin        *)
(* fetcher, eviction, and what goes when its message does.                 *)
(*                                                                         *)
(* A step is one database call, one operation on a blob, or the code       *)
(* between two awaits.  A blob is the sequence of keys its chunks are      *)
(* sealed under; a file opens when all are its row's key.                  *)
(***************************************************************************)
EXTENDS Integers, Sequences, FiniteSetsExt

CONSTANTS
  Files,
  Chunks,    \* chunks of a file
  SyncEvery, \* SYNC_EVERY
  Cap,       \* FILE_CACHE_CAP, in files
  MaxTries,  \* how often cache_file joins or starts a download
  Budgets    \* bound: how often what comes from outside happens, see Spend

Outside == {"list", "drop", "pin", "unpin", "ask", "cancel", "fail", "gone", "restart", "session",
            "close", "crash"}

ASSUME NumbersAssumption == {Chunks, SyncEvery, MaxTries} \subseteq Nat \ {0} /\ Cap \in Nat
ASSUME BudgetsAssumption == Budgets \subseteq [Outside -> Nat]

\* Who has the lock when no download has it.
Sweeper == "sweeper"
Nobody  == "nobody"

ASSUME NamesAssumption == {Sweeper, Nobody} \cap Files = {}

Callers == {"fetcher", "user"}

VARIABLES
  budget,    \* what is left of it
  (* the store *)
  listed,    \* message_files
  rows,      \* files: state, key, done, pinned
  journal,   \* deletions
  blob,      \* of each file: there, its chunks, how many are synced
  (* the process *)
  up,        \* "up", "closing", "down"
  session,   \* the store's own session is there
  flight,    \* flights, with the EncryptingSink of each
  lock,      \* who has blob_lock: a flight, the sweeper, or nobody
  sweep,     \* the sweep_journal that has it
  sweeper,   \* permit of files_dropped, and cancel_unlisted
  caller,    \* calls of cache_file
  fetcher,   \* todo, failed, permit of fetch_wake, a session change not seen
  unpinning, \* unpin_file between its two halves
  (* history *)
  crossed,   \* pinned anew, under a new key, while a download of it ran under another key or on a blob
             \* that goes, until a download has row and blob agree again
  misled,    \* of which a call knew what was so before: not whole yet, or in no message
  stray      \* whose journal entry went for a row that was not made, until there is a row or a start

storeVars == <<listed, rows, journal, blob>>
sweepVars == <<lock, sweep, sweeper>>
callVars  == <<caller, fetcher, unpinning>>
histVars  == <<crossed, misled, stray>>
vars == <<budget, storeVars, up, session, flight, sweepVars, callVars, histVars>>

NoRow  == [st |-> "none", key |-> 0, done |-> 0, pinned |-> FALSE]
NoBlob == [there |-> FALSE, chunks |-> <<>>, synced |-> 0]
NoFlight == [at |-> "none", key |-> 0, sealed |-> 0, durable |-> 0, linked |-> FALSE,
             callers |-> {}, cancel |-> FALSE, pause |-> FALSE, keep |-> {}, res |-> "ok"]
NoCall == [at |-> "rest", f |-> Nobody, tries |-> 0, cancel |-> FALSE, ans |-> ""]
NoSweep == [at |-> "rest", paths |-> {}]

Flying == {f \in Files : flight[f].at # "none"}

Init ==
  /\ budget \in Budgets
  /\ listed = Files /\ rows = [f \in Files |-> NoRow] /\ journal = {}
  /\ blob = [f \in Files |-> NoBlob]
  /\ up = "up" /\ session = TRUE /\ flight = [f \in Files |-> NoFlight]
  /\ lock = Nobody /\ sweep = NoSweep /\ sweeper = [at |-> "rest", permit |-> FALSE, known |-> {}]
  /\ caller = [c \in Callers |-> NoCall]
  /\ fetcher = [todo |-> {}, failed |-> FALSE, wake |-> TRUE, news |-> FALSE]
  /\ unpinning = {} /\ crossed = {} /\ misled = {} /\ stray = {}

Spend(what) == budget[what] > 0 /\ budget' = [budget EXCEPT ![what] = @ - 1]

\* A key no row, download or chunk of the file has.
Fresh(f) ==
  LET used == {rows[f].key, flight[f].key} \cup {blob[f].chunks[i] : i \in DOMAIN blob[f].chunks}
  IN  CHOOSE k \in 1..Chunks + 3 : k \notin used

NewRow(f, pinned) == [st |-> "partial", key |-> Fresh(f), done |-> 0, pinned |-> pinned]

\* drop_files: the rows go, and their blobs are journalled, in one transaction.
DropFiles(F) ==
  LET cached == {f \in F : rows[f].st # "none"}
  IN  rows' = [f \in Files |-> IF f \in cached THEN NoRow ELSE rows[f]] /\ journal' = journal \cup cached

-----------------------------------------------------------------------------
(* What the cache does with its messages. *)

\* Messages that list these files are deleted, or their channel or the whole cache goes.
Drop(F) ==
  /\ up # "down" /\ Spend("drop") /\ F \subseteq listed /\ F # {}
  /\ listed' = listed \ F /\ DropFiles(F)
  /\ sweeper' = [sweeper EXCEPT !.permit = TRUE]
  /\ UNCHANGED <<blob, up, session, flight, lock, sweep, callVars, histVars>>

\* A message comes (again): the caller is back in its channel, or history is loaded.
List(f) ==
  /\ up # "down" /\ Spend("list") /\ f \notin listed /\ listed' = listed \cup {f}
  /\ UNCHANGED <<rows, journal, blob, up, session, flight, sweepVars, callVars, histVars>>

-----------------------------------------------------------------------------
(* A download: Files::run, with its sink. *)

Fly(f, r) == flight' = [flight EXCEPT ![f] = r]
At(f, a) == flight[f].at = a
Goto(f, a) == Fly(f, [flight[f] EXCEPT !.at = a])
\* It ends in an error; what the sink has is kept for later.
Abort(f, res) == Fly(f, [flight[f] EXCEPT !.at = "abort", !.res = res])

Stopped(f) == flight[f].cancel \/ flight[f].pause
Others == <<listed, up, session, callVars>>
NoSweeping == UNCHANGED sweepVars

Start(f) ==
  /\ At(f, "start") /\ ~session
  /\ Fly(f, [flight[f] EXCEPT !.at = "end", !.res = "failed"])
  /\ UNCHANGED <<budget, rows, journal, blob, histVars, Others>> /\ NoSweeping

\* EncryptingSink::open takes the lock and reads the row,
OpenRow(f) ==
  /\ At(f, "start") /\ session /\ lock = Nobody /\ lock' = f
  /\ IF rows[f].st = "partial"
       THEN Fly(f, [flight[f] EXCEPT !.at = "blob", !.key = rows[f].key,
                                     !.sealed = rows[f].done, !.durable = rows[f].done])
       ELSE Goto(f, "make")
  /\ UNCHANGED <<budget, rows, journal, blob, sweep, sweeper, histVars, Others>>

\* makes one where there is none to resume, and has the journal forget the path, row or no row,
MakeRow(f) ==
  /\ At(f, "make")
  /\ journal' = journal \ {f}
  /\ IF f \in listed
       THEN LET r == NewRow(f, rows[f].pinned)
            IN  /\ rows' = [rows EXCEPT ![f] = r] /\ crossed' = crossed \ {f}
                /\ misled' = IF rows[f].st = "complete" THEN misled \cup {f} ELSE misled
                /\ stray' = stray \ {f}
                /\ Fly(f, [flight[f] EXCEPT !.at = "blob", !.key = r.key]) /\ UNCHANGED lock
       ELSE /\ Fly(f, [flight[f] EXCEPT !.at = "end", !.res = "gone"]) /\ lock' = Nobody
            /\ stray' = stray \cup (journal \cap {f})
            /\ UNCHANGED <<rows, crossed, misled>>
  /\ UNCHANGED <<budget, blob, sweep, sweeper, Others>>

\* A file cut or stretched to a length.
SetLen(chunks, n) == [i \in 1..n |-> IF i <= Len(chunks) THEN chunks[i] ELSE 0]

\* and opens the blob.
OpenBlob(f) ==
  /\ At(f, "blob") /\ lock' = Nobody
  /\ blob' = [blob EXCEPT ![f] = [there |-> TRUE, chunks |-> SetLen(@.chunks, flight[f].sealed),
                                  synced |-> Min({@.synced, flight[f].sealed})]]
  /\ Fly(f, [flight[f] EXCEPT !.at = "get", !.linked = TRUE])
  /\ UNCHANGED <<budget, rows, journal, sweep, sweeper, histVars, Others>>

Stop(f) ==
  /\ At(f, "get") /\ Stopped(f)
  /\ Abort(f, IF flight[f].cancel THEN "cancelled" ELSE "failed")
  /\ UNCHANGED <<budget, rows, journal, blob, histVars, Others>> /\ NoSweeping

\* write_chunk: a chunk is sealed and written.
Write(f) ==
  /\ At(f, "get") /\ flight[f].sealed < Chunks
  /\ LET n == flight[f].sealed + 1
     IN  /\ Fly(f, [flight[f] EXCEPT !.sealed = n,
                                     !.at = IF n - flight[f].durable >= SyncEvery THEN "save" ELSE "get"])
         /\ blob' = IF flight[f].linked
                      THEN [blob EXCEPT ![f].chunks = SetLen(@, n - 1) \o <<flight[f].key>>]
                      ELSE blob
  /\ UNCHANGED <<budget, rows, journal, histVars, Others>> /\ NoSweeping

\* Mutant of Record: counted without a sync.
RecordUnsynced(f) ==
  /\ rows' = IF rows[f].st = "partial" THEN [rows EXCEPT ![f].done = flight[f].sealed] ELSE rows
  /\ UNCHANGED blob

\* record: the chunks are synced, and then counted.
Record(f) ==
  /\ blob' = IF flight[f].linked THEN [blob EXCEPT ![f].synced = flight[f].sealed] ELSE blob
  /\ rows' = IF rows[f].st = "partial" THEN [rows EXCEPT ![f].done = flight[f].sealed] ELSE rows

Save(f) ==
  /\ At(f, "save") /\ Record(f)
  /\ Fly(f, [flight[f] EXCEPT !.at = "get", !.durable = flight[f].sealed])
  /\ UNCHANGED <<budget, journal, histVars, Others>> /\ NoSweeping

\* The request or its stream fails for good.
Fail(f) ==
  /\ At(f, "get") /\ Spend("fail") /\ Abort(f, "failed")
  /\ UNCHANGED <<rows, journal, blob, histVars, Others>> /\ NoSweeping

\* 404: somebody deleted it at the server.
Gone(f) ==
  /\ At(f, "get") /\ Spend("gone") /\ Abort(f, "gone")
  /\ UNCHANGED <<rows, journal, blob, histVars, Others>> /\ NoSweeping

\* An answer that can't continue what is held: a coded body, another range or validator.
Restart(f) ==
  /\ At(f, "get") /\ Spend("restart") /\ Goto(f, "rekey")
  /\ UNCHANGED <<rows, journal, blob, histVars, Others>> /\ NoSweeping

\* restart: the row's key first,
Rekey(f) ==
  /\ At(f, "rekey")
  /\ IF rows[f].st = "none"
       THEN Abort(f, "failed") /\ UNCHANGED <<rows, crossed>>
       ELSE LET k == Fresh(f)
            IN  /\ rows' = [rows EXCEPT ![f].key = k, ![f].done = 0, ![f].st = "partial"]
                /\ Fly(f, [flight[f] EXCEPT !.at = "cut", !.key = k])
                /\ crossed' = IF flight[f].linked /\ f \notin sweep.paths THEN crossed \ {f} ELSE crossed
  /\ UNCHANGED <<budget, journal, blob, misled, stray, Others>> /\ NoSweeping

\* then the blob.
Cut(f) ==
  /\ At(f, "cut")
  /\ blob' = IF flight[f].linked THEN [blob EXCEPT ![f].chunks = <<>>, ![f].synced = 0] ELSE blob
  /\ Fly(f, [flight[f] EXCEPT !.at = IF flight[f].res = "ok" THEN "get" ELSE "abort", !.sealed = 0, !.durable = 0])
  /\ UNCHANGED <<budget, rows, journal, histVars, Others>> /\ NoSweeping

\* The blob holds a file under this key.
Opens(f, key) == blob[f].there /\ blob[f].chunks = [i \in 1..Chunks |-> key]

\* finish: all is synced, and read back; bytes that aren't the file's start it over.
Verify(f) ==
  /\ At(f, "get") /\ flight[f].sealed = Chunks
  /\ blob' = IF flight[f].linked THEN [blob EXCEPT ![f].synced = Chunks] ELSE blob
  /\ \/ Opens(f, flight[f].key) /\ Goto(f, "mark") /\ UNCHANGED budget
     \/ ~Opens(f, flight[f].key) /\ Fly(f, [flight[f] EXCEPT !.at = "rekey", !.res = "failed"])
        /\ UNCHANGED budget
     \/ Spend("fail") /\ Fly(f, [flight[f] EXCEPT !.at = "rekey", !.res = "failed"])
  /\ UNCHANGED <<rows, journal, histVars, Others>> /\ NoSweeping

Mark(f) ==
  /\ At(f, "mark")
  /\ IF rows[f].st = "none"
       THEN Abort(f, "failed") /\ UNCHANGED rows
       ELSE /\ rows' = [rows EXCEPT ![f].st = "complete", ![f].done = Chunks]
            /\ Goto(f, "keep")
  /\ UNCHANGED <<budget, journal, blob, histVars, Others>> /\ NoSweeping

AbortSink(f) ==
  /\ At(f, "abort") /\ Record(f)
  /\ Goto(f, IF flight[f].res = "gone" THEN "drop" ELSE "end")
  /\ UNCHANGED <<budget, journal, histVars, Others>> /\ NoSweeping

\* drop_file: the server has it no more.
DropGone(f) ==
  /\ At(f, "drop") /\ listed' = listed \ {f} /\ DropFiles({f}) /\ Goto(f, "sweep")
  /\ UNCHANGED <<budget, blob, up, session, callVars, histVars>> /\ NoSweeping

\* evict: what is downloading is kept,
Keep(f) ==
  /\ At(f, "keep") /\ Fly(f, [flight[f] EXCEPT !.at = "evict", !.keep = Flying \cup {f}])
  /\ UNCHANGED <<budget, rows, journal, blob, histVars, Others>> /\ NoSweeping

Unpinned == {f \in Files : rows[f].st # "none" /\ ~rows[f].pinned}

\* the rest goes while there is too much, partial files first, in the order of their last use.
Evict(f) ==
  /\ At(f, "evict")
  /\ LET open == Unpinned \ flight[f].keep
         over == Cardinality(Unpinned) - Cap
     IN  \E D \in SUBSET open :
           /\ Cardinality(D) = Max({0, Min({over, Cardinality(open)})})
           /\ \A p \in open \ D, c \in D : rows[p].st = "partial" => rows[c].st = "partial"
           /\ DropFiles(D) /\ Goto(f, IF D = {} THEN "end" ELSE "sweep")
  /\ UNCHANGED <<budget, blob, histVars, Others>> /\ NoSweeping

\* Mutant of Waits: only those the flight counts.
WaitsCounted(c, f) == c \in flight[f].callers /\ caller[c].at = "wait" /\ caller[c].ans = ""

Waits(c, f) == caller[c].at = "wait" /\ caller[c].f = f /\ caller[c].ans = ""

\* The flight is over, for all who wait on it.
End(f) ==
  /\ At(f, "end") /\ Fly(f, NoFlight)
  /\ caller' = [c \in Callers |->
       IF Waits(c, f) THEN [caller[c] EXCEPT !.ans = flight[f].res] ELSE caller[c]]
  /\ misled' = IF flight[f].res = "gone" /\ rows[f].pinned THEN misled \cup {f} ELSE misled
  /\ UNCHANGED <<budget, storeVars, up, session, fetcher, unpinning, crossed, stray>> /\ NoSweeping

-----------------------------------------------------------------------------
(* sweep_journal, after a flight's own drops and of the sweeper's task. *)

SweepUnchanged == UNCHANGED <<budget, listed, up, session, callVars, histVars>>

WantsSweep(by) == IF by \in Files THEN At(by, "sweep") ELSE sweeper.at = "sweep"
Swept(by) ==
  IF by \in Files THEN Goto(by, "end") /\ UNCHANGED sweeper
                  ELSE sweeper' = [sweeper EXCEPT !.at = "flying"] /\ UNCHANGED flight

\* Entries of files that have a row again are stale.
SweepRead(by) ==
  /\ WantsSweep(by) /\ lock = Nobody
  /\ LET paths == {f \in journal : rows[f].st = "none"}
     IN  /\ journal' = paths
         /\ IF paths = {}
              THEN Swept(by) /\ UNCHANGED <<lock, sweep>>
              ELSE lock' = by /\ sweep' = [at |-> "unlink", paths |-> paths] /\ UNCHANGED <<flight, sweeper>>
  /\ UNCHANGED <<rows, blob>> /\ SweepUnchanged

Unlink(by) ==
  /\ WantsSweep(by) /\ lock = by /\ sweep.at = "unlink" /\ sweep' = [sweep EXCEPT !.at = "forget"]
  /\ blob' = [f \in Files |-> IF f \in sweep.paths THEN NoBlob ELSE blob[f]]
  /\ flight' = [f \in Files |-> IF f \in sweep.paths THEN [flight[f] EXCEPT !.linked = FALSE] ELSE flight[f]]
  /\ UNCHANGED <<rows, journal, lock, sweeper>> /\ SweepUnchanged

\* Mutant of Remaining: the journal is emptied.
RemainingNone == {}

Remaining == journal \ sweep.paths

Forget(by) ==
  /\ WantsSweep(by) /\ lock = by /\ sweep.at = "forget"
  /\ journal' = Remaining /\ sweep' = NoSweep /\ lock' = Nobody /\ Swept(by)
  /\ UNCHANGED <<rows, blob>> /\ SweepUnchanged

SweeperWakes ==
  /\ up = "up" /\ sweeper.at = "rest" /\ sweeper.permit
  /\ sweeper' = [sweeper EXCEPT !.at = "sweep", !.permit = FALSE]
  /\ UNCHANGED <<rows, journal, blob, flight, lock, sweep>> /\ SweepUnchanged

\* cancel_unlisted: the downloads, then which of them are listed, then a look at the downloads.
ReadFlying ==
  /\ sweeper.at = "flying"
  /\ sweeper' = [sweeper EXCEPT !.at = IF Flying = {} THEN "rest" ELSE "listed", !.known = Flying]
  /\ UNCHANGED <<rows, journal, blob, flight, lock, sweep>> /\ SweepUnchanged

ReadListed ==
  /\ sweeper.at = "listed" /\ sweeper' = [sweeper EXCEPT !.at = "cancel", !.known = @ \cap listed]
  /\ UNCHANGED <<rows, journal, blob, flight, lock, sweep>> /\ SweepUnchanged

CancelUnlisted ==
  /\ sweeper.at = "cancel" /\ sweeper' = [sweeper EXCEPT !.at = "rest", !.known = {}]
  /\ flight' = [f \in Files |-> IF f \in Flying \ sweeper.known
                                  THEN [flight[f] EXCEPT !.cancel = TRUE] ELSE flight[f]]
  /\ UNCHANGED <<rows, journal, blob, lock, sweep>> /\ SweepUnchanged

-----------------------------------------------------------------------------
(* cache_file, for the user (an Open, a preview) and for the fetcher. *)

CallUnchanged == UNCHANGED <<storeVars, up, session, sweepVars, unpinning, histVars>>
Call(c, r) == caller' = [caller EXCEPT ![c] = r]

\* Mutant of Returns: a failure of the fetcher's is not kept.
ReturnsQuietly(c, ans) == Call(c, NoCall) /\ UNCHANGED fetcher

\* The fetcher's round goes on; a failure brings it back.
Returns(c, ans) ==
  /\ Call(c, NoCall)
  /\ fetcher' = IF c = "fetcher" /\ ans = "failed" THEN [fetcher EXCEPT !.failed = TRUE] ELSE fetcher

\* lookup, and the row: a complete file is done.
Check(c) ==
  /\ caller[c].at = "check"
  /\ LET f == caller[c].f
     IN  IF f \notin listed \/ rows[f].st = "complete"
           THEN Returns(c, "")
           ELSE Call(c, [caller[c] EXCEPT !.at = "join"]) /\ UNCHANGED fetcher
  /\ UNCHANGED <<budget, flight>> /\ CallUnchanged

JoinOrStart(c) ==
  /\ caller[c].at = "join"
  /\ LET f == caller[c].f
     IN  IF up # "up" THEN Returns(c, "cancelled") /\ UNCHANGED flight
         ELSE /\ Call(c, [caller[c] EXCEPT !.at = "wait", !.tries = @ + 1]) /\ UNCHANGED fetcher
              /\ IF At(f, "none") THEN Fly(f, [NoFlight EXCEPT !.at = "start", !.callers = {c}])
                 ELSE IF flight[f].cancel THEN UNCHANGED flight
                 ELSE Fly(f, [flight[f] EXCEPT !.callers = @ \cup {c}])
  /\ UNCHANGED budget /\ CallUnchanged

\* One that stopped for others is tried again.
Answered(c) ==
  /\ caller[c].at = "wait" /\ caller[c].ans # ""
  /\ IF caller[c].ans = "cancelled" /\ ~caller[c].cancel /\ up = "up" /\ caller[c].tries < MaxTries
       THEN Call(c, [caller[c] EXCEPT !.at = "join", !.ans = ""]) /\ UNCHANGED fetcher
       ELSE Returns(c, caller[c].ans)
  /\ UNCHANGED <<budget, flight>> /\ CallUnchanged

\* wait sees its cancel: it leaves, and the last one stops the download.
Leave(c) ==
  /\ caller[c].at = "wait" /\ caller[c].ans = "" /\ caller[c].cancel /\ Returns(c, "cancelled")
  /\ LET f == caller[c].f
         rest == flight[f].callers \ {c}
     IN  Fly(f, [flight[f] EXCEPT !.callers = rest, !.cancel = @ \/ rest = {}])
  /\ UNCHANGED budget /\ CallUnchanged

\* cancel_transfer: a call that has registered its flags hears of it.
CancelCall(c) ==
  Call(c, [caller[c] EXCEPT !.cancel = @ \/ caller[c].tries > 0])

Ask(f) ==
  /\ up = "up" /\ Spend("ask") /\ caller["user"].at = "rest"
  /\ Call("user", [NoCall EXCEPT !.at = "check", !.f = f]) /\ UNCHANGED <<fetcher, flight>> /\ CallUnchanged

Cancel ==
  /\ Spend("cancel") /\ caller["user"].at = "wait" /\ CancelCall("user")
  /\ UNCHANGED <<fetcher, flight>> /\ CallUnchanged

-----------------------------------------------------------------------------
(* Files kept offline. *)

PinFile(f) ==
  /\ up = "up" /\ Spend("pin") /\ f \in listed
  /\ IF rows[f].st = "none"
       THEN /\ rows' = [rows EXCEPT ![f] = NewRow(f, TRUE)] /\ stray' = stray \ {f}
            /\ crossed' = IF flight[f].key # 0 THEN crossed \cup {f} ELSE crossed
       ELSE rows' = [rows EXCEPT ![f].pinned = TRUE] /\ UNCHANGED <<crossed, stray>>
  /\ fetcher' = [fetcher EXCEPT !.wake = TRUE]
  /\ UNCHANGED <<listed, journal, blob, up, session, flight, sweepVars, caller, unpinning, misled>>

UnpinFile(f) ==
  /\ up = "up" /\ Spend("unpin") /\ rows[f].pinned
  /\ rows' = [rows EXCEPT ![f].pinned = FALSE] /\ unpinning' = unpinning \cup {f}
  /\ UNCHANGED <<listed, journal, blob, up, session, flight, sweepVars, caller, fetcher, histVars>>

\* Its background download stops.
StopFetch(f) ==
  /\ f \in unpinning /\ unpinning' = unpinning \ {f}
  /\ IF caller["fetcher"].f = f THEN CancelCall("fetcher") ELSE UNCHANGED caller
  /\ UNCHANGED <<budget, storeVars, up, session, flight, sweepVars, fetcher, histVars>>

Wanted == {f \in Files : rows[f].pinned /\ rows[f].st # "complete"}

\* What a round begins with, when something wakes the fetcher.
Round(woken) ==
  /\ up = "up" /\ caller["fetcher"].at = "rest" /\ fetcher.todo = {}
  /\ fetcher' = [woken EXCEPT !.todo = IF session THEN Wanted ELSE {}, !.failed = FALSE]
  /\ UNCHANGED <<budget, caller, flight>> /\ CallUnchanged

Wake    == fetcher.wake /\ Round([fetcher EXCEPT !.wake = FALSE])
Retry   == fetcher.failed /\ Round(fetcher)
SeeNews ==
  /\ fetcher.news
  /\ IF session THEN Round([fetcher EXCEPT !.news = FALSE])
     ELSE /\ caller["fetcher"].at = "rest" /\ fetcher.todo = {}
          /\ fetcher' = [fetcher EXCEPT !.news = FALSE]
          /\ UNCHANGED <<budget, caller, flight>> /\ CallUnchanged

Fetch(f) ==
  /\ caller["fetcher"].at = "rest" /\ f \in fetcher.todo
  /\ IF up = "up"
       THEN /\ fetcher' = [fetcher EXCEPT !.todo = @ \ {f}]
            /\ Call("fetcher", [NoCall EXCEPT !.at = "check", !.f = f])
       ELSE fetcher' = [fetcher EXCEPT !.todo = {}] /\ UNCHANGED caller
  /\ UNCHANGED <<budget, flight>> /\ CallUnchanged

-----------------------------------------------------------------------------
(* The session and the process. *)

\* A download of a session that ended pauses.
Session ==
  /\ up = "up" /\ Spend("session") /\ session' = ~session /\ fetcher' = [fetcher EXCEPT !.news = TRUE]
  /\ flight' = [f \in Files |-> IF session /\ flight[f].at \notin {"none", "start"}
                                  THEN [flight[f] EXCEPT !.pause = TRUE] ELSE flight[f]]
  /\ UNCHANGED <<storeVars, up, sweepVars, caller, unpinning, histVars>>

\* close: no download starts any more, those there are are cancelled, the sweeper is aborted,
Close ==
  /\ up = "up" /\ Spend("close") /\ up' = "closing"
  /\ flight' = [f \in Files |-> IF f \in Flying THEN [flight[f] EXCEPT !.cancel = TRUE] ELSE flight[f]]
  /\ sweeper' = [at |-> "rest", permit |-> FALSE, known |-> {}]
  /\ IF lock = Sweeper THEN lock' = Nobody /\ sweep' = NoSweep ELSE UNCHANGED <<lock, sweep>>
  /\ UNCHANGED <<storeVars, session, callVars, histVars>>

Gone0 == [todo |-> {}, failed |-> FALSE, wake |-> TRUE, news |-> FALSE]

\* and all of them are joined.
Closed ==
  /\ up = "closing" /\ Flying = {} /\ caller = [c \in Callers |-> NoCall] /\ fetcher.todo = {}
  /\ up' = "down" /\ unpinning' = {} /\ fetcher' = Gone0 /\ sweeper' = [sweeper EXCEPT !.permit = FALSE]
  /\ UNCHANGED <<budget, storeVars, session, flight, lock, sweep, caller, histVars>>

\* What was not synced may be lost.
Torn(b) == {[b EXCEPT !.chunks = SubSeq(@, 1, n)] : n \in b.synced..Len(b.chunks)}

Crash ==
  /\ up # "down" /\ Spend("crash") /\ up' = "down"
  /\ \E b \in [Files -> UNION {Torn(blob[f]) : f \in Files}] :
       /\ \A f \in Files : b[f] \in Torn(blob[f])
       /\ blob' = b
  /\ flight' = [f \in Files |-> NoFlight] /\ lock' = Nobody /\ sweep' = NoSweep
  /\ sweeper' = [at |-> "rest", permit |-> FALSE, known |-> {}]
  /\ caller' = [c \in Callers |-> NoCall] /\ fetcher' = Gone0 /\ unpinning' = {}
  /\ UNCHANGED <<listed, rows, journal, session, histVars>>

\* A row that records more than its blob has.
Short(f) ==
  LET need == IF rows[f].st = "complete" THEN Chunks ELSE rows[f].done
  IN  rows[f].st # "none" /\ need > Len(blob[f].chunks)

\* reconcile, before anything uses the store: the journal is finished, blobs without a row go,
\* rows that can't be trusted start over or, not pinned, go with their blobs.
Open ==
  /\ up = "down" /\ up' = "up"
  /\ LET lost == {f \in Files : Short(f) /\ ~rows[f].pinned}
     IN  /\ rows' = [f \in Files |-> IF f \in lost THEN NoRow
                                     ELSE IF Short(f) THEN NewRow(f, TRUE) ELSE rows[f]]
         /\ blob' = [f \in Files |-> IF rows[f].st = "none" \/ f \in lost THEN NoBlob ELSE blob[f]]
  /\ journal' = {} /\ stray' = {}
  /\ UNCHANGED <<budget, listed, session, flight, sweepVars, callVars, crossed, misled>>

-----------------------------------------------------------------------------

Flight(f) ==
  \/ Start(f) \/ OpenRow(f) \/ MakeRow(f) \/ OpenBlob(f) \/ Stop(f) \/ Write(f) \/ Save(f)
  \/ Rekey(f) \/ Cut(f) \/ Verify(f) \/ Mark(f) \/ AbortSink(f) \/ DropGone(f) \/ Keep(f)
  \/ Evict(f) \/ End(f)

SweepBy(by) == SweepRead(by) \/ Unlink(by) \/ Forget(by)
Cancels == SweeperWakes \/ ReadFlying \/ ReadListed \/ CancelUnlisted
Calls(c) == Check(c) \/ JoinOrStart(c) \/ Answered(c) \/ Leave(c)
Fetcher == Wake \/ Retry \/ SeeNews \/ \E f \in Files : Fetch(f)

Outer ==
  \/ \E F \in SUBSET Files : Drop(F)
  \/ \E f \in Files : List(f) \/ Fail(f) \/ Gone(f) \/ Restart(f) \/ Ask(f) \/ PinFile(f) \/ UnpinFile(f)
  \/ Cancel \/ Session \/ Close \/ Crash

Tasks ==
  \/ Cancels \/ Fetcher \/ Closed \/ Open
  \/ \E f \in Files : Flight(f) \/ StopFetch(f)
  \/ \E by \in Files \cup {Sweeper} : SweepBy(by)
  \/ \E c \in Callers : Calls(c)

Next == Outer \/ Tasks

Spec == Init /\ [][Next]_vars

\* Some task runs while one can.
Fairness == WF_vars(Tasks)

FairSpec == Spec /\ Fairness

-----------------------------------------------------------------------------

Stages == {"none", "start", "make", "blob", "get", "save", "rekey", "cut", "mark", "keep", "evict", "abort",
           "drop", "sweep", "end"}
Answers == {"ok", "failed", "gone", "cancelled"}

RowRecords  == [st : {"none", "partial", "complete"}, key : Nat, done : 0..Chunks, pinned : BOOLEAN]
BlobRecords == [there : BOOLEAN, chunks : Seq(Nat), synced : Nat]
FlightRecords ==
  [at : Stages, key : Nat, sealed : 0..Chunks, durable : 0..Chunks, linked : BOOLEAN, callers : SUBSET Callers,
   cancel : BOOLEAN, pause : BOOLEAN, keep : SUBSET Files, res : Answers]
CallRecords ==
  [at : {"rest", "check", "join", "wait"}, f : Files \cup {Nobody}, tries : Nat, cancel : BOOLEAN,
   ans : Answers \cup {""}]

TypeOK ==
  /\ budget \in [Outside -> Nat] /\ listed \subseteq Files /\ journal \subseteq Files
  /\ up \in {"up", "closing", "down"} /\ session \in BOOLEAN
  /\ rows \in [Files -> RowRecords] /\ blob \in [Files -> BlobRecords] /\ flight \in [Files -> FlightRecords]
  /\ \A f \in Files : blob[f].synced <= Len(blob[f].chunks) /\ Len(blob[f].chunks) <= Chunks
  /\ lock \in Files \cup {Sweeper, Nobody}
  /\ sweep \in [at : {"rest", "unlink", "forget"}, paths : SUBSET Files]
  /\ sweeper \in [at : {"rest", "sweep", "flying", "listed", "cancel"}, permit : BOOLEAN, known : SUBSET Files]
  /\ caller \in [Callers -> CallRecords]
  /\ \A c \in Callers : caller[c].at # "rest" => caller[c].f \in Files
  /\ fetcher \in [todo : SUBSET Files, failed : BOOLEAN, wake : BOOLEAN, news : BOOLEAN]
  /\ crossed \cup misled \cup stray \cup unpinning \subseteq Files

\* Nothing of a file is kept that no cached message lists: rows of listed files only, and a
\* blob without a row is in the journal, or one of those that a start has to find (`stray`).
BelongsToAMessage ==
  \A f \in Files :
    /\ rows[f].st # "none" => f \in listed
    /\ blob[f].there /\ rows[f].st = "none" => f \in journal \cup stray

\* What a row says of its blob is so, crash or not: `done` chunks are durable under the row's
\* key, all of them of a complete file.
Counted(f) ==
  \A i \in 1..rows[f].done :
    i <= blob[f].synced /\ blob[f].chunks[i] = rows[f].key

RowsHold == \A f \in Files \ crossed : rows[f].st # "none" => Counted(f)

\* blob_lock: a download that makes its row or opens its blob has it, or a sweep from its list
\* of paths to the end, and nobody else.
LockHeld ==
  /\ \A f \in Files : flight[f].at \in {"make", "blob"} => lock = f
  /\ sweep.at # "rest" => lock # Nobody /\ WantsSweep(lock)
  /\ sweep.at = "rest" => sweep.paths = {}
  /\ sweep.at = "rest" /\ lock # Nobody => lock \in Files /\ flight[lock].at \in {"make", "blob"}
  /\ up # "up" => sweeper.at = "rest"
  /\ up = "down" => Flying = {}

\* A blob about to be opened for a row that went is journalled; those the sweep unlinked are
\* gone; a row made for one of its paths meanwhile counts nothing, and no download is on it.
SweptAway ==
  /\ \A f \in Files : At(f, "blob") /\ rows[f].st = "none" => f \in journal
  /\ sweep.at = "forget" => \A f \in sweep.paths : ~blob[f].there
  /\ \A f \in sweep.paths \ crossed :
       rows[f].st # "none" => rows[f].done = 0 /\ flight[f].key = 0

\* A sink has a key from when it has a row; while linked, the blob is there and as long as it has
\* sealed; a complete row counts all.
SinkHolds(f) ==
  /\ flight[f].at \in {"none", "start", "make"} =>
       flight[f].key = 0 /\ flight[f].sealed = 0 /\ ~flight[f].linked
  /\ flight[f].at \notin {"none", "start", "make", "end"} => flight[f].key # 0
  /\ flight[f].linked => blob[f].there /\ Len(blob[f].chunks) = flight[f].sealed
  /\ ~blob[f].there => Len(blob[f].chunks) = 0
  /\ rows[f].st # "none" => rows[f].key # 0
  /\ rows[f].st = "complete" => rows[f].done = Chunks
  /\ rows[f].st = "complete" => flight[f].at \in {"none", "start", "make", "keep", "evict", "sweep", "end"}

\* The sink of a download and the row are of one copy: same key, no more counted than sealed, and
\* what is sealed is in the blob.
SinkAgrees(f) ==
  /\ rows[f].key = flight[f].key
  /\ rows[f].st = "partial" => rows[f].done <= flight[f].sealed
  /\ At(f, "blob") => rows[f].st = "partial" /\ rows[f].done = flight[f].sealed
  /\ ~At(f, "blob") => flight[f].linked
  /\ At(f, "cut") => rows[f].done = 0
  /\ flight[f].at \notin {"blob", "cut"} => \A i \in 1..flight[f].sealed : blob[f].chunks[i] = flight[f].key
  /\ At(f, "mark") => flight[f].sealed = Chunks /\ blob[f].synced = Chunks

SinksAgree ==
  /\ \A f \in Files : SinkHolds(f)
  /\ \A f \in Files \ crossed : rows[f].st # "none" /\ flight[f].key # 0 => SinkAgrees(f)

FileInv == TypeOK /\ BelongsToAMessage /\ RowsHold /\ LockHeld /\ SweptAway /\ SinksAgree

\* Complete: opens with no connection.
CompleteOpens == \A f \in Files : rows[f].st = "complete" => Opens(f, rows[f].key)

\* The same of what is not crossed.
UncrossedOpen == \A f \in Files \ crossed : rows[f].st = "complete" => Opens(f, rows[f].key)

\* What is counted is so of every file.
CountsAnyway == \A f \in Files : rows[f].st # "none" => Counted(f)

\* Nothing outlives its message: in the end only blobs with a row are there, and those whose
\* journal entry went for a row that was not made.
NothingOutlives == <>[](\A f \in Files : blob[f].there => rows[f].st # "none" \/ f \in stray)

\* EncryptingSink::open: "A journal entry left for this path by an earlier copy is stale now." Of every blob:
\* in the end it has a row.
NothingOutlivesAnyway == <>[](\A f \in Files : blob[f].there => rows[f].st # "none")

\* A file that stays pinned while the session is there gets downloaded.
PinnedGetsCached ==
  \A f \in Files :
    <>[](session /\ rows[f].pinned /\ f \notin crossed \cup misled) => <>[](rows[f].st = "complete")

PinnedGetsCachedAnyway ==
  \A f \in Files : <>[](session /\ rows[f].pinned) => <>[](rows[f].st = "complete")

\* Whoever asks for a file is answered.
CallersAnswered == caller["user"].at # "rest" ~> caller["user"].at = "rest"
=============================================================================
