----------------------------- MODULE Attachments -----------------------------
(***************************************************************************)
(* One message with files, from the sender's disk to the server's: the     *)
(* outbox copies the files (snapshots), uploads each, sends the message    *)
(* with their ids (core/src/outbox.rs, transfer.rs); the server creates,   *)
(* receives, commits and attaches them (routers/files.py, channels.py),    *)
(* and sweeps away what nobody attached (sweep.py).                        *)
(*                                                                         *)
(* A file has one row at the server at a time: its ids are <<file, n>>.    *)
(***************************************************************************)
EXTENDS Integers, FiniteSets

CONSTANTS
  MaxFiles,   \* bound: files of the message
  Copies,     \* bound: ids of one file at once
  MaxUploads, \* MAX_UPLOADS_PER_USER
  Budgets     \* bound: how many files, failures, requests of the user, and deletions by anyone

ASSUME CountsAssumption == {MaxFiles, Copies, MaxUploads} \subseteq Nat \ {0}
ASSUME BudgetsAssumption == Budgets \subseteq (1..MaxFiles) \X Nat \X Nat \X Nat

Ids == (1..MaxFiles) \X (1..Copies)
NoId == <<0, 0>>

VARIABLES
  n,        \* files of the message
  faults, asks, deletes, \* how many of each are left
  (* the device *)
  up,       \* the outbox is open
  snaps,    \* the snapshot directory
  journal,  \* `deletions`
  call,     \* the call of enqueue_with_files
  row,      \* outbox.state, "none" without a row
  fid,      \* outbox_files.file_id
  flags,    \* row_flags of the row
  s,        \* the holder of the channel's lock
  ans,      \* the answer to its request
  deleting, \* a caller of delete_pending waits for the lock
  (* the server *)
  rows,     \* files: status, age while unattached, attached
  bytes, left, \* final files, parts nobody writes: none, or their mtime
  puts,     \* PUTs being served: where, for whom, mtime of their part
  posts,    \* sends the client gave up on: their files
  sweep, removing, \* a pass of the sweep; bytes to remove after a commit
  channel, message,
  (* history *)
  sent, gone \* files the message was stored with; files somebody deleted

deviceVars == <<up, snaps, journal, call, row, fid, flags, s, deleting>>
serverVars == <<rows, bytes, left, puts, posts, sweep, removing, channel, message, sent, gone>>
budgetVars == <<n, faults, asks, deletes>>
vars == <<budgetVars, deviceVars, ans, serverVars>>

Files == 1..n \* file_client_ids, in the order of the message

NoRow == [st |-> "none", age |-> 0, on |-> FALSE]
\* Ages: an hour (PENDING_TTL), a day (UNATTACHED_TTL).
Hour == 1
Day == 2

Times == {"none", "fresh", "stale"}
FileRow == [st: {"none", "pending", "committed"}, age: {0, Hour, Day}, on: BOOLEAN]
Upload == [id: Ids, at: {"read", "enter", "stream", "received", "rename", "commit"}, cur: BOOLEAN, part: Times]
Pass == [at: {"rest", "delete", "known", "remove", "orphans"}, busy: SUBSET Ids, doomed: SUBSET Ids, known: SUBSET Ids]
Sender == [at: {"free", "upload", "next", "create", "put", "putting", "record", "post", "answered", "unlink", "clear"},
           f: 0..MaxFiles, id: Ids \cup {NoId}, again: BOOLEAN, recreated: BOOLEAN]

TypeOK ==
  /\ n \in 1..MaxFiles /\ {faults, asks, deletes} \subseteq Nat
  /\ up \in BOOLEAN /\ snaps \subseteq Files /\ journal \subseteq Files /\ call \in {"new", "copying", "done"}
  /\ row \in {"none", "pending", "sending", "failed", "accepted"} /\ fid \in [1..MaxFiles -> Ids \cup {NoId}]
  /\ flags \in {"none", "on", "cancelled"} /\ s \in Sender /\ deleting \in BOOLEAN
  /\ ans \in {"none", "ok", "committed", "gone", "retry", "refused", "not_attachable"}
  /\ rows \in [Ids -> FileRow] /\ bytes \in [Ids -> Times] /\ left \in [Ids -> Times]
  /\ puts \subseteq Upload /\ posts \subseteq SUBSET Ids /\ sweep \in Pass /\ removing \subseteq Ids
  /\ channel \in BOOLEAN /\ message \in {"none", "stored", "deleted"}
  /\ sent \subseteq Files /\ gone \subseteq 1..MaxFiles

Free == [at |-> "free", f |-> 0, id |-> NoId, again |-> FALSE, recreated |-> FALSE]
Resting == [at |-> "rest", busy |-> {}, doomed |-> {}, known |-> {}]

Init ==
  /\ \E b \in Budgets : n = b[1] /\ faults = b[2] /\ asks = b[3] /\ deletes = b[4]
  /\ up = TRUE /\ snaps = {} /\ journal = {} /\ call = "new" /\ row = "none"
  /\ fid = [f \in 1..MaxFiles |-> NoId] /\ flags = "none" /\ s = Free /\ ans = "none" /\ deleting = FALSE
  /\ rows = [i \in Ids |-> NoRow] /\ bytes = [i \in Ids |-> "none"] /\ left = [i \in Ids |-> "none"]
  /\ puts = {} /\ posts = {} /\ sweep = Resting /\ removing = {}
  /\ channel = TRUE /\ message = "none" /\ sent = {} /\ gone = {}

Fault == faults > 0 /\ faults' = faults - 1 /\ UNCHANGED <<n, asks, deletes>>
Asked == asks > 0 /\ asks' = asks - 1 /\ UNCHANGED <<n, faults, deletes>>
Deletes == deletes > 0 /\ deletes' = deletes - 1 /\ UNCHANGED <<n, faults, asks>>

-----------------------------------------------------------------------------
(* The server: uploads.                                                    *)

InFlight == {p.id : p \in {q \in puts : q.at \notin {"read", "enter"}}}
\* Rows a PUT has updated and not committed: other writers of the row wait.
Locked == {p.id : p \in {q \in puts : q.at \in {"rename", "commit"}}}

\* The handler goes on, or answers a client that still waits and cleans up.
On(p, at, part) ==
  /\ puts' = (puts \ {p}) \cup {[p EXCEPT !.at = at, !.part = part]}
  /\ UNCHANGED ans
End(p, a) == puts' = puts \ {p} /\ ans' = IF p.cur THEN a ELSE ans

Answer(id) == CASE rows[id].st = "none" -> "gone" [] rows[id].st = "committed" -> "committed"

PutUnchanged == UNCHANGED <<deviceVars, left, posts, sweep, removing, channel, message, sent, gone>>

\* The row is read; the transaction ends before the body streams.
PutRead(p) ==
  /\ p.at = "read"
  /\ IF rows[p.id].st = "pending" THEN On(p, "enter", "none") ELSE End(p, Answer(p.id))
  /\ UNCHANGED <<budgetVars, rows, bytes>> /\ PutUnchanged

\* One PUT per file and a few per user; its own part file.
PutEnter(p) ==
  /\ p.at = "enter"
  /\ IF p.id \in InFlight \/ Cardinality(InFlight) >= MaxUploads
     THEN End(p, "retry") ELSE On(p, "stream", "fresh")
  /\ UNCHANGED <<budgetVars, rows, bytes>> /\ PutUnchanged

PutReceived(p) ==
  /\ p.at = "stream" /\ On(p, "received", p.part)
  /\ UNCHANGED <<budgetVars, rows, bytes>> /\ PutUnchanged

\* The body stalls or breaks off (as one whose client has gone does), or the disk is full.
PutBroken(p) ==
  /\ p.at = "stream"
  /\ IF p.cur THEN Fault ELSE UNCHANGED budgetVars
  /\ End(p, "retry")
  /\ UNCHANGED <<rows, bytes>> /\ PutUnchanged

\* UPDATE ... WHERE status = 'pending'
PutSwap(p) ==
  /\ p.at = "received" /\ p.id \notin Locked
  /\ IF rows[p.id].st = "pending" THEN On(p, "rename", p.part) ELSE End(p, Answer(p.id))
  /\ UNCHANGED <<budgetVars, rows, bytes>> /\ PutUnchanged

\* (Mutant: a part that has gone is no error.)
PutRenameAnyway(p) ==
  /\ p.at = "rename" /\ On(p, "commit", "none") /\ bytes' = [bytes EXCEPT ![p.id] = p.part]
  /\ UNCHANGED <<budgetVars, rows>> /\ PutUnchanged

\* The part, if still there, becomes the file (with the part's mtime).
PutRename(p) ==
  /\ p.at = "rename"
  /\ IF p.part = "none"
     THEN End(p, "retry") /\ UNCHANGED bytes
     ELSE On(p, "commit", "none") /\ bytes' = [bytes EXCEPT ![p.id] = p.part]
  /\ UNCHANGED <<budgetVars, rows>> /\ PutUnchanged

PutCommit(p) ==
  /\ p.at = "commit" /\ End(p, "ok")
  /\ rows' = [rows EXCEPT ![p.id].st = "committed"]
  /\ UNCHANGED <<budgetVars, bytes>> /\ PutUnchanged

PutCommitFails(p) ==
  /\ p.at = "commit" /\ End(p, "retry") /\ Fault
  /\ UNCHANGED <<rows, bytes>> /\ PutUnchanged

PutStep(p) ==
  \/ PutRead(p) \/ PutEnter(p) \/ PutReceived(p) \/ PutBroken(p)
  \/ PutSwap(p) \/ PutRename(p) \/ PutCommit(p) \/ PutCommitFails(p)

-----------------------------------------------------------------------------
(* The server: the send, deletions, the sweep.                             *)

\* (Mutant: what is missing is left out.)
PostAnswerAnyway(ids) == IF message = "none" /\ ~channel THEN "refused" ELSE "ok"

\* send_message with these files: a repeat gets what is stored; else each is attached.
PostAnswer(ids) ==
  IF message # "none" THEN "ok"
  ELSE IF ~channel THEN "refused"
  ELSE IF \E i \in ids : rows[i].st # "committed" \/ rows[i].on THEN "not_attachable"
  ELSE "ok"

Post(ids) ==
  /\ ids \cap Locked = {}
  /\ IF message = "none" /\ PostAnswer(ids) = "ok"
     THEN /\ message' = "stored" /\ sent' = {i[1] : i \in ids}
          /\ rows' = [i \in Ids |-> IF i \in ids THEN [NoRow EXCEPT !.st = "committed", !.on = TRUE] ELSE rows[i]]
     ELSE UNCHANGED <<message, sent, rows>>
  /\ UNCHANGED <<bytes, left, puts, sweep, removing, channel, gone>>

\* One the client gave up on runs, or never does.
LatePost(ids) ==
  /\ posts' = posts \ {ids}
  /\ Post(ids) \/ UNCHANGED <<rows, message, sent, bytes, left, puts, sweep, removing, channel, gone>>
  /\ UNCHANGED <<budgetVars, deviceVars, ans>>

\* Rows go in a transaction, their bytes after it.
DropRows(ids) ==
  /\ ids \cap Locked = {}
  /\ rows' = [i \in Ids |-> IF i \in ids THEN NoRow ELSE rows[i]]

\* delete_file: by its uploader or an owner.
DeleteFile(id) ==
  /\ rows[id].st # "none" /\ Deletes
  /\ DropRows({id}) /\ removing' = removing \cup {id} /\ gone' = gone \cup {id[1]}
  /\ UNCHANGED <<deviceVars, ans, bytes, left, puts, posts, sweep, channel, message, sent>>

DeleteMessage ==
  LET its == {i \in Ids : rows[i].on} IN
  /\ message = "stored" /\ Deletes
  /\ DropRows(its) /\ removing' = removing \cup its /\ message' = "deleted"
  /\ UNCHANGED <<deviceVars, ans, bytes, left, puts, posts, sweep, channel, sent, gone>>

\* delete_channel: the rows go by cascade, their bytes with the sweep.
DeleteChannel ==
  /\ channel /\ Deletes /\ DropRows(Ids)
  /\ channel' = FALSE /\ message' = "none"
  /\ UNCHANGED <<deviceVars, ans, bytes, left, puts, posts, sweep, removing, sent, gone>>

\* storage.remove: the file and every part of it.
Removed(ids) ==
  /\ bytes' = [i \in Ids |-> IF i \in ids THEN "none" ELSE bytes[i]]
  /\ left' = [i \in Ids |-> IF i \in ids THEN "none" ELSE left[i]]
  /\ puts' = {[p EXCEPT !.part = IF p.id \in ids THEN "none" ELSE @] : p \in puts}

RemoveBytes(id) ==
  /\ id \in removing /\ Removed({id}) /\ removing' = removing \ {id}
  /\ UNCHANGED <<budgetVars, deviceVars, ans, rows, posts, sweep, channel, message, sent, gone>>

SweepUnchanged ==
  UNCHANGED <<budgetVars, deviceVars, ans, posts, removing, channel, message, sent, gone>>

SweepStart ==
  /\ sweep.at = "rest" /\ sweep' = [Resting EXCEPT !.at = "delete", !.busy = InFlight]
  /\ UNCHANGED <<rows, bytes, left, puts>> /\ SweepUnchanged

StalePending(i) == rows[i].st = "pending" /\ rows[i].age >= Hour /\ i \notin sweep.busy
Unattached(i) == rows[i].st = "committed" /\ ~rows[i].on /\ rows[i].age >= Day

SweepDelete ==
  LET doomed == {i \in Ids : StalePending(i) \/ Unattached(i)} IN
  /\ sweep.at = "delete" /\ DropRows(doomed)
  /\ sweep' = [sweep EXCEPT !.at = "known", !.doomed = doomed]
  /\ UNCHANGED <<bytes, left, puts>> /\ SweepUnchanged

SweepKnown ==
  /\ sweep.at = "known"
  /\ sweep' = [sweep EXCEPT !.at = "remove", !.known = {i \in Ids : rows[i].st # "none"}]
  /\ UNCHANGED <<rows, bytes, left, puts>> /\ SweepUnchanged

SweepRemove ==
  /\ sweep.at = "remove" /\ Removed(sweep.doomed)
  /\ sweep' = [sweep EXCEPT !.at = "orphans"]
  /\ UNCHANGED rows /\ SweepUnchanged

\* (Mutant: parts are left to the sweep of their rows.)
SweepOrphansFiles ==
  /\ sweep.at = "orphans" /\ sweep' = Resting
  /\ bytes' = [i \in Ids |-> IF bytes[i] = "stale" /\ i \notin sweep.known THEN "none" ELSE bytes[i]]
  /\ UNCHANGED <<rows, left, puts>> /\ SweepUnchanged

\* Parts, and files without a row, that are older than an hour.
SweepOrphans ==
  /\ sweep.at = "orphans" /\ sweep' = Resting
  /\ bytes' = [i \in Ids |-> IF bytes[i] = "stale" /\ i \notin sweep.known THEN "none" ELSE bytes[i]]
  /\ left' = [i \in Ids |-> IF left[i] = "stale" THEN "none" ELSE left[i]]
  /\ puts' = {[p EXCEPT !.part = IF @ = "stale" THEN "none" ELSE @] : p \in puts}
  /\ UNCHANGED rows /\ SweepUnchanged

SweepStep == SweepStart \/ SweepDelete \/ SweepKnown \/ SweepRemove \/ SweepOrphans

\* The api stops and starts: parts stay behind, what was not committed is undone.
Restart ==
  /\ Fault
  /\ puts' = {} /\ sweep' = Resting /\ removing' = {}
  /\ left' = [i \in Ids |-> IF \E p \in puts : p.id = i /\ p.part # "none" THEN "fresh" ELSE left[i]]
  /\ ans' = IF \E p \in puts : p.cur THEN "retry" ELSE ans
  /\ UNCHANGED <<deviceVars, rows, bytes, posts, channel, message, sent, gone>>

\* Time passes: an hour or a day.  A pass of the sweep takes less, and so does a PUT that
\* has all its bytes; one that streams keeps its part fresh, unless the machine is frozen.
Aged(x) == IF x = "fresh" THEN "stale" ELSE x
Later(age, frozen) ==
  /\ sweep.at \notin {"remove", "orphans"}
  /\ IF frozen THEN Fault ELSE UNCHANGED budgetVars
  /\ rows' = [i \in Ids |-> [rows[i] EXCEPT !.age = IF rows[i].st = "none" \/ rows[i].on \/ @ > age THEN @ ELSE age]]
  /\ bytes' = [i \in Ids |-> Aged(bytes[i])] /\ left' = [i \in Ids |-> Aged(left[i])]
  /\ puts' = {[p EXCEPT !.part = IF frozen THEN Aged(@) ELSE @] : p \in puts}
  /\ UNCHANGED <<deviceVars, ans, posts, sweep, removing, channel, message, sent, gone>>

-----------------------------------------------------------------------------
(* The device: queueing, and what the user asks.                           *)

CallUnchanged == UNCHANGED <<up, journal, fid, s, deleting, ans, serverVars>>

\* enqueue_with_files: the row's flags first, then a copy of each file, then the row.
Enqueue ==
  /\ up /\ call = "new" /\ call' = "copying" /\ flags' = "on"
  /\ UNCHANGED <<budgetVars, snaps, row>> /\ CallUnchanged

CopyFile ==
  /\ up /\ call = "copying" /\ flags # "cancelled"
  /\ \E f \in Files \ snaps : (\A g \in Files \ snaps : f <= g) /\ snaps' = snaps \cup {f}
  /\ UNCHANGED <<budgetVars, call, row, flags>> /\ CallUnchanged

\* A source that can't be read, a full disk; or a cancel while copying.
CopyFails ==
  /\ up /\ call = "copying"
  /\ IF flags = "cancelled" /\ snaps # Files THEN UNCHANGED budgetVars ELSE Fault
  /\ call' = "done" /\ snaps' = {} /\ flags' = "none"
  /\ UNCHANGED row /\ CallUnchanged

Insert ==
  /\ up /\ call = "copying" /\ snaps = Files
  /\ call' = "done" /\ row' = "pending"
  /\ UNCHANGED <<budgetVars, snaps, flags>> /\ CallUnchanged

\* cancel_transfer of any of the row's files.
Cancel ==
  /\ up /\ flags = "on" /\ Asked /\ flags' = "cancelled"
  /\ UNCHANGED <<call, snaps, row>> /\ CallUnchanged

\* pending: the files listed have a transfer id, under the row's flags.
List ==
  /\ up /\ row # "none" /\ flags = "none" /\ flags' = "on"
  /\ UNCHANGED <<budgetVars, call, snaps, row>> /\ CallUnchanged

Retry ==
  /\ up /\ row # "none" /\ s.at = "free" /\ Asked
  /\ row' = IF row = "failed" THEN "pending" ELSE row
  /\ flags' = IF flags = "cancelled" THEN "on" ELSE flags
  /\ UNCHANGED <<call, snaps>> /\ CallUnchanged

\* delete_pending stops what runs, if it has flags, and waits for the lock.
AskDelete ==
  /\ up /\ row # "none" /\ ~deleting /\ Asked /\ deleting' = TRUE
  /\ flags' = IF flags = "none" THEN "none" ELSE "cancelled"
  /\ UNCHANGED <<up, snaps, journal, call, row, fid, s, ans, serverVars>>

\* remove_row: the row, its files' names journalled, in one transaction.
RowGone(journalled) ==
  /\ row' = "none" /\ fid' = [f \in 1..MaxFiles |-> NoId] /\ flags' = "none"
  /\ journal' = journalled /\ s' = [Free EXCEPT !.at = "unlink"]

TakeDelete ==
  /\ up /\ deleting /\ s.at = "free" /\ deleting' = FALSE
  /\ IF row # "none" THEN RowGone(Files) ELSE UNCHANGED <<row, fid, flags, journal, s>>
  /\ UNCHANGED <<budgetVars, up, snaps, call, ans, serverVars>>

-----------------------------------------------------------------------------
(* The device: an attempt.                                                 *)

SenderUnchanged == UNCHANGED <<up, call, deleting, rows, bytes, left, sweep, removing, channel,
                               message, sent, gone>>
\* Only the sender moves on.
Go(next) ==
  /\ s' = next
  /\ UNCHANGED <<budgetVars, snaps, journal, row, fid, flags, ans, puts, posts>> /\ SenderUnchanged
\* The attempt ends with the row in this state.
Ends(state) ==
  /\ row' = state /\ s' = Free /\ ans' = "none"
  /\ UNCHANGED <<snaps, journal, fid, flags, puts, posts>> /\ SenderUnchanged
Fails == Ends("failed") /\ UNCHANGED budgetVars
Waiting == IF row = "accepted" THEN "accepted" ELSE "pending"

Begin ==
  /\ s.at = "free" /\ row \in {"pending", "accepted"} /\ ~deleting
  /\ s' = [Free EXCEPT !.at = IF row = "accepted" THEN "post" ELSE "upload"]
  /\ row' = IF row = "accepted" THEN row ELSE "sending"
  /\ UNCHANGED <<budgetVars, snaps, journal, fid, flags, ans, puts, posts>> /\ SenderUnchanged

\* upload_files: made now if the row has no flags.
UploadFiles ==
  /\ s.at = "upload"
  /\ IF flags = "cancelled" THEN Fails
     ELSE /\ s' = [s EXCEPT !.at = "next"] /\ flags' = "on"
          /\ UNCHANGED <<budgetVars, snaps, journal, row, fid, ans, puts, posts>> /\ SenderUnchanged

Missing == {f \in Files : fid[f] = NoId}

\* The next file that isn't on the server; its snapshot is verified.
NextFile ==
  /\ s.at = "next"
  /\ IF Missing = {} THEN IF flags = "cancelled" THEN Fails ELSE Go([s EXCEPT !.at = "post"])
     ELSE LET f == CHOOSE f \in Missing : \A g \in Missing : f <= g IN
          IF f \notin snaps THEN Fails
          ELSE Go([s EXCEPT !.at = "create", !.f = f, !.id = NoId, !.recreated = FALSE])

\* An id nothing is left of.
Used(i) == \/ rows[i].st # "none" \/ bytes[i] # "none" \/ left[i] # "none" \/ i \in removing
           \/ \E p \in puts : p.id = i
           \/ \E ids \in posts : i \in ids
           \/ i \in sweep.doomed \cup sweep.known \/ i = s.id \/ fid[i[1]] = i
Its(f) == {i \in Ids : i[1] = f /\ rows[i].st # "none"}
Fresh(f) == {<<f, k>> : k \in {k \in 1..Copies : ~Used(<<f, k>>) /\ \A m \in 1..(k-1) : Used(<<f, m>>)}}

\* create_file, by the file's client_id: the row there is, or a new one.
Created(id) ==
  rows' = IF rows[id].st = "none" THEN [rows EXCEPT ![id] = [NoRow EXCEPT !.st = "pending"]] ELSE rows

Create ==
  /\ s.at = "create"
  /\ IF flags = "cancelled" THEN Fails
     ELSE IF ~channel THEN Fails
     ELSE \E id \in IF Its(s.f) # {} THEN Its(s.f) ELSE Fresh(s.f) :
       /\ Created(id)
       /\ s' = [s EXCEPT !.at = IF rows[id].st = "committed" THEN "record" ELSE "put", !.id = id]
       /\ UNCHANGED <<budgetVars, snaps, journal, row, fid, flags, ans, puts, posts, up, call, deleting,
                      bytes, left, sweep, removing, channel, message, sent, gone>>

\* Refused for good (a limit); or no answer, whether or not the server made the row.
CreateRefused == s.at = "create" /\ flags # "cancelled" /\ Its(s.f) = {} /\ Fault /\ Ends("failed")
CreateLost ==
  /\ s.at = "create" /\ flags # "cancelled" /\ channel /\ Fault
  /\ \/ UNCHANGED rows
     \/ \E id \in IF Its(s.f) # {} THEN {} ELSE Fresh(s.f) : Created(id)
  /\ row' = "pending" /\ s' = Free
  /\ UNCHANGED <<snaps, journal, fid, flags, ans, puts, posts, up, call, deleting,
                 bytes, left, sweep, removing, channel, message, sent, gone>>

Put ==
  /\ s.at = "put"
  /\ IF flags = "cancelled" THEN Fails
     ELSE /\ puts' = puts \cup {[id |-> s.id, at |-> "read", cur |-> TRUE, part |-> "none"]}
          /\ s' = [s EXCEPT !.at = "putting"]
          /\ UNCHANGED <<budgetVars, snaps, journal, row, fid, flags, ans, posts>> /\ SenderUnchanged

Abandoned == {[p EXCEPT !.cur = FALSE] : p \in puts}

\* A cancelled body breaks off; a PUT may get no answer.
PutStops ==
  /\ s.at = "putting" /\ ans = "none" /\ flags = "cancelled"
  /\ puts' = Abandoned /\ row' = "failed" /\ s' = Free
  /\ UNCHANGED <<budgetVars, snaps, journal, fid, flags, ans, posts>> /\ SenderUnchanged
PutGivenUp ==
  /\ s.at = "putting" /\ ans = "none" /\ Fault
  /\ puts' = Abandoned
  /\ \/ row' = row /\ s' = [s EXCEPT !.at = "put"]
     \/ row' = "pending" /\ s' = Free
  /\ UNCHANGED <<snaps, journal, fid, flags, ans, posts>> /\ SenderUnchanged

PutAnswered ==
  /\ s.at = "putting" /\ ans # "none"
  /\ CASE ans = "gone" /\ s.recreated -> Fails
       [] ans = "retry" /\ flags = "cancelled" -> Fails
       [] OTHER ->
         /\ ans' = "none"
         /\ \/ ans \in {"ok", "committed"} /\ s' = [s EXCEPT !.at = "record"] /\ row' = row
            \/ ans = "gone" /\ s' = [s EXCEPT !.at = "create", !.id = NoId, !.recreated = TRUE] /\ row' = row
            \/ ans = "retry" /\ s' = [s EXCEPT !.at = "put"] /\ row' = row
            \/ ans = "retry" /\ s' = Free /\ row' = "pending"
         /\ UNCHANGED <<budgetVars, snaps, journal, fid, flags, puts, posts>> /\ SenderUnchanged

Record ==
  /\ s.at = "record"
  /\ \/ fid' = [fid EXCEPT ![s.f] = s.id] /\ s' = [s EXCEPT !.at = "next", !.f = 0, !.id = NoId]
        /\ UNCHANGED <<budgetVars, row>>
     \/ Fault /\ row' = "pending" /\ s' = Free /\ UNCHANGED fid
  /\ UNCHANGED <<snaps, journal, flags, ans, puts, posts>> /\ SenderUnchanged

\* The send, with the ids recorded: answered, or given up on before or after it ran.
Listed == {fid[f] : f \in Files}
Send ==
  /\ s.at = "post"
  /\ Post(Listed) /\ ans' = PostAnswer(Listed)
  /\ s' = [s EXCEPT !.at = "answered"]
  /\ UNCHANGED <<budgetVars, up, snaps, journal, call, row, fid, flags, deleting, posts>>

SendLost ==
  /\ s.at = "post" /\ Fault
  /\ \/ Post(Listed) /\ UNCHANGED posts
     \/ posts' = posts \cup {Listed}
        /\ UNCHANGED <<rows, message, sent, bytes, left, puts, sweep, removing, channel, gone>>
  /\ row' = Waiting /\ s' = Free
  /\ UNCHANGED <<up, snaps, journal, call, fid, flags, deleting, ans>>

RemoveRow ==
  /\ RowGone(Files) /\ ans' = "none"
  /\ UNCHANGED <<snaps, puts, posts>> /\ SenderUnchanged

\* The message is stored: into the cache, and the row goes; or stays, accepted.
Sent ==
  /\ s.at = "answered"
  /\ ans = "ok" \/ row = "accepted"
  /\ \/ RemoveRow /\ UNCHANGED budgetVars
     \/ Fault /\ Ends("accepted")

\* (Mutant: as often as it takes.)
NotAttachableAgain ==
  /\ s.at = "answered" /\ ans = "not_attachable" /\ row # "accepted"
  /\ fid' = [f \in 1..MaxFiles |-> NoId] /\ s' = [s EXCEPT !.at = "upload"] /\ ans' = "none"
  /\ UNCHANGED <<budgetVars, snaps, journal, row, flags, puts, posts>> /\ SenderUnchanged

\* The files were swept: their ids go, and what is missing is uploaded again, once.
NotAttachable ==
  /\ s.at = "answered" /\ ans = "not_attachable" /\ row # "accepted"
  /\ IF s.again THEN Fails
     ELSE /\ fid' = [f \in 1..MaxFiles |-> NoId] /\ s' = [s EXCEPT !.at = "upload", !.again = TRUE]
          /\ ans' = "none"
          /\ UNCHANGED <<budgetVars, snaps, journal, row, flags, puts, posts>> /\ SenderUnchanged

Refused == s.at = "answered" /\ ans = "refused" /\ row # "accepted" /\ Fails

\* The snapshots go after the commit; what can't be removed stays until the next start.
Unlink ==
  /\ s.at = "unlink" /\ s' = [s EXCEPT !.at = "clear"]
  /\ \/ snaps' = snaps \ journal /\ UNCHANGED budgetVars
     \/ Fault /\ UNCHANGED snaps
  /\ UNCHANGED <<journal, row, fid, flags, ans, puts, posts>> /\ SenderUnchanged
Clear ==
  /\ s.at = "clear" /\ s' = Free /\ journal' = {}
  /\ UNCHANGED <<budgetVars, snaps, row, fid, flags, ans, puts, posts>> /\ SenderUnchanged

SenderStep ==
  /\ up
  /\ \/ Begin \/ UploadFiles \/ NextFile \/ Create \/ CreateRefused \/ CreateLost
     \/ Put \/ PutStops \/ PutGivenUp \/ PutAnswered \/ Record
     \/ Send \/ SendLost \/ Sent \/ NotAttachable \/ Refused \/ Unlink \/ Clear

Crash ==
  /\ up /\ Fault /\ up' = FALSE
  /\ call' = IF call = "copying" THEN "done" ELSE call
  /\ flags' = "none" /\ s' = Free /\ ans' = "none" /\ deleting' = FALSE
  /\ puts' = Abandoned
  /\ UNCHANGED <<snaps, journal, row, fid, rows, bytes, left, posts, sweep, removing, channel,
                 message, sent, gone>>

\* open: journalled deletions and snapshots no row names; some may stay.
Open ==
  /\ ~up /\ up' = TRUE
  /\ row' = IF row = "sending" THEN "pending" ELSE row
  /\ \/ /\ snaps' = (snaps \ journal) \cap (IF row = "none" THEN {} ELSE Files)
        /\ journal' = {} /\ UNCHANGED budgetVars
     \/ Fault /\ UNCHANGED <<snaps, journal>>
  /\ UNCHANGED <<call, fid, flags, s, deleting, ans, serverVars>>

CallStep == Enqueue \/ CopyFile \/ CopyFails \/ Insert
Device == CallStep \/ Cancel \/ List \/ Retry \/ AskDelete \/ TakeDelete \/ SenderStep \/ Crash \/ Open
Server ==
  \/ \E p \in puts : PutStep(p)
  \/ \E ids \in posts : LatePost(ids)
  \/ \E id \in Ids : DeleteFile(id) \/ RemoveBytes(id)
  \/ DeleteMessage \/ DeleteChannel \/ SweepStep \/ Restart
  \/ \E age \in {Hour, Day}, frozen \in BOOLEAN : Later(age, frozen)

Next == Device \/ Server
Spec == Init /\ [][Next]_vars

\* Each task is run by its runtime, the sweep every ten minutes, and time goes on,
\* also between its passes (hence strong fairness of Later).
Serve(cur) == \E p \in puts : p.cur = cur /\ PutStep(p)
Fairness ==
  /\ WF_vars(CallStep) /\ WF_vars(SenderStep) /\ WF_vars(TakeDelete) /\ WF_vars(Open)
  /\ \A cur \in BOOLEAN : WF_vars(Serve(cur))
  /\ WF_vars(\E id \in Ids : RemoveBytes(id))
  /\ WF_vars(SweepStep) /\ SF_vars(Later(Day, FALSE))
FairSpec == Spec /\ Fairness

-----------------------------------------------------------------------------
(* What it promises.                                                       *)

\* A committed file has its bytes (download_content finds them), and a row that isn't
\* sent its snapshots, whatever crashed or was swept meanwhile.
AttachInv ==
  /\ TypeOK
  /\ \A i \in Ids : rows[i].st = "committed" => bytes[i] # "none"
  /\ \A i \in Ids : rows[i].on => rows[i].st = "committed"
  /\ row # "none" => snaps = Files
  /\ \A f \in Files : Cardinality(Its(f)) <= 1

\* A stored message has all its files, each attached with its bytes, except those that
\* somebody deleted: the sweep and lost answers take none (sweep_once, _attach_files).
SentWhole ==
  message = "stored" =>
    /\ sent = Files
    /\ \A f \in Files \ gone : \E i \in Its(f) : rows[i].on /\ bytes[i] # "none"

Orphan(i) == rows[i].st = "none" /\ (bytes[i] # "none" \/ left[i] # "none")
Spare(i) == rows[i].st # "none" /\ ~rows[i].on

\* In the end nothing unattached is left at the server, on disk or in its table
\* (sweep_once), whatever crashed, was cancelled or given up on.
LeftoversGo == <>[](\A i \in Ids : ~Orphan(i) /\ ~Spare(i))

\* A queued message is sent, fails with its reason or is deleted: nothing it waits for
\* (a PUT in flight, a swept row, its own earlier send) blocks it for good.
QueuedEnds == (row = "pending") ~> (row \in {"none", "failed"})

\* A Delete doesn't wait for uploads (outbox.rs: "so a Delete never waits behind hours of
\* upload for the lock"): once it is asked, no PUT begins.
DeleteStopsUploads == [][deleting => ~(s.at = "put" /\ s'.at = "putting")]_vars
=============================================================================
