-------------------------- MODULE AttachmentsProofs --------------------------
(***************************************************************************)
(* The proofs about Attachments: whatever fails, is retried, deleted or    *)
(* swept meanwhile, a committed file has its bytes, a file has one row, a  *)
(* queued message its snapshots, and a stored one all its files.           *)
(*                                                                         *)
(* The argument at the server (RowsInv): a PUT that has updated its row is *)
(* the only one to (OneWriter), and nobody else writes that row until it   *)
(* commits (Renaming); ids whose bytes are to be removed have no row, and  *)
(* aren't used again before (ToRemove); and a pass of the sweep that looks *)
(* for bytes without a row has seen every row with old ones (Seen).  On    *)
(* the device (DeviceInv): an attempt works on a row (Working), nothing is *)
(* copied or left to delete then (Whole), and it sends when each file has  *)
(* an id (Complete).                                                       *)
(***************************************************************************)
EXTENDS Attachments, FiniteSetTheorems, TLAPS

HasBytes == \A i \in Ids : rows[i].st = "committed" => bytes[i] # "none"
AttachedStays == \A i \in Ids : rows[i].on => rows[i].st = "committed"
OneRow == \A i, j \in Ids : i[1] = j[1] /\ rows[i].st # "none" /\ rows[j].st # "none" => i = j

Writes(p) == p.at \in {"rename", "commit"}
Renaming == \A p \in puts : Writes(p) =>
  rows[p.id].st = "pending" /\ (p.at = "commit" => bytes[p.id] # "none")
OneWriter == \A p, q \in puts : Writes(p) /\ Writes(q) /\ p.id = q.id => p = q
ToRemove == \A i \in removing \cup sweep.doomed : rows[i].st = "none"
Seen ==
  sweep.at \in {"remove", "orphans"} =>
    \A i \in Ids \ sweep.known : rows[i].st # "none" =>
      bytes[i] # "stale" /\ \A p \in puts : p.id = i => p.part # "stale"

RowsInv == HasBytes /\ AttachedStays /\ OneRow /\ Renaming /\ OneWriter /\ ToRemove /\ Seen

Idle == s.at \in {"free", "unlink", "clear"}
Whole == row # "none" => snaps = Files /\ journal = {} /\ s.at \notin {"unlink", "clear"}
Working == ~Idle => row # "none"
Copying == call # "done" => row = "none" /\ s.at = "free" /\ journal = {}
OfIts(f, i) == i \in Ids /\ i[1] = f
AtFile ==
  /\ s.at \in {"create", "put", "putting", "record"} => s.f \in Files
  /\ s.at \in {"put", "putting", "record"} => OfIts(s.f, s.id)
Named == \A f \in 1..MaxFiles : fid[f] = NoId \/ OfIts(f, fid[f])
Complete == s.at \in {"post", "answered"} \/ row = "accepted" => \A f \in Files : OfIts(f, fid[f])

DeviceInv == Whole /\ Working /\ Copying /\ AtFile /\ Named /\ Complete

\* Every send carries an id of each file.
AllFiles(ids) == (\A i \in ids : i \in Ids /\ i[1] \in Files) /\ \A f \in Files : \E i \in ids : i[1] = f
PostsInv == \A ids \in posts : AllFiles(ids)

IInv == TypeOK /\ RowsInv /\ DeviceInv /\ PostsInv /\ SentWhole

-----------------------------------------------------------------------------
(* What the definitions mean.                                              *)

\* No id is none of the ids.
LEMMA NoIdIsNone == NoId \notin Ids
  BY DEF NoId, Ids

\* The bounds are positive.
LEMMA CountsAre == MaxFiles \in Nat \ {0} /\ Copies \in Nat \ {0} /\ MaxUploads \in Nat \ {0}
  BY CountsAssumption

\* A part is there as it was, older, or gone.
LEMMA PartIs ==
  ASSUME NEW p \in Upload, NEW part \in Times
  PROVE  /\ [p EXCEPT !.part = part] \in Upload
         /\ [p EXCEPT !.part = part].id = p.id
         /\ [p EXCEPT !.part = part].at = p.at
         /\ [p EXCEPT !.part = part].part = part
  BY SMT DEF Upload

\* The handler of p goes on: the other uploads are as they were.
LEMMA GoesOn ==
  ASSUME puts \subseteq Upload, NEW p \in puts,
         NEW at \in {"read", "enter", "stream", "received", "rename", "commit"}, NEW part \in Times,
         On(p, at, part)
  PROVE  /\ puts' \subseteq Upload
         /\ \A q \in puts' : \/ q \in puts /\ q # p
                             \/ q.id = p.id /\ q.at = at /\ q.part = part
  <1> DEFINE moved == [p EXCEPT !.at = at]
             next == [moved EXCEPT !.part = part]
  <1>1. moved \in Upload /\ moved.id = p.id /\ moved.at = at
    BY DEF Upload
  <1>2. puts' = (puts \ {p}) \cup {next}
    BY DEF On
  <1> HIDE DEF moved
  <1>3. next \in Upload /\ next.id = moved.id /\ next.at = moved.at /\ next.part = part
    BY <1>1, PartIs
  <1> HIDE DEF next
  <1> QED
    BY <1>1, <1>2, <1>3

\* An upload that isn't the current one any more.
LEMMA CurIs ==
  ASSUME NEW p \in Upload
  PROVE  /\ [p EXCEPT !.cur = FALSE] \in Upload
         /\ [p EXCEPT !.cur = FALSE].id = p.id
         /\ [p EXCEPT !.cur = FALSE].at = p.at
         /\ [p EXCEPT !.cur = FALSE].part = p.part
  <1>1. \A cur \in BOOLEAN : /\ [p EXCEPT !.cur = cur] \in Upload
                           /\ [p EXCEPT !.cur = cur].id = p.id
                           /\ [p EXCEPT !.cur = cur].at = p.at
                           /\ [p EXCEPT !.cur = cur].part = p.part
    BY SMT DEF Upload
  <1> QED
    BY <1>1

\* Uploads whose caller is gone are of the same files.
LEMMA AbandonedIs ==
  ASSUME puts \subseteq Upload
  PROVE  /\ Abandoned \subseteq Upload
         /\ \A q \in Abandoned : \E p \in puts : q.id = p.id /\ q.at = p.at /\ q.part = p.part
  BY CurIs DEF Abandoned

-----------------------------------------------------------------------------
(* The server's types, and what a step of an upload may do.                *)

ServerTypeOK ==
  /\ rows \in [Ids -> FileRow] /\ bytes \in [Ids -> Times] /\ left \in [Ids -> Times]
  /\ puts \subseteq Upload /\ posts \subseteq SUBSET Ids /\ sweep \in Pass /\ removing \subseteq Ids
  /\ channel \in BOOLEAN /\ message \in {"none", "stored", "deleted"}
  /\ sent \subseteq Files /\ gone \subseteq 1..MaxFiles

DeviceTypeOK ==
  /\ up \in BOOLEAN /\ snaps \subseteq Files /\ journal \subseteq Files /\ call \in {"new", "copying", "done"}
  /\ row \in {"none", "pending", "sending", "failed", "accepted"} /\ fid \in [1..MaxFiles -> Ids \cup {NoId}]
  /\ flags \in {"none", "on", "cancelled"} /\ s \in Sender /\ deleting \in BOOLEAN

Answers == {"none", "ok", "committed", "gone", "retry", "refused", "not_attachable"}
BudgetsOK == n \in 1..MaxFiles /\ {faults, asks, deletes} \subseteq Nat

\* The types: the budgets', the device's, the answers', the server's.
LEMMA TypesAre == TypeOK <=> BudgetsOK /\ DeviceTypeOK /\ ans \in Answers /\ ServerTypeOK
  BY DEF TypeOK, BudgetsOK, DeviceTypeOK, Answers, ServerTypeOK

\* The types of the next state, part by part.
LEMMA TypesAreNext ==
  ASSUME BudgetsOK', DeviceTypeOK', ans' \in Answers, ServerTypeOK'
  PROVE  TypeOK'
  BY DEF TypeOK, BudgetsOK, DeviceTypeOK, Answers, ServerTypeOK

\* The budgets only go down.
LEMMA Spent ==
  ASSUME BudgetsOK, Fault \/ Asked \/ Deletes \/ UNCHANGED budgetVars
  PROVE  BudgetsOK' /\ n' = n /\ Files' = Files
  BY DEF BudgetsOK, Fault, Asked, Deletes, budgetVars, Files

\* No step of an upload makes its part older, and none is the second to write a row.
LEMMA UploadsMove ==
  ASSUME RowsInv, UNCHANGED <<rows, bytes, removing, sweep>>,
         \A q \in puts' : Writes(q) =>
           rows[q.id].st = "pending" /\ (q.at = "commit" => bytes[q.id] # "none"),
         \A q, r \in puts' : Writes(q) /\ Writes(r) /\ q.id = r.id => q = r,
         \A q \in puts' : q.part = "stale" => \E p \in puts : p.id = q.id /\ p.part = "stale"
  PROVE  RowsInv'
  <1>1. HasBytes' /\ AttachedStays' /\ OneRow'
    BY DEF RowsInv, HasBytes, AttachedStays, OneRow
  <1>2. Renaming' /\ OneWriter'
    BY DEF Renaming, OneWriter, Writes
  <1>3. ToRemove' /\ Seen'
    BY DEF RowsInv, ToRemove, Seen
  <1> QED
    BY <1>1, <1>2, <1>3 DEF RowsInv

\* An upload that ends is one less.
LEMMA EndIs ==
  ASSUME puts \subseteq Upload, NEW p \in puts, NEW a \in Answers, ans \in Answers, End(p, a)
  PROVE  puts' = puts \ {p} /\ puts' \subseteq Upload /\ ans' \in Answers
  BY DEF End

\* A row that is committed can be answered with.
LEMMA AnswerIs ==
  ASSUME NEW id \in Ids, rows \in [Ids -> FileRow], rows[id].st # "pending"
  PROVE  Answer(id) \in Answers
  BY DEF Answer, Answers, FileRow

\* An upload that ends leaves the rest as it was.
LEMMA UploadEnds ==
  ASSUME RowsInv, NEW p \in puts, puts' = puts \ {p}, UNCHANGED <<rows, bytes, removing, sweep>>
  PROVE  RowsInv'
  BY UploadsMove DEF RowsInv, Renaming, OneWriter

\* One that goes on is the only writer of its row, and says so.
LEMMA UploadGoesOn ==
  ASSUME TypeOK, RowsInv, NEW p \in puts,
         NEW at \in {"read", "enter", "stream", "received", "rename", "commit"}, NEW part \in Times,
         On(p, at, part), UNCHANGED <<rows, bytes, removing, sweep>>,
         part = "stale" => p.part = "stale",
         at \in {"rename", "commit"} =>
           /\ rows[p.id].st = "pending" /\ (at = "commit" => bytes[p.id] # "none")
           /\ \A q \in puts : Writes(q) /\ q.id = p.id => q = p
  PROVE  RowsInv' /\ puts' \subseteq Upload /\ ans' = ans
  <1>1. puts \subseteq Upload
    BY TypesAre DEF ServerTypeOK
  <1>2. /\ puts' \subseteq Upload
        /\ \A q \in puts' : \/ q \in puts /\ q # p
                            \/ q.id = p.id /\ q.at = at /\ q.part = part
    BY <1>1, GoesOn
  <1>3. puts' = (puts \ {p}) \cup {[p EXCEPT !.at = at, !.part = part]} /\ ans' = ans
    BY DEF On
  <1>4. \A q \in puts' : Writes(q) =>
          rows[q.id].st = "pending" /\ (q.at = "commit" => bytes[q.id] # "none")
    BY <1>2 DEF RowsInv, Renaming, Writes
  <1>5. \A q \in puts' : q.part = "stale" => \E r \in puts : r.id = q.id /\ r.part = "stale"
    BY <1>2
  <1>6. \A q, r \in puts' : Writes(q) /\ Writes(r) /\ q.id = r.id => q = r
    <2> DEFINE next == [p EXCEPT !.at = at, !.part = part]
    <2>1. next.id = p.id /\ next.at = at
      BY <1>1 DEF Upload
    <2>2. puts' = (puts \ {p}) \cup {next}
      BY <1>3
    <2> HIDE DEF next
    <2> QED
      BY <2>1, <2>2 DEF RowsInv, OneWriter, Writes
  <1> QED
    BY <1>2, <1>3, <1>4, <1>5, <1>6, UploadsMove

-----------------------------------------------------------------------------
(* The server's steps: uploads.                                            *)

\* The part becomes the file: what was received is the file's bytes now.
LEMMA RenameKeeps ==
  ASSUME TypeOK, RowsInv, NEW p \in puts, p.at = "rename", p.part # "none",
         On(p, "commit", "none"), bytes' = [bytes EXCEPT ![p.id] = p.part],
         UNCHANGED <<rows, removing, sweep>>
  PROVE  RowsInv' /\ puts' \subseteq Upload /\ ans' = ans /\ bytes' \in [Ids -> Times]
  <1>1. puts \subseteq Upload /\ bytes \in [Ids -> Times] /\ rows \in [Ids -> FileRow]
    BY TypesAre DEF ServerTypeOK
  <1>2. p.id \in Ids /\ p.part \in Times
    BY <1>1 DEF Upload
  <1>3. /\ puts' \subseteq Upload
        /\ \A q \in puts' : \/ q \in puts /\ q # p
                            \/ q.id = p.id /\ q.at = "commit" /\ q.part = "none"
    BY <1>1, GoesOn DEF Times
  <1>4. /\ bytes' \in [Ids -> Times] /\ bytes'[p.id] = p.part
        /\ \A i \in Ids : i # p.id => bytes'[i] = bytes[i]
    BY <1>1, <1>2
  <1>5. rows[p.id].st = "pending" /\ \A q \in puts : Writes(q) /\ q.id = p.id => q = p
    BY DEF RowsInv, Renaming, OneWriter, Writes
  <1>6. HasBytes' /\ AttachedStays' /\ OneRow' /\ ToRemove'
    BY <1>4, <1>5 DEF RowsInv, HasBytes, AttachedStays, OneRow, ToRemove
  <1>7. Renaming'
    BY <1>1, <1>3, <1>4, <1>5 DEF RowsInv, Renaming, Writes, Upload
  <1>8. OneWriter'
    <2> DEFINE next == [p EXCEPT !.at = "commit", !.part = "none"]
    <2>1. next.id = p.id
      BY <1>1 DEF Upload
    <2>2. puts' = (puts \ {p}) \cup {next}
      BY DEF On
    <2> HIDE DEF next
    <2> QED
      BY <2>1, <2>2, <1>5 DEF RowsInv, OneWriter
  <1>9. Seen'
    BY <1>1, <1>2, <1>3, <1>4 DEF RowsInv, Seen
  <1> QED
    BY <1>3, <1>4, <1>6, <1>7, <1>8, <1>9 DEF RowsInv, On

\* The row a PUT has updated is committed: the file has its bytes.
LEMMA CommitKeeps ==
  ASSUME TypeOK, RowsInv, NEW p \in puts, p.at = "commit", puts' = puts \ {p},
         rows' = [rows EXCEPT ![p.id].st = "committed"], UNCHANGED <<bytes, removing, sweep>>
  PROVE  /\ RowsInv' /\ rows' \in [Ids -> FileRow]
         /\ \A i \in Ids : rows'[i].on = rows[i].on /\ (rows'[i].st = "none" <=> rows[i].st = "none")
  <1>1. puts \subseteq Upload /\ rows \in [Ids -> FileRow] /\ p.id \in Ids
    BY TypesAre DEF ServerTypeOK, Upload
  <1>2. rows[p.id] \in FileRow
    BY <1>1
  <1> DEFINE new == [rows[p.id] EXCEPT !.st = "committed"]
  <1>3. new \in FileRow /\ new.st = "committed" /\ new.on = rows[p.id].on
    BY <1>2 DEF FileRow
  <1>4. rows' = [rows EXCEPT ![p.id] = new]
    BY <1>1, <1>2
  <1> HIDE DEF new
  <1>5. /\ rows' \in [Ids -> FileRow] /\ rows'[p.id] = new
        /\ \A i \in Ids : i # p.id => rows'[i] = rows[i]
    BY <1>1, <1>3, <1>4
  <1>6. rows[p.id].st = "pending" /\ bytes[p.id] # "none"
    BY DEF RowsInv, Renaming, Writes
  <1>7. \A i \in Ids : rows'[i].on = rows[i].on /\ (rows'[i].st = "none" <=> rows[i].st = "none")
    BY <1>1, <1>3, <1>5, <1>6
  <1>8. HasBytes' /\ AttachedStays'
    BY <1>3, <1>5, <1>6 DEF RowsInv, HasBytes, AttachedStays
  <1>9. OneRow'
    BY <1>7 DEF RowsInv, OneRow
  <1>10. Renaming' /\ OneWriter'
    BY <1>1, <1>5 DEF RowsInv, Renaming, OneWriter, Writes, Upload
  <1>11. sweep \in Pass /\ removing \subseteq Ids
    BY TypesAre DEF ServerTypeOK
  <1>12. sweep.doomed \subseteq Ids
    BY <1>11 DEF Pass
  <1>13. ToRemove'
    BY <1>7, <1>11, <1>12 DEF RowsInv, ToRemove
  <1>14. Seen'
    BY <1>7 DEF RowsInv, Seen
  <1> QED
    BY <1>5, <1>7, <1>8, <1>9, <1>10, <1>13, <1>14 DEF RowsInv

\* What a step of an upload leaves of the rest.
UploadKeeps ==
  /\ \A i \in Ids : rows'[i].on = rows[i].on /\ (rows'[i].st = "none" <=> rows[i].st = "none")
  /\ UNCHANGED <<deviceVars, posts, message, sent, gone>>

\* Every step of a PUT keeps what is known of rows and bytes, and the sends and passes
\* alone.
LEMMA PutStepKeeps ==
  ASSUME TypeOK, RowsInv, NEW p \in puts, PutStep(p)
  PROVE  TypeOK' /\ RowsInv' /\ UploadKeeps /\ n' = n
  <1>1. /\ puts \subseteq Upload /\ rows \in [Ids -> FileRow] /\ ans \in Answers /\ bytes \in [Ids -> Times]
        /\ BudgetsOK /\ DeviceTypeOK /\ ServerTypeOK
    BY TypesAre DEF ServerTypeOK
  <1>2. p \in Upload /\ p.id \in Ids /\ p.part \in Times
    BY <1>1 DEF Upload
  <1>3. PutUnchanged /\ (Fault \/ UNCHANGED budgetVars)
    BY DEF PutStep, PutRead, PutEnter, PutReceived, PutBroken, PutSwap, PutRename, PutCommit, PutCommitFails
  <1>4. UNCHANGED <<deviceVars, left, posts, sweep, removing, channel, message, sent, gone>>
    BY <1>3 DEF PutUnchanged
  <1>5. BudgetsOK' /\ n' = n /\ Files' = Files
    BY <1>1, <1>3, Spent
  <1>6. DeviceTypeOK'
    BY <1>1, <1>4, <1>5 DEF DeviceTypeOK, deviceVars
  <1> DEFINE Done == /\ RowsInv' /\ puts' \subseteq Upload /\ ans' \in Answers
                     /\ rows' \in [Ids -> FileRow] /\ bytes' \in [Ids -> Times]
                     /\ \A i \in Ids : /\ rows'[i].on = rows[i].on
                                       /\ rows'[i].st = "none" <=> rows[i].st = "none"
  <1>7. ASSUME UNCHANGED <<rows, bytes>>, NEW a \in Answers, End(p, a)
        PROVE  Done
    BY <1>1, <1>4, <1>7, EndIs, UploadEnds
  <1>8. ASSUME UNCHANGED <<rows, bytes>>,
               NEW at \in {"read", "enter", "stream", "received", "rename", "commit"}, NEW part \in Times,
               On(p, at, part), part = "stale" => p.part = "stale",
               at \in {"rename", "commit"} =>
                 /\ rows[p.id].st = "pending" /\ (at = "commit" => bytes[p.id] # "none")
                 /\ \A q \in puts : Writes(q) /\ q.id = p.id => q = p
        PROVE  Done
    BY <1>1, <1>4, <1>8, UploadGoesOn
  <1>9. rows[p.id].st # "pending" => Answer(p.id) \in Answers
    BY <1>1, <1>2, AnswerIs
  <1>10. {"retry", "ok"} \subseteq Answers /\ {"none", "fresh"} \subseteq Times
    BY DEF Answers, Times
  <1> SUFFICES Done
    <2> SUFFICES ASSUME Done
                 PROVE  TypeOK' /\ RowsInv' /\ UploadKeeps /\ n' = n
      OBVIOUS
    <2>1. ServerTypeOK'
      BY <1>1, <1>4, <1>5 DEF ServerTypeOK
    <2> QED
      BY <1>4, <1>5, <1>6, <2>1, TypesAreNext DEF UploadKeeps
  <1> HIDE DEF Done
  <1>11. CASE PutRead(p)
    BY <1>7, <1>8, <1>9, <1>10, <1>11 DEF PutRead
  <1>12. CASE PutEnter(p)
    BY <1>7, <1>8, <1>10, <1>12 DEF PutEnter
  <1>13. CASE PutReceived(p)
    BY <1>2, <1>8, <1>13 DEF PutReceived
  <1>14. CASE PutBroken(p)
    BY <1>7, <1>10, <1>14 DEF PutBroken
  <1>15. CASE PutSwap(p)
    BY <1>2, <1>7, <1>8, <1>9, <1>15 DEF PutSwap, Locked, Writes
  <1>16. CASE PutRename(p)
    BY <1>1, <1>4, <1>7, <1>10, <1>16, RenameKeeps DEF PutRename, Done
  <1>17. CASE PutCommit(p)
    BY <1>1, <1>4, <1>10, <1>17, EndIs, CommitKeeps DEF PutCommit, Done
  <1>18. CASE PutCommitFails(p)
    BY <1>7, <1>10, <1>18 DEF PutCommitFails
  <1> QED
    BY <1>11, <1>12, <1>13, <1>14, <1>15, <1>16, <1>17, <1>18 DEF PutStep

-----------------------------------------------------------------------------
(* The server's steps: deletions, the send, the sweep.                     *)

\* Uploads whose parts age or go are the uploads they were.
LEMMA PartsChange ==
  ASSUME puts \subseteq Upload, OneWriter, NEW G \in [puts -> Times],
         puts' = {[p EXCEPT !.part = G[p]] : p \in puts}
  PROVE  /\ puts' \subseteq Upload /\ OneWriter'
         /\ \A q \in puts' : \E p \in puts : q.id = p.id /\ q.at = p.at /\ q.part = G[p]
  <1>1. \A p \in puts : /\ [p EXCEPT !.part = G[p]] \in Upload
                        /\ [p EXCEPT !.part = G[p]].id = p.id
                        /\ [p EXCEPT !.part = G[p]].at = p.at
                        /\ [p EXCEPT !.part = G[p]].part = G[p]
    BY PartIs
  <1> DEFINE new(p) == [p EXCEPT !.part = G[p]]
  <1>2. puts' = {new(p) : p \in puts}
    OBVIOUS
  <1>3. \A p \in puts : /\ new(p) \in Upload /\ new(p).id = p.id /\ new(p).at = p.at
                        /\ new(p).part = G[p]
    BY <1>1
  <1> HIDE DEF new
  <1>4. OneWriter'
    BY <1>2, <1>3 DEF OneWriter, Writes
  <1> QED
    BY <1>2, <1>3, <1>4

\* Rows that go leave no attached file, no writer and no bytes anybody knows.
LEMMA DropKeeps ==
  ASSUME TypeOK, RowsInv, NEW ids \in SUBSET Ids, DropRows(ids), removing' \subseteq removing \cup ids,
         sweep'.doomed \subseteq sweep.doomed \cup ids,
         sweep'.at \in {"remove", "orphans"} => sweep' = sweep, UNCHANGED <<bytes, puts>>
  PROVE  /\ RowsInv' /\ rows' \in [Ids -> FileRow]
         /\ \A i \in Ids : rows'[i] = IF i \in ids THEN NoRow ELSE rows[i]
  <1>1. /\ puts \subseteq Upload /\ rows \in [Ids -> FileRow] /\ removing \subseteq Ids
        /\ sweep \in Pass
    BY TypesAre DEF ServerTypeOK
  <1>2. NoRow \in FileRow /\ NoRow.st = "none" /\ ~NoRow.on
    BY DEF NoRow, FileRow
  <1>3. \A i \in Ids : rows'[i] = IF i \in ids THEN NoRow ELSE rows[i]
    BY DEF DropRows
  <1>4. rows' \in [Ids -> FileRow]
    BY <1>1, <1>2 DEF DropRows
  <1>5. \A i \in Ids : /\ i \in ids => rows'[i].st = "none" /\ ~rows'[i].on
                       /\ i \notin ids => rows'[i] = rows[i]
    BY <1>2, <1>3
  <1>6. \A p \in puts : p.id \in Ids /\ (Writes(p) => p.id \notin ids)
    BY <1>1 DEF DropRows, Locked, Writes, Upload
  <1>7. sweep.doomed \subseteq Ids
    BY <1>1 DEF Pass
  <1>8. HasBytes' /\ AttachedStays' /\ OneRow'
    BY <1>5 DEF RowsInv, HasBytes, AttachedStays, OneRow
  <1>9. Renaming' /\ OneWriter'
    BY <1>5, <1>6 DEF RowsInv, Renaming, OneWriter, Writes
  <1>10. ToRemove'
    BY <1>1, <1>5, <1>7 DEF RowsInv, ToRemove
  <1>11. Seen'
    BY <1>5 DEF RowsInv, Seen
  <1> QED
    BY <1>3, <1>4, <1>8, <1>9, <1>10, <1>11 DEF RowsInv

\* Bytes that go belong to no row, and no pass has still to learn of them.
LEMMA RemovedKeeps ==
  ASSUME TypeOK, RowsInv, NEW ids \in SUBSET Ids, Removed(ids), \A i \in ids : rows[i].st = "none",
         removing' \subseteq removing, sweep'.doomed \subseteq sweep.doomed,
         sweep'.at \in {"remove", "orphans"} =>
           sweep.at \in {"remove", "orphans"} /\ sweep'.known = sweep.known,
         UNCHANGED rows
  PROVE  /\ RowsInv' /\ bytes' \in [Ids -> Times] /\ left' \in [Ids -> Times] /\ puts' \subseteq Upload
  <1>1. /\ puts \subseteq Upload /\ bytes \in [Ids -> Times] /\ left \in [Ids -> Times]
    BY TypesAre DEF ServerTypeOK
  <1>2. bytes' \in [Ids -> Times] /\ left' \in [Ids -> Times]
    BY <1>1 DEF Removed, Times
  <1>3. \A i \in Ids : rows[i].st # "none" => bytes'[i] = bytes[i]
    BY DEF Removed
  <1> DEFINE G == [p \in puts |-> IF p.id \in ids THEN "none" ELSE p.part]
  <1>4. puts' = {[p EXCEPT !.part = G[p]] : p \in puts}
    BY DEF Removed
  <1>5. G \in [puts -> Times]
    BY <1>1 DEF Upload, Times
  <1>6. \A p \in puts : G[p] = "stale" => p.part = "stale"
    OBVIOUS
  <1> HIDE DEF G
  <1>7. /\ puts' \subseteq Upload /\ OneWriter'
        /\ \A q \in puts' : \E p \in puts : q.id = p.id /\ q.at = p.at /\ q.part = G[p]
    BY <1>1, <1>4, <1>5, PartsChange DEF RowsInv
  <1>8. HasBytes' /\ AttachedStays' /\ OneRow' /\ ToRemove'
    BY <1>3 DEF RowsInv, HasBytes, AttachedStays, OneRow, ToRemove
  <1>9. \A p \in puts : p.id \in Ids
    BY <1>1 DEF Upload
  <1>10. Renaming'
    BY <1>3, <1>7, <1>9 DEF RowsInv, Renaming, Writes
  <1>11. Seen'
    BY <1>3, <1>6, <1>7 DEF RowsInv, Seen
  <1> QED
    BY <1>2, <1>7, <1>8, <1>10, <1>11 DEF RowsInv

\* The message is stored: its files are attached, and each was there with its bytes.
LEMMA PostKeeps ==
  ASSUME TypeOK, RowsInv, SentWhole, NEW ids \in SUBSET Ids, AllFiles(ids), Post(ids)
  PROVE  /\ RowsInv' /\ rows' \in [Ids -> FileRow] /\ message' \in {"none", "stored", "deleted"}
         /\ sent' \subseteq Files
         /\ n' = n => SentWhole'
  <1>1. /\ puts \subseteq Upload /\ rows \in [Ids -> FileRow] /\ removing \subseteq Ids /\ sweep \in Pass
        /\ bytes \in [Ids -> Times] /\ message \in {"none", "stored", "deleted"} /\ sent \subseteq Files
    BY TypesAre DEF ServerTypeOK
  <1>2. UNCHANGED <<bytes, puts, sweep, removing, gone>>
    BY DEF Post
  <1>3. CASE UNCHANGED <<message, sent, rows>>
    <2>1. RowsInv'
      BY <1>2, <1>3 DEF RowsInv, HasBytes, AttachedStays, OneRow, Renaming, OneWriter, ToRemove, Seen
    <2>2. n' = n => SentWhole'
      BY <1>2, <1>3 DEF SentWhole, Its, Files
    <2> QED
      BY <1>1, <1>3, <2>1, <2>2
  <1>4. CASE message = "none" /\ PostAnswer(ids) = "ok" /\ ~UNCHANGED <<message, sent, rows>>
    <2> DEFINE new == [NoRow EXCEPT !.st = "committed", !.on = TRUE]
    <2>1. /\ message' = "stored" /\ sent' = {i[1] : i \in ids}
          /\ rows' = [i \in Ids |-> IF i \in ids THEN new ELSE rows[i]]
      BY <1>4 DEF Post
    <2> DEFINE half == [NoRow EXCEPT !.st = "committed"]
    <2>2. half \in FileRow /\ half.st = "committed"
      <3>1. NoRow \in FileRow
        BY DEF NoRow, FileRow
      <3> QED
        BY <3>1 DEF FileRow
    <2>3. new = [half EXCEPT !.on = TRUE]
      OBVIOUS
    <2> HIDE DEF half
    <2>4. new \in FileRow /\ new.st = "committed" /\ new.on
      <3>1. \A on \in BOOLEAN : /\ [half EXCEPT !.on = on] \in FileRow
                              /\ [half EXCEPT !.on = on].st = half.st
                              /\ [half EXCEPT !.on = on].on = on
        BY <2>2 DEF FileRow
      <3> QED
        BY <2>2, <2>3, <3>1
    <2> HIDE DEF new
    <2>5. rows' \in [Ids -> FileRow]
      BY <1>1, <2>1, <2>4
    <2>6. \A i \in Ids : rows'[i] = IF i \in ids THEN new ELSE rows[i]
      BY <2>1
    <2>7. \A i \in ids : rows[i].st = "committed" /\ bytes[i] # "none"
      BY <1>4 DEF PostAnswer, RowsInv, HasBytes
    <2>8. \A i \in Ids : /\ rows'[i].st = rows[i].st
                         /\ rows'[i].on => i \in ids \/ rows[i].on
                         /\ i \in ids => rows'[i].on
      BY <2>4, <2>6, <2>7
    <2>9. HasBytes' /\ AttachedStays' /\ OneRow' /\ Seen'
      BY <1>2, <2>7, <2>8 DEF RowsInv, HasBytes, AttachedStays, OneRow, Seen
    <2>10. \A p \in puts : p.id \in Ids
      BY <1>1 DEF Upload
    <2>11. Renaming' /\ OneWriter'
      BY <1>2, <2>8, <2>10 DEF RowsInv, Renaming, OneWriter, Writes
    <2>12. sweep.doomed \subseteq Ids
      BY <1>1 DEF Pass
    <2>13. ToRemove'
      BY <1>1, <1>2, <2>8, <2>12 DEF RowsInv, ToRemove
    <2>14. sent' = Files
      BY <2>1 DEF AllFiles
    <2>15. n' = n => SentWhole'
      BY <1>2, <2>7, <2>8, <2>14 DEF SentWhole, AllFiles, Its, Files
    <2> QED
      BY <2>1, <2>5, <2>9, <2>11, <2>13, <2>14, <2>15 DEF RowsInv
  <1> QED
    BY <1>3, <1>4 DEF Post

\* Time ages rows, files and what nobody writes: a pass that looks for old bytes has ended.
LEMMA LaterKeeps ==
  ASSUME TypeOK, RowsInv, NEW age \in {Hour, Day}, NEW frozen \in BOOLEAN, Later(age, frozen)
  PROVE  /\ RowsInv' /\ rows' \in [Ids -> FileRow] /\ bytes' \in [Ids -> Times]
         /\ left' \in [Ids -> Times] /\ puts' \subseteq Upload
         /\ \A i \in Ids : rows'[i].on = rows[i].on
  <1>1. /\ puts \subseteq Upload /\ rows \in [Ids -> FileRow] /\ bytes \in [Ids -> Times]
        /\ left \in [Ids -> Times] /\ removing \subseteq Ids /\ sweep \in Pass
    BY TypesAre DEF ServerTypeOK
  <1>2. \A x \in Times : Aged(x) \in Times /\ (Aged(x) = "none" <=> x = "none")
    BY DEF Aged, Times
  <1>3. /\ bytes' \in [Ids -> Times] /\ left' \in [Ids -> Times]
        /\ \A i \in Ids : bytes'[i] = "none" <=> bytes[i] = "none"
    BY <1>1, <1>2 DEF Later
  <1> DEFINE age2(i) == IF rows[i].st = "none" \/ rows[i].on \/ rows[i].age > age THEN rows[i].age ELSE age
             new(i) == [rows[i] EXCEPT !.age = age2(i)]
  <1>4. rows' = [i \in Ids |-> new(i)]
    BY DEF Later
  <1>5. \A i \in Ids : rows[i] \in FileRow /\ age2(i) \in {0, Hour, Day}
    BY <1>1 DEF FileRow
  <1> HIDE DEF age2
  <1>6. \A i \in Ids : new(i) \in FileRow /\ new(i).st = rows[i].st /\ new(i).on = rows[i].on
    BY <1>5 DEF FileRow
  <1> HIDE DEF new
  <1>7. /\ rows' \in [Ids -> FileRow]
        /\ \A i \in Ids : rows'[i].st = rows[i].st /\ rows'[i].on = rows[i].on
    BY <1>4, <1>6
  <1> DEFINE G == [p \in puts |-> IF frozen THEN Aged(p.part) ELSE p.part]
  <1>8. puts' = {[p EXCEPT !.part = G[p]] : p \in puts}
    BY DEF Later
  <1>9. G \in [puts -> Times]
    BY <1>1, <1>2 DEF Upload
  <1> HIDE DEF G
  <1>10. /\ puts' \subseteq Upload /\ OneWriter'
         /\ \A q \in puts' : \E p \in puts : q.id = p.id /\ q.at = p.at /\ q.part = G[p]
    BY <1>1, <1>8, <1>9, PartsChange DEF RowsInv
  <1>11. UNCHANGED <<sweep, removing>> /\ sweep.at \notin {"remove", "orphans"}
    BY DEF Later
  <1>12. HasBytes' /\ AttachedStays' /\ OneRow'
    BY <1>3, <1>7 DEF RowsInv, HasBytes, AttachedStays, OneRow
  <1>13. sweep.doomed \subseteq Ids
    BY <1>1 DEF Pass
  <1>14. ToRemove' /\ Seen'
    BY <1>1, <1>7, <1>11, <1>13 DEF RowsInv, ToRemove, Seen
  <1>15. \A p \in puts : p.id \in Ids
    BY <1>1 DEF Upload
  <1>16. Renaming'
    BY <1>3, <1>7, <1>10, <1>15 DEF RowsInv, Renaming, Writes
  <1> QED
    BY <1>3, <1>7, <1>10, <1>12, <1>14, <1>16 DEF RowsInv

\* Files without a row that are old go, and parts: every row was seen that has old bytes.
LEMMA OrphansKeep ==
  ASSUME TypeOK, RowsInv, SweepOrphans
  PROVE  /\ RowsInv' /\ bytes' \in [Ids -> Times] /\ left' \in [Ids -> Times] /\ puts' \subseteq Upload
  <1>1. /\ puts \subseteq Upload /\ bytes \in [Ids -> Times] /\ left \in [Ids -> Times]
    BY TypesAre DEF ServerTypeOK
  <1>2. bytes' \in [Ids -> Times] /\ left' \in [Ids -> Times]
    BY <1>1 DEF SweepOrphans, Times
  <1>3. rows' = rows /\ removing' = removing /\ sweep.at = "orphans" /\ sweep' = Resting
    BY DEF SweepOrphans, SweepUnchanged
  <1>4. \A i \in Ids : rows[i].st # "none" => bytes'[i] = bytes[i]
    BY <1>3 DEF SweepOrphans, RowsInv, Seen
  <1> DEFINE G == [p \in puts |-> IF p.part = "stale" THEN "none" ELSE p.part]
  <1>5. puts' = {[p EXCEPT !.part = G[p]] : p \in puts}
    BY DEF SweepOrphans
  <1>6. G \in [puts -> Times]
    BY <1>1 DEF Upload, Times
  <1> HIDE DEF G
  <1>7. /\ puts' \subseteq Upload /\ OneWriter'
        /\ \A q \in puts' : \E p \in puts : q.id = p.id /\ q.at = p.at /\ q.part = G[p]
    BY <1>1, <1>5, <1>6, PartsChange DEF RowsInv
  <1>8. HasBytes' /\ AttachedStays' /\ OneRow'
    BY <1>3, <1>4 DEF RowsInv, HasBytes, AttachedStays, OneRow
  <1>9. sweep'.doomed = {} /\ sweep'.at = "rest"
    BY <1>3 DEF Resting
  <1>10. ToRemove' /\ Seen'
    BY <1>3, <1>9 DEF RowsInv, ToRemove, Seen
  <1>11. \A p \in puts : p.id \in Ids
    BY <1>1 DEF Upload
  <1>12. Renaming'
    BY <1>3, <1>4, <1>7, <1>11 DEF RowsInv, Renaming, Writes
  <1> QED
    BY <1>2, <1>7, <1>8, <1>10, <1>12 DEF RowsInv

\* A pass: who it leaves alone, what it deletes, which rows it has seen.
LEMMA RestIs == Resting \in Pass /\ Resting.doomed = {} /\ Resting.at = "rest"
  BY DEF Resting, Pass

\* A pass that begins: the rows to delete.
LEMMA StartIs ==
  ASSUME NEW ids \in SUBSET Ids
  PROVE  /\ [Resting EXCEPT !.at = "delete", !.busy = ids] \in Pass
         /\ [Resting EXCEPT !.at = "delete", !.busy = ids].doomed = {}
         /\ [Resting EXCEPT !.at = "delete", !.busy = ids].at = "delete"
  <1>1. [Resting EXCEPT !.at = "delete", !.busy = ids] =
          [at |-> "delete", busy |-> ids, doomed |-> {}, known |-> {}]
    <2> DEFINE half == [Resting EXCEPT !.at = "delete"]
    <2>1. half = [at |-> "delete", busy |-> {}, doomed |-> {}, known |-> {}]
      BY DEF Resting
    <2>2. [Resting EXCEPT !.at = "delete", !.busy = ids] = [half EXCEPT !.busy = ids]
      OBVIOUS
    <2> HIDE DEF half
    <2> QED
      BY <2>1, <2>2
  <1> QED
    BY <1>1 DEF Pass

\* A pass that has deleted its rows.
LEMMA DoomedIs ==
  ASSUME NEW w \in Pass, NEW ids \in SUBSET Ids
  PROVE  /\ [w EXCEPT !.at = "known", !.doomed = ids] \in Pass
         /\ [w EXCEPT !.at = "known", !.doomed = ids].doomed = ids
         /\ [w EXCEPT !.at = "known", !.doomed = ids].at = "known"
  <1>1. [w EXCEPT !.at = "known", !.doomed = ids] =
          [at |-> "known", busy |-> w.busy, doomed |-> ids, known |-> w.known]
    <2> DEFINE half == [w EXCEPT !.at = "known"]
    <2>1. half = [at |-> "known", busy |-> w.busy, doomed |-> w.doomed, known |-> w.known]
      BY DEF Pass
    <2>2. [w EXCEPT !.at = "known", !.doomed = ids] = [half EXCEPT !.doomed = ids]
      OBVIOUS
    <2> HIDE DEF half
    <2> QED
      BY <2>1, <2>2
  <1> QED
    BY <1>1 DEF Pass

\* A pass that has read the rows there are.
LEMMA KnownIs ==
  ASSUME NEW w \in Pass, NEW ids \in SUBSET Ids
  PROVE  /\ [w EXCEPT !.at = "remove", !.known = ids] \in Pass
         /\ [w EXCEPT !.at = "remove", !.known = ids].doomed = w.doomed
         /\ [w EXCEPT !.at = "remove", !.known = ids].known = ids
  <1>1. [w EXCEPT !.at = "remove", !.known = ids] =
          [at |-> "remove", busy |-> w.busy, doomed |-> w.doomed, known |-> ids]
    <2> DEFINE half == [w EXCEPT !.at = "remove"]
    <2>1. half = [at |-> "remove", busy |-> w.busy, doomed |-> w.doomed, known |-> w.known]
      BY DEF Pass
    <2>2. [w EXCEPT !.at = "remove", !.known = ids] = [half EXCEPT !.known = ids]
      OBVIOUS
    <2> HIDE DEF half
    <2> QED
      BY <2>1, <2>2
  <1> QED
    BY <1>1 DEF Pass

\* A pass that looks for bytes next.
LEMMA OrphansIs ==
  ASSUME NEW w \in Pass
  PROVE  /\ [w EXCEPT !.at = "orphans"] \in Pass
         /\ [w EXCEPT !.at = "orphans"].doomed = w.doomed
         /\ [w EXCEPT !.at = "orphans"].known = w.known
  BY DEF Pass

\* What is attached stays so, or somebody deleted it: a stored message has its files.
LEMMA StaysWhole ==
  ASSUME SentWhole, RowsInv', n' = n, sent' = sent, gone \subseteq gone',
         message' = "stored" => message = "stored",
         \A i \in Ids : rows[i].on /\ message' = "stored" /\ i[1] \notin gone' => rows'[i].on
  PROVE  SentWhole'
  <1>1. \A i \in Ids : rows'[i].on => rows'[i].st = "committed" /\ bytes'[i] # "none"
    BY DEF RowsInv, HasBytes, AttachedStays
  <1> SUFFICES ASSUME message' = "stored"
               PROVE  /\ sent' = Files'
                      /\ \A f \in Files' \ gone' : \E i \in Its(f)' : rows'[i].on /\ bytes'[i] # "none"
    BY DEF SentWhole
  <1>2. Files' = Files /\ sent' = Files'
    BY DEF SentWhole, Files
  <1>3. ASSUME NEW f \in Files \ gone'
        PROVE  \E i \in Its(f)' : rows'[i].on /\ bytes'[i] # "none"
    <2>1. PICK i \in Ids : i[1] = f /\ rows[i].on
      BY <1>3 DEF SentWhole, Its
    <2>2. rows'[i].on
      BY <1>3, <2>1
    <2> QED
      BY <1>1, <2>1, <2>2 DEF Its
  <1> QED
    BY <1>2, <1>3

\* What the server's steps leave of the device.
Untouched == UNCHANGED deviceVars /\ n' = n

\* A step that keeps the rows' invariant and types, and what the message says.
LEMMA ServerKeeps ==
  ASSUME TypeOK, PostsInv, Fault \/ Asked \/ Deletes \/ UNCHANGED budgetVars, UNCHANGED deviceVars,
         ans' \in Answers, rows' \in [Ids -> FileRow], bytes' \in [Ids -> Times], left' \in [Ids -> Times],
         puts' \subseteq Upload, posts' \subseteq posts, sweep' \in Pass, removing' \subseteq Ids,
         channel' \in BOOLEAN, message' \in {"none", "stored", "deleted"}, sent' \subseteq Files,
         gone' \subseteq 1..MaxFiles
  PROVE  TypeOK' /\ PostsInv' /\ Untouched
  <1>1. BudgetsOK /\ DeviceTypeOK /\ ServerTypeOK
    BY TypesAre
  <1>2. BudgetsOK' /\ n' = n /\ Files' = Files
    BY <1>1, Spent
  <1>3. DeviceTypeOK'
    BY <1>1, <1>2 DEF DeviceTypeOK, deviceVars
  <1>4. ServerTypeOK'
    BY <1>1, <1>2 DEF ServerTypeOK
  <1>5. PostsInv'
    BY <1>2 DEF PostsInv, AllFiles
  <1> QED
    BY <1>2, <1>3, <1>4, <1>5, TypesAreNext DEF Untouched

\* Every step of the sweep.
LEMMA SweepKeeps ==
  ASSUME TypeOK, RowsInv, SentWhole, PostsInv, SweepStep
  PROVE  TypeOK' /\ RowsInv' /\ SentWhole' /\ PostsInv' /\ Untouched
  <1>1. ServerTypeOK /\ BudgetsOK /\ ans \in Answers
    BY TypesAre
  <1>2. /\ rows \in [Ids -> FileRow] /\ bytes \in [Ids -> Times] /\ left \in [Ids -> Times]
        /\ puts \subseteq Upload /\ posts \subseteq SUBSET Ids /\ sweep \in Pass /\ removing \subseteq Ids
        /\ channel \in BOOLEAN /\ message \in {"none", "stored", "deleted"}
        /\ sent \subseteq Files /\ gone \subseteq 1..MaxFiles
    BY <1>1 DEF ServerTypeOK
  <1>3. UNCHANGED <<budgetVars, deviceVars, ans, posts, removing, channel, message, sent, gone>>
    BY DEF SweepStep, SweepStart, SweepDelete, SweepKnown, SweepRemove, SweepOrphans, SweepUnchanged
  <1> DEFINE Done == /\ RowsInv' /\ rows' \in [Ids -> FileRow] /\ bytes' \in [Ids -> Times]
                     /\ left' \in [Ids -> Times] /\ puts' \subseteq Upload /\ sweep' \in Pass
                     /\ \A i \in Ids : rows[i].on => rows'[i].on
  <1> SUFFICES Done
    <2>1. ASSUME Done PROVE TypeOK' /\ PostsInv' /\ Untouched
      BY <1>1, <1>2, <1>3, <2>1, ServerKeeps
    <2>2. ASSUME Done PROVE SentWhole'
      <3>1. n' = n
        BY <2>1, <2>2 DEF Untouched
      <3> QED
        BY <1>3, <2>2, <3>1, StaysWhole
    <2> QED
      BY <2>1, <2>2
  <1>4. CASE SweepStart
    <2>1. InFlight \subseteq Ids
      BY <1>2 DEF InFlight, Upload
    <2>2. sweep' \in Pass /\ sweep'.doomed = {} /\ sweep'.at = "delete"
      BY <1>2, <1>4, <2>1, StartIs DEF SweepStart
    <2>3. UNCHANGED <<rows, bytes, left, puts>>
      BY <1>4 DEF SweepStart
    <2>4. RowsInv'
      BY <1>3, <2>2, <2>3 DEF RowsInv, HasBytes, AttachedStays, OneRow, Renaming, OneWriter, ToRemove, Seen
    <2> QED
      BY <1>2, <2>2, <2>3, <2>4
  <1>5. CASE SweepDelete
    <2> DEFINE doomed == {i \in Ids : StalePending(i) \/ Unattached(i)}
    <2>1. doomed \in SUBSET Ids
      OBVIOUS
    <2>2. DropRows(doomed) /\ sweep' = [sweep EXCEPT !.at = "known", !.doomed = doomed]
      BY <1>5 DEF SweepDelete
    <2>3. \A i \in doomed : ~rows[i].on
      BY DEF StalePending, Unattached, RowsInv, AttachedStays
    <2> HIDE DEF doomed
    <2>4. sweep' \in Pass /\ sweep'.doomed = doomed /\ sweep'.at = "known"
      BY <1>2, <2>1, <2>2, DoomedIs
    <2>5. UNCHANGED <<bytes, left, puts>>
      BY <1>5 DEF SweepDelete
    <2>6. /\ RowsInv' /\ rows' \in [Ids -> FileRow]
          /\ \A i \in Ids : rows'[i] = IF i \in doomed THEN NoRow ELSE rows[i]
      BY <1>3, <2>1, <2>2, <2>4, <2>5, DropKeeps
    <2> QED
      BY <1>2, <2>3, <2>4, <2>5, <2>6
  <1>6. CASE SweepKnown
    <2> DEFINE known == {i \in Ids : rows[i].st # "none"}
    <2>1. known \in SUBSET Ids
      OBVIOUS
    <2>2. sweep' = [sweep EXCEPT !.at = "remove", !.known = known] /\ UNCHANGED <<rows, bytes, left, puts>>
      BY <1>6 DEF SweepKnown
    <2>3. \A i \in Ids : rows[i].st # "none" => i \in known
      OBVIOUS
    <2> HIDE DEF known
    <2>4. sweep' \in Pass /\ sweep'.doomed = sweep.doomed /\ sweep'.known = known
      BY <1>2, <2>1, <2>2, KnownIs
    <2>5. RowsInv'
      BY <1>3, <2>2, <2>3, <2>4 DEF RowsInv, HasBytes, AttachedStays, OneRow, Renaming, OneWriter, ToRemove, Seen
    <2> QED
      BY <1>2, <2>2, <2>4, <2>5
  <1>7. CASE SweepRemove
    <2>1. Removed(sweep.doomed) /\ sweep' = [sweep EXCEPT !.at = "orphans"] /\ rows' = rows
          /\ sweep.at = "remove"
      BY <1>7 DEF SweepRemove
    <2>2. sweep' \in Pass /\ sweep'.doomed = sweep.doomed /\ sweep'.known = sweep.known
      BY <1>2, <2>1, OrphansIs
    <2>3. sweep.doomed \in SUBSET Ids /\ \A i \in sweep.doomed : rows[i].st = "none"
      BY <1>2 DEF Pass, RowsInv, ToRemove
    <2>4. /\ RowsInv' /\ bytes' \in [Ids -> Times] /\ left' \in [Ids -> Times] /\ puts' \subseteq Upload
      BY <1>3, <2>1, <2>2, <2>3, RemovedKeeps
    <2> QED
      BY <1>2, <2>1, <2>2, <2>4
  <1>8. CASE SweepOrphans
    <2>1. sweep' \in Pass /\ rows' = rows
      BY <1>2, <1>8, RestIs DEF SweepOrphans
    <2> QED
      BY <1>2, <1>8, <2>1, OrphansKeep
  <1> QED
    BY <1>4, <1>5, <1>6, <1>7, <1>8 DEF SweepStep

\* Files, messages and channels are deleted with their rows.
LEMMA DeletionsKeep ==
  ASSUME TypeOK, RowsInv, SentWhole, PostsInv,
         (\E id \in Ids : DeleteFile(id)) \/ DeleteMessage \/ DeleteChannel
  PROVE  TypeOK' /\ RowsInv' /\ SentWhole' /\ PostsInv' /\ Untouched
  <1>1. /\ bytes \in [Ids -> Times] /\ left \in [Ids -> Times] /\ puts \subseteq Upload
        /\ posts \subseteq SUBSET Ids /\ sweep \in Pass /\ removing \subseteq Ids
        /\ channel \in BOOLEAN /\ message \in {"none", "stored", "deleted"}
        /\ sent \subseteq Files /\ gone \subseteq 1..MaxFiles /\ ans \in Answers
    BY TypesAre DEF ServerTypeOK
  <1>2. /\ UNCHANGED <<deviceVars, ans, bytes, left, puts, posts, sweep, sent>>
        /\ Deletes
    BY DEF DeleteFile, DeleteMessage, DeleteChannel
  <1> DEFINE Done(ids) ==
        /\ RowsInv' /\ rows' \in [Ids -> FileRow]
        /\ \A i \in Ids : rows'[i] = IF i \in ids THEN NoRow ELSE rows[i]
  <1>3. ASSUME NEW ids \in SUBSET Ids, DropRows(ids), removing' \subseteq removing \cup ids
        PROVE  Done(ids) /\ removing' \subseteq Ids
    BY <1>1, <1>2, <1>3, DropKeeps
  <1>4. CASE \E id \in Ids : DeleteFile(id)
    <2>1. PICK id \in Ids : DeleteFile(id)
      BY <1>4
    <2>2. /\ DropRows({id}) /\ removing' = removing \cup {id} /\ gone' = gone \cup {id[1]}
          /\ UNCHANGED <<channel, message>>
      BY <2>1 DEF DeleteFile
    <2>3. Done({id}) /\ removing' \subseteq Ids
      BY <1>3, <2>2
    <2>4. gone' \subseteq 1..MaxFiles
      BY <1>1, <2>2 DEF Ids
    <2>5. TypeOK' /\ PostsInv' /\ Untouched
      BY <1>1, <1>2, <2>2, <2>3, <2>4, ServerKeeps
    <2>6. SentWhole'
      BY <1>2, <2>2, <2>3, <2>5, StaysWhole DEF Untouched
    <2> QED
      BY <2>3, <2>5, <2>6
  <1>5. CASE DeleteMessage
    <2> DEFINE its == {i \in Ids : rows[i].on}
    <2>1. /\ DropRows(its) /\ removing' = removing \cup its /\ message' = "deleted"
          /\ UNCHANGED <<channel, gone>>
      BY <1>5 DEF DeleteMessage
    <2>2. its \in SUBSET Ids
      OBVIOUS
    <2> HIDE DEF its
    <2>3. Done(its) /\ removing' \subseteq Ids
      BY <1>3, <2>1, <2>2
    <2>4. TypeOK' /\ PostsInv' /\ Untouched
      BY <1>1, <1>2, <2>1, <2>3, ServerKeeps
    <2>5. SentWhole'
      BY <1>2, <2>1, <2>3, <2>4, StaysWhole DEF Untouched
    <2> QED
      BY <2>3, <2>4, <2>5
  <1>6. CASE DeleteChannel
    <2>1. DropRows(Ids) /\ channel' = FALSE /\ message' = "none" /\ UNCHANGED <<removing, gone>>
      BY <1>6 DEF DeleteChannel
    <2>2. Done(Ids) /\ removing' \subseteq Ids
      BY <1>3, <2>1
    <2>3. channel' \in BOOLEAN
      BY <2>1, Zenon
    <2>4. TypeOK' /\ PostsInv' /\ Untouched
      BY <1>1, <1>2, <2>1, <2>2, <2>3, ServerKeeps
    <2>5. SentWhole'
      BY <1>2, <2>1, <2>2, <2>4, StaysWhole DEF Untouched
    <2> QED
      BY <2>2, <2>4, <2>5
  <1> QED
    BY <1>4, <1>5, <1>6

\* Bytes are removed of a row that is gone.
LEMMA RemoveBytesKeeps ==
  ASSUME TypeOK, RowsInv, SentWhole, PostsInv, NEW id \in Ids, RemoveBytes(id)
  PROVE  TypeOK' /\ RowsInv' /\ SentWhole' /\ PostsInv' /\ Untouched
  <1>1. /\ rows \in [Ids -> FileRow] /\ posts \subseteq SUBSET Ids /\ sweep \in Pass /\ removing \subseteq Ids
        /\ channel \in BOOLEAN /\ message \in {"none", "stored", "deleted"}
        /\ sent \subseteq Files /\ gone \subseteq 1..MaxFiles /\ ans \in Answers
    BY TypesAre DEF ServerTypeOK
  <1>2. /\ UNCHANGED <<budgetVars, deviceVars, ans, rows, posts, sweep, channel, message, sent, gone>>
        /\ id \in removing /\ Removed({id}) /\ removing' = removing \ {id}
    BY DEF RemoveBytes
  <1>3. \A i \in {id} : rows[i].st = "none"
    BY <1>2 DEF RowsInv, ToRemove
  <1>4. RowsInv' /\ bytes' \in [Ids -> Times] /\ left' \in [Ids -> Times] /\ puts' \subseteq Upload
    BY <1>2, <1>3, RemovedKeeps
  <1>5. TypeOK' /\ PostsInv' /\ Untouched
    BY <1>1, <1>2, <1>4, ServerKeeps
  <1>6. SentWhole'
    BY <1>2, <1>4, <1>5, StaysWhole DEF Untouched
  <1> QED
    BY <1>4, <1>5, <1>6

\* A send that the device stopped waiting for is committed after all.
LEMMA LatePostKeeps ==
  ASSUME TypeOK, RowsInv, SentWhole, PostsInv, NEW ids \in posts, LatePost(ids)
  PROVE  TypeOK' /\ RowsInv' /\ SentWhole' /\ PostsInv' /\ Untouched
  <1>1. /\ rows \in [Ids -> FileRow] /\ bytes \in [Ids -> Times] /\ left \in [Ids -> Times]
        /\ puts \subseteq Upload /\ posts \subseteq SUBSET Ids /\ sweep \in Pass /\ removing \subseteq Ids
        /\ channel \in BOOLEAN /\ message \in {"none", "stored", "deleted"}
        /\ sent \subseteq Files /\ gone \subseteq 1..MaxFiles /\ ans \in Answers
    BY TypesAre DEF ServerTypeOK
  <1>2. UNCHANGED <<budgetVars, deviceVars, ans>> /\ posts' \subseteq posts /\ n' = n
    BY DEF LatePost, budgetVars
  <1>3. UNCHANGED <<bytes, left, puts, sweep, removing, channel, gone>>
    BY DEF LatePost, Post
  <1>4. /\ RowsInv' /\ rows' \in [Ids -> FileRow] /\ message' \in {"none", "stored", "deleted"}
        /\ sent' \subseteq Files /\ SentWhole'
    <2>1. CASE Post(ids)
      <3>1. ids \in SUBSET Ids /\ AllFiles(ids)
        BY <1>1 DEF PostsInv
      <3> QED
        BY <1>2, <2>1, <3>1, PostKeeps
    <2>2. CASE UNCHANGED <<rows, message, sent>>
      <3>1. RowsInv'
        BY <1>3, <2>2 DEF RowsInv, HasBytes, AttachedStays, OneRow, Renaming, OneWriter, ToRemove, Seen
      <3> QED
        BY <1>1, <1>2, <1>3, <2>2, <3>1, StaysWhole
    <2> QED
      BY <2>1, <2>2 DEF LatePost
  <1>5. TypeOK' /\ PostsInv' /\ Untouched
    BY <1>1, <1>2, <1>3, <1>4, ServerKeeps
  <1> QED
    BY <1>4, <1>5

\* The server restarts: uploads and the pass are gone, rows and bytes stay.
LEMMA RestartKeeps ==
  ASSUME TypeOK, RowsInv, SentWhole, PostsInv, Restart
  PROVE  TypeOK' /\ RowsInv' /\ SentWhole' /\ PostsInv' /\ Untouched
  <1>1. /\ rows \in [Ids -> FileRow] /\ bytes \in [Ids -> Times] /\ left \in [Ids -> Times]
        /\ posts \subseteq SUBSET Ids
        /\ channel \in BOOLEAN /\ message \in {"none", "stored", "deleted"}
        /\ sent \subseteq Files /\ gone \subseteq 1..MaxFiles /\ ans \in Answers
    BY TypesAre DEF ServerTypeOK
  <1>2. /\ Fault /\ puts' = {} /\ sweep' = Resting /\ removing' = {}
        /\ UNCHANGED <<deviceVars, rows, bytes, posts, channel, message, sent, gone>>
    BY DEF Restart
  <1>3. left' \in [Ids -> Times]
    BY <1>1 DEF Restart, Times
  <1>4. ans' \in Answers
    BY <1>1 DEF Restart, Answers
  <1>5. RowsInv'
    BY <1>2, RestIs DEF RowsInv, HasBytes, AttachedStays, OneRow, Renaming, OneWriter, ToRemove, Seen
  <1>6. TypeOK' /\ PostsInv' /\ Untouched
    BY <1>1, <1>2, <1>3, <1>4, RestIs, ServerKeeps
  <1>7. SentWhole'
    BY <1>2, <1>5, <1>6, StaysWhole DEF Untouched
  <1> QED
    BY <1>5, <1>6, <1>7

\* Whatever the server does, the files of a stored message are there, and the device's
\* own state is what it was.
LEMMA ServerStepKeeps ==
  ASSUME TypeOK, RowsInv, SentWhole, PostsInv, Server
  PROVE  TypeOK' /\ RowsInv' /\ SentWhole' /\ PostsInv' /\ Untouched
  <1>1. CASE \E p \in puts : PutStep(p)
    <2>1. TypeOK' /\ RowsInv' /\ UploadKeeps /\ n' = n
      BY <1>1, PutStepKeeps
    <2>2. SentWhole'
      BY <2>1, StaysWhole DEF UploadKeeps
    <2>3. PostsInv'
      BY <2>1 DEF UploadKeeps, PostsInv, AllFiles, Files
    <2> QED
      BY <2>1, <2>2, <2>3 DEF UploadKeeps, Untouched
  <1>2. CASE \E age \in {Hour, Day}, frozen \in BOOLEAN : Later(age, frozen)
    <2>1. PICK age \in {Hour, Day}, frozen \in BOOLEAN : Later(age, frozen)
      BY <1>2
    <2>2. /\ RowsInv' /\ rows' \in [Ids -> FileRow] /\ bytes' \in [Ids -> Times]
          /\ left' \in [Ids -> Times] /\ puts' \subseteq Upload
          /\ \A i \in Ids : rows'[i].on = rows[i].on
      BY <2>1, LaterKeeps
    <2>3. /\ Fault \/ UNCHANGED budgetVars
          /\ UNCHANGED <<deviceVars, ans, posts, sweep, removing, channel, message, sent, gone>>
      BY <2>1 DEF Later
    <2>4. /\ sweep \in Pass /\ removing \subseteq Ids /\ channel \in BOOLEAN
          /\ message \in {"none", "stored", "deleted"}
          /\ sent \subseteq Files /\ gone \subseteq 1..MaxFiles /\ ans \in Answers
      BY TypesAre DEF ServerTypeOK
    <2>5. TypeOK' /\ PostsInv' /\ Untouched
      BY <2>2, <2>3, <2>4, ServerKeeps
    <2>6. SentWhole'
      BY <2>2, <2>3, <2>5, StaysWhole DEF Untouched
    <2> QED
      BY <2>2, <2>5, <2>6
  <1> QED
    BY <1>1, <1>2, LatePostKeeps, DeletionsKeep, RemoveBytesKeeps, SweepKeeps, RestartKeeps DEF Server

-----------------------------------------------------------------------------
(* What the device's steps do at the server.                               *)

\* Uploads nobody waits for any more are the uploads they were.
LEMMA AbandonedKeeps ==
  ASSUME TypeOK, RowsInv, puts' = Abandoned, UNCHANGED <<rows, bytes, removing, sweep>>
  PROVE  RowsInv' /\ puts' \subseteq Upload
  <1>1. puts \subseteq Upload
    BY TypesAre DEF ServerTypeOK
  <1> DEFINE new(p) == [p EXCEPT !.cur = FALSE]
  <1>2. puts' = {new(p) : p \in puts}
    BY DEF Abandoned
  <1>3. \A p \in puts : /\ new(p) \in Upload /\ new(p).id = p.id /\ new(p).at = p.at
                        /\ new(p).part = p.part
    BY <1>1, CurIs
  <1> HIDE DEF new
  <1>4. puts' \subseteq Upload
    BY <1>2, <1>3
  <1>5. \A q \in puts' : Writes(q) =>
          rows[q.id].st = "pending" /\ (q.at = "commit" => bytes[q.id] # "none")
    BY <1>2, <1>3 DEF RowsInv, Renaming, Writes
  <1>6. \A q, r \in puts' : Writes(q) /\ Writes(r) /\ q.id = r.id => q = r
    BY <1>2, <1>3 DEF RowsInv, OneWriter, Writes
  <1>7. \A q \in puts' : q.part = "stale" => \E p \in puts : p.id = q.id /\ p.part = "stale"
    BY <1>2, <1>3
  <1> QED
    BY <1>4, <1>5, <1>6, <1>7, UploadsMove

\* A PUT begins: it has read and written nothing yet.
LEMMA PutBegins ==
  ASSUME TypeOK, RowsInv, NEW id \in Ids, UNCHANGED <<rows, bytes, removing, sweep>>,
         puts' = puts \cup {[id |-> id, at |-> "read", cur |-> TRUE, part |-> "none"]}
  PROVE  RowsInv' /\ puts' \subseteq Upload
  <1> DEFINE new == [id |-> id, at |-> "read", cur |-> TRUE, part |-> "none"]
  <1>1. puts \subseteq Upload
    BY TypesAre DEF ServerTypeOK
  <1>2. new.id = id /\ new.at = "read" /\ new.part = "none"
    OBVIOUS
  <1>3. new \in Upload
    <2>1. \A cur \in BOOLEAN : [id |-> id, at |-> "read", cur |-> cur, part |-> "none"] \in Upload
      BY DEF Upload, Times
    <2> QED
      BY <2>1
  <1>4. puts' = puts \cup {new}
    OBVIOUS
  <1> HIDE DEF new
  <1>5. puts' \subseteq Upload
    BY <1>1, <1>3, <1>4
  <1>6. RowsInv'
    <2>1. \A q \in puts' : Writes(q) \/ q.part = "stale" => q \in puts
      BY <1>2, <1>4 DEF Writes
    <2> QED
      BY <2>1, UploadsMove DEF RowsInv, Renaming, OneWriter
  <1> QED
    BY <1>5, <1>6

\* create_file: an id nothing is left of, for a file without a row.
LEMMA CreateKeeps ==
  ASSUME TypeOK, RowsInv, NEW f \in Files, Its(f) = {}, NEW id \in Fresh(f), Created(id),
         UNCHANGED <<bytes, puts, removing, sweep>>
  PROVE  /\ RowsInv' /\ rows' \in [Ids -> FileRow] /\ OfIts(f, id)
         /\ \A i \in Ids : rows[i].on => rows'[i].on
  <1>1. /\ rows \in [Ids -> FileRow] /\ puts \subseteq Upload /\ sweep \in Pass /\ removing \subseteq Ids
    BY TypesAre DEF ServerTypeOK
  <1>2. OfIts(f, id) /\ ~Used(id)
    <2>1. f \in 1..MaxFiles
      BY TypesAre, CountsAre DEF BudgetsOK, Files
    <2>2. PICK k \in 1..Copies : id = <<f, k>> /\ ~Used(<<f, k>>)
      BY DEF Fresh
    <2> QED
      BY <2>1, <2>2 DEF OfIts, Ids
  <1>3. /\ rows[id].st = "none" /\ bytes[id] = "none" /\ id \notin removing \cup sweep.doomed
        /\ \A p \in puts : p.id # id
    BY <1>2 DEF Used
  <1> DEFINE new == [NoRow EXCEPT !.st = "pending"]
  <1>4. new \in FileRow /\ new.st = "pending" /\ ~new.on
    <2>1. NoRow \in FileRow /\ ~NoRow.on
      BY DEF NoRow, FileRow
    <2>2. new \in FileRow /\ new.st = "pending" /\ new.on = NoRow.on
      BY <2>1 DEF FileRow
    <2> QED
      BY <2>1, <2>2
  <1>5. rows' = [rows EXCEPT ![id] = new]
    BY <1>3 DEF Created
  <1> HIDE DEF new
  <1>6. id \in Ids
    BY <1>2 DEF OfIts
  <1>7. /\ rows' \in [Ids -> FileRow] /\ rows'[id] = new
        /\ \A i \in Ids : i # id => rows'[i] = rows[i]
    BY <1>1, <1>4, <1>5, <1>6
  <1>8. \A i \in Ids : i[1] = f => rows[i].st = "none"
    BY DEF Its
  <1>9. HasBytes' /\ AttachedStays' /\ OneRow'
    BY <1>2, <1>4, <1>7, <1>8 DEF RowsInv, HasBytes, AttachedStays, OneRow, OfIts
  <1>10. \A p \in puts : p.id \in Ids
    BY <1>1 DEF Upload
  <1>11. Renaming' /\ OneWriter'
    BY <1>3, <1>7, <1>10 DEF RowsInv, Renaming, OneWriter, Writes
  <1>12. sweep.doomed \subseteq Ids
    BY <1>1 DEF Pass
  <1>13. ToRemove'
    BY <1>1, <1>3, <1>7, <1>12 DEF RowsInv, ToRemove
  <1>14. Seen'
    BY <1>3, <1>7 DEF RowsInv, Seen
  <1>15. \A i \in Ids : rows[i].on => rows'[i].on
    <2>1. ~rows[id].on
      BY <1>3, <1>6 DEF RowsInv, AttachedStays
    <2> QED
      BY <1>7, <2>1
  <1> QED
    BY <1>2, <1>7, <1>9, <1>11, <1>13, <1>14, <1>15 DEF RowsInv

-----------------------------------------------------------------------------
(* The device: what an attempt keeps.                                      *)

SenderPlaces == {"free", "upload", "next", "create", "put", "putting", "record", "post", "answered",
                 "unlink", "clear"}

\* A sender that is free.
LEMMA FreeIs == Free \in Sender /\ Free.at = "free"
  <1>1. \A no, not \in BOOLEAN : [at |-> "free", f |-> 0, id |-> NoId, again |-> no, recreated |-> not] \in Sender
    BY CountsAre DEF Sender
  <1> QED
    BY <1>1 DEF Free

\* A sender goes on to another place.
LEMMA AtIs ==
  ASSUME NEW w \in Sender, NEW at \in SenderPlaces
  PROVE  /\ [w EXCEPT !.at = at] \in Sender /\ [w EXCEPT !.at = at].at = at
         /\ [w EXCEPT !.at = at].f = w.f /\ [w EXCEPT !.at = at].id = w.id
  BY DEF Sender, SenderPlaces

\* A sender takes a file.
LEMMA FIs ==
  ASSUME NEW w \in Sender, NEW f \in 0..MaxFiles
  PROVE  /\ [w EXCEPT !.f = f] \in Sender /\ [w EXCEPT !.f = f].at = w.at
         /\ [w EXCEPT !.f = f].f = f /\ [w EXCEPT !.f = f].id = w.id
  BY DEF Sender

\* A sender gets an id.
LEMMA IdIs ==
  ASSUME NEW w \in Sender, NEW id \in Ids \cup {NoId}
  PROVE  /\ [w EXCEPT !.id = id] \in Sender /\ [w EXCEPT !.id = id].at = w.at
         /\ [w EXCEPT !.id = id].f = w.f /\ [w EXCEPT !.id = id].id = id
  BY DEF Sender

\* A sender is to upload once more, or not.
LEMMA AgainIs ==
  ASSUME NEW w \in Sender, NEW b \in BOOLEAN
  PROVE  /\ [w EXCEPT !.again = b] \in Sender /\ [w EXCEPT !.again = b].at = w.at
         /\ [w EXCEPT !.again = b].f = w.f /\ [w EXCEPT !.again = b].id = w.id
  BY DEF Sender

\* A sender made the row again, or not.
LEMMA RecreatedIs ==
  ASSUME NEW w \in Sender, NEW b \in BOOLEAN
  PROVE  /\ [w EXCEPT !.recreated = b] \in Sender /\ [w EXCEPT !.recreated = b].at = w.at
         /\ [w EXCEPT !.recreated = b].f = w.f /\ [w EXCEPT !.recreated = b].id = w.id
  BY DEF Sender

\* The sender's record after each kind of step.
LEMMA FileTaken ==
  ASSUME NEW w \in Sender, NEW f \in 0..MaxFiles
  PROVE  LET v == [w EXCEPT !.at = "create", !.f = f, !.id = NoId, !.recreated = FALSE] IN
         v \in Sender /\ v.at = "create" /\ v.f = f
  <1> DEFINE w1 == [w EXCEPT !.at = "create"]
             w2 == [w1 EXCEPT !.f = f]
             w3 == [w2 EXCEPT !.id = NoId]
             w4 == [w3 EXCEPT !.recreated = FALSE]
  <1>1. w4 = [w EXCEPT !.at = "create", !.f = f, !.id = NoId, !.recreated = FALSE]
    OBVIOUS
  <1>2. w1 \in Sender /\ w1.at = "create"
    BY AtIs DEF SenderPlaces
  <1> HIDE DEF w1
  <1>3. w2 \in Sender /\ w2.at = "create" /\ w2.f = f
    BY <1>2, FIs
  <1> HIDE DEF w2
  <1>4. w3 \in Sender /\ w3.at = "create" /\ w3.f = f
    BY <1>3, IdIs
  <1> HIDE DEF w3
  <1>5. w4 \in Sender /\ w4.at = "create" /\ w4.f = f
    BY <1>4, RecreatedIs
  <1> HIDE DEF w4
  <1> QED
    BY <1>1, <1>5

\* The row is gone: the sender makes another.
LEMMA FileGone ==
  ASSUME NEW w \in Sender
  PROVE  LET v == [w EXCEPT !.at = "create", !.id = NoId, !.recreated = TRUE] IN
         v \in Sender /\ v.at = "create" /\ v.f = w.f
  <1> DEFINE w1 == [w EXCEPT !.at = "create"]
             w2 == [w1 EXCEPT !.id = NoId]
             w3 == [w2 EXCEPT !.recreated = TRUE]
  <1>1. w3 = [w EXCEPT !.at = "create", !.id = NoId, !.recreated = TRUE]
    OBVIOUS
  <1>2. w1 \in Sender /\ w1.at = "create" /\ w1.f = w.f
    BY AtIs DEF SenderPlaces
  <1> HIDE DEF w1
  <1>3. w2 \in Sender /\ w2.at = "create" /\ w2.f = w.f
    BY <1>2, IdIs
  <1> HIDE DEF w2
  <1>4. w3 \in Sender /\ w3.at = "create" /\ w3.f = w.f
    BY <1>3, RecreatedIs
  <1> HIDE DEF w3
  <1> QED
    BY <1>1, <1>4

\* A file is done: on to the next.
LEMMA FileDone ==
  ASSUME NEW w \in Sender
  PROVE  LET v == [w EXCEPT !.at = "next", !.f = 0, !.id = NoId] IN v \in Sender /\ v.at = "next"
  <1> DEFINE w1 == [w EXCEPT !.at = "next"]
             w2 == [w1 EXCEPT !.f = 0]
             w3 == [w2 EXCEPT !.id = NoId]
  <1>1. w3 = [w EXCEPT !.at = "next", !.f = 0, !.id = NoId]
    OBVIOUS
  <1>2. w1 \in Sender /\ w1.at = "next"
    BY AtIs DEF SenderPlaces
  <1> HIDE DEF w1
  <1>3. w2 \in Sender /\ w2.at = "next"
    BY <1>2, FIs, CountsAre
  <1> HIDE DEF w2
  <1>4. w3 \in Sender /\ w3.at = "next"
    BY <1>3, IdIs
  <1> HIDE DEF w3
  <1> QED
    BY <1>1, <1>4

\* The bytes are to be sent once more.
LEMMA UploadsAgain ==
  ASSUME NEW w \in Sender
  PROVE  LET v == [w EXCEPT !.at = "upload", !.again = TRUE] IN v \in Sender /\ v.at = "upload"
  <1> DEFINE w1 == [w EXCEPT !.at = "upload"]
             w2 == [w1 EXCEPT !.again = TRUE]
  <1>1. w2 = [w EXCEPT !.at = "upload", !.again = TRUE]
    OBVIOUS
  <1>2. w1 \in Sender /\ w1.at = "upload"
    BY AtIs DEF SenderPlaces
  <1> HIDE DEF w1
  <1>3. w2 \in Sender /\ w2.at = "upload"
    BY <1>2, AgainIs
  <1> HIDE DEF w2
  <1> QED
    BY <1>1, <1>3

\* An attempt goes on: it works on a row whose snapshots are there.
LEMMA AttemptGoesOn ==
  ASSUME TypeOK, DeviceInv, ~Idle, n' = n, row' # "none", UNCHANGED <<snaps, journal, call, fid>>,
         s'.at \notin {"free", "unlink", "clear"},
         s'.at \in {"create", "put", "putting", "record"} => s'.f \in Files,
         s'.at \in {"put", "putting", "record"} => OfIts(s'.f, s'.id),
         s'.at \in {"post", "answered"} \/ row' = "accepted" => \A f \in Files : OfIts(f, fid[f])
  PROVE  DeviceInv'
  <1>1. row # "none" /\ call = "done" /\ snaps = Files /\ journal = {}
    BY TypesAre DEF DeviceInv, Working, Copying, Whole, Idle, DeviceTypeOK
  <1>2. Files' = Files
    BY DEF Files
  <1>3. Whole' /\ Working' /\ Copying'
    BY <1>1, <1>2 DEF Whole, Working, Copying
  <1>4. AtFile' /\ Named' /\ Complete'
    BY <1>2 DEF DeviceInv, AtFile, Named, Complete, OfIts
  <1> QED
    BY <1>3, <1>4 DEF DeviceInv

\* An attempt ends with its row.
LEMMA AttemptEnds ==
  ASSUME TypeOK, DeviceInv, ~Idle, n' = n, row' # "none", s' = Free, UNCHANGED <<snaps, journal, call, fid>>,
         row' = "accepted" => \A f \in Files : OfIts(f, fid[f])
  PROVE  DeviceInv'
  <1>1. row # "none" /\ call = "done" /\ snaps = Files /\ journal = {}
    BY TypesAre DEF DeviceInv, Working, Copying, Whole, Idle, DeviceTypeOK
  <1>2. Files' = Files /\ s'.at = "free"
    BY FreeIs DEF Files
  <1>3. Whole' /\ Working' /\ Copying'
    BY <1>1, <1>2 DEF Whole, Working, Copying, Idle
  <1>4. AtFile' /\ Named' /\ Complete'
    BY <1>2 DEF DeviceInv, AtFile, Named, Complete, OfIts
  <1> QED
    BY <1>3, <1>4 DEF DeviceInv

\* The row goes with its files' names: what is left to do is to unlink them.
LEMMA RowGoes ==
  ASSUME TypeOK, DeviceInv, row # "none", n' = n, RowGone(Files), UNCHANGED <<snaps, call>>
  PROVE  /\ DeviceInv' /\ s' \in Sender /\ row' = "none" /\ journal' = Files /\ flags' = "none"
         /\ fid' \in [1..MaxFiles -> Ids \cup {NoId}]
  <1>1. s' = [Free EXCEPT !.at = "unlink"] /\ row' = "none" /\ journal' = Files /\ flags' = "none"
        /\ fid' = [f \in 1..MaxFiles |-> NoId]
    BY DEF RowGone
  <1>2. s' \in Sender /\ s'.at = "unlink"
    BY <1>1, FreeIs, AtIs DEF SenderPlaces
  <1>3. call = "done"
    BY TypesAre DEF DeviceInv, Copying, DeviceTypeOK
  <1>4. Named'
    BY <1>1 DEF Named
  <1>5. Whole' /\ Working' /\ Copying' /\ AtFile' /\ Complete'
    BY <1>1, <1>2, <1>3 DEF Whole, Working, Idle, Copying, AtFile, Complete
  <1> QED
    BY <1>1, <1>2, <1>4, <1>5 DEF DeviceInv

\* What a step of the device may do at the server, short of a row or a message.
ServerStill == UNCHANGED <<rows, bytes, left, sweep, removing, channel, message, sent, gone, posts>>

\* A step of the device that keeps its own invariant, and what it does at the server.
LEMMA DeviceKeeps ==
  ASSUME IInv, Fault \/ Asked \/ UNCHANGED budgetVars, ServerStill, ans' \in Answers, DeviceTypeOK', DeviceInv',
         \/ puts' = puts
         \/ puts' = Abandoned
         \/ s.id \in Ids /\ puts' = puts \cup {[id |-> s.id, at |-> "read", cur |-> TRUE, part |-> "none"]}
  PROVE  IInv'
  <1>1. TypeOK /\ RowsInv /\ SentWhole /\ PostsInv /\ BudgetsOK /\ ServerTypeOK
    BY TypesAre DEF IInv
  <1>2. BudgetsOK' /\ n' = n /\ Files' = Files
    BY <1>1, Spent
  <1>3. UNCHANGED <<rows, bytes, removing, sweep, message, sent, gone>>
    BY DEF ServerStill
  <1>4. RowsInv' /\ puts' \subseteq Upload
    <2>1. CASE puts' = puts
      BY <1>1, <1>3, <2>1 DEF RowsInv, HasBytes, AttachedStays, OneRow, Renaming, OneWriter, ToRemove, Seen,
        ServerTypeOK
    <2>2. CASE puts' = Abandoned
      BY <1>1, <1>3, <2>2, AbandonedKeeps
    <2>3. CASE s.id \in Ids /\ puts' = puts \cup {[id |-> s.id, at |-> "read", cur |-> TRUE, part |-> "none"]}
      BY <1>1, <1>3, <2>3, PutBegins
    <2> QED
      BY <2>1, <2>2, <2>3
  <1>5. SentWhole'
    BY <1>1, <1>2, <1>3, <1>4, StaysWhole
  <1>6. PostsInv'
    BY <1>1, <1>2 DEF PostsInv, AllFiles, ServerStill
  <1>7. ServerTypeOK'
    BY <1>1, <1>2, <1>4 DEF ServerTypeOK, ServerStill
  <1> QED
    BY <1>2, <1>4, <1>5, <1>6, <1>7, TypesAreNext DEF IInv

-----------------------------------------------------------------------------
(* The device's steps.                                                     *)

\* The parts of the device's state that a step need not name.
LEMMA DeviceIs ==
  ASSUME IInv
  PROVE  /\ DeviceTypeOK /\ DeviceInv /\ TypeOK /\ ans \in Answers /\ BudgetsOK
         /\ ~Idle => row # "none" /\ call = "done" /\ snaps = Files /\ journal = {}
         /\ row # "none" => call = "done" /\ snaps = Files /\ journal = {}
  BY TypesAre DEF IInv, DeviceInv, Working, Copying, Whole, Idle, DeviceTypeOK

\* Every step of the server's for an answer the device waits for.
LEMMA CallStepKeeps ==
  ASSUME IInv, CallStep
  PROVE  IInv'
  <1>1. DeviceTypeOK /\ DeviceInv /\ TypeOK /\ ans \in Answers /\ BudgetsOK
    BY DeviceIs
  <1>2. (Fault \/ UNCHANGED budgetVars) /\ CallUnchanged
    BY DEF CallStep, Enqueue, CopyFile, CopyFails, Insert
  <1>3. UNCHANGED <<up, journal, fid, s, deleting, ans, puts>> /\ ServerStill
    BY <1>2 DEF CallUnchanged, serverVars, ServerStill
  <1>4. n' = n /\ Files' = Files
    BY <1>1, <1>2, Spent
  <1>5. call # "done" /\ row = "none" /\ s.at = "free" /\ journal = {}
    BY <1>1 DEF CallStep, Enqueue, CopyFile, CopyFails, Insert, DeviceInv, Copying
  <1>6. /\ call' \in {"copying", "done"} /\ snaps' \subseteq Files /\ flags' \in {"none", "on", "cancelled"}
        /\ \/ row' = row
           \/ row' = "pending" /\ snaps' = Files /\ call' = "done"
    BY <1>1 DEF CallStep, Enqueue, CopyFile, CopyFails, Insert, DeviceTypeOK
  <1>7. DeviceTypeOK'
    BY <1>1, <1>3, <1>4, <1>6 DEF DeviceTypeOK
  <1>8. DeviceInv'
    <2>1. Whole' /\ Working' /\ Copying'
      BY <1>3, <1>4, <1>5, <1>6 DEF Whole, Working, Idle, Copying
    <2>2. AtFile' /\ Named' /\ Complete'
      BY <1>1, <1>3, <1>4, <1>5, <1>6 DEF DeviceInv, AtFile, Named, Complete, OfIts
    <2> QED
      BY <2>1, <2>2 DEF DeviceInv
  <1> QED
    BY <1>1, <1>2, <1>3, <1>7, <1>8, DeviceKeeps

\* Cancelling, listing, retrying, deleting: the rows change, no attempt does.
LEMMA UserStepKeeps ==
  ASSUME IInv, Cancel \/ List \/ Retry \/ AskDelete
  PROVE  IInv'
  <1>1. DeviceTypeOK /\ DeviceInv /\ TypeOK /\ ans \in Answers /\ BudgetsOK
    BY DeviceIs
  <1>2. Asked \/ UNCHANGED budgetVars
    BY DEF Cancel, List, Retry, AskDelete
  <1>3. UNCHANGED <<up, snaps, journal, call, fid, s, ans, puts>> /\ ServerStill
    BY DEF Cancel, List, Retry, AskDelete, CallUnchanged, serverVars, ServerStill
  <1>4. n' = n /\ Files' = Files
    BY <1>1, <1>2, Spent
  <1>5. /\ flags' \in {"none", "on", "cancelled"}
        /\ row' = row \/ (row = "failed" /\ row' = "pending")
    BY <1>1 DEF Cancel, List, Retry, AskDelete, CallUnchanged, DeviceTypeOK
  <1>6. deleting' \in BOOLEAN
    <2>1. CASE AskDelete
      BY <2>1 DEF AskDelete
    <2>2. CASE Cancel \/ List \/ Retry
      BY <1>1, <2>2 DEF Cancel, List, Retry, CallUnchanged, DeviceTypeOK
    <2> QED
      BY <2>1, <2>2
  <1>7. DeviceTypeOK'
    BY <1>1, <1>3, <1>4, <1>5, <1>6 DEF DeviceTypeOK
  <1>8. DeviceInv'
    BY <1>1, <1>3, <1>4, <1>5 DEF DeviceInv, Whole, Working, Idle, Copying, AtFile, Named, Complete, OfIts
  <1> QED
    BY <1>1, <1>2, <1>3, <1>7, <1>8, DeviceKeeps

\* A deletion is taken when no attempt works on the message.
LEMMA TakeDeleteKeeps ==
  ASSUME IInv, TakeDelete
  PROVE  IInv'
  <1>1. DeviceTypeOK /\ DeviceInv /\ TypeOK /\ ans \in Answers /\ BudgetsOK
    BY DeviceIs
  <1>2. UNCHANGED <<budgetVars, up, snaps, call, ans, puts>> /\ ServerStill /\ deleting' = FALSE
    BY DEF TakeDelete, serverVars, ServerStill
  <1>3. n' = n /\ Files' = Files
    BY <1>1, <1>2, Spent
  <1>4. CASE row # "none"
    <2>1. RowGone(Files)
      BY <1>4 DEF TakeDelete
    <2>2. /\ DeviceInv' /\ s' \in Sender /\ row' = "none" /\ journal' = Files /\ flags' = "none"
          /\ fid' \in [1..MaxFiles -> Ids \cup {NoId}]
      BY <1>1, <1>2, <1>3, <1>4, <2>1, RowGoes
    <2>3. DeviceTypeOK'
      <3>1. deleting' \in BOOLEAN
        BY <1>2, Zenon
      <3> QED
        BY <1>1, <1>2, <1>3, <2>2, <3>1 DEF DeviceTypeOK
    <2> QED
      BY <1>1, <1>2, <2>2, <2>3, DeviceKeeps
  <1>5. CASE row = "none"
    <2>1. UNCHANGED <<row, fid, flags, journal, s>>
      BY <1>5 DEF TakeDelete
    <2>2. DeviceInv'
      BY <1>1, <1>2, <1>3, <2>1 DEF DeviceInv, Whole, Working, Idle, Copying, AtFile, Named, Complete, OfIts
    <2>3. deleting' \in BOOLEAN
      BY <1>2, Zenon
    <2>4. DeviceTypeOK'
      BY <1>1, <1>2, <1>3, <2>1, <2>3 DEF DeviceTypeOK
    <2> QED
      BY <1>1, <1>2, <2>2, <2>4, DeviceKeeps
  <1> QED
    BY <1>4, <1>5

\* A crash leaves what is stored: rows, snapshots and the journal.
LEMMA CrashKeeps ==
  ASSUME IInv, Crash
  PROVE  IInv'
  <1>1. DeviceTypeOK /\ DeviceInv /\ TypeOK /\ BudgetsOK
    BY DeviceIs
  <1>2. /\ Fault /\ up' = FALSE /\ flags' = "none" /\ s' = Free /\ ans' = "none" /\ deleting' = FALSE
        /\ call' = (IF call = "copying" THEN "done" ELSE call) /\ puts' = Abandoned
        /\ UNCHANGED <<snaps, journal, row, fid>> /\ ServerStill
    BY DEF Crash, ServerStill
  <1>3. n' = n /\ Files' = Files
    BY <1>1, <1>2, Spent
  <1>4. up' \in BOOLEAN /\ deleting' \in BOOLEAN
    BY <1>2, Zenon
  <1>5. s' \in Sender /\ s'.at = "free" /\ ans' \in Answers
    BY <1>2, FreeIs DEF Answers
  <1>6. DeviceTypeOK'
    BY <1>1, <1>2, <1>3, <1>4, <1>5 DEF DeviceTypeOK
  <1>7. DeviceInv'
    BY <1>1, <1>2, <1>3, <1>5 DEF DeviceInv, DeviceTypeOK, Whole, Working, Idle, Copying, AtFile, Named,
      Complete, OfIts
  <1> QED
    BY <1>2, <1>5, <1>6, <1>7, DeviceKeeps

\* A store that is opened gives everything back that was being sent.
LEMMA OpenKeeps ==
  ASSUME IInv, Open
  PROVE  IInv'
  <1>1. DeviceTypeOK /\ DeviceInv /\ TypeOK /\ ans \in Answers /\ BudgetsOK
    BY DeviceIs
  <1>2. /\ Fault \/ UNCHANGED budgetVars
        /\ up' = TRUE /\ row' = (IF row = "sending" THEN "pending" ELSE row)
        /\ \/ snaps' = (snaps \ journal) \cap (IF row = "none" THEN {} ELSE Files) /\ journal' = {}
           \/ UNCHANGED <<snaps, journal>>
        /\ UNCHANGED <<call, fid, flags, s, deleting, ans, puts>> /\ ServerStill
    BY DEF Open, serverVars, ServerStill
  <1>3. n' = n /\ Files' = Files
    BY <1>1, <1>2, Spent
  <1>4. up' \in BOOLEAN
    BY <1>2, Zenon
  <1>5. snaps' \subseteq Files /\ journal' \subseteq Files
    BY <1>1, <1>2 DEF DeviceTypeOK
  <1>6. row # "none" => snaps' = Files /\ journal' = {}
    BY <1>1, <1>2 DEF DeviceInv, Whole
  <1>7. DeviceTypeOK'
    BY <1>1, <1>2, <1>3, <1>4, <1>5 DEF DeviceTypeOK
  <1>8. Whole' /\ Working' /\ Copying'
    BY <1>1, <1>2, <1>3, <1>6 DEF DeviceInv, Whole, Working, Idle, Copying
  <1>9. AtFile' /\ Named' /\ Complete'
    BY <1>1, <1>2, <1>3 DEF DeviceInv, AtFile, Named, Complete, OfIts
  <1> QED
    BY <1>1, <1>2, <1>7, <1>8, <1>9, DeviceKeeps DEF DeviceInv

-----------------------------------------------------------------------------
(* The device's steps: an attempt.                                         *)

\* A step that only moves the sender, and the row with it.
LEMMA MovesOn ==
  ASSUME IInv, ~Idle, Fault \/ Asked \/ UNCHANGED budgetVars, ServerStill, ans' \in Answers,
         UNCHANGED <<up, snaps, journal, call, fid, deleting>>, flags' \in {"on", flags},
         row' \in {"pending", "sending", "failed", "accepted"}, s' \in Sender,
         \/ puts' = puts
         \/ puts' = Abandoned
         \/ s.id \in Ids /\ puts' = puts \cup {[id |-> s.id, at |-> "read", cur |-> TRUE, part |-> "none"]},
         s'.at \notin {"unlink", "clear"}, s'.at = "free" => s' = Free,
         s'.at \in {"create", "put", "putting", "record"} => s'.f \in Files,
         s'.at \in {"put", "putting", "record"} => OfIts(s'.f, s'.id),
         s'.at \in {"post", "answered"} \/ row' = "accepted" => \A f \in Files : OfIts(f, fid[f])
  PROVE  IInv'
  <1>1. DeviceTypeOK /\ DeviceInv /\ TypeOK /\ BudgetsOK
    BY DeviceIs
  <1>2. n' = n /\ Files' = Files
    BY <1>1, Spent
  <1>3. DeviceTypeOK'
    BY <1>1, <1>2 DEF DeviceTypeOK
  <1>4. DeviceInv'
    <2>1. CASE s'.at = "free"
      BY <1>1, <1>2, <2>1, AttemptEnds
    <2>2. CASE s'.at # "free"
      BY <1>1, <1>2, <2>2, AttemptGoesOn
    <2> QED
      BY <2>1, <2>2
  <1> QED
    BY <1>3, <1>4, DeviceKeeps

\* An attempt ends: failed, or accepted with every file of it.
LEMMA FailsKeeps ==
  ASSUME IInv, ~Idle, NEW state \in {"failed", "accepted"}, Ends(state), Fault \/ UNCHANGED budgetVars,
         state = "accepted" => \A f \in Files : OfIts(f, fid[f])
  PROVE  IInv'
  <1>1. /\ row' = state /\ s' = Free /\ ans' = "none" /\ ServerStill /\ puts' = puts
        /\ UNCHANGED <<up, snaps, journal, call, fid, deleting, flags>>
    BY DEF Ends, SenderUnchanged, ServerStill
  <1>2. ans' \in Answers /\ s' \in Sender /\ s'.at = "free"
    BY <1>1, FreeIs DEF Answers
  <1> QED
    BY <1>1, <1>2, MovesOn

\* Before the upload of a file: the beginning, and the choice of the next.
LEMMA BeginKeeps ==
  ASSUME IInv, Begin
  PROVE  IInv'
  <1>1. DeviceTypeOK /\ DeviceInv /\ TypeOK /\ BudgetsOK /\ ans \in Answers
        /\ (row # "none" => call = "done" /\ snaps = Files /\ journal = {})
    BY DeviceIs
  <1> DEFINE at == IF row = "accepted" THEN "post" ELSE "upload"
  <1>2. /\ s.at = "free" /\ row \in {"pending", "accepted"} /\ s' = [Free EXCEPT !.at = at]
        /\ row' = IF row = "accepted" THEN row ELSE "sending"
        /\ UNCHANGED <<budgetVars, up, snaps, journal, call, fid, flags, ans, puts, deleting>> /\ ServerStill
    BY DEF Begin, SenderUnchanged, ServerStill
  <1>3. s' \in Sender /\ s'.at = at
    <2>1. at \in SenderPlaces
      BY DEF SenderPlaces
    <2> HIDE DEF at
    <2> QED
      BY <1>2, <2>1, FreeIs, AtIs
  <1>4. n' = n /\ Files' = Files
    BY <1>1, <1>2, Spent
  <1>5. DeviceTypeOK'
    BY <1>1, <1>2, <1>3, <1>4 DEF DeviceTypeOK
  <1>6. DeviceInv'
    <2>1. Whole' /\ Working' /\ Copying'
      BY <1>1, <1>2, <1>3, <1>4 DEF Whole, Working, Copying
    <2>2. AtFile' /\ Named' /\ Complete'
      BY <1>1, <1>2, <1>3, <1>4 DEF DeviceInv, AtFile, Named, Complete, OfIts
    <2> QED
      BY <2>1, <2>2 DEF DeviceInv
  <1> QED
    BY <1>1, <1>2, <1>5, <1>6, DeviceKeeps

\* The next file without an id, or the send when each has one.
LEMMA NextFileKeeps ==
  ASSUME IInv, NextFile
  PROVE  IInv'
  <1>1. DeviceTypeOK /\ DeviceInv /\ TypeOK /\ BudgetsOK /\ ans \in Answers /\ s \in Sender
    BY DeviceIs DEF DeviceTypeOK
  <1>2. ~Idle /\ s.at = "next" /\ row \in {"pending", "sending", "failed", "accepted"}
    BY <1>1, DeviceIs DEF NextFile, Idle, DeviceTypeOK
  <1>3. CASE Fails
    BY <1>2, <1>3, FailsKeeps DEF Fails
  <1>4. ASSUME NEW next \in Sender, Go(next), next.at \in {"create", "post"},
               next.at = "create" => next.f \in Files,
               next.at = "post" => Missing = {}
        PROVE  IInv'
    <2>1. /\ s' = next /\ ServerStill
          /\ UNCHANGED <<budgetVars, up, snaps, journal, call, row, fid, flags, ans, puts, deleting>>
      BY <1>4 DEF Go, SenderUnchanged, ServerStill
    <2>2. Missing = {} \/ row = "accepted" => \A f \in Files : OfIts(f, fid[f])
      <3>1. Files \subseteq 1..MaxFiles
        BY <1>1, CountsAre DEF BudgetsOK, Files
      <3>2. Missing = {} => \A f \in Files : fid[f] # NoId
        BY DEF Missing
      <3> QED
        BY <1>1, <3>1, <3>2 DEF DeviceInv, Named, Complete
    <2> QED
      BY <1>1, <1>2, <1>4, <2>1, <2>2, MovesOn
  <1>5. CASE Missing = {} /\ Go([s EXCEPT !.at = "post"])
    BY <1>1, <1>4, <1>5, AtIs DEF SenderPlaces
  <1>6. CASE Missing # {} /\ ~Fails
    <2> DEFINE f == CHOOSE f \in Missing : \A g \in Missing : f <= g
    <2>1. f \in snaps /\ Go([s EXCEPT !.at = "create", !.f = f, !.id = NoId, !.recreated = FALSE])
      BY <1>6 DEF NextFile
    <2>2. f \in Files /\ f \in 0..MaxFiles
      <3>1. f \in Files
        BY <1>1, <2>1 DEF DeviceTypeOK
      <3> HIDE DEF f
      <3> QED
        BY <1>1, <3>1, CountsAre DEF BudgetsOK, Files
    <2> HIDE DEF f
    <2>3. LET v == [s EXCEPT !.at = "create", !.f = f, !.id = NoId, !.recreated = FALSE] IN
          v \in Sender /\ v.at = "create" /\ v.f = f
      BY <1>1, <2>2, FileTaken
    <2> QED
      BY <1>4, <2>1, <2>2, <2>3
  <1> QED
    BY <1>3, <1>5, <1>6 DEF NextFile

\* create_file: the row there is, or a new one; answered or not.
LEMMA CreateStepKeeps ==
  ASSUME IInv, Create \/ CreateRefused \/ CreateLost
  PROVE  IInv'
  <1>1. DeviceTypeOK /\ DeviceInv /\ TypeOK /\ BudgetsOK /\ ans \in Answers /\ s \in Sender /\ RowsInv
        /\ SentWhole /\ PostsInv /\ ServerTypeOK
    BY DeviceIs, TypesAre DEF DeviceTypeOK, IInv
  <1>2. ~Idle /\ s.at = "create" /\ row \in {"pending", "sending", "failed", "accepted"} /\ s.f \in Files
    BY <1>1, DeviceIs DEF Create, CreateRefused, CreateLost, Idle, DeviceTypeOK, DeviceInv, AtFile
  <1>3. CASE Fails \/ CreateRefused
    BY <1>2, <1>3, FailsKeeps DEF Fails, CreateRefused
  <1>4. ASSUME Fault \/ UNCHANGED budgetVars, s' \in Sender, row' \in {"pending", row},
               \/ s' = Free
               \/ s'.at \in {"put", "record"} /\ s'.f = s.f /\ OfIts(s.f, s'.id) /\ row' = row,
               RowsInv', rows' \in [Ids -> FileRow], \A i \in Ids : rows[i].on => rows'[i].on,
               UNCHANGED <<snaps, journal, fid, flags, ans, puts, posts, up, call, deleting,
                           bytes, left, sweep, removing, channel, message, sent, gone>>
        PROVE  IInv'
    <2>1. n' = n /\ Files' = Files /\ BudgetsOK'
      BY <1>1, <1>4, Spent
    <2>2. DeviceTypeOK'
      BY <1>1, <1>2, <1>4, <2>1 DEF DeviceTypeOK
    <2>3. DeviceInv'
      <3>1. CASE s' = Free
        BY <1>1, <1>2, <1>4, <2>1, <3>1, AttemptEnds DEF DeviceInv, Complete
      <3>2. CASE s' # Free
        <4>1. row = "accepted" => \A f \in Files : OfIts(f, fid[f])
          BY <1>1 DEF DeviceInv, Complete
        <4> QED
          BY <1>1, <1>2, <1>4, <2>1, <3>2, <4>1, AttemptGoesOn
      <3> QED
        BY <3>1, <3>2
    <2>4. ServerTypeOK'
      BY <1>1, <1>4, <2>1 DEF ServerTypeOK
    <2>5. SentWhole'
      BY <1>1, <1>4, <2>1, StaysWhole
    <2>6. PostsInv'
      BY <1>1, <1>4, <2>1 DEF PostsInv, AllFiles
    <2> QED
      BY <1>1, <1>4, <2>1, <2>2, <2>3, <2>4, <2>5, <2>6, TypesAreNext DEF IInv
  <1>5. ASSUME rows' = rows, UNCHANGED <<bytes, puts, sweep, removing>>
        PROVE  RowsInv' /\ rows' \in [Ids -> FileRow] /\ \A i \in Ids : rows[i].on => rows'[i].on
    BY <1>1, <1>5 DEF RowsInv, HasBytes, AttachedStays, OneRow, Renaming, OneWriter, ToRemove, Seen, ServerTypeOK
  <1>6. CASE Create /\ ~Fails
    <2>1. PICK id \in (IF Its(s.f) # {} THEN Its(s.f) ELSE Fresh(s.f)) :
            /\ Created(id)
            /\ s' = [s EXCEPT !.at = IF rows[id].st = "committed" THEN "record" ELSE "put", !.id = id]
            /\ UNCHANGED <<budgetVars, snaps, journal, row, fid, flags, ans, puts, posts, up, call, deleting,
                           bytes, left, sweep, removing, channel, message, sent, gone>>
      BY <1>6 DEF Create
    <2>2. /\ OfIts(s.f, id) /\ RowsInv' /\ rows' \in [Ids -> FileRow]
          /\ \A i \in Ids : rows[i].on => rows'[i].on
      <3>1. CASE Its(s.f) # {}
        <4>1. id \in Ids /\ id[1] = s.f /\ rows[id].st # "none"
          BY <2>1, <3>1 DEF Its
        <4>2. rows' = rows
          BY <2>1, <4>1 DEF Created
        <4> QED
          BY <1>5, <2>1, <4>1, <4>2 DEF OfIts
      <3>2. CASE Its(s.f) = {}
        BY <1>1, <1>2, <2>1, <3>2, CreateKeeps
      <3> QED
        BY <3>1, <3>2
    <2> DEFINE at == IF rows[id].st = "committed" THEN "record" ELSE "put"
    <2>3. at \in SenderPlaces /\ at \in {"put", "record"}
      BY DEF SenderPlaces
    <2>4. s' = [s EXCEPT !.at = at, !.id = id]
      BY <2>1
    <2> HIDE DEF at
    <2>5. s' \in Sender /\ s'.at = at /\ s'.f = s.f /\ s'.id = id
      <3>1. id \in Ids
        BY <2>2 DEF OfIts
      <3> DEFINE moved == [s EXCEPT !.at = at]
      <3>2. s' = [moved EXCEPT !.id = id]
        BY <2>4
      <3>3. moved \in Sender /\ moved.at = at /\ moved.f = s.f
        BY <1>1, <2>3, AtIs
      <3> HIDE DEF moved
      <3> QED
        BY <3>1, <3>2, <3>3, IdIs
    <2> QED
      BY <1>4, <2>1, <2>2, <2>3, <2>5
  <1>7. CASE CreateLost
    <2>1. /\ Fault /\ row' = "pending" /\ s' = Free
          /\ UNCHANGED <<snaps, journal, fid, flags, ans, puts, posts, up, call, deleting,
                         bytes, left, sweep, removing, channel, message, sent, gone>>
      BY <1>7 DEF CreateLost
    <2>2. RowsInv' /\ rows' \in [Ids -> FileRow] /\ \A i \in Ids : rows[i].on => rows'[i].on
      <3>1. CASE rows' = rows
        BY <1>5, <2>1, <3>1
      <3>2. CASE rows' # rows
        <4>1. Its(s.f) = {} /\ \E id \in Fresh(s.f) : Created(id)
          BY <1>7, <3>2 DEF CreateLost
        <4> QED
          BY <1>1, <1>2, <2>1, <4>1, CreateKeeps
      <3> QED
        BY <3>1, <3>2
    <2> QED
      BY <1>4, <2>1, <2>2, FreeIs
  <1> QED
    BY <1>3, <1>6, <1>7

\* The upload of a file: begun, given up on, answered, recorded.
LEMMA UploadStepKeeps ==
  ASSUME IInv, UploadFiles \/ Put \/ PutStops \/ PutGivenUp
  PROVE  IInv'
  <1>1. DeviceTypeOK /\ DeviceInv /\ TypeOK /\ BudgetsOK /\ ans \in Answers /\ s \in Sender
        /\ (row = "accepted" => \A f \in Files : OfIts(f, fid[f]))
    BY DeviceIs DEF DeviceTypeOK, DeviceInv, Complete
  <1>2. ~Idle /\ row \in {"pending", "sending", "failed", "accepted"}
        /\ (s.at \in {"put", "putting"} => s.f \in Files /\ OfIts(s.f, s.id))
    BY <1>1, DeviceIs DEF UploadFiles, Put, PutStops, PutGivenUp, Idle, DeviceTypeOK, DeviceInv, AtFile
  <1>3. CASE Fails
    BY <1>2, <1>3, FailsKeeps DEF Fails
  <1>4. CASE UploadFiles /\ ~Fails
    <2>1. s' = [s EXCEPT !.at = "next"] /\ flags' = "on" /\ ServerStill
          /\ UNCHANGED <<budgetVars, up, snaps, journal, call, row, fid, ans, puts, deleting>>
      BY <1>4 DEF UploadFiles, SenderUnchanged, ServerStill
    <2>2. s' \in Sender /\ s'.at = "next"
      BY <1>1, <2>1, AtIs DEF SenderPlaces
    <2> QED
      BY <1>1, <1>2, <2>1, <2>2, MovesOn
  <1>5. CASE Put /\ ~Fails
    <2>1. /\ s' = [s EXCEPT !.at = "putting"] /\ ServerStill
          /\ puts' = puts \cup {[id |-> s.id, at |-> "read", cur |-> TRUE, part |-> "none"]}
          /\ UNCHANGED <<budgetVars, up, snaps, journal, call, row, fid, flags, ans, deleting>>
          /\ s.at = "put"
      BY <1>5 DEF Put, SenderUnchanged, ServerStill
    <2>2. s' \in Sender /\ s'.at = "putting" /\ s'.f = s.f /\ s'.id = s.id
      BY <1>1, <2>1, AtIs DEF SenderPlaces
    <2>3. s.id \in Ids /\ s.f \in Files /\ OfIts(s.f, s.id)
      BY <1>2, <2>1 DEF OfIts
    <2> QED
      BY <1>1, <1>2, <2>1, <2>2, <2>3, MovesOn
  <1>6. CASE PutStops \/ PutGivenUp
    <2>1. /\ puts' = Abandoned /\ ServerStill /\ (Fault \/ UNCHANGED budgetVars) /\ s.at = "putting"
          /\ \/ s' = Free /\ row' \in {"pending", "failed"}
             \/ s' = [s EXCEPT !.at = "put"] /\ row' = row
          /\ UNCHANGED <<up, snaps, journal, call, fid, flags, ans, deleting>>
      BY <1>6 DEF PutStops, PutGivenUp, SenderUnchanged, ServerStill
    <2>2. \/ s' = Free /\ s' \in Sender /\ s'.at = "free" /\ row' \in {"pending", "failed"}
          \/ s' \in Sender /\ s'.at = "put" /\ s'.f = s.f /\ s'.id = s.id /\ row' = row
      <3>1. LET v == [s EXCEPT !.at = "put"] IN v \in Sender /\ v.at = "put" /\ v.f = s.f /\ v.id = s.id
        BY <1>1, AtIs DEF SenderPlaces
      <3> QED
        BY <2>1, <3>1, FreeIs
    <2> QED
      BY <1>1, <1>2, <2>1, <2>2, MovesOn
  <1> QED
    BY <1>3, <1>4, <1>5, <1>6 DEF UploadFiles, Put

\* An answered upload: done, to be made again, or to be sent once more.
LEMMA PutAnsweredKeeps ==
  ASSUME IInv, PutAnswered
  PROVE  IInv'
  <1>1. DeviceTypeOK /\ DeviceInv /\ TypeOK /\ BudgetsOK /\ ans \in Answers /\ s \in Sender
        /\ (row = "accepted" => \A f \in Files : OfIts(f, fid[f]))
    BY DeviceIs DEF DeviceTypeOK, DeviceInv, Complete
  <1>2. ~Idle /\ row \in {"pending", "sending", "failed", "accepted"} /\ s.at = "putting"
        /\ s.f \in Files /\ OfIts(s.f, s.id)
    BY <1>1, DeviceIs DEF PutAnswered, Idle, DeviceTypeOK, DeviceInv, AtFile
  <1>3. CASE Fails
    BY <1>2, <1>3, FailsKeeps DEF Fails
  <1>4. CASE ~Fails
    <2>1. /\ ans' = "none" /\ ServerStill
          /\ UNCHANGED <<budgetVars, up, snaps, journal, call, fid, flags, puts, deleting>>
          /\ \/ s' = [s EXCEPT !.at = "record"] /\ row' = row
             \/ s' = [s EXCEPT !.at = "create", !.id = NoId, !.recreated = TRUE] /\ row' = row
             \/ s' = [s EXCEPT !.at = "put"] /\ row' = row
             \/ s' = Free /\ row' = "pending"
      BY <1>4 DEF PutAnswered, SenderUnchanged, ServerStill
    <2>2. ans' \in Answers
      BY <2>1 DEF Answers
    <2>3. CASE s' = [s EXCEPT !.at = "create", !.id = NoId, !.recreated = TRUE] /\ row' = row
      <3>1. s' \in Sender /\ s'.at = "create" /\ s'.f = s.f
        BY <1>1, <2>3, FileGone
      <3> QED
        BY <1>1, <1>2, <2>1, <2>2, <2>3, <3>1, MovesOn
    <2>4. CASE \/ s' = [s EXCEPT !.at = "record"] /\ row' = row
               \/ s' = [s EXCEPT !.at = "put"] /\ row' = row
               \/ s' = Free /\ row' = "pending"
      <3>1. \/ s' \in Sender /\ s'.at \in {"record", "put"} /\ s'.f = s.f /\ s'.id = s.id /\ row' = row
            \/ s' = Free /\ s' \in Sender /\ s'.at = "free" /\ row' = "pending"
        <4>1. LET v == [s EXCEPT !.at = "put"] IN v \in Sender /\ v.at = "put" /\ v.f = s.f /\ v.id = s.id
          BY <1>1, AtIs DEF SenderPlaces
        <4>2. LET v == [s EXCEPT !.at = "record"] IN
              v \in Sender /\ v.at = "record" /\ v.f = s.f /\ v.id = s.id
          BY <1>1, AtIs DEF SenderPlaces
        <4> QED
          BY <2>4, <4>1, <4>2, FreeIs
      <3> QED
        BY <1>1, <1>2, <2>1, <2>2, <3>1, MovesOn
    <2> QED
      BY <2>1, <2>3, <2>4
  <1> QED
    BY <1>3, <1>4

\* The file's id is recorded: it is the file's.
LEMMA RecordKeeps ==
  ASSUME IInv, Record
  PROVE  IInv'
  <1>1. DeviceTypeOK /\ DeviceInv /\ TypeOK /\ BudgetsOK /\ ans \in Answers /\ s \in Sender
        /\ (row = "accepted" => \A f \in Files : OfIts(f, fid[f]))
    BY DeviceIs DEF DeviceTypeOK, DeviceInv, Complete
  <1>2. ~Idle /\ row \in {"pending", "sending", "failed", "accepted"} /\ s.at = "record"
        /\ s.f \in Files /\ OfIts(s.f, s.id) /\ call = "done" /\ snaps = Files /\ journal = {}
    BY <1>1, DeviceIs DEF Record, Idle, DeviceTypeOK, DeviceInv, AtFile
  <1>3. /\ UNCHANGED <<up, snaps, journal, call, flags, ans, puts, deleting>> /\ ServerStill
        /\ Fault \/ UNCHANGED budgetVars
    BY DEF Record, SenderUnchanged, ServerStill
  <1>4. CASE fid' = [fid EXCEPT ![s.f] = s.id] /\ s' = [s EXCEPT !.at = "next", !.f = 0, !.id = NoId]
             /\ row' = row
    <2>1. s' \in Sender /\ s'.at = "next"
      BY <1>1, <1>4, FileDone
    <2>2. s.f \in 1..MaxFiles /\ s.id \in Ids
      BY <1>1, <1>2, CountsAre DEF BudgetsOK, Files, OfIts
    <2>3. /\ fid' \in [1..MaxFiles -> Ids \cup {NoId}]
          /\ \A f \in 1..MaxFiles : fid'[f] = IF f = s.f THEN s.id ELSE fid[f]
      BY <1>1, <1>4, <2>2 DEF DeviceTypeOK
    <2>4. n' = n /\ Files' = Files
      BY <1>1, <1>3, Spent
    <2>5. DeviceTypeOK'
      BY <1>1, <1>3, <1>4, <2>1, <2>3, <2>4 DEF DeviceTypeOK
    <2>6. Named'
      BY <1>1, <1>2, <2>3 DEF DeviceInv, Named, OfIts
    <2>7. Whole' /\ Working' /\ Copying' /\ AtFile'
      BY <1>2, <1>3, <1>4, <2>1, <2>4 DEF Whole, Working, Idle, Copying, AtFile
    <2>8. Complete'
      <3>1. Files \subseteq 1..MaxFiles
        BY <1>1, CountsAre DEF BudgetsOK, Files
      <3> QED
        BY <1>1, <1>2, <1>4, <2>1, <2>3, <2>4, <3>1 DEF Complete, OfIts
    <2> QED
      BY <1>1, <1>3, <2>5, <2>6, <2>7, <2>8, DeviceKeeps DEF DeviceInv
  <1>5. CASE row' = "pending" /\ s' = Free /\ UNCHANGED fid
    BY <1>1, <1>2, <1>3, <1>5, FreeIs, MovesOn
  <1> QED
    BY <1>4, <1>5 DEF Record

\* What a send lists is an id of each file.
LEMMA ListsAll ==
  ASSUME IInv, s.at = "post"
  PROVE  Listed \in SUBSET Ids /\ AllFiles(Listed)
  <1>1. \A f \in Files : OfIts(f, fid[f])
    BY DeviceIs DEF DeviceInv, Complete
  <1> QED
    BY <1>1 DEF Listed, OfIts, AllFiles

\* A message is stored, or a send is left at the server, with an id of each file.
LEMMA SendKeeps ==
  ASSUME IInv, Send \/ SendLost
  PROVE  IInv'
  <1>1. DeviceTypeOK /\ DeviceInv /\ TypeOK /\ BudgetsOK /\ ans \in Answers /\ s \in Sender /\ RowsInv
        /\ SentWhole /\ PostsInv /\ ServerTypeOK
    BY DeviceIs, TypesAre DEF DeviceTypeOK, IInv
  <1>2. ~Idle /\ s.at = "post" /\ row \in {"pending", "sending", "failed", "accepted"}
        /\ (\A f \in Files : OfIts(f, fid[f]))
    BY <1>1, DeviceIs DEF Send, SendLost, Idle, DeviceTypeOK, DeviceInv, Complete
  <1>3. Listed \in SUBSET Ids /\ AllFiles(Listed)
    BY <1>2, ListsAll
  <1>4. (Fault \/ UNCHANGED budgetVars) /\ UNCHANGED <<up, snaps, journal, call, fid, flags, deleting>>
    BY DEF Send, SendLost
  <1>5. n' = n /\ Files' = Files /\ BudgetsOK'
    BY <1>1, <1>4, Spent
  <1>6. UNCHANGED <<bytes, left, puts, sweep, removing, channel, gone>>
    BY DEF Send, SendLost, Post
  <1>7. /\ RowsInv' /\ rows' \in [Ids -> FileRow] /\ message' \in {"none", "stored", "deleted"}
        /\ sent' \subseteq Files /\ SentWhole'
    <2>1. CASE Post(Listed)
      BY <1>1, <1>3, <1>5, <2>1, PostKeeps
    <2>2. CASE UNCHANGED <<rows, message, sent>>
      <3>1. RowsInv'
        BY <1>1, <1>6, <2>2 DEF RowsInv, HasBytes, AttachedStays, OneRow, Renaming, OneWriter, ToRemove, Seen
      <3> QED
        BY <1>1, <1>5, <1>6, <2>2, <3>1, StaysWhole DEF ServerTypeOK
    <2> QED
      BY <2>1, <2>2 DEF Send, SendLost
  <1>8. posts' \subseteq posts \cup {Listed}
    BY DEF Send, SendLost
  <1>9. PostsInv' /\ posts' \subseteq SUBSET Ids
    BY <1>1, <1>3, <1>5, <1>8 DEF PostsInv, AllFiles, ServerTypeOK
  <1>10. ServerTypeOK'
    BY <1>1, <1>5, <1>6, <1>7, <1>9 DEF ServerTypeOK
  <1>11. ans' \in Answers
    <2>1. \A ids : PostAnswer(ids) \in Answers
      BY DEF PostAnswer, Answers
    <2> QED
      BY <1>1, <2>1 DEF Send, SendLost
  <1>12. /\ s' \in Sender /\ row' \in {"pending", "sending", "failed", "accepted"}
         /\ \/ s' = Free
            \/ s'.at = "answered"
    <2>1. CASE Send
      BY <1>1, <1>2, <2>1, AtIs DEF Send, SenderPlaces
    <2>2. CASE SendLost
      BY <2>2, FreeIs DEF SendLost, Waiting
    <2> QED
      BY <2>1, <2>2
  <1>13. DeviceTypeOK'
    BY <1>1, <1>4, <1>5, <1>12 DEF DeviceTypeOK
  <1>14. DeviceInv'
    <2>1. CASE s' = Free
      BY <1>1, <1>2, <1>4, <1>5, <1>12, <2>1, AttemptEnds
    <2>2. CASE s'.at = "answered"
      BY <1>1, <1>2, <1>4, <1>5, <1>12, <2>2, AttemptGoesOn
    <2> QED
      BY <1>12, <2>1, <2>2
  <1> QED
    BY <1>5, <1>7, <1>9, <1>10, <1>11, <1>13, <1>14, TypesAreNext DEF IInv

\* The send's answer: the row goes, stays accepted, fails, or uploads what is missing.
LEMMA AnswerKeeps ==
  ASSUME IInv, Sent \/ NotAttachable \/ Refused
  PROVE  IInv'
  <1>1. DeviceTypeOK /\ DeviceInv /\ TypeOK /\ BudgetsOK /\ ans \in Answers /\ s \in Sender
    BY DeviceIs DEF DeviceTypeOK
  <1>2. ~Idle /\ s.at = "answered" /\ row \in {"pending", "sending", "failed", "accepted"}
        /\ (\A f \in Files : OfIts(f, fid[f])) /\ call = "done" /\ snaps = Files /\ journal = {}
    BY <1>1, DeviceIs DEF Sent, NotAttachable, Refused, Idle, DeviceTypeOK, DeviceInv, Complete
  <1>3. CASE Fails
    BY <1>2, <1>3, FailsKeeps DEF Fails
  <1>4. CASE Fault /\ Ends("accepted")
    BY <1>2, <1>4, FailsKeeps
  <1>5. CASE RemoveRow /\ UNCHANGED budgetVars
    <2>1. /\ RowGone(Files) /\ ans' = "none" /\ ServerStill
          /\ UNCHANGED <<up, snaps, call, puts, deleting>>
      BY <1>5 DEF RemoveRow, SenderUnchanged, ServerStill
    <2>2. n' = n /\ Files' = Files
      BY <1>1, <1>5, Spent
    <2>3. /\ DeviceInv' /\ s' \in Sender /\ row' = "none" /\ journal' = Files /\ flags' = "none"
          /\ fid' \in [1..MaxFiles -> Ids \cup {NoId}]
      BY <1>1, <1>2, <2>1, <2>2, RowGoes
    <2>4. DeviceTypeOK' /\ ans' \in Answers
      BY <1>1, <2>1, <2>2, <2>3 DEF DeviceTypeOK, Answers
    <2> QED
      BY <1>5, <2>1, <2>3, <2>4, DeviceKeeps
  <1>6. CASE NotAttachable /\ ~Fails
    <2>1. /\ fid' = [f \in 1..MaxFiles |-> NoId] /\ s' = [s EXCEPT !.at = "upload", !.again = TRUE]
          /\ ans' = "none" /\ row # "accepted" /\ ServerStill
          /\ UNCHANGED <<budgetVars, up, snaps, journal, call, row, flags, puts, deleting>>
      BY <1>6 DEF NotAttachable, SenderUnchanged, ServerStill
    <2>2. s' \in Sender /\ s'.at = "upload"
      BY <1>1, <2>1, UploadsAgain
    <2>3. n' = n /\ Files' = Files
      BY <1>1, <2>1, Spent
    <2>4. ans' \in Answers /\ fid' \in [1..MaxFiles -> Ids \cup {NoId}]
      BY <2>1 DEF Answers
    <2>5. DeviceTypeOK'
      BY <1>1, <2>1, <2>2, <2>3, <2>4 DEF DeviceTypeOK
    <2>6. DeviceInv'
      BY <1>2, <2>1, <2>2, <2>3 DEF DeviceInv, Whole, Working, Idle, Copying, AtFile, Named, Complete
    <2> QED
      BY <2>1, <2>4, <2>5, <2>6, DeviceKeeps
  <1> QED
    BY <1>3, <1>4, <1>5, <1>6 DEF Sent, NotAttachable, Refused

\* The snapshots go: there is no row any more.
LEMMA CleanUpKeeps ==
  ASSUME IInv, Unlink \/ Clear
  PROVE  IInv'
  <1>1. DeviceTypeOK /\ DeviceInv /\ TypeOK /\ BudgetsOK /\ ans \in Answers /\ s \in Sender
    BY DeviceIs DEF DeviceTypeOK
  <1>2. s.at \in {"unlink", "clear"} /\ row = "none" /\ call = "done"
    BY <1>1 DEF Unlink, Clear, DeviceInv, Whole, Copying, DeviceTypeOK
  <1>3. /\ UNCHANGED <<up, call, row, fid, flags, ans, puts, deleting>> /\ ServerStill
        /\ Fault \/ UNCHANGED budgetVars
        /\ snaps' \subseteq snaps /\ journal' \subseteq journal
    BY DEF Unlink, Clear, SenderUnchanged, ServerStill
  <1>4. n' = n /\ Files' = Files
    BY <1>1, <1>3, Spent
  <1>5. s' \in Sender /\ s'.at \in {"clear", "free"}
    <2>1. LET v == [s EXCEPT !.at = "clear"] IN v \in Sender /\ v.at = "clear"
      BY <1>1, AtIs DEF SenderPlaces
    <2> QED
      BY <2>1, FreeIs DEF Unlink, Clear
  <1>6. DeviceTypeOK'
    BY <1>1, <1>3, <1>4, <1>5 DEF DeviceTypeOK
  <1>7. DeviceInv'
    BY <1>1, <1>2, <1>3, <1>4, <1>5 DEF DeviceInv, Whole, Working, Idle, Copying, AtFile, Named, Complete, OfIts
  <1> QED
    BY <1>1, <1>3, <1>6, <1>7, DeviceKeeps

-----------------------------------------------------------------------------
(* The theorems.                                                           *)

\* Nothing is queued, uploaded or stored at the start.
THEOREM InitEstablishes == Init => IInv
  <1> SUFFICES ASSUME Init PROVE IInv
    OBVIOUS
  <1>1. BudgetsOK
    <2>1. PICK b \in Budgets : n = b[1] /\ faults = b[2] /\ asks = b[3] /\ deletes = b[4]
      BY DEF Init
    <2>2. b \in (1..MaxFiles) \X Nat \X Nat \X Nat
      BY BudgetsAssumption
    <2> QED
      BY <2>1, <2>2 DEF BudgetsOK
  <1>2. up \in BOOLEAN /\ deleting \in BOOLEAN /\ channel \in BOOLEAN
    BY Zenon DEF Init
  <1>3. DeviceTypeOK /\ ans \in Answers
    BY <1>2, FreeIs DEF Init, DeviceTypeOK, Answers
  <1>4. NoRow \in FileRow /\ NoRow.st = "none" /\ ~NoRow.on
    BY DEF NoRow, FileRow
  <1>5. ServerTypeOK
    BY <1>2, <1>4, RestIs DEF Init, ServerTypeOK, Times
  <1>6. RowsInv
    BY <1>4, RestIs DEF Init, RowsInv, HasBytes, AttachedStays, OneRow, Renaming, OneWriter, ToRemove, Seen
  <1>7. DeviceInv
    BY FreeIs DEF Init, DeviceInv, Whole, Working, Idle, Copying, AtFile, Named, Complete
  <1>8. PostsInv /\ SentWhole
    BY DEF Init, PostsInv, SentWhole
  <1> QED
    BY <1>1, <1>3, <1>5, <1>6, <1>7, <1>8, TypesAre DEF IInv

\* Every step of the device and of the server keeps the invariant.
THEOREM StepKeeps == IInv /\ [Next]_vars => IInv'
  <1> SUFFICES ASSUME IInv, [Next]_vars PROVE IInv'
    OBVIOUS
  <1>1. CASE Server
    <2>1. TypeOK' /\ RowsInv' /\ SentWhole' /\ PostsInv' /\ Untouched
      BY <1>1, ServerStepKeeps DEF IInv
    <2>2. DeviceInv'
      BY <2>1 DEF IInv, Untouched, deviceVars, DeviceInv, Whole, Working, Idle, Copying, AtFile, Named,
        Complete, OfIts, Files
    <2> QED
      BY <2>1, <2>2 DEF IInv
  <1>2. CASE SenderStep
    BY <1>2, BeginKeeps, UploadStepKeeps, NextFileKeeps, CreateStepKeeps, PutAnsweredKeeps, RecordKeeps,
      SendKeeps, AnswerKeeps, CleanUpKeeps DEF SenderStep
  <1>3. CASE CallStep \/ Cancel \/ List \/ Retry \/ AskDelete \/ TakeDelete \/ Crash \/ Open
    BY <1>3, CallStepKeeps, UserStepKeeps, TakeDeleteKeeps, CrashKeeps, OpenKeeps
  <1>4. CASE UNCHANGED vars
    <2>1. DeviceTypeOK /\ DeviceInv /\ ans \in Answers /\ n' = n
      BY <1>4, DeviceIs DEF vars, budgetVars
    <2>2. UNCHANGED <<budgetVars, deviceVars, ans, puts>> /\ ServerStill
      BY <1>4 DEF vars, serverVars, ServerStill
    <2>3. DeviceTypeOK' /\ DeviceInv' /\ ans' \in Answers
      BY <2>1, <2>2 DEF deviceVars, DeviceTypeOK, DeviceInv, Whole, Working, Idle, Copying, AtFile, Named,
        Complete, OfIts, Files
    <2> QED
      BY <2>2, <2>3, DeviceKeeps
  <1> QED
    BY <1>1, <1>2, <1>3, <1>4 DEF Next, Device

\* The invariant of the rows, the uploads, the pass of the sweep and the attempt holds for
\* every number of files, uploads, failures and deletions.
THEOREM InvariantHolds == Spec => []IInv
  BY InitEstablishes, StepKeeps, PTL DEF Spec

\* A file has at most one row: create_file is by the file's client_id.
LEMMA OneOfEach ==
  ASSUME OneRow, NEW f \in Files
  PROVE  Cardinality(Its(f)) <= 1
  <1>1. CASE Its(f) = {}
    BY <1>1, FS_EmptySet
  <1>2. CASE Its(f) # {}
    <2>1. PICK i \in Its(f) : TRUE
      BY <1>2
    <2>2. Its(f) = {i}
      BY <2>1 DEF OneRow, Its
    <2> QED
      BY <2>2, FS_Singleton
  <1> QED
    BY <1>1, <1>2

\* A committed file has its bytes, an attached one is committed, each file has one row, and
\* a queued message all its snapshots: whatever fails, stops or is swept meanwhile.
THEOREM AttachHolds == Spec => []AttachInv
  <1>1. IInv => AttachInv
    BY OneOfEach DEF IInv, RowsInv, HasBytes, AttachedStays, DeviceInv, Whole, AttachInv
  <1> QED
    BY <1>1, InvariantHolds, PTL

\* A stored message has all its files, attached and with their bytes, except those that
\* somebody deleted: neither the sweep nor a repeated or late send takes one.
THEOREM SentHolds == Spec => []SentWhole
  <1>1. IInv => SentWhole
    BY DEF IInv
  <1> QED
    BY <1>1, InvariantHolds, PTL

=============================================================================
