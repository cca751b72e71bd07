------------------------------ MODULE LocalData ------------------------------
(***************************************************************************)
(* What a device keeps of its users (core/src/local.rs, store.rs,          *)
(* keyslot.rs, offline.rs, client_offline.rs): the index of users' stores, *)
(* a cache and an outbox of each, every one encrypted under its own key in *)
(* the platform's key store; opening them, wiping them, finishing at the   *)
(* next start what a crash or a locked key store left.                     *)
(*                                                                         *)
(* One operation at a time holds the client's lock.  A step of it is one   *)
(* call of the key store, of the index, or of the file system: a crash may *)
(* come between any two.                                                   *)
(***************************************************************************)
EXTENDS Integers, FiniteSetsExt

CONSTANTS
  Users,
  Nobody,
  MaxId,    \* bound: store ids
  Budgets   \* bound: how often what comes from outside happens, see Spend

Outside == {"signin", "signout", "forget", "wipe", "list", "close", "queue", "read",
            "lock", "lose", "damage", "upgrade", "fail", "crash"}

ASSUME UsersAssumption == Nobody \notin Users /\ MaxId \in Nat
ASSUME BudgetsAssumption == Budgets \subseteq [Outside -> Nat]

Ids == 1..MaxId
Index == <<0, "index">>
CacheOf(id) == <<id, "cache">>
OutboxOf(id) == <<id, "outbox">>
Stores == {Index} \cup {CacheOf(id) : id \in Ids} \cup {OutboxOf(id) : id \in Ids}

VARIABLES
  budget,    \* what is left of it
  (* the disk and the key store *)
  rows,      \* the index: of each user the store's id, doomed or not
  slot,      \* the keys, 0: none
  disk,      \* of each store the key its database and its check are of, messages unsent, format
  dirs,      \* ids with a directory
  locked,    \* the key store
  (* the process *)
  session,   \* who is signed in, at which epoch
  on,        \* the client has an Offline
  news,      \* the watcher has a session change to look at
  active,    \* whose stores are open, under which id
  forgotten, \* the last Remove this device's data
  lost,      \* lost_unsent
  losses,    \* newest, unacked
  op,        \* the operation that holds the lock
  leaving,   \* sign_out_and_forget, before its logout
  (* history *)
  gone,      \* users whose sign_out_and_forget answered Ok, not signed in again
  late,      \* of them, those whose local data was turned on while it ran
  stray,     \* ids whose row went with the index
  owed,      \* losses; of how many there is a record, the app read, and it acknowledged
  hushed     \* lost when a store was made anew for a lost key, which failed or was for a count

diskVars == <<rows, slot, disk, dirs, locked>>
processVars == <<session, on, news, active, forgotten, leaving, gone, late>>
lossVars == <<lost, losses, owed>>
vars == <<budget, diskVars, processVars, lossVars, op, stray, hushed>>

NoRow   == [id |-> 0, doomed |-> FALSE]
NoStore == [db |-> 0, check |-> 0, unsent |-> FALSE, old |-> FALSE]
NoUser  == [u |-> Nobody, epoch |-> 0]
NoOp    == [kind |-> "none", at |-> "rest", u |-> Nobody, epoch |-> 0, id |-> 0, todo |-> {}, back |-> "",
            s |-> Index, key |-> 0, made |-> FALSE, out |-> "", cache |-> "", lives |-> FALSE,
            err |-> FALSE, pass |-> 2, refused |-> FALSE]
NoLosses == [newest |-> 0, unacked |-> FALSE]
NoneOwed == [all |-> 0, recorded |-> 0, read |-> 0, of |-> 0, settled |-> 0]
NoLeave  == [at |-> "rest", u |-> Nobody, ok |-> FALSE]

Init ==
  /\ budget \in Budgets
  /\ rows = [u \in Users |-> NoRow] /\ slot = [s \in Stores |-> 0] /\ disk = [s \in Stores |-> NoStore]
  /\ dirs = {} /\ locked = FALSE
  /\ session = NoUser /\ on = FALSE /\ news = FALSE /\ active = [u |-> Nobody, id |-> 0]
  /\ forgotten = NoUser /\ lost = FALSE /\ losses = NoLosses /\ op = NoOp /\ leaving = NoLeave
  /\ gone = {} /\ late = {} /\ stray = {} /\ owed = NoneOwed /\ hushed = FALSE

Spend(what) == budget[what] > 0 /\ budget' = [budget EXCEPT ![what] = @ - 1]

Named == {rows[u].id : u \in Users} \ {0}
Doomed == {rows[u].id : u \in {w \in Users : rows[w].doomed}}
Others(u) == {w \in Users \ {u} : rows[w].id # 0}

FreshKey(s) == Min((1..4) \ {slot[s], disk[s].db, disk[s].check})
FreshIds == Ids \ (Named \cup dirs \cup {id \in Ids : slot[CacheOf(id)] + slot[OutboxOf(id)] > 0})

Idle == op.kind = "none"
At(a) == op.at = a
Goto(a) == op' = [op EXCEPT !.at = a]
Done == op' = NoOp

-----------------------------------------------------------------------------
(* store::open, for the operation's store `s`. *)

Opening(o, s, back) == [o EXCEPT !.s = s, !.at = "key", !.back = back]
Opened(out) == op' = [op EXCEPT !.out = out, !.at = op.back]
StoreStep == UNCHANGED <<budget, locked, processVars, lost, losses>>

\* A store's files go: what waited in it is lost, unless its user asked for it.
Remove(s) ==
  /\ disk' = [disk EXCEPT ![s] = NoStore]
  /\ owed' = IF disk[s].unsent /\ s[1] \notin Doomed THEN [owed EXCEPT !.all = @ + 1] ELSE owed

\* get_or_create_reporting: a key only for a slot that is absent.
OpenKey ==
  /\ At("key") /\ dirs' = dirs \cup ({op.s[1]} \ {0})
  /\ IF locked
       THEN Opened("locked") /\ UNCHANGED slot
       ELSE LET k == IF slot[op.s] = 0 THEN FreshKey(op.s) ELSE slot[op.s]
            IN  /\ slot' = [slot EXCEPT ![op.s] = k]
                /\ op' = [op EXCEPT !.at = "look", !.key = k, !.made = slot[op.s] = 0]
  /\ UNCHANGED <<rows, disk, owed, stray, hushed>> /\ StoreStep

NoFile == At("look") /\ disk[op.s].db = 0
Fits   == At("look") /\ disk[op.s].db = op.key
Other  == At("look") /\ disk[op.s].db \notin {0, op.key}

\* Only proof deletes: a check of another key, or a key made just now.
Keyless ==
  \/ disk[op.s].check \notin {0, op.key}
  \/ disk[op.s].check = 0 /\ op.made

OpenNew ==
  /\ NoFile /\ op' = [op EXCEPT !.at = "make", !.out = "ready"]
  /\ UNCHANGED <<rows, slot, disk, dirs, owed, stray, hushed>> /\ StoreStep

\* The key opens it: it's this key's, whatever the check said.
OpenFits ==
  /\ Fits /\ disk' = [disk EXCEPT ![op.s].check = op.key]
  /\ CASE ~disk[op.s].old -> Opened("ready")
       [] disk[op.s].old /\ op.s[2] = "outbox" -> Opened("rebuild")
       [] OTHER -> Goto("remake")
  /\ UNCHANGED <<rows, slot, dirs, owed, stray, hushed>> /\ StoreStep

\* A cache or an index of another format goes.
OpenRemake ==
  /\ At("remake") /\ Remove(op.s) /\ op' = [op EXCEPT !.at = "make", !.out = "format"]
  /\ IF op.s = Index
       THEN rows' = [u \in Users |-> NoRow] /\ stray' = stray \cup Named
       ELSE UNCHANGED <<rows, stray>>
  /\ UNCHANGED <<slot, dirs, hushed>> /\ StoreStep

OpenOther ==
  /\ Other
  /\ IF Keyless
       THEN /\ Remove(op.s) /\ op' = [op EXCEPT !.at = "make", !.out = "keymissing"]
            /\ hushed' = (hushed \/ (disk[op.s].unsent /\ op.kind = "list"))
            /\ IF op.s = Index
                 THEN rows' = [u \in Users |-> NoRow] /\ stray' = stray \cup Named
                 ELSE UNCHANGED <<rows, stray>>
       ELSE Opened("damaged") /\ UNCHANGED <<rows, disk, owed, stray, hushed>>
  /\ UNCHANGED <<slot, dirs>> /\ StoreStep

OpenMake ==
  /\ At("make") /\ disk' = [disk EXCEPT ![op.s].db = op.key] /\ Goto("check")
  /\ UNCHANGED <<rows, slot, dirs, owed, stray, hushed>> /\ StoreStep

OpenCheck ==
  /\ At("check") /\ disk' = [disk EXCEPT ![op.s].check = op.key] /\ Opened(op.out)
  /\ UNCHANGED <<rows, slot, dirs, owed, stray, hushed>> /\ StoreStep

\* The file system fails: nothing is decided.
OpenFails ==
  /\ op.at \in {"make", "check"} /\ Spend("fail") /\ Opened("io")
  /\ hushed' = (hushed \/ (op.out = "keymissing" /\ op.s[2] = "outbox" /\ op.kind = "open"))
  /\ UNCHANGED <<diskVars, processVars, lossVars, stray>>

-----------------------------------------------------------------------------
(* LocalData::erase, of the operation's `id`: `lives` if a key survived. *)

Erasing(o, id, back) ==
  [o EXCEPT !.id = id, !.s = CacheOf(id), !.at = "destroy", !.back = back, !.lives = FALSE, !.err = FALSE]

EraseStep == UNCHANGED <<rows, locked, processVars, lost, losses, stray, hushed>>

\* store::reset: the key first,
Destroy ==
  /\ At("destroy") /\ dirs' = dirs \cup {op.id}
  /\ slot' = IF locked THEN slot ELSE [slot EXCEPT ![op.s] = 0]
  /\ op' = [op EXCEPT !.at = "remove", !.lives = @ \/ locked, !.refused = @ \/ locked]
  /\ UNCHANGED <<budget, disk, owed>> /\ EraseStep

AfterRemove(o) ==
  IF o.s = CacheOf(o.id) THEN [o EXCEPT !.s = OutboxOf(o.id), !.at = "destroy"]
  ELSE [o EXCEPT !.at = IF o.err THEN o.back ELSE "rmdir"]

\* then the files, the outbox's whatever became of the cache's,
RemoveFiles ==
  /\ At("remove") /\ Remove(op.s) /\ op' = AfterRemove(op)
  /\ UNCHANGED <<budget, slot, dirs>> /\ EraseStep

\* and the directory.
RemoveDir ==
  /\ At("rmdir") /\ dirs' = dirs \ {op.id} /\ Goto(op.back)
  /\ UNCHANGED <<budget, slot, disk, owed>> /\ EraseStep

EraseFails ==
  /\ op.at \in {"remove", "rmdir"} /\ Spend("fail")
  /\ LET failed == [op EXCEPT !.refused = TRUE, !.err = TRUE]
     IN  op' = IF At("remove") THEN AfterRemove(failed) ELSE [failed EXCEPT !.at = op.back]
  /\ UNCHANGED <<slot, disk, dirs, owed>> /\ EraseStep

\* Mutant of Erased: the row goes with the files.
ErasedFiles == ~op.err

\* erase_row: the row goes only if every key was destroyed.
Erased == ~op.err /\ ~op.lives

DropRow ==
  rows' = [u \in Users |-> IF Erased /\ rows[u].id = op.id THEN NoRow ELSE rows[u]]


-----------------------------------------------------------------------------
(* Turning local data on: LocalData::open, then reconcile. *)

OpStep == UNCHANGED <<budget, diskVars, stray, hushed>>

Enable ==
  /\ Idle /\ ~on /\ op' = Opening([NoOp EXCEPT !.kind = "enable"], Index, "index")
  /\ OpStep /\ UNCHANGED <<processVars, lossVars>>

\* An index whose key is gone: what reconcile does now, it does again if it fails.
EnableIndex ==
  /\ At("index")
  /\ CASE op.out \in {"ready", "format"} -> Goto("doomed")
       [] op.out = "keymissing"          -> op' = [op EXCEPT !.at = "doomed", !.pass = 1]
       [] OTHER                          -> Done
  /\ OpStep /\ UNCHANGED <<processVars, lossVars>>

\* Mutant of ListDoomed: doomed stores are left to open_user.
ListDoomedNone ==
  /\ At("doomed") /\ op' = [op EXCEPT !.at = "each", !.todo = {}]
  /\ OpStep /\ UNCHANGED <<processVars, lossVars>>

ListDoomed ==
  /\ At("doomed") /\ op' = [op EXCEPT !.at = "each", !.todo = Doomed]
  /\ OpStep /\ UNCHANGED <<processVars, lossVars>>

EraseDoomed ==
  /\ At("each")
  /\ IF op.todo = {}
       THEN op' = [op EXCEPT !.at = "stray", !.todo = dirs \ Named]
       ELSE \E id \in op.todo : op' = [Erasing(op, id, "erased") EXCEPT !.todo = @ \ {id}]
  /\ OpStep /\ UNCHANGED <<processVars, lossVars>>

\* Still locked: next time.
DoomedErased ==
  /\ op.kind = "enable" /\ At("erased") /\ DropRow /\ Goto("each")
  /\ UNCHANGED <<budget, slot, disk, dirs, locked, stray, hushed, processVars, lossVars>>

\* A directory no row names; what waits in its outbox is counted first.
EraseStray ==
  /\ At("stray")
  /\ IF op.todo = {}
       THEN op' = [op EXCEPT !.at = "reconciled", !.err = FALSE]
       ELSE \E id \in op.todo :
              LET rest == [op EXCEPT !.todo = @ \ {id}, !.id = id]
              IN  op' = IF disk[OutboxOf(id)].db # 0
                          THEN Opening(rest, OutboxOf(id), "count")
                          ELSE Erasing(rest, id, "gone")
  /\ OpStep /\ UNCHANGED <<processVars, lossVars>>

\* unsent_in: one that can't be read counts as holding something.
Unsent == op.out # "ready" \/ disk[op.s].unsent

StrayCounted ==
  /\ At("count") /\ lost' = (lost \/ Unsent) /\ op' = Erasing(op, op.id, "gone")
  /\ OpStep /\ UNCHANGED <<processVars, losses, owed>>

StrayErased ==
  /\ At("gone") /\ Goto(IF op.err THEN "reconciled" ELSE "stray")
  /\ OpStep /\ UNCHANGED <<processVars, lossVars>>

\* take_lost_unsent, record_loss: every loss has its number.
Record ==
  /\ lost' = FALSE /\ owed' = [owed EXCEPT !.recorded = owed.all]
  /\ losses' = IF lost THEN [newest |-> losses.newest + 1, unacked |-> TRUE] ELSE losses

Enabled ==
  /\ At("reconciled")
  /\ IF op.pass = 1
       THEN op' = [op EXCEPT !.at = "doomed", !.pass = 2, !.err = FALSE] /\ UNCHANGED <<lossVars, on, news, late>>
       ELSE /\ Done /\ Record /\ on' = ~op.err /\ news' = (news \/ ~op.err)
            /\ late' = late \cup IF leaving.at = "logout" THEN {leaving.u} ELSE {}
  /\ OpStep /\ UNCHANGED <<session, active, forgotten, leaving, gone>>

-----------------------------------------------------------------------------
(* The watcher: whoever is signed in gets their stores. *)

NoActive == [u |-> Nobody, id |-> 0]

\* Mutant of Refused: signing out forgets it.
RefusedNever == FALSE

\* The session that asked to be forgotten gets no stores again.
Refused == forgotten.u = session.u /\ session.epoch <= forgotten.epoch

Watch ==
  /\ Idle /\ on /\ news /\ news' = FALSE
  /\ IF session.u = Nobody \/ Refused \/ active.u = session.u
       THEN UNCHANGED <<op, active>>
       ELSE /\ active' = NoActive
            /\ op' = [NoOp EXCEPT !.kind = "open", !.at = "user", !.u = session.u, !.epoch = session.epoch]
  /\ OpStep /\ UNCHANGED <<session, on, forgotten, leaving, gone, late, lossVars>>

\* open_user finishes a wipe before this user gets stores again.
OpenUser ==
  /\ At("user")
  /\ op' = IF rows[op.u].doomed THEN Erasing(op, rows[op.u].id, "erased") ELSE [op EXCEPT !.at = "row"]
  /\ OpStep /\ UNCHANGED <<processVars, lossVars>>

UserErased ==
  /\ op.kind = "open" /\ At("erased") /\ DropRow /\ Goto(IF Erased THEN "row" ELSE "failed")
  /\ UNCHANGED <<budget, slot, disk, dirs, locked, stray, hushed, processVars, lossVars>>

StoreId ==
  /\ At("row")
  /\ \/ rows[op.u].id # 0 /\ UNCHANGED rows
     \/ /\ rows[op.u].id = 0 /\ FreshIds # {}
        /\ rows' = [rows EXCEPT ![op.u].id = CHOOSE id \in FreshIds : TRUE]
  /\ op' = Opening([op EXCEPT !.id = rows'[op.u].id], CacheOf(rows'[op.u].id), "cache")
  /\ UNCHANGED <<budget, slot, disk, dirs, locked, stray, hushed, processVars, lossVars>>

CacheOpened ==
  /\ At("cache")
  /\ op' = IF op.out = "io" THEN [op EXCEPT !.at = "failed"]
           ELSE Opening([op EXCEPT !.cache = op.out], OutboxOf(op.id), "outbox")
  /\ OpStep /\ UNCHANGED <<processVars, lossVars>>

\* Mutant of OutboxOpened: the loss is noted once the rebuild succeeded.
OutboxOpenedThen ==
  /\ At("outbox") /\ lost' = (lost \/ op.out = "keymissing")
  /\ Goto(CASE op.out = "io" -> "failed" [] op.out = "rebuild" -> "rebuild" [] OTHER -> "opened")
  /\ OpStep /\ UNCHANGED <<processVars, losses, owed>>

\* Of another format: a loss if something waits in it, noted before it goes.
OutboxOpened ==
  /\ At("outbox")
  /\ lost' = (lost \/ op.out = "keymissing" \/ (op.out = "rebuild" /\ disk[op.s].unsent))
  /\ Goto(CASE op.out = "io" -> "failed" [] op.out = "rebuild" -> "rebuild" [] OTHER -> "opened")
  /\ OpStep /\ UNCHANGED <<processVars, losses, owed>>

Rebuild ==
  /\ At("rebuild") /\ Remove(op.s) /\ op' = Opening(op, op.s, "outbox")
  /\ UNCHANGED <<budget, rows, slot, dirs, locked, stray, hushed, processVars, lost, losses>>

\* A store locked or damaged: nothing is opened, nothing deleted.
UserOpened ==
  /\ op.at \in {"opened", "failed"} /\ Record /\ Done
  /\ active' = IF At("opened") /\ {op.cache, op.out} \subseteq {"ready", "format", "keymissing"}
                 THEN [u |-> op.u, id |-> op.id] ELSE active
  /\ OpStep /\ UNCHANGED <<session, on, news, forgotten, leaving, gone, late>>

-----------------------------------------------------------------------------
(* Remove this device's data, and other users' data. *)

CloseOf(who) == active' = IF active.u \in who THEN NoActive ELSE active

\* Counted by directories: the index is never removed.
StoresOnDisk == dirs # {}

\* The lock is taken and the session read; without an Offline nothing can be erased.
Forget ==
  /\ leaving.at = "rest" /\ session.u # Nobody /\ Spend("forget")
  /\ IF on
       THEN /\ Idle /\ forgotten' = session /\ CloseOf({session.u})
            /\ op' = [NoOp EXCEPT !.kind = "forget", !.at = "doom", !.u = session.u]
            /\ leaving' = [NoLeave EXCEPT !.at = "erase", !.u = session.u]
       ELSE /\ leaving' = [at |-> "logout", u |-> session.u, ok |-> ~StoresOnDisk]
            /\ UNCHANGED <<forgotten, active, op>>
  /\ UNCHANGED <<diskVars, session, on, news, gone, late, lossVars, stray, hushed>>

\* LocalData::wipe: the row is doomed first.
Doom ==
  /\ At("doom")
  /\ IF rows[op.u].id = 0
       THEN op' = [op EXCEPT !.at = "next", !.err = FALSE, !.lives = FALSE] /\ UNCHANGED rows
       ELSE rows' = [rows EXCEPT ![op.u].doomed = TRUE] /\ op' = Erasing(op, rows[op.u].id, "erased")
  /\ UNCHANGED <<budget, slot, disk, dirs, locked, stray, hushed, processVars, lossVars>>

WipeErased ==
  /\ op.kind \in {"forget", "wipe"} /\ At("erased") /\ DropRow /\ Goto("next")
  /\ UNCHANGED <<budget, slot, disk, dirs, locked, stray, hushed, processVars, lossVars>>

Forgotten ==
  /\ op.kind = "forget" /\ At("next") /\ Done
  /\ leaving' = [leaving EXCEPT !.at = "logout", !.ok = Erased]
  /\ OpStep /\ UNCHANGED <<session, on, news, active, forgotten, gone, late, lossVars>>

\* The sign-out follows, whatever became of the erase; then Ok is answered.
Logout ==
  /\ leaving.at = "logout" /\ leaving' = NoLeave /\ session' = [session EXCEPT !.u = Nobody]
  /\ news' = (news \/ session.u # Nobody) /\ gone' = IF leaving.ok THEN gone \cup ({leaving.u} \ {Nobody}) ELSE gone
  /\ OpStep /\ UNCHANGED <<op, on, active, forgotten, late, lossVars>>

WipeOthers ==
  /\ Idle /\ on /\ session.u # Nobody /\ Spend("wipe")
  /\ op' = [NoOp EXCEPT !.kind = "wipe", !.at = "next", !.todo = Others(session.u)]
  /\ UNCHANGED <<diskVars, processVars, lossVars, stray, hushed>>

WipeNext ==
  /\ op.kind = "wipe" /\ At("next")
  /\ IF op.todo = {} \/ ~Erased
       THEN Done /\ UNCHANGED active
       ELSE \E u \in op.todo : CloseOf({u}) /\ op' = [op EXCEPT !.at = "doom", !.u = u, !.todo = @ \ {u}]
  /\ OpStep /\ UNCHANGED <<session, on, news, forgotten, leaving, gone, late, lossVars>>

\* others_with_unsent opens each of their outboxes to count; one that is open isn't counted.
ListOthers ==
  /\ Idle /\ on /\ session.u # Nobody /\ Spend("list")
  /\ op' = [NoOp EXCEPT !.kind = "list", !.at = "listed", !.todo = {rows[w].id : w \in Others(session.u)}]
  /\ UNCHANGED <<diskVars, processVars, lossVars, stray, hushed>>

ListNext ==
  /\ At("listed")
  /\ IF op.todo = {}
       THEN Done
       ELSE \E id \in op.todo :
              LET rest == [op EXCEPT !.todo = @ \ {id}]
              IN  op' = IF disk[OutboxOf(id)].db = 0 \/ active.id = id
                          THEN rest ELSE Opening(rest, OutboxOf(id), "listed")
  /\ OpStep /\ UNCHANGED <<processVars, lossVars>>

CloseLocalData ==
  /\ Idle /\ on /\ Spend("close") /\ on' = FALSE /\ active' = NoActive
  /\ UNCHANGED <<op, diskVars, session, news, forgotten, leaving, gone, late, lossVars, stray, hushed>>

-----------------------------------------------------------------------------
(* The app, the user, the device. *)

SignIn(u) ==
  /\ Spend("signin") /\ session.u # u /\ session' = [u |-> u, epoch |-> session.epoch + 1]
  /\ news' = TRUE /\ gone' = gone \ {u} /\ late' = late \ {u}
  /\ leaving' = IF leaving.u = u THEN [leaving EXCEPT !.u = Nobody] ELSE leaving
  /\ UNCHANGED <<diskVars, on, active, forgotten, lossVars, op, stray, hushed>>

SignOut ==
  /\ Spend("signout") /\ session.u # Nobody /\ session' = [session EXCEPT !.u = Nobody] /\ news' = TRUE
  /\ UNCHANGED <<diskVars, on, active, forgotten, leaving, gone, late, lossVars, op, stray, hushed>>

\* A message waits to be sent.
Queue ==
  /\ Idle /\ Spend("queue") /\ active.u # Nobody /\ active.u = session.u
  /\ disk' = [disk EXCEPT ![OutboxOf(active.id)].unsent = TRUE]
  /\ UNCHANGED <<rows, slot, dirs, locked, processVars, lossVars, op, stray, hushed>>

\* The app reads the newest loss, shows it,
ReadLoss ==
  /\ Spend("read") /\ losses.unacked
  /\ owed' = [owed EXCEPT !.read = losses.newest, !.of = owed.recorded]
  /\ UNCHANGED <<diskVars, processVars, lost, losses, op, stray, hushed>>

Acknowledged == owed.read = losses.newest

\* and acknowledges it.
Acknowledge ==
  /\ owed.read > 0 /\ owed' = [owed EXCEPT !.read = 0, !.settled = IF Acknowledged THEN owed.of ELSE @]
  /\ losses' = IF Acknowledged THEN [losses EXCEPT !.unacked = FALSE] ELSE losses
  /\ UNCHANGED <<budget, diskVars, processVars, lost, op, stray, hushed>>

LockKeys ==
  /\ Spend("lock") /\ locked' = ~locked
  /\ UNCHANGED <<rows, slot, disk, dirs, processVars, lossVars, op, stray, hushed>>

Outer0 == UNCHANGED <<rows, dirs, locked, processVars, lossVars, op, stray, hushed>>

\* A key is removed from the key store.
Lose(s) ==
  /\ Idle /\ ~on /\ slot[s] # 0 /\ Spend("lose") /\ slot' = [slot EXCEPT ![s] = 0]
  /\ UNCHANGED disk /\ Outer0

Unreadable == 9

Damage(s) ==
  /\ Idle /\ ~on /\ disk[s].db # 0 /\ Spend("damage") /\ disk' = [disk EXCEPT ![s].db = Unreadable]
  /\ UNCHANGED slot /\ Outer0

\* The next version has another format of one kind of store.
Upgrade(kind) ==
  /\ Idle /\ ~on /\ Spend("upgrade") /\ UNCHANGED slot /\ Outer0
  /\ disk' = [s \in Stores |-> IF s[2] = kind /\ disk[s].db # 0 THEN [disk[s] EXCEPT !.old = TRUE] ELSE disk[s]]

\* The process dies, or ends. A loss not told is not told any more.
Crash ==
  /\ Spend("crash") /\ op' = NoOp /\ session' = [session EXCEPT !.u = Nobody] /\ on' = FALSE /\ news' = FALSE
  /\ active' = NoActive /\ forgotten' = NoUser /\ leaving' = NoLeave
  /\ lost' = FALSE /\ losses' = NoLosses /\ hushed' = FALSE
  /\ owed' = NoneOwed
  /\ UNCHANGED <<diskVars, gone, late, stray>>

-----------------------------------------------------------------------------

Opens == OpenKey \/ OpenNew \/ OpenFits \/ OpenRemake \/ OpenOther \/ OpenMake \/ OpenCheck \/ OpenFails
Erases == Destroy \/ RemoveFiles \/ RemoveDir \/ EraseFails
Reconciles ==
  \/ Enable \/ EnableIndex \/ ListDoomed \/ EraseDoomed \/ DoomedErased \/ EraseStray
  \/ StrayCounted \/ StrayErased \/ Enabled
OpensUser == Watch \/ OpenUser \/ UserErased \/ StoreId \/ CacheOpened \/ OutboxOpened \/ Rebuild \/ UserOpened
Forgets == Forget \/ Doom \/ WipeErased \/ Forgotten \/ Logout
OthersData == WipeOthers \/ WipeNext \/ ListOthers \/ ListNext \/ CloseLocalData
Outer ==
  \/ \E u \in Users : SignIn(u)
  \/ SignOut \/ Queue \/ ReadLoss \/ Acknowledge \/ LockKeys \/ Crash
  \/ \E s \in Stores : Lose(s) \/ Damage(s)
  \/ \E kind \in {"index", "cache", "outbox"} : Upgrade(kind)

Next == Opens \/ Erases \/ Reconciles \/ OpensUser \/ Forgets \/ OthersData \/ Outer

Spec == Init /\ [][Next]_vars

-----------------------------------------------------------------------------

Anyone == Users \cup {Nobody}
OpenStages  == {"key", "look", "remake", "make", "check"}
EraseStages == {"destroy", "remove", "rmdir"}
EnableStages == {"index", "doomed", "each", "stray", "count", "gone", "reconciled"}
UserStages  == {"user", "row", "cache", "outbox", "rebuild", "opened", "failed"}
Outcomes == {"", "ready", "format", "keymissing", "locked", "damaged", "rebuild", "io"}

Operation ==
  [kind: {"none", "enable", "open", "forget", "wipe", "list"},
   at: OpenStages \cup EraseStages \cup EnableStages \cup UserStages \cup {"rest", "erased", "doom", "next", "listed"},
   u: Anyone, epoch: Nat, id: {0} \cup Ids, todo: SUBSET (Ids \cup Users),
   back: {"", "index", "count", "cache", "outbox", "listed", "erased", "gone"},
   s: Stores, key: Nat, made: BOOLEAN, out: Outcomes, cache: Outcomes, lives: BOOLEAN,
   err: BOOLEAN, pass: {1, 2}, refused: BOOLEAN]

File == [db: Nat, check: Nat, unsent: BOOLEAN, old: BOOLEAN]
Owed == [all: Nat, recorded: Nat, read: Nat, of: Nat, settled: Nat]

TypeOK ==
  /\ rows \in [Users -> [id: {0} \cup Ids, doomed: BOOLEAN]] /\ slot \in [Stores -> Nat]
  /\ disk \in [Stores -> File]
  /\ dirs \subseteq Ids /\ stray \subseteq Ids /\ locked \in BOOLEAN /\ on \in BOOLEAN /\ news \in BOOLEAN
  /\ session \in [u: Anyone, epoch: Nat] /\ forgotten \in [u: Anyone, epoch: Nat]
  /\ active \in [u: Anyone, id: {0} \cup Ids] /\ op \in Operation
  /\ leaving \in [at: {"rest", "erase", "logout"}, u: Anyone, ok: BOOLEAN]
  /\ gone \subseteq Users /\ late \subseteq Anyone /\ lost \in BOOLEAN /\ hushed \in BOOLEAN
  /\ losses \in [newest: Nat, unacked: BOOLEAN]
  /\ owed \in Owed

\* The stores open are those the index has for that user, and no wipe of them has begun.
OpenIsNamed ==
  active.u # Nobody => on /\ rows[active.u] = [id |-> active.id, doomed |-> FALSE]

\* Stores with a database, and with a key or one.
Written == {s \in Stores \ {Index} : disk[s].db # 0}
Held == Written \cup {s \in Stores \ {Index} : slot[s] # 0}

\* A row outlives its store's keys and files, so that a wipe cut short can be finished.
KeysBeforeRow == \A s \in Held : s[1] \in Named \cup stray

\* local.rs: the stores open are their user's, none of them is being wiped, and no key or
\* database is left that the index does not lead to, except where the index itself was lost.
LocalInv == TypeOK /\ OpenIsNamed /\ KeysBeforeRow

\* client_offline.rs, sign_out_and_forget: after Ok nothing is left of that user until the next
\* sign-in, whatever change of session the watcher had still to look at.  Turning local data on
\* meanwhile is excluded: see ForgottenIsGoneAnyway.
ForgottenIsGone == \A u \in gone \ late, s \in Written : s[1] # rows[u].id

\* What its documentation says, without the exception.  It fails: Ok is answered for a device that
\* has no stores, and before the sign-out the watcher that came with enable_local_data makes some.
ForgottenIsGoneAnyway == \A u \in gone, s \in Written : s[1] # rows[u].id

\* local.rs, lost_unsent and Losses: unsent messages that went without their user's asking are
\* said to be lost until the app acknowledges that loss or a later one; none is settled by
\* acknowledging an earlier one.  Excluded is what `hushed` names, see LossIsSaidAnyway.
LossIsSaid ==
  Idle /\ ~hushed /\ owed.all > owed.settled => lost \/ losses.unacked

\* What the comment of lost_unsent says, without the exception.  It fails: an outbox whose key is
\* gone is remade within store::open, which answers an error when that fails, and the flag is set
\* only once it answered.
LossIsSaidAnyway ==
  Idle /\ owed.all > owed.settled => lost \/ losses.unacked

\* reconcile: a start that no lock and no failing file refused has finished every wipe, and leaves
\* no directory that no row names.
ReconcileFinishes ==
  [][~on /\ on' /\ ~op.refused => Doomed = {} /\ dirs \subseteq Named]_vars

-----------------------------------------------------------------------------
(* The inductive invariant (proved in LocalDataProofs).                    *)

OpeningStore == op.at \in OpenStages
ErasingRow   == op.at \in EraseStages \cup {"erased"} /\ op.back = "erased"
ErasingStray == op.at \in EraseStages \cup {"gone"} /\ op.back = "gone"
CountingStray == (OpeningStore /\ op.back = "count") \/ op.at = "count"

\* Which store an operation opens, and where it goes on.
OpensIts ==
  \/ op.kind = "enable" /\ op.back = "index" /\ op.s = Index
  \/ op.kind = "enable" /\ op.back = "count" /\ op.id \in Ids /\ op.s = OutboxOf(op.id)
  \/ op.kind = "open" /\ op.back = "cache" /\ op.s = CacheOf(op.id)
  \/ op.kind = "open" /\ op.back = "outbox" /\ op.s = OutboxOf(op.id)
  \/ op.kind = "list" /\ op.back = "listed" /\ \E id \in Ids : op.s = OutboxOf(id)

\* Which operation is where, and what for.
OpFits ==
  /\ op.kind = "none" <=> op.at = "rest"
  /\ op.kind = "none" => op = NoOp
  /\ OpeningStore => OpensIts
  /\ op.at \in EraseStages =>
       /\ op.id \in Ids /\ op.s \in {CacheOf(op.id), OutboxOf(op.id)}
       /\ op.back \in {"erased", "gone"}
  /\ op.at = "rmdir" => op.s = OutboxOf(op.id) /\ ~op.err
  /\ ErasingRow => op.kind \in {"enable", "open", "forget", "wipe"} /\ op.id \in Doomed
  /\ op.at = "erased" => op.back = "erased"
  /\ op.at = "gone" => op.back = "gone"
  /\ op.at \in EnableStages \/ ErasingStray => op.kind = "enable"
  /\ op.at \in UserStages => op.kind = "open"
  /\ op.at \in {"doom", "next"} => op.kind \in {"forget", "wipe"}
  /\ op.at = "listed" => op.kind = "list"
  /\ op.at = "remake" => op.s[2] # "outbox"
  /\ op.at \in OpenStages \ {"key"} => op.key # 0
  /\ op.kind = "enable" => ~on
  /\ op.kind \in {"open", "forget", "wipe", "list"} => on
  /\ op.err \/ op.lives => op.refused

\* No two users' rows name the same store.
OneStoreEach ==
  /\ \A u, w \in Users : rows[u].id = rows[w].id /\ rows[u].id # 0 => u = w
  /\ \A u \in Users : rows[u].doomed => rows[u].id # 0

\* What the operation works on is in the index, or known not to be.
OnItsRow ==
  /\ op.kind = "open" =>
       /\ op.u \in Users /\ active = NoActive
       /\ ErasingRow => rows[op.u].id = op.id
       /\ op.at = "row" => ~rows[op.u].doomed
       /\ OpeningStore \/ op.at \in {"cache", "outbox", "rebuild", "opened"} =>
            op.id # 0 /\ rows[op.u] = [id |-> op.id, doomed |-> FALSE]
       /\ op.at \in {"outbox", "rebuild", "opened"} => op.s = OutboxOf(op.id)
  /\ op.kind \in {"forget", "wipe"} =>
       /\ op.at # "next" => op.u \in Users /\ active.u # op.u
       /\ ErasingRow => rows[op.u].id = op.id
  /\ op.kind = "forget" => op.u \in Users /\ active.u # op.u
  /\ op.kind = "forget" /\ op.at = "next" /\ Erased => rows[op.u].id = 0
  /\ op.kind = "wipe" => op.todo \subseteq Users
  /\ op.kind = "list" => op.todo \subseteq Ids
  /\ op.kind = "enable" =>
       /\ op.at = "each" => op.todo \subseteq Doomed
       /\ ErasingRow => op.todo \subseteq Doomed /\ op.id \notin op.todo
       /\ op.at = "stray" \/ CountingStray \/ ErasingStray => op.todo \subseteq stray \ Named
       /\ CountingStray \/ ErasingStray => op.id \in stray \ Named
       /\ op.at = "count" => op.s = OutboxOf(op.id)

\* How far an erase is.
EraseSoFar ==
  op.at \in EraseStages \cup {"erased", "gone"} =>
    LET pastCache == op.at # "destroy" \/ op.s = OutboxOf(op.id)
        inOutbox  == op.s = OutboxOf(op.id) \/ op.at \notin EraseStages
        over      == op.at \in {"rmdir", "erased", "gone"}
    IN  /\ pastCache /\ ~op.lives => slot[CacheOf(op.id)] = 0
        /\ inOutbox /\ ~op.err => disk[CacheOf(op.id)] = NoStore
        /\ inOutbox /\ op.at # "destroy" /\ ~op.lives => slot[OutboxOf(op.id)] = 0
        /\ over /\ ~op.err => disk[OutboxOf(op.id)] = NoStore
        /\ op.at \in {"erased", "gone"} /\ ~op.err => op.id \notin dirs

\* A store's files are in its directory, and every directory was named once.
DirsNamed ==
  /\ \A s \in Written : s[1] \in dirs
  /\ dirs \subseteq Named \cup stray
  /\ OpeningStore /\ op.s # Index => op.s[1] \in Named \cup stray
  /\ op.at \in OpenStages \ {"key"} /\ op.s # Index => op.s[1] \in dirs

\* Who has asked to be forgotten gets no store.
Away ==
  (gone \cup IF leaving.at = "logout" /\ leaving.ok THEN {leaving.u} \ {Nobody} ELSE {}) \ late

StaysAway ==
  /\ \A u \in Away :
       /\ \A s \in Written : s[1] # rows[u].id
       /\ ~(op.kind = "open" /\ op.u = u)
       /\ OpeningStore /\ op.s # Index => op.s[1] # rows[u].id
       /\ session.u = u => ~on \/ (forgotten.u = u /\ session.epoch <= forgotten.epoch)
  /\ \A u \in gone : session.u # u
  /\ leaving.at = "erase" <=> op.kind = "forget"
  /\ leaving.at = "erase" =>
       /\ leaving.u \in {Nobody, op.u} /\ forgotten.u = op.u
       /\ leaving.u = session.u /\ session.u # Nobody => session.epoch <= forgotten.epoch

\* A loss that will be noted before the operation ends.
Noting ==
  \/ /\ op.at \in {"make", "check"} /\ op.out = "keymissing"
     /\ op.s[2] = "outbox" /\ op.kind \in {"open", "enable"}
  \/ op.at = "count" /\ op.out # "ready"
  \/ op.at = "outbox" /\ op.out = "keymissing"

LossesNoted ==
  /\ \A s \in Stores : disk[s].unsent => s[2] = "outbox" /\ disk[s].db # 0
  /\ active.u # Nobody => active.id \in Ids /\ disk[OutboxOf(active.id)].db # 0
  /\ op.kind = "list" /\ OpeningStore => op.s # OutboxOf(active.id)
  /\ ErasingStray /\ disk[OutboxOf(op.id)].unsent => lost
  /\ op.at = "rebuild" /\ disk[op.s].unsent => lost
  /\ op.at \in {"outbox", "opened"} /\ op.out \in {"ready", "format", "keymissing"} => disk[op.s].db # 0
  /\ op.at = "check" => disk[op.s].db # 0
  /\ owed.read <= losses.newest
  /\ ~hushed =>
       /\ owed.all > owed.recorded => lost \/ Noting
       /\ owed.recorded > owed.settled => losses.unacked
       /\ owed.read > 0 /\ owed.read = losses.newest => owed.of >= owed.recorded

\* What is still to be erased is on its way.
NothingSkipped ==
  op.kind = "enable" /\ ~op.refused =>
    /\ op.at = "each" => Doomed \subseteq op.todo
    /\ ErasingRow => Doomed \subseteq op.todo \cup {op.id}
    /\ op.at \in {"stray", "reconciled"} \/ CountingStray \/ ErasingStray => Doomed = {}
    /\ op.at = "stray" => dirs \ Named \subseteq op.todo
    /\ CountingStray \/ ErasingStray => dirs \ Named \subseteq op.todo \cup {op.id}
    /\ op.at = "reconciled" => dirs \subseteq Named

Inv ==
  /\ LocalInv /\ OpFits /\ OneStoreEach /\ OnItsRow /\ EraseSoFar /\ DirsNamed
  /\ StaysAway /\ LossesNoted /\ NothingSkipped
=============================================================================
