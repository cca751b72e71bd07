--------------------------- MODULE LocalDataProofs ---------------------------
(***************************************************************************)
(* Proofs about LocalData, for any users, any store ids, and any number of *)
(* everything that comes from outside: crashes, locked or lost keys,       *)
(* damaged files, other formats, failing file systems.                     *)
(*                                                                         *)
(* The argument: what an operation still has to do is written down where   *)
(* it is (OpFits, OnItsRow, EraseSoFar).  Keys go before files, files      *)
(* before the directory, and the row last (EraseSoFar), so what is left    *)
(* of a store is always led to by a row or was when the index was lost     *)
(* (KeysBeforeRow, DirsNamed).  A user who asked to be forgotten has       *)
(* neither a store, nor an operation that would make one, nor a session    *)
(* newer than the one refused (StaysAway).  A loss has a record, or the    *)
(* flag is set, or the operation is where it can only go on to set it      *)
(* (Noting, LossesNoted).                                                  *)
(*                                                                         *)
(* Inv is inductive.  Its steps are taken by kind: what all steps of       *)
(* store::open leave alone (OpenStep), all of an erase (ErasingStep), all  *)
(* that only go on with an operation (OpWork), all from outside.           *)
(***************************************************************************)
EXTENDS LocalData, TLAPS

\* The names of the stores tell them apart.
LEMMA StoreNames ==
  /\ Index \in Stores /\ Index[1] = 0 /\ Index[2] = "index"
  /\ \A i \in Ids : /\ CacheOf(i) \in Stores /\ OutboxOf(i) \in Stores
                    /\ CacheOf(i) # Index /\ OutboxOf(i) # Index
                    /\ \A j \in Ids : CacheOf(i) # OutboxOf(j)
                    /\ i # 0 /\ i \in Nat
  /\ \A i : /\ CacheOf(i)[1] = i /\ OutboxOf(i)[1] = i
            /\ CacheOf(i)[2] = "cache" /\ OutboxOf(i)[2] = "outbox"
  /\ \A s \in Stores \ {Index} : s[1] \in Ids /\ (s = CacheOf(s[1]) \/ s = OutboxOf(s[1]))
BY UsersAssumption DEF Stores, Index, CacheOf, OutboxOf, Ids

\* Where an operation may be, and where store::open may come back to.
Stages == OpenStages \cup EraseStages \cup EnableStages \cup UserStages \cup {"rest", "erased", "doom", "next", "listed"}
Backs == {"", "index", "count", "cache", "outbox", "listed", "erased", "gone"}

\* What an operation is once it opens a store,
LEMMA OpeningIs ==
  ASSUME NEW o \in Operation, NEW s \in Stores, NEW back \in Backs,
         NEW p, p = Opening(o, s, back)
  PROVE
         /\ p \in Operation /\ p.s = s /\ p.at = "key" /\ p.back = back
         /\ p.kind = o.kind /\ p.u = o.u /\ p.epoch = o.epoch /\ p.id = o.id /\ p.todo = o.todo
         /\ p.key = o.key /\ p.made = o.made /\ p.out = o.out /\ p.cache = o.cache
         /\ p.lives = o.lives /\ p.err = o.err /\ p.pass = o.pass /\ p.refused = o.refused
BY DEF Opening, Operation, OpenStages, Backs

\* erases one,
LEMMA ErasingIs ==
  ASSUME NEW o \in Operation, NEW id \in Ids, NEW back \in Backs,
         NEW p, p = Erasing(o, id, back)
  PROVE
         /\ p \in Operation /\ p.id = id /\ p.s = CacheOf(id) /\ p.at = "destroy" /\ p.back = back
         /\ ~p.lives /\ ~p.err
         /\ p.kind = o.kind /\ p.u = o.u /\ p.epoch = o.epoch /\ p.todo = o.todo
         /\ p.key = o.key /\ p.made = o.made /\ p.out = o.out /\ p.cache = o.cache
         /\ p.pass = o.pass /\ p.refused = o.refused
BY StoreNames DEF Erasing, Operation, EraseStages, Backs

\* goes on elsewhere,
LEMMA GotoIs ==
  ASSUME op \in Operation, NEW a \in Stages, Goto(a)
  PROVE  /\ op' \in Operation /\ op'.at = a
         /\ op'.kind = op.kind /\ op'.u = op.u /\ op'.epoch = op.epoch /\ op'.id = op.id /\ op'.todo = op.todo
         /\ op'.back = op.back /\ op'.s = op.s
         /\ op'.key = op.key /\ op'.made = op.made /\ op'.out = op.out /\ op'.cache = op.cache
         /\ op'.lives = op.lives /\ op'.err = op.err /\ op'.pass = op.pass /\ op'.refused = op.refused
BY DEF Goto, Operation, Stages

\* or comes back from store::open.
LEMMA OpenedIs ==
  ASSUME op \in Operation, op.back # "", NEW out \in Outcomes, Opened(out)
  PROVE  /\ op' \in Operation /\ op'.at = op.back /\ op'.out = out
         /\ op'.kind = op.kind /\ op'.u = op.u /\ op'.epoch = op.epoch /\ op'.id = op.id /\ op'.todo = op.todo
         /\ op'.back = op.back /\ op'.s = op.s
         /\ op'.key = op.key /\ op'.made = op.made /\ op'.cache = op.cache
         /\ op'.lives = op.lives /\ op'.err = op.err /\ op'.pass = op.pass /\ op'.refused = op.refused
<1>1. op.back \in OpenStages \cup EraseStages \cup EnableStages \cup UserStages \cup {"rest", "erased", "doom", "next", "listed"}
  BY DEF Operation, EnableStages, UserStages
<1> QED
  BY <1>1 DEF Opened, Operation

\* No operation.
LEMMA NoOpIs ==
  /\ NoOp \in Operation /\ NoOp.kind = "none" /\ NoOp.at = "rest" /\ NoOp.u = Nobody /\ NoOp.epoch = 0
  /\ NoOp.id = 0 /\ NoOp.todo = {} /\ NoOp.back = "" /\ NoOp.s = Index /\ NoOp.key = 0
  /\ NoOp.made = FALSE /\ NoOp.out = "" /\ NoOp.cache = "" /\ NoOp.lives = FALSE /\ NoOp.err = FALSE
  /\ NoOp.pass = 2 /\ NoOp.refused = FALSE
BY StoreNames DEF NoOp, Operation, Anyone, Outcomes

-----------------------------------------------------------------------------
(* store::open. *)

\* A key made is one, and not the empty slot.
LEMMA KeyIsFresh ==
  ASSUME NEW s
  PROVE  FreshKey(s) \in Nat \ {0}
<1> DEFINE K == (1..4) \ {slot[s], disk[s].db, disk[s].check}
<1>1. \E k \in K : \A j \in K : k <= j
  OBVIOUS
<1>2. FreshKey(s) = CHOOSE k \in K : \A j \in K : k <= j
  BY DEF FreshKey, Min
<1>3. K \subseteq Nat \ {0}
  OBVIOUS
<1> QED
  BY <1>1, <1>2, <1>3

\* The operation goes on with the same work.
SameWork ==
  /\ op'.kind = op.kind /\ op'.u = op.u /\ op'.id = op.id /\ op'.todo = op.todo
  /\ op'.back = op.back /\ op'.lives = op.lives /\ op'.err = op.err /\ op'.refused = op.refused

\* The invariant as one conjunction.
Parts ==
  /\ TypeOK /\ OpenIsNamed /\ KeysBeforeRow /\ OpFits /\ OneStoreEach /\ OnItsRow /\ EraseSoFar
  /\ DirsNamed /\ StaysAway /\ LossesNoted /\ NothingSkipped

\* The invariant, part by part.
LEMMA InvIsParts == Inv <=> Parts
BY DEF Inv, Parts, LocalInv

\* What every step of store::open leaves alone.
OpenStep ==
  /\ OpeningStore /\ op' \in Operation /\ SameWork /\ op'.s = op.s
  /\ op'.at \in {op.back} \cup (OpenStages \ {"key"})
  /\ op'.at = "remake" => op.s[2] # "outbox"
  /\ op'.at \in OpenStages => op'.key # 0
  /\ slot' \in [Stores -> Nat] /\ \A s \in Stores \ {op.s} : slot'[s] = slot[s]
  /\ disk' \in [Stores -> File] /\ \A s \in Stores \ {op.s} : disk'[s] = disk[s]
  /\ dirs' = dirs \cup ({op.s[1]} \ {0})
  /\ \/ UNCHANGED <<rows, stray>>
     \/ op.s = Index /\ rows' = [u \in Users |-> NoRow] /\ stray' = stray \cup Named
  /\ UNCHANGED <<locked, session, on, news, active, forgotten, leaving, gone, late, lost, losses>>
  /\ hushed' \in BOOLEAN /\ owed' \in Owed

\* store::open keeps everything but the account of losses,
LEMMA OpenStepKeeps ==
  ASSUME Inv, OpenStep
  PROVE  /\ TypeOK' /\ OpenIsNamed' /\ KeysBeforeRow' /\ OpFits' /\ OneStoreEach' /\ OnItsRow' /\ EraseSoFar'
         /\ DirsNamed' /\ StaysAway' /\ NothingSkipped'
<1>a. Parts
  BY InvIsParts
<1>b. /\ op \in Operation /\ op.s \in Stores /\ rows \in [Users -> [id: {0} \cup Ids, doomed: BOOLEAN]]
      /\ stray \subseteq Ids /\ dirs \subseteq Ids
  BY <1>a DEF Parts, TypeOK, Operation
<1>0. OpensIts /\ op.at \in OpenStages /\ op.kind # "none" /\ op.kind \in {"enable", "open", "list"}
  BY <1>a DEF Parts, OpFits, OpensIts, OpenStep, OpeningStore, OpenStages
<1>1. /\ op'.at \in {op.back, "look", "remake", "make", "check"}
      /\ op.back \in {"index", "count", "cache", "outbox", "listed"}
  BY <1>0 DEF OpensIts, OpenStep, OpenStages
<1>2. op'.kind = op.kind /\ op'.u = op.u /\ op'.id = op.id /\ op'.todo = op.todo /\ op'.back = op.back
      /\ op'.lives = op.lives /\ op'.err = op.err /\ op'.refused = op.refused /\ op'.s = op.s
  BY DEF OpenStep, SameWork
<1>3. UNCHANGED <<locked, session, on, news, active, forgotten, leaving, gone, late, lost, losses>>
  BY DEF OpenStep
<1>4. op.s # Index => op.s[1] \in Named \cup stray /\ op.s[1] \in Ids /\ op.s[1] # 0
  BY <1>a, <1>b, <1>0, StoreNames DEF Parts, DirsNamed, OpeningStore
<1>5. /\ op.s = Index => dirs' = dirs
      /\ op.s # Index => dirs' = dirs \cup {op.s[1]}
  BY <1>4, StoreNames DEF OpenStep
<1>6. /\ Named \subseteq Ids
      /\ \/ UNCHANGED <<rows, stray>> /\ Named' = Named /\ Doomed' = Doomed
         \/ /\ op.s = Index /\ op.kind = "enable" /\ op.back = "index"
            /\ \A u \in Users : rows'[u] = NoRow /\ rows'[u].id = 0 /\ rows'[u].doomed = FALSE
            /\ stray' = stray \cup Named /\ Named' = {} /\ rows' = [u \in Users |-> NoRow]
  <2>1. Named \subseteq Ids
    BY <1>b DEF Named
  <2>2. CASE UNCHANGED <<rows, stray>>
    BY <2>1, <2>2 DEF Named, Doomed
  <2>3. CASE op.s = Index /\ rows' = [u \in Users |-> NoRow] /\ stray' = stray \cup Named
    <3>1. \A u \in Users : rows'[u] = NoRow /\ rows'[u].id = 0 /\ rows'[u].doomed = FALSE
      BY <2>3 DEF NoRow
    <3>2. op.kind = "enable" /\ op.back = "index"
      <4>1. op.kind = "open" => op.id \in Ids
        BY <1>a, <1>b, <1>0 DEF Parts, OnItsRow, OpeningStore, Operation
      <4> QED
        BY <1>0, <2>3, <4>1, StoreNames DEF OpensIts
    <3> QED
      BY <2>1, <2>3, <3>1, <3>2 DEF Named
  <2> QED
    BY <2>2, <2>3 DEF OpenStep
<1>7. Held' \subseteq Held \cup {op.s} /\ Written' \subseteq Written \cup ({op.s} \ {Index})
  BY DEF OpenStep, Held, Written
<1>8. TypeOK'
  <2>1. rows' \in [Users -> [id: {0} \cup Ids, doomed: BOOLEAN]] /\ stray' \subseteq Ids
    <3>1. NoRow \in [id: {0} \cup Ids, doomed: BOOLEAN]
      BY DEF NoRow
    <3> QED
      BY <1>b, <1>6, <3>1
  <2>2. dirs' \subseteq Ids
    BY <1>b, <1>4, <1>5
  <2> QED
    BY <1>a, <1>3, <2>1, <2>2 DEF Parts, TypeOK, OpenStep
<1>9. OpenIsNamed'
  BY <1>a, <1>3, <1>6 DEF Parts, OpenIsNamed, OpFits
<1>10. KeysBeforeRow'
  <2>1. \A s \in Held' : s # Index
    BY DEF Held, Written
  <2> QED
    BY <1>a, <1>4, <1>6, <1>7, <2>1 DEF Parts, KeysBeforeRow
<1>11. OpFits'
  <2>1. /\ ~(ErasingRow') /\ ~(ErasingStray') /\ op'.at \notin EraseStages /\ op'.at # "rest"
        /\ op'.at \notin {"doom", "next", "erased", "gone", "rmdir"}
    BY <1>1, <1>2 DEF ErasingRow, ErasingStray, EraseStages
  <2>2. OpensIts'
    BY <1>0, <1>2 DEF OpensIts
  <2>3. /\ op'.at \in EnableStages => op'.kind = "enable"
        /\ op'.at \in UserStages => op'.kind = "open"
        /\ op'.at = "listed" => op'.kind = "list"
    BY <1>0, <1>1, <1>2 DEF OpensIts, EnableStages, UserStages
  <2>4. /\ op'.at = "remake" => op'.s[2] # "outbox"
        /\ op'.at \in OpenStages \ {"key"} => op'.key # 0
    BY <1>2 DEF OpenStep
  <2> QED
    BY <1>a, <1>0, <1>1, <1>2, <1>3, <2>1, <2>2, <2>3, <2>4 DEF Parts, OpFits
<1>12. OneStoreEach'
  BY <1>a, <1>6 DEF Parts, OneStoreEach
<1>13. OnItsRow'
  <2>1. /\ ~(ErasingRow') /\ ~(ErasingStray') /\ op'.at \notin {"row", "each", "stray", "rebuild", "opened"}
    BY <1>1, <1>2 DEF ErasingRow, ErasingStray, EraseStages
  <2>2. OpeningStore /\ (op.back = "count" => CountingStray) /\ (CountingStray' => op.back = "count")
    BY <1>0, <1>1, <1>2 DEF OpeningStore, CountingStray
  <2>3. CASE UNCHANGED <<rows, stray>> /\ Named' = Named /\ Doomed' = Doomed
    BY <1>a, <1>0, <1>1, <1>2, <1>3, <2>1, <2>2, <2>3 DEF Parts, OnItsRow, OpensIts
  <2>4. CASE op.kind = "enable" /\ op.back = "index"
    BY <1>1, <1>2, <2>1, <2>2, <2>4 DEF OnItsRow
  <2> QED
    BY <1>6, <2>3, <2>4
<1>14. EraseSoFar'
  BY <1>1 DEF EraseSoFar, EraseStages
<1>15. DirsNamed'
  <2>1. OpeningStore
    BY <1>0 DEF OpeningStore
  <2>2. Named \cup stray \subseteq Named' \cup stray'
    BY <1>6
  <2>3. \A s \in Written' : s[1] \in dirs'
    BY <1>a, <1>5, <1>7 DEF Parts, DirsNamed
  <2>4. dirs' \subseteq Named' \cup stray'
    BY <1>a, <1>4, <1>5, <2>2 DEF Parts, DirsNamed
  <2> QED
    BY <1>2, <1>4, <1>5, <2>2, <2>3, <2>4 DEF DirsNamed
<1>16. StaysAway'
  <2>1. Away' = Away
    BY <1>3 DEF Away
  <2>2. OpeningStore
    BY <1>0 DEF OpeningStore
  <2>3. \A s \in Written' : s[1] # 0
    BY StoreNames DEF Written
  <2>4. Away \subseteq Users
    BY <1>a DEF Parts, TypeOK, Away, Anyone
  <2>5. ASSUME NEW u \in Away, NEW s \in Written' PROVE s[1] # rows'[u].id
    BY <1>a, <1>6, <1>7, <2>2, <2>3, <2>4 DEF Parts, StaysAway
  <2>6. ASSUME NEW u \in Away, OpeningStore', op'.s # Index PROVE op'.s[1] # rows'[u].id
    BY <1>a, <1>2, <1>4, <1>6, <2>2, <2>4, <2>6 DEF Parts, StaysAway
  <2> QED
    BY <1>a, <1>2, <1>3, <2>1, <2>5, <2>6 DEF Parts, StaysAway
<1>17. NothingSkipped'
  <2>1. CASE op'.at = "index" \/ op'.kind # "enable" \/ op.back = "index"
    BY <1>1, <1>2, <2>1 DEF NothingSkipped, EraseStages, ErasingRow, ErasingStray, CountingStray, OpeningStore, OpenStages
  <2>2. CASE op.kind = "enable" /\ op.back = "count"
    <3>1. CountingStray /\ dirs' \subseteq dirs \cup {op.id}
      BY <1>0, <1>5, <2>2, StoreNames DEF OpensIts, CountingStray, OpeningStore
    <3>2. op'.at \in {"look", "remake", "make", "check", "count"}
      BY <1>1, <2>2
    <3>3. UNCHANGED <<rows, stray>> /\ Named' = Named /\ Doomed' = Doomed
      BY <1>6, <2>2
    <3> QED
      BY <1>a, <1>2, <2>2, <3>1, <3>2, <3>3 DEF Parts, NothingSkipped, EraseStages, ErasingRow, ErasingStray
  <2> QED
    BY <1>0, <1>2, <2>1, <2>2 DEF OpensIts
<1> QED
  BY <1>8, <1>9, <1>10, <1>11, <1>12, <1>13, <1>14, <1>15, <1>16, <1>17

\* What a file's going leaves, and what it may add to the losses.
LEMMA RemoveIs ==
  ASSUME disk \in [Stores -> File], owed \in Owed, NEW s \in Stores, Remove(s)
  PROVE  /\ disk' \in [Stores -> File] /\ disk'[s] = NoStore /\ \A t \in Stores \ {s} : disk'[t] = disk[t]
         /\ disk'[s].db = 0 /\ disk'[s].check = 0 /\ disk'[s].unsent = FALSE /\ disk'[s].old = FALSE
         /\ owed' \in Owed /\ owed'.recorded = owed.recorded /\ owed'.read = owed.read /\ owed'.of = owed.of
         /\ owed'.settled = owed.settled
         /\ owed'.all # owed.all => disk[s].unsent /\ s[1] \notin Doomed
<1>1. NoStore \in File /\ NoStore.db = 0 /\ NoStore.check = 0 /\ NoStore.unsent = FALSE /\ NoStore.old = FALSE
  BY DEF NoStore, File
<1>2. disk' = [disk EXCEPT ![s] = NoStore]
  BY DEF Remove
<1>3. disk' \in [Stores -> File] /\ disk'[s] = NoStore /\ \A t \in Stores \ {s} : disk'[t] = disk[t]
  BY <1>1, <1>2
<1>4. CASE disk[s].unsent /\ s[1] \notin Doomed
  <2>1. owed' = [owed EXCEPT !.all = owed.all + 1]
    BY <1>4 DEF Remove
  <2> QED
    BY <1>1, <1>3, <1>4, <2>1 DEF Owed
<1>5. CASE ~(disk[s].unsent /\ s[1] \notin Doomed)
  <2>1. owed' = owed
    BY <1>5 DEF Remove
  <2> QED
    BY <1>1, <1>3, <2>1
<1> QED
  BY <1>4, <1>5

\* An operation opens no store that is open.
LEMMA NotTheActive ==
  ASSUME Inv, OpeningStore
  PROVE  active.u # Nobody => op.s # OutboxOf(active.id)
<1>a. Parts
  BY InvIsParts
<1>1. OpensIts
  BY <1>a DEF Parts, OpFits
<1>2. CASE op.kind = "enable"
  BY <1>a, <1>2 DEF Parts, OpFits, OpenIsNamed
<1>3. CASE op.kind = "open"
  BY <1>a, <1>3 DEF Parts, OnItsRow, NoActive
<1>4. CASE op.kind = "list"
  BY <1>a, <1>4 DEF Parts, LossesNoted
<1> QED
  BY <1>1, <1>2, <1>3, <1>4 DEF OpensIts

\* store::open: the account of losses, as far as its steps share it.
LEMMA OpenStepNotes ==
  ASSUME Inv, OpenStep,
         disk'[op.s].unsent => op.s[2] = "outbox" /\ disk'[op.s].db # 0,
         op'.at = "outbox" /\ op'.out \in {"ready", "format", "keymissing"} => disk'[op.s].db # 0,
         op'.at = "check" => disk'[op.s].db # 0,
         owed'.recorded = owed.recorded, owed'.read = owed.read, owed'.of = owed.of,
         owed'.settled = owed.settled,
         hushed => hushed',
         ~hushed' /\ owed'.all > owed'.recorded => lost \/ Noting'
  PROVE  Inv'
<1>a. Parts
  BY InvIsParts
<1>0. OpensIts /\ op.s \in Stores
  BY <1>a DEF Parts, OpFits, OpenStep, TypeOK, Operation
<1>1. /\ op'.at \in {op.back, "look", "remake", "make", "check"}
      /\ op.back \in {"index", "count", "cache", "outbox", "listed"}
  BY <1>0 DEF OpensIts, OpenStep, OpenStages
<1>2. op'.kind = op.kind /\ op'.back = op.back /\ op'.s = op.s /\ op'.id = op.id
  BY DEF OpenStep, SameWork
<1>3. UNCHANGED <<active, lost, losses>>
  BY DEF OpenStep
<1>4. active.u # Nobody => op.s # OutboxOf(active.id)
  BY NotTheActive DEF OpenStep
<1>5. active.u # Nobody => active.id \in Ids /\ disk'[OutboxOf(active.id)].db # 0
  BY <1>a, <1>4, StoreNames DEF Parts, LossesNoted, OpenStep
<1>6. \A s \in Stores : disk'[s].unsent => s[2] = "outbox" /\ disk'[s].db # 0
  BY <1>a DEF Parts, LossesNoted, OpenStep
<1>7. op'.at \notin {"rebuild", "opened"} /\ ~(ErasingStray')
  BY <1>1, <1>2 DEF ErasingStray
<1>8. OpeningStore
  BY DEF OpenStep
<1>9. LossesNoted'
  BY <1>a, <1>2, <1>3, <1>5, <1>6, <1>7, <1>8 DEF Parts, LossesNoted
<1> QED
  BY <1>9, OpenStepKeeps DEF Inv, LocalInv

\* A store is made anew.
LEMMA MakeIs ==
  ASSUME op \in Operation, NEW out \in Outcomes, op' = [op EXCEPT !.at = "make", !.out = out]
  PROVE  op' \in Operation /\ op'.at = "make" /\ op'.out = out /\ SameWork /\ op'.s = op.s /\ op'.key = op.key
BY DEF Operation, OpenStages, SameWork

\* Every step of store::open.
LEMMA OpensKeep ==
  ASSUME Inv, Opens
  PROVE  Inv'
<1>a. Parts
  BY InvIsParts
<1>b. /\ op \in Operation /\ op.s \in Stores /\ slot \in [Stores -> Nat] /\ disk \in [Stores -> File]
      /\ owed \in Owed /\ hushed \in BOOLEAN
  BY <1>a DEF Parts, TypeOK, Operation
<1>n. \A s \in Stores : disk[s].unsent => s[2] = "outbox" /\ disk[s].db # 0
  BY <1>a DEF Parts, LossesNoted
<1>l. ~hushed /\ owed.all > owed.recorded => lost \/ Noting
  BY <1>a DEF Parts, LossesNoted
<1>1. ASSUME OpenKey PROVE Inv'
  <2>1. op.at = "key" /\ OpeningStore /\ op.back \in Backs \ {""}
    BY <1>1, <1>a DEF OpenKey, At, OpeningStore, OpenStages, Parts, OpFits, OpensIts, Backs
  <2>2. /\ op' \in Operation /\ SameWork /\ op'.s = op.s
        /\ slot' \in [Stores -> Nat] /\ \A s \in Stores \ {op.s} : slot'[s] = slot[s]
        /\ \/ op'.at = op.back /\ op'.out = "locked"
           \/ op'.at = "look" /\ op'.key # 0
    <3>1. CASE locked
      <4>1. Opened("locked") /\ slot' = slot
        BY <1>1, <3>1 DEF OpenKey
      <4> QED
        BY <1>b, <2>1, <4>1, OpenedIs DEF Outcomes, SameWork
    <3>2. CASE ~locked
      <4> DEFINE k == IF slot[op.s] = 0 THEN FreshKey(op.s) ELSE slot[op.s]
      <4>1. k \in Nat \ {0}
        BY <1>b, KeyIsFresh
      <4>2. slot' = [slot EXCEPT ![op.s] = k] /\ op' = [op EXCEPT !.at = "look", !.key = k, !.made = slot[op.s] = 0]
        BY <1>1, <3>2 DEF OpenKey
      <4>3. slot' \in [Stores -> Nat] /\ \A s \in Stores \ {op.s} : slot'[s] = slot[s]
        BY <1>b, <4>1, <4>2
      <4> HIDE DEF k
      <4>4. op' \in Operation /\ op'.at = "look" /\ op'.key # 0
        BY <1>b, <4>1, <4>2 DEF Operation, OpenStages
      <4>5. SameWork /\ op'.s = op.s
        BY <1>b, <4>2 DEF Operation, SameWork
      <4> QED
        BY <4>3, <4>4, <4>5
    <3> QED
      BY <3>1, <3>2
  <2>3. op.back \notin OpenStages
    BY <2>1 DEF Backs, OpenStages
  <2>4. /\ dirs' = dirs \cup ({op.s[1]} \ {0}) /\ disk' = disk /\ owed' = owed /\ hushed' = hushed
        /\ UNCHANGED <<rows, stray, locked, session, on, news, active, forgotten, leaving, gone, late, lost, losses>>
    BY <1>1 DEF OpenKey, StoreStep, processVars
  <2>5. OpenStep
    BY <1>b, <2>1, <2>2, <2>3, <2>4 DEF OpenStep, OpenStages
  <2>6. ~Noting
    BY <2>1 DEF Noting
  <2>7. /\ op'.at # "check" /\ ~(op'.at = "outbox" /\ op'.out \in {"ready", "format", "keymissing"})
    BY <2>2, <2>1 DEF Backs
  <2> QED
    BY <1>b, <1>n, <1>l, <2>4, <2>5, <2>6, <2>7, OpenStepNotes
<1>d. op.at \in OpenStages \ {"key"} =>
        /\ op.key # 0 /\ OpeningStore /\ op.back \in Backs \ {""} /\ op.back \notin OpenStages
        /\ dirs = dirs \cup ({op.s[1]} \ {0})
  <2>1. op.at \in OpenStages \ {"key"} =>
          op.key # 0 /\ OpeningStore /\ op.back \in Backs \ {""} /\ op.back \notin OpenStages
    BY <1>a DEF Parts, OpFits, OpensIts, OpeningStore, OpenStages, Backs
  <2>2. op.at \in OpenStages \ {"key"} => op.s = Index \/ op.s[1] \in dirs
    BY <1>a DEF Parts, DirsNamed
  <2> QED
    BY <2>1, <2>2, StoreNames
<1>2. ASSUME OpenNew PROVE Inv'
  <2>1. /\ op.at = "look" /\ op' = [op EXCEPT !.at = "make", !.out = "ready"]
        /\ UNCHANGED <<rows, slot, disk, dirs, owed, stray, hushed, locked, session, on, news, active,
                      forgotten, leaving, gone, late, lost, losses>>
    BY <1>2 DEF OpenNew, NoFile, At, StoreStep, processVars
  <2>2. op' \in Operation /\ op'.at = "make" /\ SameWork /\ op'.s = op.s /\ op'.key = op.key
    BY <1>b, <2>1, MakeIs DEF Outcomes
  <2>3. OpenStep /\ ~Noting
    BY <1>b, <1>d, <2>1, <2>2 DEF OpenStep, OpenStages, Noting
  <2> QED
    BY <1>b, <1>n, <1>l, <2>1, <2>2, <2>3, OpenStepNotes
<1>3. ASSUME OpenFits PROVE Inv'
  <2> DEFINE fits == [disk EXCEPT ![op.s].check = op.key]
  <2>1. /\ op.at = "look" /\ disk' = fits /\ disk[op.s].db = op.key
        /\ UNCHANGED <<rows, slot, dirs, owed, stray, hushed, locked, session, on, news, active,
                      forgotten, leaving, gone, late, lost, losses>>
    BY <1>3 DEF OpenFits, Fits, At, StoreStep, processVars
  <2>2. /\ fits \in [Stores -> File] /\ fits[op.s].db = disk[op.s].db /\ fits[op.s].unsent = disk[op.s].unsent
        /\ \A s \in Stores \ {op.s} : fits[s] = disk[s]
    BY <1>b DEF File, Operation
  <2>3. op.at \in OpenStages \ {"key"} /\ op.key # 0 /\ disk'[op.s].db # 0
    BY <1>d, <2>1, <2>2 DEF OpenStages
  <2>4. /\ op' \in Operation /\ SameWork /\ op'.s = op.s
        /\ \/ op'.at = op.back
           \/ op'.at = "remake" /\ op.s[2] # "outbox" /\ op'.key # 0
    <3>1. CASE ~disk[op.s].old
      <4>1. Opened("ready")
        BY <1>3, <3>1 DEF OpenFits
      <4> QED
        BY <1>b, <1>d, <2>3, <4>1, OpenedIs DEF Outcomes, SameWork
    <3>2. CASE disk[op.s].old /\ op.s[2] = "outbox"
      <4>1. Opened("rebuild")
        BY <1>3, <3>2 DEF OpenFits
      <4> QED
        BY <1>b, <1>d, <2>3, <4>1, OpenedIs DEF Outcomes, SameWork
    <3>3. CASE disk[op.s].old /\ op.s[2] # "outbox"
      <4>1. Goto("remake")
        BY <1>3, <3>3 DEF OpenFits
      <4> QED
        BY <1>b, <2>3, <3>3, <4>1, GotoIs DEF Stages, OpenStages, SameWork
    <3> QED
      BY <3>1, <3>2, <3>3
  <2> HIDE DEF fits
  <2>5. OpenStep
    BY <1>b, <1>d, <2>1, <2>2, <2>3, <2>4 DEF OpenStep, OpenStages
  <2>6. ~Noting
    BY <2>1 DEF Noting
  <2> QED
    BY <1>b, <1>n, <1>l, <2>1, <2>2, <2>3, <2>5, <2>6, OpenStepNotes
<1>4. ASSUME OpenRemake PROVE Inv'
  <2>1. /\ op.at = "remake" /\ Remove(op.s) /\ op' = [op EXCEPT !.at = "make", !.out = "format"]
        /\ UNCHANGED <<slot, dirs, hushed, locked, session, on, news, active,
                      forgotten, leaving, gone, late, lost, losses>>
        /\ \/ UNCHANGED <<rows, stray>>
           \/ op.s = Index /\ rows' = [u \in Users |-> NoRow] /\ stray' = stray \cup Named
    BY <1>4 DEF OpenRemake, At, StoreStep, processVars
  <2>2. op' \in Operation /\ op'.at = "make" /\ SameWork /\ op'.s = op.s /\ op'.key = op.key
    BY <1>b, <2>1, MakeIs DEF Outcomes
  <2>3. op.s[2] # "outbox" /\ ~disk[op.s].unsent
    BY <1>a, <1>b, <1>n, <2>1 DEF Parts, OpFits
  <2>4. /\ disk' \in [Stores -> File] /\ \A s \in Stores \ {op.s} : disk'[s] = disk[s]
        /\ disk'[op.s].unsent = FALSE /\ owed' \in Owed /\ owed'.recorded = owed.recorded
        /\ owed'.read = owed.read /\ owed'.of = owed.of /\ owed'.settled = owed.settled /\ owed'.all = owed.all
    BY <1>b, <2>1, <2>3, RemoveIs
  <2>5. OpenStep /\ ~Noting
    BY <1>b, <1>d, <2>1, <2>2, <2>4 DEF OpenStep, OpenStages, Noting
  <2> QED
    BY <1>b, <1>l, <2>1, <2>2, <2>4, <2>5, OpenStepNotes
<1>6. ASSUME OpenMake PROVE Inv'
  <2> DEFINE made == [disk EXCEPT ![op.s].db = op.key]
  <2>1. /\ op.at = "make" /\ disk' = made /\ Goto("check")
        /\ UNCHANGED <<rows, slot, dirs, owed, stray, hushed, locked, session, on, news, active,
                      forgotten, leaving, gone, late, lost, losses>>
    BY <1>6 DEF OpenMake, At, StoreStep, processVars
  <2>2. /\ made \in [Stores -> File] /\ made[op.s].db = op.key /\ made[op.s].unsent = disk[op.s].unsent
        /\ \A s \in Stores \ {op.s} : made[s] = disk[s]
    BY <1>b DEF File, Operation
  <2>3. op.at \in OpenStages \ {"key"} /\ op.key # 0
    BY <1>d, <2>1 DEF OpenStages
  <2>4. op' \in Operation /\ op'.at = "check" /\ op'.out = op.out /\ SameWork /\ op'.s = op.s /\ op'.key = op.key
    BY <1>b, <2>1, GotoIs DEF Stages, OpenStages, SameWork
  <2> HIDE DEF made
  <2>5. OpenStep
    BY <1>b, <1>d, <2>1, <2>2, <2>3, <2>4 DEF OpenStep, OpenStages
  <2>6. Noting => Noting'
    BY <2>1, <2>4 DEF Noting, SameWork
  <2> QED
    BY <1>b, <1>n, <1>l, <2>1, <2>2, <2>3, <2>4, <2>5, <2>6, OpenStepNotes
<1>7. ASSUME OpenCheck PROVE Inv'
  <2> DEFINE checked == [disk EXCEPT ![op.s].check = op.key]
  <2>1. /\ op.at = "check" /\ disk' = checked /\ Opened(op.out)
        /\ UNCHANGED <<rows, slot, dirs, owed, stray, hushed, locked, session, on, news, active,
                      forgotten, leaving, gone, late, lost, losses>>
    BY <1>7 DEF OpenCheck, At, StoreStep, processVars
  <2>2. /\ checked \in [Stores -> File] /\ checked[op.s].db = disk[op.s].db
        /\ checked[op.s].unsent = disk[op.s].unsent
        /\ \A s \in Stores \ {op.s} : checked[s] = disk[s]
    BY <1>b DEF File, Operation
  <2>3. op.at \in OpenStages \ {"key"} /\ op.out \in Outcomes /\ disk[op.s].db # 0
    BY <1>a, <1>b, <2>1 DEF OpenStages, Operation, Parts, LossesNoted
  <2>4. op' \in Operation /\ op'.at = op.back /\ op'.out = op.out /\ SameWork /\ op'.s = op.s
    BY <1>b, <1>d, <2>1, <2>3, OpenedIs DEF SameWork
  <2> HIDE DEF checked
  <2>5. OpenStep
    BY <1>b, <1>d, <2>1, <2>2, <2>3, <2>4 DEF OpenStep, OpenStages
  <2>6. OpensIts
    BY <1>a, <1>d, <2>3 DEF Parts, OpFits
  <2>7. Noting => Noting'
    BY <2>1, <2>4, <2>6, StoreNames DEF Noting, OpensIts
  <2> QED
    BY <1>b, <1>n, <1>l, <2>1, <2>2, <2>3, <2>4, <2>5, <2>7, OpenStepNotes
<1>5. ASSUME OpenOther PROVE Inv'
  <2>1. /\ op.at = "look"
        /\ UNCHANGED <<slot, dirs, locked, session, on, news, active, forgotten, leaving, gone, late, lost, losses>>
    BY <1>5 DEF OpenOther, Other, At, StoreStep, processVars
  <2>2. OpeningStore /\ OpensIts /\ ~Noting /\ op.at \in OpenStages \ {"key"}
    BY <1>a, <1>d, <2>1 DEF Parts, OpFits, OpeningStore, OpenStages, Noting
  <2>3. CASE Keyless
    <3>1. /\ Remove(op.s) /\ op' = [op EXCEPT !.at = "make", !.out = "keymissing"]
          /\ hushed' = (hushed \/ (disk[op.s].unsent /\ op.kind = "list"))
          /\ \/ UNCHANGED <<rows, stray>>
             \/ op.s = Index /\ rows' = [u \in Users |-> NoRow] /\ stray' = stray \cup Named
      BY <1>5, <2>3 DEF OpenOther
    <3>2. /\ op' \in Operation /\ op'.at = "make" /\ op'.out = "keymissing" /\ SameWork /\ op'.s = op.s
          /\ op'.key = op.key
      BY <1>b, <3>1, MakeIs DEF Outcomes
    <3>3. /\ disk' \in [Stores -> File] /\ \A s \in Stores \ {op.s} : disk'[s] = disk[s]
          /\ disk'[op.s].unsent = FALSE /\ owed' \in Owed /\ owed'.recorded = owed.recorded
          /\ owed'.read = owed.read /\ owed'.of = owed.of /\ owed'.settled = owed.settled
          /\ owed'.all # owed.all => disk[op.s].unsent
      BY <1>b, <3>1, RemoveIs
    <3>4. hushed' \in BOOLEAN /\ (hushed => hushed')
      BY <1>b, <3>1
    <3>5. OpenStep
      BY <1>b, <1>d, <2>1, <2>2, <3>1, <3>2, <3>3, <3>4 DEF OpenStep, OpenStages
    <3>6. ASSUME ~hushed', owed'.all # owed.all PROVE Noting'
      BY <1>b, <1>n, <2>2, <3>1, <3>2, <3>3, <3>6 DEF Noting, SameWork, OpensIts
    <3> QED
      BY <1>b, <1>l, <2>2, <3>2, <3>3, <3>4, <3>5, <3>6, OpenStepNotes
  <2>4. CASE ~Keyless
    <3>1. Opened("damaged") /\ UNCHANGED <<rows, disk, owed, stray, hushed>>
      BY <1>5, <2>4 DEF OpenOther
    <3>2. op' \in Operation /\ op'.at = op.back /\ op'.out = "damaged" /\ SameWork /\ op'.s = op.s
      BY <1>b, <1>d, <2>2, <3>1, OpenedIs DEF Outcomes, SameWork
    <3>3. OpenStep
      BY <1>b, <1>d, <2>1, <2>2, <3>1, <3>2 DEF OpenStep, OpenStages
    <3>4. op'.at # "check"
      BY <1>d, <2>2, <3>2 DEF OpenStages
    <3> QED
      BY <1>b, <1>n, <1>l, <2>2, <3>1, <3>2, <3>3, <3>4, OpenStepNotes
  <2> QED
    BY <2>3, <2>4
<1>8. ASSUME OpenFails PROVE Inv'
  <2>1. /\ op.at \in {"make", "check"} /\ Opened("io")
        /\ hushed' = (hushed \/ (op.out = "keymissing" /\ op.s[2] = "outbox" /\ op.kind = "open"))
        /\ UNCHANGED <<rows, slot, disk, dirs, owed, stray, locked, session, on, news, active,
                      forgotten, leaving, gone, late, lost, losses>>
    BY <1>8 DEF OpenFails, diskVars, processVars, lossVars
  <2>2. OpeningStore /\ OpensIts /\ op.at \in OpenStages \ {"key"}
    BY <1>a, <1>d, <2>1 DEF Parts, OpFits, OpeningStore, OpenStages
  <2>3. op' \in Operation /\ op'.at = op.back /\ op'.out = "io" /\ SameWork /\ op'.s = op.s
    BY <1>b, <1>d, <2>1, <2>2, OpenedIs DEF Outcomes, SameWork
  <2>4. OpenStep
    BY <1>b, <1>d, <2>1, <2>2, <2>3 DEF OpenStep, OpenStages
  <2>5. op'.at # "check"
    BY <1>d, <2>2, <2>3 DEF OpenStages
  <2>6. ASSUME ~hushed', Noting PROVE Noting'
    BY <2>1, <2>2, <2>3, <2>6, StoreNames DEF Noting, OpensIts, SameWork
  <2> QED
    BY <1>b, <1>n, <1>l, <2>1, <2>3, <2>4, <2>5, <2>6, OpenStepNotes
<1> QED
  BY <1>1, <1>2, <1>3, <1>4, <1>5, <1>6, <1>7, <1>8 DEF Opens

-----------------------------------------------------------------------------
(* LocalData::erase. *)

\* What every step of an erase leaves alone.
ErasingStep ==
  /\ op.at \in EraseStages /\ op' \in Operation
  /\ op'.kind = op.kind /\ op'.u = op.u /\ op'.id = op.id /\ op'.todo = op.todo /\ op'.back = op.back
  /\ op'.at \in {op.back} \cup EraseStages /\ op'.s \in {CacheOf(op.id), OutboxOf(op.id)}
  /\ op'.at = "rmdir" => op'.s = OutboxOf(op.id) /\ ~op'.err
  /\ op'.err \/ op'.lives => op'.refused
  /\ op.refused => op'.refused
  /\ slot' \in [Stores -> Nat] /\ \A s \in Stores : slot'[s] \in {slot[s], 0}
  /\ disk' \in [Stores -> File]
  /\ \A s \in Stores : disk'[s] = disk[s] \/ (s \in {CacheOf(op.id), OutboxOf(op.id)} /\ disk'[s] = NoStore)
  /\ dirs' \subseteq dirs \cup {op.id} /\ dirs \ {op.id} \subseteq dirs'
  /\ op.id \notin dirs' => disk'[CacheOf(op.id)].db = 0 /\ disk'[OutboxOf(op.id)].db = 0
  /\ UNCHANGED <<rows, stray, hushed, locked, session, on, news, active, forgotten, leaving, gone, late, lost, losses>>
  /\ owed' \in Owed /\ owed'.recorded = owed.recorded /\ owed'.read = owed.read /\ owed'.of = owed.of
  /\ owed'.settled = owed.settled
  /\ owed'.all # owed.all => lost

\* A store to be erased is not open.
LEMMA DoomedIsClosed ==
  ASSUME Parts, NEW id \in Doomed
  PROVE  active.u # Nobody => active.id # id
<1>1. rows \in [Users -> [id: {0} \cup Ids, doomed: BOOLEAN]] /\ active.u \in Anyone
  BY DEF Parts, TypeOK
<1>2. PICK w \in Users : rows[w].doomed /\ rows[w].id = id
  BY DEF Doomed
<1>3. id # 0
  BY <1>2 DEF Parts, OneStoreEach
<1>4. SUFFICES ASSUME active.u # Nobody, active.id = id PROVE FALSE
  OBVIOUS
<1>5. active.u \in Users /\ rows[active.u].id = id /\ rows[active.u].doomed = FALSE
  BY <1>1, <1>4 DEF Parts, OpenIsNamed, Anyone
<1> QED
  BY <1>2, <1>3, <1>5 DEF Parts, OneStoreEach

\* An erase keeps everything its own progress (EraseSoFar) does not tell.
LEMMA EraseStepKeeps ==
  ASSUME Inv, ErasingStep, EraseSoFar'
  PROVE  Inv'
<1>a. Parts
  BY InvIsParts
<1>b. /\ op.id \in Ids /\ op.back \in {"erased", "gone"} /\ op.kind # "none"
      /\ op.kind \in {"enable", "open", "forget", "wipe"}
      /\ ErasingRow \/ ErasingStray
      /\ dirs \subseteq Ids /\ stray \subseteq Ids
  BY <1>a DEF Parts, TypeOK, OpFits, ErasingStep, EraseStages, ErasingRow, ErasingStray
<1>1. /\ op.at \in EraseStages
      /\ op'.kind = op.kind /\ op'.u = op.u /\ op'.id = op.id /\ op'.todo = op.todo /\ op'.back = op.back
      /\ op'.at \in {op.back} \cup EraseStages /\ op'.s \in {CacheOf(op.id), OutboxOf(op.id)}
      /\ op'.at \in {"erased", "gone", "destroy", "remove", "rmdir"}
  BY <1>b DEF ErasingStep, EraseStages
<1>2. UNCHANGED <<rows, stray, hushed, locked, session, on, news, active, forgotten, leaving, gone, late, lost, losses>>
  BY DEF ErasingStep
<1>3. Named' = Named /\ Doomed' = Doomed
  BY <1>2 DEF Named, Doomed
<1>4. (ErasingRow' <=> ErasingRow) /\ (ErasingStray' <=> ErasingStray)
  BY <1>1 DEF ErasingRow, ErasingStray, EraseStages
<1>5. ~(OpeningStore') /\ ~(CountingStray') /\ ~OpeningStore /\ ~CountingStray
  BY <1>1 DEF OpeningStore, CountingStray, OpenStages, EraseStages
<1>6. /\ Held' \subseteq Held /\ Written' \subseteq Written
      /\ \A s \in Stores : disk'[s] = disk[s] \/ (s \in {CacheOf(op.id), OutboxOf(op.id)} /\ disk'[s] = NoStore)
      /\ NoStore.db = 0 /\ NoStore.unsent = FALSE
  BY DEF ErasingStep, Held, Written, NoStore
<1>7. op.id \in Named \cup stray
  BY <1>a, <1>b DEF Parts, OpFits, OnItsRow, Doomed, Named, OneStoreEach
<1>8. TypeOK'
  <2>1. dirs' \subseteq Ids
    BY <1>b DEF ErasingStep
  <2> QED
    BY <1>a, <1>2, <2>1 DEF Parts, TypeOK, ErasingStep
<1>9. OpenIsNamed' /\ OneStoreEach'
  BY <1>a, <1>2 DEF Parts, OpenIsNamed, OneStoreEach
<1>10. KeysBeforeRow'
  BY <1>a, <1>2, <1>3, <1>6 DEF Parts, KeysBeforeRow
<1>11. OpFits'
  <2>1. /\ op'.at \notin EnableStages \ {"gone"} /\ op'.at \notin UserStages
        /\ op'.at \notin {"doom", "next", "listed", "remake", "rest"} /\ op'.at \notin OpenStages
    BY <1>1 DEF EnableStages, UserStages, OpenStages
  <2>2. /\ op'.at = "rmdir" => op'.s = OutboxOf(op'.id) /\ ~op'.err
        /\ op'.err \/ op'.lives => op'.refused
    BY <1>1 DEF ErasingStep
  <2>3. op'.at = "gone" => ErasingStray'
    BY <1>1, <1>b DEF ErasingStray, EraseStages
  <2> QED
    BY <1>a, <1>b, <1>1, <1>2, <1>3, <1>4, <1>5, <2>1, <2>2, <2>3 DEF Parts, OpFits, EraseStages
<1>12. OnItsRow'
  <2>1. op'.at \notin {"row", "cache", "outbox", "rebuild", "opened", "next", "each", "stray", "count"} /\ op.at # "next"
    BY <1>1 DEF EraseStages
  <2> QED
    BY <1>a, <1>1, <1>2, <1>3, <1>4, <1>5, <2>1 DEF Parts, OnItsRow
<1>13. DirsNamed'
  <2>1. \A s \in Written' : s[1] \in dirs'
    <3> SUFFICES ASSUME NEW s \in Written' PROVE s[1] \in dirs'
      OBVIOUS
    <3>1. s \in Written /\ s[1] \in dirs /\ s \in Stores \ {Index} /\ disk'[s].db # 0
      BY <1>a, <1>6 DEF Parts, DirsNamed, Written
    <3>2. CASE s[1] = op.id
      BY <3>1, <3>2, StoreNames DEF ErasingStep
    <3>3. CASE s[1] # op.id
      BY <3>1, <3>3 DEF ErasingStep
    <3> QED
      BY <3>2, <3>3
  <2>2. dirs' \subseteq Named' \cup stray'
    BY <1>a, <1>2, <1>3, <1>7 DEF Parts, DirsNamed, ErasingStep
  <2>3. op'.at \notin OpenStages
    BY <1>1 DEF OpenStages
  <2> QED
    BY <1>5, <2>1, <2>2, <2>3 DEF DirsNamed
<1>14. StaysAway'
  <2>1. Away' = Away
    BY <1>2 DEF Away
  <2> QED
    BY <1>a, <1>1, <1>2, <1>5, <1>6, <2>1 DEF Parts, StaysAway
<1>15. LossesNoted'
  <2>1. ~Noting /\ ~(Noting') /\ op'.at \notin {"rebuild", "outbox", "opened", "check"}
    BY <1>1 DEF Noting, EraseStages
  <2>2. active.u # Nobody => disk'[OutboxOf(active.id)].db # 0
    <3> SUFFICES ASSUME active.u # Nobody PROVE disk'[OutboxOf(active.id)].db # 0
      OBVIOUS
    <3>1. on /\ active.id \in Ids /\ disk[OutboxOf(active.id)].db # 0
      BY <1>a DEF Parts, OpenIsNamed, LossesNoted
    <3>2. op.id \in Doomed
      BY <1>a, <1>b, <3>1 DEF Parts, OpFits
    <3>3. active.id # op.id
      BY <1>a, <3>2, DoomedIsClosed
    <3> QED
      BY <1>b, <1>6, <3>1, <3>3, StoreNames
  <2>3. \A s \in Stores : disk'[s].unsent => disk[s].unsent /\ disk'[s].db = disk[s].db
    <3> SUFFICES ASSUME NEW s \in Stores, disk'[s].unsent PROVE disk'[s] = disk[s]
      OBVIOUS
    <3>1. disk'[s] # NoStore
      BY <1>6
    <3> QED
      BY <1>6, <3>1
  <2>4. ErasingStray' /\ disk'[OutboxOf(op'.id)].unsent => lost
    BY <1>a, <1>b, <1>1, <1>4, <2>3, StoreNames DEF Parts, LossesNoted
  <2>5. /\ owed'.recorded = owed.recorded /\ owed'.read = owed.read /\ owed'.of = owed.of
        /\ owed'.settled = owed.settled
        /\ owed'.all # owed.all => lost
    BY DEF ErasingStep
  <2>6. ~hushed' =>
          /\ owed'.all > owed'.recorded => lost'
          /\ owed'.recorded > owed'.settled => losses'.unacked
          /\ owed'.read > 0 /\ owed'.read = losses'.newest => owed'.of >= owed'.recorded
    <3>1. ~hushed =>
            /\ owed.all > owed.recorded => lost
            /\ owed.recorded > owed.settled => losses.unacked
            /\ owed.read > 0 /\ owed.read = losses.newest => owed.of >= owed.recorded
      BY <1>a, <2>1 DEF Parts, LossesNoted
    <3>2. hushed' = hushed /\ lost' = lost /\ losses' = losses
      BY <1>2
    <3> QED
      BY <2>5, <3>1, <3>2
  <2>7. \A s \in Stores : disk'[s].unsent => s[2] = "outbox" /\ disk'[s].db # 0
    BY <1>a, <2>3 DEF Parts, LossesNoted
  <2>8. owed'.read <= losses'.newest /\ (active.u # Nobody => active.id \in Ids)
    BY <1>a, <1>2, <2>5 DEF Parts, LossesNoted
  <2> QED
    BY <1>2, <1>5, <2>1, <2>2, <2>4, <2>6, <2>7, <2>8 DEF LossesNoted
<1>16. NothingSkipped'
  <2>1. op'.at \notin {"each", "stray", "reconciled"}
    BY <1>1
  <2>2. op.refused => op'.refused
    BY DEF ErasingStep
  <2>3. dirs' \subseteq dirs \cup {op.id}
    BY DEF ErasingStep
  <2> QED
    BY <1>a, <1>1, <1>3, <1>4, <1>5, <2>1, <2>2, <2>3 DEF Parts, NothingSkipped
<1> QED
  BY <1>8, <1>9, <1>10, <1>11, <1>12, <1>13, <1>14, <1>15, <1>16 DEF Inv, LocalInv

\* From the cache to the outbox, from there to the directory.
LEMMA AfterRemoveIs ==
  ASSUME NEW o \in Operation, o.id \in Ids, o.s \in {CacheOf(o.id), OutboxOf(o.id)},
         o.back \in {"erased", "gone"}
  PROVE  LET p == AfterRemove(o) IN
         /\ p \in Operation
         /\ p.kind = o.kind /\ p.u = o.u /\ p.id = o.id /\ p.todo = o.todo /\ p.back = o.back
         /\ p.lives = o.lives /\ p.err = o.err /\ p.refused = o.refused
         /\ p.s = OutboxOf(o.id)
         /\ o.s = CacheOf(o.id) => p.at = "destroy"
         /\ o.s # CacheOf(o.id) /\ o.err => p.at = o.back
         /\ o.s # CacheOf(o.id) /\ ~o.err => p.at = "rmdir"
<1>1. CASE o.s = CacheOf(o.id)
  <2>1. AfterRemove(o) = [o EXCEPT !.s = OutboxOf(o.id), !.at = "destroy"]
    BY <1>1 DEF AfterRemove
  <2>2. OutboxOf(o.id) \in Stores
    BY StoreNames
  <2> QED
    BY <1>1, <2>1, <2>2 DEF Operation, EraseStages
<1>2. CASE o.s # CacheOf(o.id)
  <2> DEFINE a == IF o.err THEN o.back ELSE "rmdir"
  <2>1. AfterRemove(o) = [o EXCEPT !.at = a] /\ o.s = OutboxOf(o.id)
    BY <1>2 DEF AfterRemove
  <2>2. a \in Stages
    BY DEF Stages, EraseStages, EnableStages
  <2>3. (o.err => a = o.back) /\ (~o.err => a = "rmdir")
    OBVIOUS
  <2> HIDE DEF a
  <2> QED
    BY <1>2, <2>1, <2>2, <2>3 DEF Operation, Stages
<1> QED
  BY <1>1, <1>2

\* Every step of an erase.
LEMMA ErasesKeep ==
  ASSUME Inv, Erases
  PROVE  Inv'
<1>a. Parts
  BY InvIsParts
<1>b. /\ op \in Operation /\ op.s \in Stores /\ slot \in [Stores -> Nat] /\ disk \in [Stores -> File]
      /\ owed \in Owed /\ locked \in BOOLEAN /\ dirs \subseteq Ids
      /\ op.err \in BOOLEAN /\ op.lives \in BOOLEAN /\ op.refused \in BOOLEAN
  BY <1>a DEF Parts, TypeOK, Operation
<1>c. op.at \in EraseStages =>
        /\ op.id \in Ids /\ op.s \in {CacheOf(op.id), OutboxOf(op.id)} /\ op.back \in {"erased", "gone"}
        /\ CacheOf(op.id) \in Stores /\ OutboxOf(op.id) \in Stores /\ CacheOf(op.id) # OutboxOf(op.id)
  BY <1>a, StoreNames DEF Parts, OpFits
<1>d. op.err \/ op.lives => op.refused
  BY <1>a DEF Parts, OpFits
<1>e. op.at \in EraseStages /\ op.id \notin dirs => disk[CacheOf(op.id)].db = 0 /\ disk[OutboxOf(op.id)].db = 0
  BY <1>a, <1>c, StoreNames DEF Parts, DirsNamed, Written
<1>1. ASSUME Destroy PROVE Inv'
  <2> DEFINE l == op.lives \/ locked
  <2> DEFINE r == op.refused \/ locked
  <2>1. /\ op.at = "destroy" /\ dirs' = dirs \cup {op.id} /\ disk' = disk /\ owed' = owed
        /\ slot' = IF locked THEN slot ELSE [slot EXCEPT ![op.s] = 0]
        /\ op' = [op EXCEPT !.at = "remove", !.lives = l, !.refused = r]
        /\ UNCHANGED <<rows, stray, hushed, locked, session, on, news, active, forgotten, leaving, gone, late, lost, losses>>
    BY <1>1 DEF Destroy, At, EraseStep, processVars
  <2>2. l \in BOOLEAN /\ r \in BOOLEAN
    OBVIOUS
  <2>3. /\ op.lives => l
        /\ locked => l
        /\ op.refused => r
        /\ locked => r
        /\ l => op.lives \/ locked
    OBVIOUS
  <2> HIDE DEF l, r
  <2>4. op.at \in EraseStages
    BY <2>1 DEF EraseStages
  <2>5. /\ op' \in Operation /\ op'.at = "remove" /\ op'.s = op.s /\ op'.lives = l
        /\ op'.refused = r /\ op'.err = op.err
        /\ op'.kind = op.kind /\ op'.u = op.u /\ op'.id = op.id /\ op'.todo = op.todo /\ op'.back = op.back
    BY <1>b, <2>1, <2>2 DEF Operation, EraseStages
  <2>6. /\ slot' \in [Stores -> Nat] /\ \A s \in Stores : slot'[s] \in {slot[s], 0}
        /\ ~locked => slot'[op.s] = 0
    BY <1>b, <2>1
  <2>7. /\ op'.err \/ op'.lives => op'.refused
        /\ op.refused => op'.refused
    BY <1>d, <2>3, <2>5, Zenon
  <2>8. ErasingStep
    BY <1>b, <1>c, <2>1, <2>4, <2>5, <2>6, <2>7 DEF ErasingStep, EraseStages
  <2>9. EraseSoFar'
    <3>1. ~l => ~op.lives /\ ~locked
      BY <2>3
    <3>2. CASE op.s = CacheOf(op.id)
      BY <1>a, <1>c, <2>1, <2>4, <2>5, <2>6, <3>1, <3>2 DEF Parts, EraseSoFar, EraseStages
    <3>3. CASE op.s = OutboxOf(op.id)
      <4>1. /\ ~op.lives => slot[CacheOf(op.id)] = 0
            /\ ~op.err => disk[CacheOf(op.id)] = NoStore
        BY <1>a, <2>4, <3>3 DEF Parts, EraseSoFar
      <4> QED
        BY <1>c, <2>1, <2>4, <2>5, <2>6, <3>1, <3>3, <4>1 DEF EraseSoFar, EraseStages
    <3> QED
      BY <1>c, <2>4, <3>2, <3>3
  <2> QED
    BY <2>8, <2>9, EraseStepKeeps
<1>2. ASSUME RemoveFiles PROVE Inv'
  <2>1. /\ op.at = "remove" /\ op.at \in EraseStages /\ Remove(op.s) /\ op' = AfterRemove(op) /\ slot' = slot /\ dirs' = dirs
        /\ UNCHANGED <<rows, stray, hushed, locked, session, on, news, active, forgotten, leaving, gone, late, lost, losses>>
    BY <1>2 DEF RemoveFiles, At, EraseStep, processVars, EraseStages
  <2>2. /\ op' \in Operation
        /\ op'.kind = op.kind /\ op'.u = op.u /\ op'.id = op.id /\ op'.todo = op.todo /\ op'.back = op.back
        /\ op'.lives = op.lives /\ op'.err = op.err /\ op'.refused = op.refused
        /\ op'.s = OutboxOf(op.id)
        /\ op.s = CacheOf(op.id) => op'.at = "destroy"
        /\ op.s # CacheOf(op.id) /\ op.err => op'.at = op.back
        /\ op.s # CacheOf(op.id) /\ ~op.err => op'.at = "rmdir"
    BY <1>b, <1>c, <2>1, AfterRemoveIs
  <2>3. /\ disk' \in [Stores -> File] /\ disk'[op.s] = NoStore /\ \A t \in Stores \ {op.s} : disk'[t] = disk[t]
        /\ owed' \in Owed /\ owed'.recorded = owed.recorded /\ owed'.read = owed.read /\ owed'.of = owed.of
        /\ owed'.settled = owed.settled
        /\ owed'.all # owed.all => disk[op.s].unsent /\ op.s[1] \notin Doomed
    BY <1>b, <2>1, RemoveIs
  <2>4. ASSUME disk[op.s].unsent, op.s[1] \notin Doomed PROVE lost
    <3>1. op.s[1] = op.id /\ op.s = OutboxOf(op.id)
      BY <1>a, <1>b, <1>c, <2>1, <2>4, StoreNames DEF Parts, LossesNoted
    <3>2. ErasingStray
      BY <1>a, <1>c, <2>1, <2>4, <3>1 DEF Parts, OpFits, ErasingRow, ErasingStray
    <3> QED
      BY <1>a, <2>4, <3>1, <3>2 DEF Parts, LossesNoted
  <2>5. op'.at \in {op.back} \cup EraseStages /\ (op'.at = "rmdir" => ~op'.err)
    BY <1>c, <2>1, <2>2 DEF EraseStages
  <2>d. op.id \notin dirs' => disk'[CacheOf(op.id)].db = 0 /\ disk'[OutboxOf(op.id)].db = 0
    <3>1. NoStore.db = 0
      BY DEF NoStore
    <3> QED
      BY <1>c, <1>e, <2>1, <2>3, <3>1
  <2>6. ErasingStep
    <3>1. \A s \in Stores : disk'[s] = disk[s] \/ (s \in {CacheOf(op.id), OutboxOf(op.id)} /\ disk'[s] = NoStore)
      BY <1>c, <2>1, <2>3
    <3> QED
      BY <1>b, <1>c, <1>d, <2>1, <2>2, <2>3, <2>4, <2>5, <2>d, <3>1 DEF ErasingStep
  <2>7. EraseSoFar'
    <3>1. /\ ~op.lives => slot[CacheOf(op.id)] = 0
          /\ op.s = OutboxOf(op.id) /\ ~op.err => disk[CacheOf(op.id)] = NoStore
          /\ op.s = OutboxOf(op.id) /\ ~op.lives => slot[OutboxOf(op.id)] = 0
      BY <1>a, <2>1 DEF Parts, EraseSoFar
    <3>2. CASE op.s = CacheOf(op.id)
      BY <1>c, <2>1, <2>2, <2>3, <3>1, <3>2 DEF EraseSoFar, EraseStages
    <3>3. CASE op.s = OutboxOf(op.id) /\ op.err
      BY <1>c, <2>1, <2>2, <2>3, <3>1, <3>3 DEF EraseSoFar
    <3>4. CASE op.s = OutboxOf(op.id) /\ ~op.err
      <4>1. op'.at = "rmdir" /\ ~op'.err
        BY <1>c, <2>1, <2>2, <3>4
      <4>2. disk'[CacheOf(op.id)] = NoStore /\ disk'[OutboxOf(op.id)] = NoStore
        BY <1>c, <2>1, <2>3, <3>1, <3>4
      <4> QED
        BY <2>1, <2>2, <3>1, <3>4, <4>1, <4>2 DEF EraseSoFar
    <3> QED
      BY <1>c, <2>1, <3>2, <3>3, <3>4
  <2> QED
    BY <2>6, <2>7, EraseStepKeeps
<1>3. ASSUME RemoveDir PROVE Inv'
  <2>1. /\ op.at = "rmdir" /\ op.at \in EraseStages /\ dirs' = dirs \ {op.id} /\ Goto(op.back)
        /\ slot' = slot /\ disk' = disk /\ owed' = owed
        /\ UNCHANGED <<rows, stray, hushed, locked, session, on, news, active, forgotten, leaving, gone, late, lost, losses>>
    BY <1>3 DEF RemoveDir, At, EraseStep, processVars, EraseStages
  <2>2. /\ op' \in Operation /\ op'.at = op.back
        /\ op'.kind = op.kind /\ op'.u = op.u /\ op'.id = op.id /\ op'.todo = op.todo /\ op'.back = op.back
        /\ op'.lives = op.lives /\ op'.err = op.err /\ op'.refused = op.refused /\ op'.s = op.s
    <3>1. op.back \in Stages
      BY <1>c, <2>1 DEF Stages, EnableStages
    <3> QED
      BY <1>b, <2>1, <3>1, GotoIs
  <2>3. op.s = OutboxOf(op.id) /\ ~op.err
    BY <1>a, <2>1 DEF Parts, OpFits
  <2>4. /\ ~op.lives => slot[CacheOf(op.id)] = 0
        /\ disk[CacheOf(op.id)] = NoStore
        /\ ~op.lives => slot[OutboxOf(op.id)] = 0
        /\ disk[OutboxOf(op.id)] = NoStore
    BY <1>a, <2>1, <2>3 DEF Parts, EraseSoFar
  <2>5. NoStore.db = 0
    BY DEF NoStore
  <2>6. ErasingStep
    BY <1>b, <1>c, <1>d, <2>1, <2>2, <2>3, <2>4, <2>5 DEF ErasingStep
  <2>7. EraseSoFar'
    BY <1>c, <2>1, <2>2, <2>4 DEF EraseSoFar
  <2> QED
    BY <2>6, <2>7, EraseStepKeeps
<1>4. ASSUME EraseFails PROVE Inv'
  <2> DEFINE failed == [op EXCEPT !.refused = TRUE, !.err = TRUE]
  <2>1. /\ op.at \in {"remove", "rmdir"} /\ op.at \in EraseStages
        /\ slot' = slot /\ disk' = disk /\ owed' = owed /\ dirs' = dirs
        /\ op.at = "remove" => op' = AfterRemove(failed)
        /\ op.at = "rmdir" => op' = [failed EXCEPT !.at = op.back]
        /\ UNCHANGED <<rows, stray, hushed, locked, session, on, news, active, forgotten, leaving, gone, late, lost, losses>>
    BY <1>4 DEF EraseFails, At, EraseStep, processVars, EraseStages
  <2>2. /\ failed \in Operation
        /\ failed.kind = op.kind /\ failed.u = op.u /\ failed.id = op.id /\ failed.todo = op.todo /\ failed.back = op.back
        /\ failed.lives = op.lives /\ failed.err = TRUE /\ failed.refused = TRUE /\ failed.s = op.s
    BY <1>b DEF Operation
  <2> HIDE DEF failed
  <2>3. CASE op.at = "remove"
    <3>1. /\ op' \in Operation
          /\ op'.kind = op.kind /\ op'.u = op.u /\ op'.id = op.id /\ op'.todo = op.todo /\ op'.back = op.back
          /\ op'.lives = op.lives /\ op'.err = TRUE /\ op'.refused = TRUE
          /\ op'.s = OutboxOf(op.id)
          /\ op.s = CacheOf(op.id) => op'.at = "destroy"
          /\ op.s # CacheOf(op.id) => op'.at = op.back
      BY <1>c, <2>1, <2>2, <2>3, AfterRemoveIs
    <3>2. op'.at \in {op.back} \cup EraseStages /\ op'.at # "rmdir"
      BY <1>c, <2>1, <3>1 DEF EraseStages
    <3>3. ErasingStep
      BY <1>b, <1>c, <1>e, <2>1, <3>1, <3>2 DEF ErasingStep
    <3>4. /\ ~op.lives => slot[CacheOf(op.id)] = 0
          /\ op.s = OutboxOf(op.id) /\ ~op.lives => slot[OutboxOf(op.id)] = 0
      BY <1>a, <2>1, <2>3 DEF Parts, EraseSoFar
    <3>5. EraseSoFar'
      BY <1>c, <2>1, <3>1, <3>4 DEF EraseSoFar
    <3> QED
      BY <3>3, <3>5, EraseStepKeeps
  <2>4. CASE op.at = "rmdir"
    <3>1. op.back \in Stages
      BY <1>c, <2>1 DEF Stages, EnableStages
    <3>2. /\ op' \in Operation /\ op'.at = op.back
          /\ op'.kind = op.kind /\ op'.u = op.u /\ op'.id = op.id /\ op'.todo = op.todo /\ op'.back = op.back
          /\ op'.lives = op.lives /\ op'.err = TRUE /\ op'.refused = TRUE /\ op'.s = op.s
      BY <2>1, <2>2, <2>4, <3>1 DEF Operation, Stages
    <3>3. op'.at # "rmdir" /\ op.s = OutboxOf(op.id)
      BY <1>a, <1>c, <2>1, <2>4, <3>2 DEF Parts, OpFits
    <3>4. ErasingStep
      BY <1>b, <1>c, <1>e, <2>1, <3>2, <3>3 DEF ErasingStep
    <3>5. /\ ~op.lives => slot[CacheOf(op.id)] = 0
          /\ ~op.lives => slot[OutboxOf(op.id)] = 0
      BY <1>a, <2>1, <2>4, <3>3 DEF Parts, EraseSoFar
    <3>6. EraseSoFar'
      BY <1>c, <2>1, <3>2, <3>5 DEF EraseSoFar
    <3> QED
      BY <3>4, <3>6, EraseStepKeeps
  <2> QED
    BY <2>1, <2>3, <2>4
<1> QED
  BY <1>1, <1>2, <1>3, <1>4 DEF Erases

-----------------------------------------------------------------------------
(* Steps that only go on with their operation. *)

\* What a step that only goes on with the operation leaves alone.
OpWork ==
  /\ op' \in Operation /\ news' \in BOOLEAN /\ active' \in {active, NoActive}
  /\ lost' \in BOOLEAN /\ (lost => lost')
  /\ UNCHANGED <<rows, slot, disk, dirs, locked, session, on, forgotten, leaving, gone, late, losses, owed, stray, hushed>>

\* What it has to see to of the store it opens next,
OpensRight ==
  /\ op'.at \in OpenStages => op'.at = "key"
  /\ OpeningStore' /\ op'.s # Index => op'.s[1] \in Named \cup stray
  /\ \A u \in Away : OpeningStore' /\ op'.s # Index => op'.s[1] # rows[u].id
  /\ op'.kind = "list" /\ OpeningStore' => op'.s # OutboxOf(active'.id)

\* of whom it works for,
ForWhom ==
  /\ op'.kind = "forget" <=> op.kind = "forget"
  /\ op'.kind = "forget" => op'.u = op.u
  /\ \A u \in Away : ~(op'.kind = "open" /\ op'.u = u)

\* and of what is lost.
NotesIt ==
  /\ ErasingStray' /\ disk[OutboxOf(op'.id)].unsent => lost'
  /\ op'.at = "rebuild" /\ disk[op'.s].unsent => lost'
  /\ op'.at \in {"outbox", "opened"} /\ op'.out \in {"ready", "format", "keymissing"} => disk[op'.s].db # 0
  /\ Noting => lost' \/ Noting'

\* What such a step has to look at: what it opens, for whom, and what it notes.
LEMMA OpWorkKeeps ==
  ASSUME Inv, OpWork, OpensRight, ForWhom, NotesIt, OpFits', OnItsRow', EraseSoFar', NothingSkipped'
  PROVE  Inv'
<1>a. Parts
  BY InvIsParts
<1>1. /\ op' \in Operation /\ news' \in BOOLEAN /\ active' \in {active, NoActive}
      /\ lost' \in BOOLEAN /\ (lost => lost')
      /\ UNCHANGED <<rows, slot, disk, dirs, locked, session, on, forgotten, leaving, gone, late, losses, owed, stray, hushed>>
  BY DEF OpWork
<1>2. Named' = Named /\ Written' = Written /\ Held' = Held /\ Away' = Away
  BY <1>1 DEF Named, Written, Held, Away
<1>3. NoActive \in [u: Anyone, id: {0} \cup Ids] /\ NoActive.u = Nobody
  BY DEF NoActive, Anyone
<1>4. TypeOK'
  <2>1. active' \in [u: Anyone, id: {0} \cup Ids]
    BY <1>a, <1>1, <1>3 DEF Parts, TypeOK
  <2> QED
    BY <1>a, <1>1, <2>1 DEF Parts, TypeOK
<1>5. OpenIsNamed'
  BY <1>a, <1>1, <1>3 DEF Parts, OpenIsNamed
<1>6. KeysBeforeRow' /\ OneStoreEach'
  BY <1>a, <1>1, <1>2 DEF Parts, KeysBeforeRow, OneStoreEach
<1>7. DirsNamed'
  <2>1. op'.at \notin OpenStages \ {"key"}
    BY DEF OpensRight
  <2>2. OpeningStore' /\ op'.s # Index => op'.s[1] \in Named \cup stray
    BY DEF OpensRight
  <2> QED
    BY <1>a, <1>1, <1>2, <2>1, <2>2 DEF Parts, DirsNamed
<1>8. StaysAway'
  <2>1. \A u \in Away' :
          /\ \A s \in Written' : s[1] # rows'[u].id
          /\ ~(op'.kind = "open" /\ op'.u = u)
          /\ OpeningStore' /\ op'.s # Index => op'.s[1] # rows'[u].id
          /\ session'.u = u => ~on' \/ (forgotten'.u = u /\ session'.epoch <= forgotten'.epoch)
    BY <1>a, <1>1, <1>2 DEF Parts, StaysAway, OpensRight, ForWhom
  <2>2. /\ \A u \in gone' : session'.u # u
        /\ leaving'.at = "erase" <=> op'.kind = "forget"
        /\ leaving'.at = "erase" =>
             /\ leaving'.u \in {Nobody, op'.u} /\ forgotten'.u = op'.u
             /\ leaving'.u = session'.u /\ session'.u # Nobody => session'.epoch <= forgotten'.epoch
    BY <1>a, <1>1 DEF Parts, StaysAway, ForWhom
  <2> QED
    BY <2>1, <2>2 DEF StaysAway
<1>9. LossesNoted'
  <2>1. \A s \in Stores : disk'[s].unsent => s[2] = "outbox" /\ disk'[s].db # 0
    BY <1>a, <1>1 DEF Parts, LossesNoted
  <2>2. active'.u # Nobody => active'.id \in Ids /\ disk'[OutboxOf(active'.id)].db # 0
    BY <1>a, <1>1, <1>3 DEF Parts, LossesNoted
  <2>3. /\ op'.kind = "list" /\ OpeningStore' => op'.s # OutboxOf(active'.id)
        /\ op'.at # "check"
    BY DEF OpensRight, OpenStages
  <2>4. owed'.read <= losses'.newest
    BY <1>a, <1>1 DEF Parts, LossesNoted
  <2>5. ~hushed' =>
          /\ owed'.all > owed'.recorded => lost' \/ Noting'
          /\ owed'.recorded > owed'.settled => losses'.unacked
          /\ owed'.read > 0 /\ owed'.read = losses'.newest => owed'.of >= owed'.recorded
    <3>1. ~hushed =>
            /\ owed.all > owed.recorded => lost \/ Noting
            /\ owed.recorded > owed.settled => losses.unacked
            /\ owed.read > 0 /\ owed.read = losses.newest => owed.of >= owed.recorded
      BY <1>a DEF Parts, LossesNoted
    <3>2. (lost \/ Noting) => (lost' \/ Noting')
      BY <1>1 DEF NotesIt
    <3> QED
      BY <1>1, <3>1, <3>2
  <2>6. /\ ErasingStray' /\ disk'[OutboxOf(op'.id)].unsent => lost'
        /\ op'.at = "rebuild" /\ disk'[op'.s].unsent => lost'
        /\ op'.at \in {"outbox", "opened"} /\ op'.out \in {"ready", "format", "keymissing"} => disk'[op'.s].db # 0
    BY <1>1 DEF NotesIt
  <2> QED
    BY <2>1, <2>2, <2>3, <2>4, <2>5, <2>6 DEF LossesNoted
<1> QED
  BY <1>4, <1>5, <1>6, <1>7, <1>8, <1>9 DEF Inv, LocalInv

\* An operation that ends.
LEMMA DoneKeeps ==
  ASSUME Inv, OpWork, op' = NoOp, op.kind # "forget", Noting => lost'
  PROVE  Inv'
<1>1. /\ op'.kind = "none" /\ op'.at = "rest" /\ op'.back = "" /\ ~op'.err /\ ~op'.lives
  BY NoOpIs
<1>2. /\ op'.at \notin OpenStages /\ op'.at \notin EraseStages /\ op'.at \notin EnableStages
      /\ op'.at \notin UserStages
  BY <1>1 DEF OpenStages, EraseStages, EnableStages, UserStages
<1>3. ~(OpeningStore') /\ ~(ErasingRow') /\ ~(ErasingStray') /\ ~(CountingStray')
  BY <1>1, <1>2 DEF OpeningStore, ErasingRow, ErasingStray, CountingStray
<1>4. OpensRight /\ ForWhom /\ NotesIt
  BY <1>1, <1>2, <1>3 DEF OpensRight, ForWhom, NotesIt
<1>5. NoOp' = NoOp
  BY DEF NoOp, Index
<1>6. OpFits'
  BY <1>1, <1>2, <1>3, <1>5 DEF OpFits
<1>7. OnItsRow' /\ EraseSoFar' /\ NothingSkipped'
  BY <1>1, <1>2 DEF OnItsRow, EraseSoFar, NothingSkipped
<1> QED
  BY <1>4, <1>6, <1>7, OpWorkKeeps

\* A step of reconcile between two stores.
LEMMA BetweenKeeps ==
  ASSUME Inv, OpWork, op.kind = "enable", op'.kind = "enable",
         op'.at \in EnableStages \ {"count", "gone"}, Noting => lost',
         op'.err \/ op'.lives => op'.refused,
         op'.at = "each" => op'.todo \subseteq Doomed,
         op'.at = "stray" => op'.todo \subseteq stray \ Named,
         NothingSkipped'
  PROVE  Inv'
<1>a. Parts
  BY InvIsParts
<1>0. Named' = Named /\ Doomed' = Doomed /\ stray' = stray /\ on' = on
  BY DEF OpWork, Named, Doomed
<1>1. op'.at \in {"index", "doomed", "each", "stray", "reconciled"}
  BY DEF EnableStages
<1>2. /\ op'.at \notin OpenStages /\ op'.at \notin EraseStages /\ op'.at \notin UserStages
  BY <1>1 DEF OpenStages, EraseStages, UserStages
<1>3. ~(OpeningStore') /\ ~(ErasingRow') /\ ~(ErasingStray') /\ ~(CountingStray')
  BY <1>1, <1>2 DEF OpeningStore, ErasingRow, ErasingStray, CountingStray
<1>4. OpensRight /\ ForWhom /\ NotesIt
  BY <1>1, <1>2, <1>3 DEF OpensRight, ForWhom, NotesIt
<1>5. ~on
  BY <1>a DEF Parts, OpFits
<1>6. OpFits'
  BY <1>0, <1>1, <1>2, <1>3, <1>5 DEF OpFits
<1>7. OnItsRow'
  BY <1>0, <1>1, <1>3 DEF OnItsRow
<1>8. EraseSoFar'
  BY <1>1, <1>2 DEF EraseSoFar
<1> QED
  BY <1>4, <1>6, <1>7, <1>8, OpWorkKeeps

\* A step that begins to erase a store.
LEMMA EraseBegins ==
  ASSUME Inv, OpWork, op'.kind = op.kind, op'.u = op.u,
         op'.id \in Ids, op'.s = CacheOf(op'.id), op'.at = "destroy",
         ~op'.lives, ~op'.err, Noting => lost',
         \/ op'.back = "erased" /\ op'.id \in Doomed /\ op.kind \in {"enable", "open", "forget", "wipe"}
         \/ op'.back = "gone" /\ op.kind = "enable" /\ (disk[OutboxOf(op'.id)].unsent => lost'),
         active' = active,
         OnItsRow', NothingSkipped'
  PROVE  Inv'
<1>a. Parts
  BY InvIsParts
<1>0. Named' = Named /\ Doomed' = Doomed /\ stray' = stray /\ on' = on
  BY DEF OpWork, Named, Doomed
<1>2. /\ op'.at \notin OpenStages /\ op'.at \in EraseStages /\ op'.at \notin UserStages
      /\ op'.at \notin EnableStages
  BY DEF OpenStages, EraseStages, UserStages, EnableStages
<1>3. ~(OpeningStore') /\ (ErasingRow' <=> op'.back = "erased") /\ (ErasingStray' <=> op'.back = "gone")
  BY <1>2 DEF OpeningStore, ErasingRow, ErasingStray, CountingStray
<1>4. OpensRight
  BY <1>2, <1>3 DEF OpensRight
<1>5. ForWhom /\ NotesIt
  BY <1>a, <1>3 DEF ForWhom, NotesIt, Parts, StaysAway
<1>6. OpFits'
  BY <1>a, <1>0, <1>2, <1>3 DEF Parts, OpFits
<1>7. EraseSoFar'
  BY StoreNames DEF EraseSoFar
<1> QED
  BY <1>4, <1>5, <1>6, <1>7, OpWorkKeeps

-----------------------------------------------------------------------------
(* Turning local data on. *)

\* A step that begins to open a store.
LEMMA OpenBegins ==
  ASSUME Inv, OpWork, op.kind \in {op'.kind, "none"}, op'.at = "key", OpensIts', op'.kind # "forget",
         Noting => lost',
         op'.kind = "enable" <=> ~on,
         op'.err \/ op'.lives => op'.refused,
         op'.s # Index => op'.s[1] \in Named \cup stray /\ \A u \in Away : op'.s[1] # rows[u].id,
         op'.kind = "list" => op'.s # OutboxOf(active'.id),
         op'.kind = "open" => op.kind = "open" /\ op'.u = op.u,
         OnItsRow', NothingSkipped'
  PROVE  Inv'
<1>a. Parts
  BY InvIsParts
<1>0. Named' = Named /\ Doomed' = Doomed /\ stray' = stray /\ on' = on
  BY DEF OpWork, Named, Doomed
<1>2. /\ op'.at \in OpenStages /\ op'.at \notin EraseStages /\ op'.at \notin UserStages
      /\ op'.at \notin EnableStages
  BY DEF OpenStages, EraseStages, UserStages, EnableStages
<1>3. OpeningStore' /\ ~(ErasingRow') /\ ~(ErasingStray')
  BY <1>2 DEF OpeningStore, ErasingRow, ErasingStray, CountingStray
<1>4. OpensRight
  BY <1>2, <1>3 DEF OpensRight
<1>5. op'.kind \in {"enable", "open", "list"}
  BY DEF OpensIts
<1>6. ForWhom
  BY <1>a, <1>5 DEF ForWhom, Parts, StaysAway
<1>7. NotesIt
  BY <1>3 DEF NotesIt
<1>8. OpFits'
  BY <1>a, <1>0, <1>2, <1>3, <1>5 DEF Parts, OpFits
<1>9. EraseSoFar'
  BY <1>2 DEF EraseSoFar
<1> QED
  BY <1>4, <1>6, <1>7, <1>8, <1>9, OpWorkKeeps

\* The steps that only go on with turning local data on,
Reconciling == Enable \/ EnableIndex \/ ListDoomed \/ EraseDoomed \/ EraseStray \/ StrayCounted \/ StrayErased

\* Turning local data on: every step but those that drop a row and the last.
LEMMA ReconcilingKeeps ==
  ASSUME Inv, Reconciling
  PROVE  Inv'
<1>a. Parts
  BY InvIsParts
<1>b. /\ op \in Operation /\ op.s \in Stores /\ lost \in BOOLEAN /\ news \in BOOLEAN
      /\ dirs \subseteq Ids /\ stray \subseteq Ids /\ on \in BOOLEAN
      /\ op.err \in BOOLEAN /\ op.lives \in BOOLEAN /\ op.todo \subseteq Ids \cup Users
  BY <1>a DEF Parts, TypeOK, Operation
<1>c. Doomed \subseteq Named /\ Doomed \subseteq Ids /\ Named \subseteq Ids
  BY <1>a DEF Parts, TypeOK, OneStoreEach, Doomed, Named
<1>d. op.err \/ op.lives => op.refused
  BY <1>a DEF Parts, OpFits
<1>e. op.at \in EnableStages => op.kind = "enable" /\ ~on
  BY <1>a DEF Parts, OpFits
<1>f. dirs \ Named \subseteq stray
  BY <1>a DEF Parts, DirsNamed
<1>n. op.at \notin {"make", "check", "count", "outbox"} => ~Noting
  BY DEF Noting
<1>o. ASSUME op' \in Operation,
             UNCHANGED <<rows, slot, disk, dirs, locked, session, on, news, active, forgotten, leaving,
                         gone, late, stray, hushed, lost, losses, owed>>
      PROVE  OpWork
  BY <1>b, <1>o DEF OpWork
<1>1. ASSUME Enable PROVE Inv'
  <2> DEFINE o == [NoOp EXCEPT !.kind = "enable"]
  <2>1. /\ op.kind = "none" /\ ~on /\ op' = Opening(o, Index, "index")
        /\ UNCHANGED <<rows, slot, disk, dirs, locked, session, on, news, active, forgotten, leaving,
                         gone, late, stray, hushed, lost, losses, owed>>
    BY <1>1 DEF Enable, Idle, OpStep, diskVars, processVars, lossVars
  <2>2. o \in Operation /\ o.kind = "enable" /\ ~o.err /\ ~o.lives
    BY NoOpIs DEF Operation
  <2> HIDE DEF o
  <2>3. /\ op' \in Operation /\ op'.kind = "enable" /\ op'.s = Index /\ op'.at = "key" /\ op'.back = "index"
        /\ ~op'.err /\ ~op'.lives
    <3>1. "index" \in Backs /\ Index \in Stores
      BY StoreNames DEF Backs
    <3> QED
      BY <2>1, <2>2, <3>1, OpeningIs
  <2>4. OpWork /\ ~Noting /\ OpensIts'
    <3>1. op.at = "rest"
      BY <1>a, <2>1 DEF Parts, OpFits
    <3>2. Index' = Index
      BY DEF Index
    <3> QED
      BY <1>o, <1>n, <2>1, <2>3, <3>1, <3>2 DEF OpensIts
  <2>5. OnItsRow' /\ NothingSkipped'
    BY <2>3 DEF OnItsRow, NothingSkipped, ErasingRow, ErasingStray, CountingStray, OpeningStore, OpenStages, EraseStages
  <2> QED
    BY <2>1, <2>3, <2>4, <2>5, OpenBegins
<1>2. ASSUME EnableIndex PROVE Inv'
  <2>1. /\ op.at = "index" /\ op.kind = "enable"
        /\ UNCHANGED <<rows, slot, disk, dirs, locked, session, on, news, active, forgotten, leaving,
                         gone, late, stray, hushed, lost, losses, owed>>
    BY <1>2, <1>e DEF EnableIndex, At, OpStep, diskVars, processVars, lossVars, EnableStages
  <2>2. ~Noting
    BY <1>n, <2>1
  <2>3. CASE op' = NoOp
    BY <1>o, <2>1, <2>2, <2>3, NoOpIs, DoneKeeps
  <2>4. CASE Goto("doomed") \/ op' = [op EXCEPT !.at = "doomed", !.pass = 1]
    <3>1. op' \in Operation /\ op'.kind = op.kind /\ op'.at = "doomed" /\ op'.err = op.err /\ op'.lives = op.lives
          /\ op'.refused = op.refused
      BY <1>b, <2>4 DEF Goto, Operation, EnableStages
    <3>2. NothingSkipped'
      BY <3>1 DEF NothingSkipped, ErasingRow, ErasingStray, CountingStray, OpeningStore, OpenStages, EraseStages
    <3> QED
      BY <1>d, <1>o, <2>1, <2>2, <3>1, <3>2, BetweenKeeps DEF EnableStages
  <2> QED
    BY <1>2, <2>3, <2>4 DEF EnableIndex, Done
<1>3. ASSUME ListDoomed PROVE Inv'
  <2>1. /\ op.at = "doomed" /\ op.kind = "enable" /\ op' = [op EXCEPT !.at = "each", !.todo = Doomed]
        /\ UNCHANGED <<rows, slot, disk, dirs, locked, session, on, news, active, forgotten, leaving,
                         gone, late, stray, hushed, lost, losses, owed>>
    BY <1>3, <1>e DEF ListDoomed, At, OpStep, diskVars, processVars, lossVars, EnableStages
  <2>2. /\ op' \in Operation /\ op'.at = "each" /\ op'.todo = Doomed /\ op'.kind = op.kind
        /\ op'.err = op.err /\ op'.lives = op.lives /\ op'.refused = op.refused
    <3>1. Doomed \in SUBSET (Ids \cup Users)
      BY <1>c
    <3> QED
      BY <1>b, <2>1, <3>1 DEF Operation, EnableStages
  <2>3. NothingSkipped'
    <3>1. Doomed' = Doomed
      BY <2>1 DEF Doomed
    <3> QED
      BY <2>2, <3>1 DEF NothingSkipped, ErasingRow, ErasingStray, CountingStray, OpeningStore, OpenStages, EraseStages
  <2> QED
    BY <1>d, <1>n, <1>o, <2>1, <2>2, <2>3, BetweenKeeps DEF EnableStages
<1>4. ASSUME EraseDoomed PROVE Inv'
  <2>1. /\ op.at = "each" /\ op.kind = "enable"
        /\ UNCHANGED <<rows, slot, disk, dirs, locked, session, on, news, active, forgotten, leaving,
                         gone, late, stray, hushed, lost, losses, owed>>
    BY <1>4, <1>e DEF EraseDoomed, At, OpStep, diskVars, processVars, lossVars, EnableStages
  <2>2. Doomed' = Doomed /\ Named' = Named
    BY <2>1 DEF Doomed, Named
  <2>3. op.todo \subseteq Doomed /\ (~op.refused => Doomed \subseteq op.todo)
    BY <1>a, <2>1 DEF Parts, OnItsRow, NothingSkipped
  <2>4. CASE op.todo = {}
    <3>1. op' = [op EXCEPT !.at = "stray", !.todo = dirs \ Named]
      BY <1>4, <2>4 DEF EraseDoomed
    <3>2. /\ op' \in Operation /\ op'.at = "stray" /\ op'.todo = dirs \ Named /\ op'.kind = op.kind
          /\ op'.err = op.err /\ op'.lives = op.lives /\ op'.refused = op.refused
      <4>1. dirs \ Named \in SUBSET (Ids \cup Users)
        BY <1>b
      <4> QED
        BY <1>b, <3>1, <4>1 DEF Operation, EnableStages
    <3>3. NothingSkipped'
      BY <2>1, <2>2, <2>3, <2>4, <3>2 DEF NothingSkipped, ErasingRow, ErasingStray, CountingStray, OpeningStore, OpenStages, EraseStages
    <3> QED
      BY <1>d, <1>f, <1>n, <1>o, <2>1, <3>2, <3>3, BetweenKeeps DEF EnableStages
  <2>5. CASE op.todo # {}
    <3>1. PICK id \in op.todo : op' = [Erasing(op, id, "erased") EXCEPT !.todo = @ \ {id}]
      BY <1>4, <2>5 DEF EraseDoomed
    <3>o. PICK o : o = Erasing(op, id, "erased")
      OBVIOUS
    <3>2. /\ o \in Operation /\ o.id = id /\ o.s = CacheOf(id) /\ o.at = "destroy" /\ o.back = "erased"
          /\ ~o.lives /\ ~o.err /\ o.kind = op.kind /\ o.u = op.u /\ o.todo = op.todo
          /\ o.refused = op.refused /\ id \in Doomed /\ id \in Ids
      <4>1. "erased" \in Backs /\ id \in Doomed /\ id \in Ids
        BY <1>c, <2>3 DEF Backs
      <4> QED
        BY <1>b, <3>o, <4>1, ErasingIs
    <3>3. op' = [o EXCEPT !.todo = o.todo \ {id}]
      BY <3>1, <3>o
    <3>4. /\ op' \in Operation /\ op'.id = id /\ op'.s = CacheOf(id) /\ op'.at = "destroy" /\ op'.back = "erased"
          /\ ~op'.lives /\ ~op'.err /\ op'.kind = op.kind /\ op'.u = op.u /\ op'.todo = op.todo \ {id}
          /\ op'.refused = op.refused
      <4>1. op.todo \ {id} \in SUBSET (Ids \cup Users)
        BY <1>b
      <4> QED
        BY <3>2, <3>3, <4>1 DEF Operation
    <3>5. OnItsRow' /\ NothingSkipped'
      BY <2>1, <2>2, <2>3, <3>2, <3>4
      DEF OnItsRow, NothingSkipped, ErasingRow, ErasingStray, CountingStray, OpeningStore, OpenStages, EraseStages
    <3> QED
      BY <1>n, <1>o, <2>1, <3>2, <3>4, <3>5, EraseBegins
  <2> QED
    BY <2>4, <2>5
<1>g. \A id \in stray \ Named : /\ id \in Ids /\ OutboxOf(id) \in Stores /\ OutboxOf(id) # Index
                                 /\ OutboxOf(id)[1] = id /\ \A u \in Users : id # rows[u].id
  BY <1>b, StoreNames DEF Named
<1>h. Away \subseteq Users
  BY <1>a DEF Parts, TypeOK, Away, Anyone
<1>5. ASSUME EraseStray PROVE Inv'
  <2>1. /\ op.at = "stray" /\ op.kind = "enable" /\ ~on
        /\ UNCHANGED <<rows, slot, disk, dirs, locked, session, on, news, active, forgotten, leaving,
                         gone, late, stray, hushed, lost, losses, owed>>
    BY <1>5, <1>e DEF EraseStray, At, OpStep, diskVars, processVars, lossVars, EnableStages
  <2>2. Doomed' = Doomed /\ Named' = Named
    BY <2>1 DEF Doomed, Named
  <2>3. op.todo \subseteq stray \ Named /\ (~op.refused => Doomed = {} /\ dirs \ Named \subseteq op.todo)
    BY <1>a, <2>1 DEF Parts, OnItsRow, NothingSkipped
  <2>4. CASE op.todo = {}
    <3>1. op' = [op EXCEPT !.at = "reconciled", !.err = FALSE]
      BY <1>5, <2>4 DEF EraseStray
    <3>2. /\ op' \in Operation /\ op'.at = "reconciled" /\ op'.kind = op.kind
          /\ ~op'.err /\ op'.lives = op.lives /\ op'.refused = op.refused
      BY <1>b, <3>1 DEF Operation, EnableStages
    <3>3. NothingSkipped'
      BY <2>1, <2>2, <2>3, <2>4, <3>2 DEF NothingSkipped, ErasingRow, ErasingStray, CountingStray, OpeningStore, OpenStages, EraseStages
    <3> QED
      BY <1>d, <1>n, <1>o, <2>1, <3>2, <3>3, BetweenKeeps DEF EnableStages
  <2>5. CASE op.todo # {}
    <3>1. PICK id \in op.todo :
            LET rest == [op EXCEPT !.todo = op.todo \ {id}, !.id = id]
            IN  op' = IF disk[OutboxOf(id)].db # 0
                        THEN Opening(rest, OutboxOf(id), "count")
                        ELSE Erasing(rest, id, "gone")
      BY <1>5, <2>5 DEF EraseStray
    <3>r. PICK rest : rest = [op EXCEPT !.todo = op.todo \ {id}, !.id = id]
      OBVIOUS
    <3>2. /\ rest \in Operation /\ rest.kind = op.kind /\ rest.u = op.u /\ rest.id = id /\ rest.todo = op.todo \ {id}
          /\ rest.err = op.err /\ rest.lives = op.lives /\ rest.refused = op.refused
      <4>1. op.todo \ {id} \in SUBSET (Ids \cup Users) /\ id \in Ids
        BY <1>b, <1>g, <2>3
      <4> QED
        BY <1>b, <3>r, <4>1 DEF Operation
    <3>3. CASE disk[OutboxOf(id)].db # 0
      <4>1. op' = Opening(rest, OutboxOf(id), "count") /\ "count" \in Backs /\ OutboxOf(id) \in Stores
        BY <1>g, <2>3, <3>1, <3>3, <3>r DEF Backs
      <4>2. /\ op' \in Operation /\ op'.s = OutboxOf(id) /\ op'.at = "key" /\ op'.back = "count"
            /\ op'.kind = op.kind /\ op'.u = op.u /\ op'.id = id /\ op'.todo = op.todo \ {id}
            /\ op'.lives = op.lives /\ op'.err = op.err /\ op'.refused = op.refused
        BY <3>2, <4>1, OpeningIs
      <4>3. OnItsRow' /\ NothingSkipped'
        BY <2>1, <2>2, <2>3, <4>2
        DEF OnItsRow, NothingSkipped, ErasingRow, ErasingStray, CountingStray, OpeningStore, OpenStages, EraseStages
      <4>4. OpensIts'
        BY <1>g, <2>1, <2>3, <4>2 DEF OpensIts, OutboxOf
      <4>5. op'.s[1] \in Named \cup stray /\ \A u \in Away : op'.s[1] # rows[u].id
        BY <1>g, <1>h, <2>3, <4>2
      <4> QED
        BY <1>d, <1>n, <1>o, <2>1, <4>2, <4>3, <4>4, <4>5, OpenBegins
    <3>4. CASE disk[OutboxOf(id)].db = 0
      <4>1. op' = Erasing(rest, id, "gone") /\ "gone" \in Backs /\ id \in Ids
        BY <1>g, <2>3, <3>1, <3>4, <3>r DEF Backs
      <4>2. /\ op' \in Operation /\ op'.s = CacheOf(id) /\ op'.at = "destroy" /\ op'.back = "gone"
            /\ op'.kind = op.kind /\ op'.u = op.u /\ op'.id = id /\ op'.todo = op.todo \ {id}
            /\ ~op'.lives /\ ~op'.err /\ op'.refused = op.refused
        BY <3>2, <4>1, ErasingIs
      <4>3. OnItsRow' /\ NothingSkipped'
        BY <2>1, <2>2, <2>3, <4>2
        DEF OnItsRow, NothingSkipped, ErasingRow, ErasingStray, CountingStray, OpeningStore, OpenStages, EraseStages
      <4>4. ~disk[OutboxOf(id)].unsent
        BY <1>a, <1>g, <2>3, <3>4 DEF Parts, LossesNoted
      <4> QED
        BY <1>n, <1>o, <2>1, <4>1, <4>2, <4>3, <4>4, EraseBegins
    <3> QED
      BY <3>3, <3>4
  <2> QED
    BY <2>4, <2>5
<1>6. ASSUME StrayCounted PROVE Inv'
  <2>1. /\ op.at = "count" /\ op.kind = "enable" /\ op' = Erasing(op, op.id, "gone")
        /\ UNCHANGED <<rows, slot, disk, dirs, locked, session, on, news, active, forgotten, leaving,
                         gone, late, stray, hushed, losses, owed>>
        /\ lost' = (lost \/ op.out # "ready" \/ disk[op.s].unsent)
    BY <1>6, <1>e DEF StrayCounted, Unsent, At, OpStep, diskVars, processVars, lossVars, EnableStages
  <2>2. Doomed' = Doomed /\ Named' = Named
    BY <2>1 DEF Doomed, Named
  <2>3. op.todo \subseteq stray \ Named /\ op.id \in stray \ Named /\ op.s = OutboxOf(op.id)
        /\ (~op.refused => Doomed = {} /\ dirs \ Named \subseteq op.todo \cup {op.id})
    BY <1>a, <2>1 DEF Parts, OnItsRow, NothingSkipped, CountingStray
  <2>4. "gone" \in Backs /\ op.id \in Ids
    BY <1>g, <2>3 DEF Backs
  <2>5. /\ op' \in Operation /\ op'.s = CacheOf(op.id) /\ op'.at = "destroy" /\ op'.back = "gone"
        /\ op'.kind = op.kind /\ op'.u = op.u /\ op'.id = op.id /\ op'.todo = op.todo
        /\ ~op'.lives /\ ~op'.err /\ op'.refused = op.refused
    BY <1>b, <2>1, <2>4, ErasingIs
  <2>6. OnItsRow' /\ NothingSkipped'
    BY <2>1, <2>2, <2>3, <2>5
    DEF OnItsRow, NothingSkipped, ErasingRow, ErasingStray, CountingStray, OpeningStore, OpenStages, EraseStages
  <2>7. OpWork
    <3>1. lost' \in BOOLEAN /\ (lost => lost')
      BY <2>1, Zenon
    <3> QED
      BY <1>b, <2>1, <2>5, <3>1 DEF OpWork
  <2>8. /\ Noting => lost'
        /\ disk[OutboxOf(op.id)].unsent => lost'
    BY <2>1, <2>3 DEF Noting
  <2> QED
    BY <2>1, <2>4, <2>5, <2>6, <2>7, <2>8, EraseBegins
<1>7. ASSUME StrayErased PROVE Inv'
  <2> DEFINE a == IF op.err THEN "reconciled" ELSE "stray"
  <2>1. /\ op.at = "gone" /\ op.kind = "enable" /\ Goto(a) /\ op.back = "gone"
        /\ UNCHANGED <<rows, slot, disk, dirs, locked, session, on, news, active, forgotten, leaving,
                         gone, late, stray, hushed, lost, losses, owed>>
    BY <1>7, <1>a, <1>e DEF StrayErased, At, OpStep, diskVars, processVars, lossVars, EnableStages, Parts, OpFits
  <2>2. Doomed' = Doomed /\ Named' = Named
    BY <2>1 DEF Doomed, Named
  <2>3. a \in Stages /\ (op.err => a = "reconciled") /\ (~op.err => a = "stray")
    BY DEF Stages, EnableStages
  <2> HIDE DEF a
  <2>4. /\ op' \in Operation /\ op'.at = a /\ op'.kind = op.kind /\ op'.todo = op.todo
        /\ op'.lives = op.lives /\ op'.err = op.err /\ op'.refused = op.refused
    BY <1>b, <2>1, <2>3, GotoIs
  <2>5. /\ op.todo \subseteq stray \ Named
        /\ ~op.refused => Doomed = {} /\ dirs \ Named \subseteq op.todo \cup {op.id}
        /\ ~op.err => op.id \notin dirs
    BY <1>a, <2>1 DEF Parts, OnItsRow, NothingSkipped, ErasingStray, EraseSoFar
  <2>6. NothingSkipped'
    BY <1>d, <2>1, <2>2, <2>3, <2>4, <2>5
    DEF NothingSkipped, ErasingRow, ErasingStray, CountingStray, OpeningStore, OpenStages, EraseStages
  <2> QED
    BY <1>d, <1>n, <1>o, <2>1, <2>3, <2>4, <2>5, <2>6, BetweenKeeps DEF EnableStages
<1> QED
  BY <1>1, <1>2, <1>3, <1>4, <1>5, <1>6, <1>7 DEF Reconciling

-----------------------------------------------------------------------------
(* erase_row, and the end of an operation. *)

\* erase_row, for whichever operation erased the store.
LEMMA DropRowKeeps ==
  ASSUME Inv, op.at = "erased", DropRow,
         NEW a \in {"each", "row", "failed", "next"}, Goto(a),
         a = "each" => op.kind = "enable",
         a \in {"row", "failed"} => op.kind = "open",
         a = "row" => Erased,
         a = "next" => op.kind \in {"forget", "wipe"},
         UNCHANGED <<slot, disk, dirs, locked, session, on, news, active, forgotten, leaving,
                     gone, late, stray, hushed, lost, losses, owed>>
  PROVE  Inv'
<1>a. Parts
  BY InvIsParts
<1>b. /\ op \in Operation /\ rows \in [Users -> [id: {0} \cup Ids, doomed: BOOLEAN]]
      /\ disk \in [Stores -> File]
  BY <1>a DEF Parts, TypeOK
<1>c. /\ UNCHANGED <<slot, disk, dirs, locked, session, on, news, active, forgotten, leaving,
                     gone, late, stray, hushed, lost, losses, owed>>
      /\ Written' = Written /\ Held' = Held /\ Away' = Away
  BY DEF Written, Held, Away
<1>d. op.back = "erased" /\ ErasingRow /\ op.id \in Doomed /\ op.id \in Ids /\ op.id # 0
  <2>1. op.back = "erased" /\ ErasingRow /\ op.id \in Doomed
    BY <1>a DEF Parts, OpFits, ErasingRow
  <2> QED
    BY <1>a, <1>b, <2>1, StoreNames DEF Parts, OneStoreEach, Doomed
<1>1. NoRow \in [id: {0} \cup Ids, doomed: BOOLEAN] /\ NoRow.id = 0 /\ ~NoRow.doomed
  BY DEF NoRow
<1>2. \A u \in Users : \/ rows'[u] = rows[u] /\ (Erased => rows[u].id # op.id)
                       \/ rows[u].id = op.id /\ Erased /\ rows'[u] = NoRow
  BY DEF DropRow
<1>3. rows' \in [Users -> [id: {0} \cup Ids, doomed: BOOLEAN]]
  BY <1>b, <1>1 DEF DropRow
<1>4. /\ op' \in Operation /\ op'.at = a
      /\ op'.kind = op.kind /\ op'.u = op.u /\ op'.epoch = op.epoch /\ op'.id = op.id /\ op'.todo = op.todo
      /\ op'.back = op.back /\ op'.s = op.s
      /\ op'.key = op.key /\ op'.made = op.made /\ op'.out = op.out /\ op'.cache = op.cache
      /\ op'.lives = op.lives /\ op'.err = op.err /\ op'.pass = op.pass /\ op'.refused = op.refused
  <2>1. a \in Stages
    BY DEF Stages, EnableStages, UserStages
  <2> QED
    BY <1>b, <2>1, GotoIs
<1>5. /\ Named \ {op.id} \subseteq Named' /\ (~Erased => Named' = Named /\ Doomed' = Doomed)
      /\ Named' \subseteq Named
      /\ Doomed' \subseteq Doomed /\ Doomed \ {op.id} \subseteq Doomed'
      /\ (Erased => op.id \notin Doomed')
  <2>1. ASSUME ~Erased PROVE \A u \in Users : rows'[u] = rows[u]
    BY <1>2, <2>1
  <2>2. Named \ {op.id} \subseteq Named' /\ (~Erased => Named' = Named) /\ Named' \subseteq Named
    BY <1>1, <1>2, <2>1 DEF Named
  <2>3. Doomed' \subseteq Doomed /\ Doomed \ {op.id} \subseteq Doomed' /\ (~Erased => Doomed' = Doomed)
    BY <1>1, <1>2, <2>1 DEF Doomed
  <2>4. Erased => op.id \notin Doomed'
    BY <1>1, <1>2 DEF Doomed
  <2> QED
    BY <2>2, <2>3, <2>4
<1>6. /\ op'.at \notin OpenStages /\ op'.at \notin EraseStages /\ op'.at \notin {"erased", "gone", "count", "rest"}
      /\ (op'.at \in EnableStages => op'.at = "each") /\ (op'.at \in UserStages => op'.at \in {"row", "failed"})
  BY <1>4 DEF OpenStages, EraseStages, EnableStages, UserStages
<1>7. ~(OpeningStore') /\ ~(ErasingRow') /\ ~(ErasingStray') /\ ~(CountingStray')
  BY <1>6 DEF OpeningStore, ErasingRow, ErasingStray, CountingStray
<1>8. Erased =>
        /\ slot[CacheOf(op.id)] = 0 /\ slot[OutboxOf(op.id)] = 0
        /\ disk[CacheOf(op.id)].db = 0 /\ disk[OutboxOf(op.id)].db = 0
        /\ op.id \notin dirs
  <2>1. NoStore.db = 0
    BY DEF NoStore
  <2> QED
    BY <1>a, <2>1 DEF Parts, EraseSoFar, Erased, EraseStages
<1>9. TypeOK'
  BY <1>a, <1>c, <1>3, <1>4 DEF Parts, TypeOK
<1>10. OpenIsNamed'
  <2> SUFFICES ASSUME active.u # Nobody PROVE on /\ rows'[active.u] = [id |-> active.id, doomed |-> FALSE]
    BY <1>c DEF OpenIsNamed
  <2>1. on /\ rows[active.u] = [id |-> active.id, doomed |-> FALSE] /\ active.u \in Users
    BY <1>a DEF Parts, OpenIsNamed, TypeOK, Anyone
  <2>2. active.id # op.id
    BY <1>a, <1>d, DoomedIsClosed
  <2> QED
    BY <1>2, <2>1, <2>2
<1>11. KeysBeforeRow'
  <2> SUFFICES ASSUME NEW s \in Held PROVE s[1] \in Named' \cup stray
    BY <1>c DEF KeysBeforeRow
  <2>1. s[1] \in Named \cup stray /\ s \in Stores \ {Index} /\ (disk[s].db # 0 \/ slot[s] # 0)
    BY <1>a DEF Parts, KeysBeforeRow, Held, Written
  <2>2. Erased => s[1] # op.id
    BY <1>8, <2>1, StoreNames
  <2> QED
    BY <1>5, <2>1, <2>2
<1>12. OpFits'
  BY <1>a, <1>c, <1>4, <1>6, <1>7 DEF Parts, OpFits
<1>13. OneStoreEach'
  BY <1>a, <1>1, <1>2 DEF Parts, OneStoreEach
<1>14. OnItsRow'
  <2>1. Erased' <=> Erased
    BY <1>4 DEF Erased
  <2>2. /\ op.kind \in {"open", "forget", "wipe"} => op.u \in Users /\ rows[op.u].id = op.id
        /\ op.kind = "open" => active = NoActive
        /\ op.kind \in {"forget", "wipe"} => active.u # op.u
        /\ op.kind = "wipe" => op.todo \subseteq Users
        /\ op.kind = "list" => op.todo \subseteq Ids
        /\ op.kind = "enable" => op.todo \subseteq Doomed /\ op.id \notin op.todo
    BY <1>a, <1>d DEF Parts, OnItsRow
  <2>3. NoActive' = NoActive
    BY DEF NoActive
  <2>4. op.kind \in {"open", "forget", "wipe"} /\ Erased => rows'[op.u] = NoRow
    BY <1>2, <2>2
  <2>5. op'.kind = "enable" /\ op'.at = "each" => op'.todo \subseteq Doomed'
    BY <1>4, <1>5, <2>2
  <2> QED
    BY <1>1, <1>c, <1>4, <1>6, <1>7, <2>1, <2>2, <2>3, <2>4, <2>5 DEF OnItsRow
<1>15. EraseSoFar'
  BY <1>6 DEF EraseSoFar
<1>16. DirsNamed'
  <2>1. dirs' \subseteq Named' \cup stray'
    BY <1>a, <1>c, <1>5, <1>8 DEF Parts, DirsNamed
  <2> QED
    BY <1>a, <1>c, <1>6, <1>7, <2>1 DEF Parts, DirsNamed
<1>17. StaysAway'
  <2>1. \A u \in Away, s \in Written : s[1] # rows'[u].id
    <3> SUFFICES ASSUME NEW u \in Away, NEW s \in Written PROVE s[1] # rows'[u].id
      OBVIOUS
    <3>1. u \in Users /\ s[1] # rows[u].id
      BY <1>a DEF Parts, StaysAway, TypeOK, Away, Anyone
    <3>2. s[1] # 0
      BY StoreNames DEF Written
    <3> QED
      BY <1>1, <1>2, <3>1, <3>2
  <2> QED
    BY <1>a, <1>c, <1>4, <1>7, <2>1 DEF Parts, StaysAway
<1>18. LossesNoted'
  <2>1. ~Noting
    BY DEF Noting
  <2>2. op'.at \notin {"rebuild", "outbox", "opened", "check"}
    BY <1>4
  <2> QED
    BY <1>a, <1>c, <1>4, <1>7, <2>1, <2>2 DEF Parts, LossesNoted
<1>19. NothingSkipped'
  <2>1. op.kind = "enable" /\ ~op.refused => Doomed \subseteq op.todo \cup {op.id} /\ Erased
    BY <1>a, <1>d DEF Parts, NothingSkipped, OpFits, Erased
  <2> QED
    BY <1>4, <1>5, <1>6, <1>7, <2>1 DEF NothingSkipped
<1> QED
  BY <1>9, <1>10, <1>11, <1>12, <1>13, <1>14, <1>15, <1>16, <1>17, <1>18, <1>19 DEF Inv, LocalInv

\* The end of an operation that gives its loss a number.
LEMMA RecordKeeps ==
  ASSUME Inv, op' = NoOp, op.kind # "forget", Record, ~Noting,
         UNCHANGED <<rows, slot, disk, dirs, locked, session, forgotten, leaving, gone, stray, hushed>>,
         on' \in BOOLEAN, news' \in BOOLEAN, late' \subseteq Anyone, late \subseteq late',
         active' \in [u: Anyone, id: {0} \cup Ids],
         active'.u # Nobody =>
           /\ on' /\ rows[active'.u] = [id |-> active'.id, doomed |-> FALSE]
           /\ active'.id \in Ids /\ disk[OutboxOf(active'.id)].db # 0,
         \A u \in Away' : session.u = u => ~on' \/ (forgotten.u = u /\ session.epoch <= forgotten.epoch)
  PROVE  Inv'
<1>a. Parts
  BY InvIsParts
<1>b. /\ op'.kind = "none" /\ op'.at = "rest" /\ op'.back = "" /\ ~op'.err /\ ~op'.lives /\ op' \in Operation
  BY NoOpIs
<1>c. /\ op'.at \notin OpenStages /\ op'.at \notin EraseStages /\ op'.at \notin EnableStages
      /\ op'.at \notin UserStages
  BY <1>b DEF OpenStages, EraseStages, EnableStages, UserStages
<1>d. ~(OpeningStore') /\ ~(ErasingRow') /\ ~(ErasingStray') /\ ~(CountingStray') /\ ~(Noting')
  BY <1>b, <1>c DEF OpeningStore, ErasingRow, ErasingStray, CountingStray, Noting
<1>e. /\ UNCHANGED <<rows, slot, disk, dirs, locked, session, forgotten, leaving, gone, stray, hushed>>
      /\ Written' = Written /\ Held' = Held /\ Named' = Named
  BY DEF Written, Held, Named
<1>1. /\ owed \in Owed /\ losses \in [newest: Nat, unacked: BOOLEAN] /\ lost \in BOOLEAN
  BY <1>a DEF Parts, TypeOK
<1>2. /\ lost' = FALSE /\ owed' \in Owed /\ owed'.recorded = owed.all /\ owed'.all = owed.all
      /\ owed'.settled = owed.settled /\ owed'.read = owed.read /\ owed'.of = owed.of
  BY <1>1 DEF Record, Owed
<1>3. /\ losses' \in [newest: Nat, unacked: BOOLEAN]
      /\ lost => losses'.newest = losses.newest + 1 /\ losses'.unacked
      /\ ~lost => losses' = losses
  BY <1>1 DEF Record
<1>4. TypeOK'
  BY <1>a, <1>b, <1>e, <1>2, <1>3 DEF Parts, TypeOK
<1>5. OpenIsNamed' /\ KeysBeforeRow' /\ OneStoreEach'
  BY <1>a, <1>e DEF Parts, OpenIsNamed, KeysBeforeRow, OneStoreEach
<1>6. NoOp' = NoOp
  BY DEF NoOp, Index
<1>7. OpFits' /\ OnItsRow' /\ EraseSoFar' /\ NothingSkipped'
  <2>1. OpFits'
    BY <1>b, <1>c, <1>d, <1>6 DEF OpFits
  <2> QED
    BY <1>b, <1>c, <2>1 DEF OnItsRow, EraseSoFar, NothingSkipped
<1>8. DirsNamed'
  BY <1>a, <1>c, <1>d, <1>e DEF Parts, DirsNamed
<1>9. StaysAway'
  <2>1. Away' \subseteq Away
    BY <1>e DEF Away
  <2> QED
    BY <1>a, <1>b, <1>d, <1>e, <2>1 DEF Parts, StaysAway
<1>10. LossesNoted'
  <2>1. /\ \A s \in Stores : disk'[s].unsent => s[2] = "outbox" /\ disk'[s].db # 0
        /\ op'.at \notin {"rebuild", "outbox", "opened", "check"}
    BY <1>a, <1>b, <1>e DEF Parts, LossesNoted
  <2>2. owed.read <= losses.newest
    BY <1>a DEF Parts, LossesNoted
  <2>3. owed.all \in Nat /\ owed.recorded \in Nat /\ owed.settled \in Nat /\ owed.read \in Nat
        /\ owed.of \in Nat /\ losses.newest \in Nat
    BY <1>1 DEF Owed
  <2>4. owed'.read <= losses'.newest
    BY <1>2, <1>3, <2>2, <2>3
  <2>5. ASSUME ~hushed
        PROVE  /\ ~(owed'.all > owed'.recorded)
               /\ owed'.recorded > owed'.settled => losses'.unacked
               /\ owed'.read > 0 /\ owed'.read = losses'.newest => owed'.of >= owed'.recorded
    <3>1. /\ owed.all > owed.recorded => lost
          /\ owed.recorded > owed.settled => losses.unacked
          /\ owed.read > 0 /\ owed.read = losses.newest => owed.of >= owed.recorded
      BY <1>a, <2>5 DEF Parts, LossesNoted
    <3>2. CASE lost
      BY <1>2, <1>3, <2>2, <2>3, <3>2
    <3>3. CASE ~lost
      BY <1>2, <1>3, <2>2, <2>3, <3>1, <3>3
    <3> QED
      BY <3>2, <3>3
  <2> QED
    BY <1>d, <1>e, <2>1, <2>4, <2>5 DEF LossesNoted
<1> QED
  BY <1>4, <1>5, <1>7, <1>8, <1>9, <1>10 DEF Inv, LocalInv

\* erase_row in each of the operations that end an erase.
LEMMA DropsKeep ==
  ASSUME Inv, DoomedErased \/ UserErased \/ WipeErased
  PROVE  Inv'
<1>1. CASE DoomedErased
  BY <1>1, DropRowKeeps DEF DoomedErased, At, processVars, lossVars
<1>2. CASE UserErased
  <2> DEFINE a == IF Erased THEN "row" ELSE "failed"
  <2>1. a \in {"each", "row", "failed", "next"} /\ a # "each" /\ a # "next" /\ (a = "row" => Erased)
    OBVIOUS
  <2>2. /\ op.kind = "open" /\ op.at = "erased" /\ DropRow /\ Goto(a)
        /\ UNCHANGED <<slot, disk, dirs, locked, session, on, news, active, forgotten, leaving,
                     gone, late, stray, hushed, lost, losses, owed>>
    BY <1>2 DEF UserErased, At, processVars, lossVars
  <2> HIDE DEF a
  <2> QED
    BY <2>1, <2>2, DropRowKeeps
<1>3. CASE WipeErased
  BY <1>3, DropRowKeeps DEF WipeErased, At, processVars, lossVars
<1> QED
  BY <1>1, <1>2, <1>3

\* reconcile is through.
LEMMA EnabledKeeps ==
  ASSUME Inv, Enabled
  PROVE  Inv'
<1>a. Parts
  BY InvIsParts
<1>b. /\ op.at = "reconciled" /\ op.kind = "enable" /\ ~on /\ ~Noting
      /\ UNCHANGED <<rows, slot, disk, dirs, locked, session, active, forgotten, leaving, gone, stray, hushed>>
  BY <1>a DEF Enabled, At, OpStep, diskVars, Parts, OpFits, EnableStages, Noting
<1>c. /\ op \in Operation /\ lost \in BOOLEAN /\ news \in BOOLEAN /\ late \subseteq Anyone
      /\ active \in [u: Anyone, id: {0} \cup Ids] /\ leaving.u \in Anyone
  BY <1>a DEF Parts, TypeOK
<1>1. CASE op.pass = 1
  <2>1. op' = [op EXCEPT !.at = "doomed", !.pass = 2, !.err = FALSE] /\ UNCHANGED <<lost, losses, owed, on, news, late>>
    BY <1>1 DEF Enabled, lossVars
  <2>2. op' \in Operation /\ op'.kind = op.kind /\ op'.at = "doomed" /\ ~op'.err /\ op'.lives = op.lives
        /\ op'.refused = op.refused
    BY <1>c, <2>1 DEF Operation, EnableStages
  <2>3. op.lives => op.refused
    BY <1>a DEF Parts, OpFits
  <2>4. NothingSkipped'
    BY <2>2 DEF NothingSkipped, ErasingRow, ErasingStray, CountingStray, OpeningStore, OpenStages, EraseStages
  <2>5. OpWork
    BY <1>b, <1>c, <2>1, <2>2 DEF OpWork
  <2> QED
    BY <1>b, <2>2, <2>3, <2>4, <2>5, BetweenKeeps DEF EnableStages
<1>2. CASE op.pass # 1
  <2>1. /\ op' = NoOp /\ Record /\ on' = ~op.err /\ news' = (news \/ ~op.err)
        /\ late' = late \cup IF leaving.at = "logout" THEN {leaving.u} ELSE {}
    BY <1>2 DEF Enabled, Done
  <2>2. active.u = Nobody
    BY <1>a, <1>b DEF Parts, OpenIsNamed
  <2>3. late' \subseteq Anyone /\ late \subseteq late'
    BY <1>c, <2>1
  <2>4. on' \in BOOLEAN /\ news' \in BOOLEAN
    BY <2>1, Zenon
  <2>5. \A u \in Away' : session.u # u
    <3> SUFFICES ASSUME NEW u \in Away' PROVE session.u # u
      OBVIOUS
    <3>1. u \in gone
      BY <1>b, <2>1 DEF Away
    <3> QED
      BY <1>a, <3>1 DEF Parts, StaysAway
  <2> QED
    BY <1>b, <1>c, <2>1, <2>2, <2>3, <2>4, <2>5, RecordKeeps
<1> QED
  BY <1>1, <1>2

\* open_user is through.
LEMMA UserOpenedKeeps ==
  ASSUME Inv, UserOpened
  PROVE  Inv'
<1>a. Parts
  BY InvIsParts
<1>b. /\ op.at \in {"opened", "failed"} /\ op.kind = "open" /\ on /\ ~Noting
      /\ UNCHANGED <<rows, slot, disk, dirs, locked, session, on, news, forgotten, leaving, gone, late, stray, hushed>>
      /\ op' = NoOp /\ Record
  BY <1>a DEF UserOpened, At, Done, OpStep, diskVars, Parts, OpFits, UserStages, Noting
<1>c. /\ op \in Operation /\ on \in BOOLEAN /\ news \in BOOLEAN /\ late \subseteq Anyone
      /\ active = NoActive /\ op.u \in Users
  BY <1>a, <1>b DEF Parts, TypeOK, OnItsRow
<1>1. \A u \in Away' : session.u = u => ~on \/ (forgotten.u = u /\ session.epoch <= forgotten.epoch)
  BY <1>a, <1>b DEF Parts, StaysAway, Away
<1>2. CASE op.at = "opened" /\ {op.cache, op.out} \subseteq {"ready", "format", "keymissing"}
  <2>1. active' = [u |-> op.u, id |-> op.id]
    BY <1>2 DEF UserOpened, At
  <2>2. op.id # 0 /\ rows[op.u] = [id |-> op.id, doomed |-> FALSE] /\ op.s = OutboxOf(op.id) /\ disk[op.s].db # 0
    BY <1>a, <1>b, <1>2 DEF Parts, OnItsRow, LossesNoted
  <2>3. op.id \in Ids
    BY <1>c, <2>2 DEF Operation
  <2> QED
    BY <1>b, <1>c, <1>1, <2>1, <2>2, <2>3, RecordKeeps DEF Anyone
<1>3. CASE ~(op.at = "opened" /\ {op.cache, op.out} \subseteq {"ready", "format", "keymissing"})
  <2>1. active' = NoActive /\ NoActive.u = Nobody /\ NoActive \in [u: Anyone, id: {0} \cup Ids]
    BY <1>c, <1>3 DEF UserOpened, At, NoActive, Anyone
  <2> QED
    BY <1>b, <1>c, <1>1, <2>1, RecordKeeps
<1> QED
  BY <1>2, <1>3

-----------------------------------------------------------------------------
(* The watcher: open_user. *)

\* open_user between two calls.
LEMMA UserGoesOn ==
  ASSUME Inv, OpWork, op.kind = "open", op'.kind = "open", op'.u = op.u, op'.at \in UserStages,
         active' = active, op'.err \/ op'.lives => op'.refused, Noting => lost',
         op'.at = "row" => ~rows[op.u].doomed,
         op'.at \in {"cache", "outbox", "rebuild", "opened"} =>
           op'.id # 0 /\ rows[op.u] = [id |-> op'.id, doomed |-> FALSE],
         op'.at \in {"outbox", "rebuild", "opened"} => op'.s = OutboxOf(op'.id),
         op'.at = "rebuild" /\ disk[op'.s].unsent => lost',
         op'.at \in {"outbox", "opened"} /\ op'.out \in {"ready", "format", "keymissing"} => disk[op'.s].db # 0
  PROVE  Inv'
<1>a. Parts
  BY InvIsParts
<1>b. UNCHANGED <<rows, on>> /\ NoActive' = NoActive
  BY DEF OpWork, NoActive
<1>1. op'.at \in {"user", "row", "cache", "outbox", "rebuild", "opened", "failed"}
  BY DEF UserStages
<1>2. /\ op'.at \notin OpenStages /\ op'.at \notin EraseStages /\ op'.at \notin EnableStages
  BY <1>1 DEF OpenStages, EraseStages, EnableStages
<1>3. ~(OpeningStore') /\ ~(ErasingRow') /\ ~(ErasingStray') /\ ~(CountingStray')
  BY <1>1, <1>2 DEF OpeningStore, ErasingRow, ErasingStray, CountingStray
<1>4. OpensRight
  BY <1>2, <1>3 DEF OpensRight
<1>5. ForWhom
  BY <1>a DEF Parts, StaysAway, ForWhom
<1>6. NotesIt
  BY <1>3 DEF NotesIt
<1>7. OpFits'
  BY <1>a, <1>b, <1>1, <1>2, <1>3 DEF Parts, OpFits
<1>8. OnItsRow'
  BY <1>a, <1>b, <1>1, <1>3 DEF Parts, OnItsRow
<1>9. EraseSoFar' /\ NothingSkipped'
  BY <1>1, <1>2 DEF EraseSoFar, NothingSkipped
<1> QED
  BY <1>4, <1>5, <1>6, <1>7, <1>8, <1>9, OpWorkKeeps

\* Whoever the watcher opens for has not asked to be forgotten.
LEMMA NotAway ==
  ASSUME Inv, op.kind = "open", NEW id \in Ids, rows[op.u].id = id
  PROVE  op.u \in Users /\ op.u \notin Away /\ id \in Named /\ \A u \in Away : id # rows[u].id
<1>a. Parts
  BY InvIsParts
<1>1. op.u \in Users /\ op.u \notin Away
  BY <1>a DEF Parts, OnItsRow, StaysAway
<1>2. Away \subseteq Users /\ id # 0
  BY <1>a, StoreNames DEF Parts, TypeOK, Away, Anyone
<1> QED
  BY <1>a, <1>1, <1>2 DEF Parts, OneStoreEach, Named

\* and with opening a user's stores.
OpeningForUser == Watch \/ OpenUser \/ CacheOpened \/ OutboxOpened

\* open_user: the steps that change neither index nor files.
LEMMA OpensUserKeeps ==
  ASSUME Inv, OpeningForUser
  PROVE  Inv'
<1>a. Parts
  BY InvIsParts
<1>b. /\ op \in Operation /\ op.s \in Stores /\ lost \in BOOLEAN /\ news \in BOOLEAN
      /\ on \in BOOLEAN /\ op.err \in BOOLEAN /\ op.lives \in BOOLEAN /\ op.out \in Outcomes
      /\ session \in [u: Anyone, epoch: Nat] /\ rows \in [Users -> [id: {0} \cup Ids, doomed: BOOLEAN]]
  BY <1>a DEF Parts, TypeOK, Operation
<1>d. op.err \/ op.lives => op.refused
  BY <1>a DEF Parts, OpFits
<1>e. op.at \in UserStages => op.kind = "open" /\ on
  BY <1>a DEF Parts, OpFits
<1>k. op.kind = "open" => op.u \in Users /\ active = NoActive
  BY <1>a DEF Parts, OnItsRow
<1>n. op.at \notin {"make", "check", "count", "outbox"} => ~Noting
  BY DEF Noting
<1>o. ASSUME op' \in Operation, active' \in {active, NoActive}, news' \in BOOLEAN, lost' = lost,
             UNCHANGED <<rows, slot, disk, dirs, locked, session, on, forgotten, leaving,
                         gone, late, stray, hushed, losses, owed>>
      PROVE  OpWork
  BY <1>b, <1>o DEF OpWork
<1>1. ASSUME Watch PROVE Inv'
  <2>1. /\ op.kind = "none" /\ on /\ news' = FALSE /\ lost' = lost
        /\ UNCHANGED <<rows, slot, disk, dirs, locked, session, on, forgotten, leaving,
                         gone, late, stray, hushed, losses, owed>>
    BY <1>1 DEF Watch, Idle, OpStep, diskVars, lossVars
  <2>2. op = NoOp /\ op.at = "rest" /\ ~Noting
    BY <1>a, <1>n, <2>1 DEF Parts, OpFits
  <2>3. CASE UNCHANGED <<op, active>>
    BY <1>b, <1>o, <2>1, <2>2, <2>3, DoneKeeps
  <2>4. CASE ~UNCHANGED <<op, active>>
    <3>1. /\ ~(session.u = Nobody \/ Refused \/ active.u = session.u) /\ active' = NoActive
          /\ op' = [NoOp EXCEPT !.kind = "open", !.at = "user", !.u = session.u, !.epoch = session.epoch]
      BY <1>1, <2>4 DEF Watch
    <3>2. session.u \in Users
      BY <1>b, <3>1 DEF Anyone
    <3>3. /\ op' \in Operation /\ op'.kind = "open" /\ op'.at = "user" /\ op'.u = session.u
          /\ ~op'.err /\ ~op'.lives
      BY <1>b, <3>1, NoOpIs DEF Operation, UserStages
    <3>4. \A u \in Away : ~(op'.kind = "open" /\ op'.u = u)
      BY <1>a, <2>1, <3>1, <3>3 DEF Parts, StaysAway, Refused
    <3>5. /\ op'.at \notin OpenStages /\ op'.at \notin EraseStages /\ op'.at \notin EnableStages
          /\ op'.at \in UserStages
      BY <3>3 DEF OpenStages, EraseStages, EnableStages, UserStages
    <3>6. ~(OpeningStore') /\ ~(ErasingRow') /\ ~(ErasingStray') /\ ~(CountingStray')
      BY <3>3, <3>5 DEF OpeningStore, ErasingRow, ErasingStray, CountingStray
    <3>7. OpensRight /\ ForWhom /\ NotesIt
      BY <2>1, <2>2, <3>3, <3>4, <3>5, <3>6 DEF OpensRight, ForWhom, NotesIt
    <3>8. OpFits'
      BY <2>1, <3>3, <3>5, <3>6 DEF OpFits
    <3>9. OnItsRow' /\ EraseSoFar' /\ NothingSkipped'
      <4>1. NoActive' = NoActive
        BY DEF NoActive
      <4> QED
        BY <3>1, <3>2, <3>3, <3>5, <3>6, <4>1 DEF OnItsRow, EraseSoFar, NothingSkipped
    <3>10. OpWork
      BY <1>o, <2>1, <3>1, <3>3
    <3> QED
      BY <3>7, <3>8, <3>9, <3>10, OpWorkKeeps
  <2> QED
    BY <2>3, <2>4
<1>2. ASSUME OpenUser PROVE Inv'
  <2>1. /\ op.at = "user" /\ op.kind = "open"
        /\ UNCHANGED <<rows, slot, disk, dirs, locked, session, on, forgotten, leaving, news, active,
                         gone, late, stray, hushed, lost, losses, owed>>
    BY <1>2, <1>e DEF OpenUser, At, OpStep, diskVars, processVars, lossVars, UserStages
  <2>2. CASE rows[op.u].doomed
    <3>1. op' = Erasing(op, rows[op.u].id, "erased")
      BY <1>2, <2>2 DEF OpenUser
    <3>2. PICK id : id = rows[op.u].id
      OBVIOUS
    <3>3. id \in Ids /\ id \in Doomed /\ "erased" \in Backs
      BY <1>a, <1>b, <1>k, <2>1, <2>2, <3>2 DEF Parts, OneStoreEach, Doomed, Backs
    <3>4. /\ op' \in Operation /\ op'.s = CacheOf(id) /\ op'.at = "destroy" /\ op'.back = "erased"
          /\ op'.kind = op.kind /\ op'.u = op.u /\ op'.id = id /\ op'.todo = op.todo
          /\ ~op'.lives /\ ~op'.err /\ op'.refused = op.refused
      BY <1>b, <3>1, <3>2, <3>3, ErasingIs
    <3>5. OnItsRow' /\ NothingSkipped'
      <4>1. NoActive' = NoActive
        BY DEF NoActive
      <4> QED
        BY <1>k, <2>1, <3>2, <3>4, <4>1 DEF OnItsRow, NothingSkipped, OpeningStore, OpenStages
    <3> QED
      BY <1>b, <1>n, <1>o, <2>1, <3>3, <3>4, <3>5, EraseBegins
  <2>3. CASE ~rows[op.u].doomed
    <3>1. op' = [op EXCEPT !.at = "row"]
      BY <1>2, <2>3 DEF OpenUser
    <3>2. op' \in Operation /\ op'.kind = op.kind /\ op'.at = "row" /\ op'.u = op.u
          /\ op'.lives = op.lives /\ op'.err = op.err /\ op'.refused = op.refused
      BY <1>b, <3>1 DEF Operation, UserStages
    <3> QED
      BY <1>b, <1>d, <1>n, <1>o, <2>1, <2>3, <3>2, UserGoesOn DEF UserStages
  <2> QED
    BY <2>2, <2>3
<1>3. ASSUME CacheOpened PROVE Inv'
  <2>1. /\ op.at = "cache" /\ op.kind = "open" /\ on
        /\ UNCHANGED <<rows, slot, disk, dirs, locked, session, on, forgotten, leaving, news, active,
                         gone, late, stray, hushed, lost, losses, owed>>
    BY <1>3, <1>e DEF CacheOpened, At, OpStep, diskVars, processVars, lossVars, UserStages
  <2>2. op.id # 0 /\ op.id \in Ids /\ rows[op.u] = [id |-> op.id, doomed |-> FALSE]
    BY <1>a, <1>b, <2>1 DEF Parts, OnItsRow, Operation
  <2>3. CASE op.out = "io"
    <3>1. op' = [op EXCEPT !.at = "failed"]
      BY <1>3, <2>3 DEF CacheOpened
    <3>2. op' \in Operation /\ op'.kind = op.kind /\ op'.at = "failed" /\ op'.u = op.u
          /\ op'.lives = op.lives /\ op'.err = op.err /\ op'.refused = op.refused
      BY <1>b, <3>1 DEF Operation, UserStages
    <3> QED
      BY <1>b, <1>d, <1>n, <1>o, <2>1, <3>2, UserGoesOn DEF UserStages
  <2>4. CASE op.out # "io"
    <3>1. PICK o : o = [op EXCEPT !.cache = op.out]
      OBVIOUS
    <3>2. op' = Opening(o, OutboxOf(op.id), "outbox")
      BY <1>3, <2>4, <3>1 DEF CacheOpened
    <3>3. /\ o \in Operation /\ o.kind = op.kind /\ o.u = op.u /\ o.id = op.id
          /\ o.lives = op.lives /\ o.err = op.err /\ o.refused = op.refused
      BY <1>b, <3>1 DEF Operation
    <3>4. "outbox" \in Backs /\ OutboxOf(op.id) \in Stores /\ OutboxOf(op.id)[1] = op.id
      BY <2>2, StoreNames DEF Backs
    <3>5. /\ op' \in Operation /\ op'.s = OutboxOf(op.id) /\ op'.at = "key" /\ op'.back = "outbox"
          /\ op'.kind = op.kind /\ op'.u = op.u /\ op'.id = op.id
          /\ op'.lives = op.lives /\ op'.err = op.err /\ op'.refused = op.refused
      BY <3>2, <3>3, <3>4, OpeningIs
    <3>6. OpensIts'
      BY <2>1, <3>5 DEF OpensIts, OutboxOf
    <3>7. op'.s[1] \in Named \cup stray /\ \A u \in Away : op'.s[1] # rows[u].id
      BY <2>1, <2>2, <3>4, <3>5, NotAway
    <3>8. OnItsRow' /\ NothingSkipped'
      <4>1. NoActive' = NoActive
        BY DEF NoActive
      <4> QED
        BY <1>k, <2>1, <2>2, <3>5, <4>1 DEF OnItsRow, NothingSkipped, ErasingRow, EraseStages
    <3> QED
      BY <1>b, <1>d, <1>n, <1>o, <2>1, <3>5, <3>6, <3>7, <3>8, OpenBegins
  <2> QED
    BY <2>3, <2>4
<1>4. ASSUME OutboxOpened PROVE Inv'
  <2> DEFINE a == CASE op.out = "io" -> "failed" [] op.out = "rebuild" -> "rebuild" [] OTHER -> "opened"
  <2>1. /\ op.at = "outbox" /\ op.kind = "open" /\ on /\ Goto(a)
        /\ UNCHANGED <<rows, slot, disk, dirs, locked, session, on, forgotten, leaving, news, active,
                         gone, late, stray, hushed, losses, owed>>
        /\ lost' = (lost \/ op.out = "keymissing" \/ (op.out = "rebuild" /\ disk[op.s].unsent))
    BY <1>4, <1>e DEF OutboxOpened, At, OpStep, diskVars, processVars, lossVars, UserStages
  <2>2. a \in {"failed", "rebuild", "opened"} /\ (a = "rebuild" => op.out = "rebuild")
    OBVIOUS
  <2> HIDE DEF a
  <2>3. /\ op.id # 0 /\ rows[op.u] = [id |-> op.id, doomed |-> FALSE] /\ op.s = OutboxOf(op.id)
        /\ op.out \in {"ready", "format", "keymissing"} => disk[op.s].db # 0
    BY <1>a, <2>1 DEF Parts, OnItsRow, LossesNoted
  <2>4. /\ op' \in Operation /\ op'.at = a /\ op'.kind = op.kind /\ op'.u = op.u /\ op'.id = op.id
        /\ op'.s = op.s /\ op'.out = op.out
        /\ op'.lives = op.lives /\ op'.err = op.err /\ op'.refused = op.refused
    <3>1. a \in Stages
      BY <2>2 DEF Stages, UserStages
    <3> QED
      BY <1>b, <2>1, <3>1, GotoIs
  <2>5. OpWork
    <3>1. lost' \in BOOLEAN /\ (lost => lost')
      BY <2>1, Zenon
    <3> QED
      BY <1>b, <2>1, <2>4, <3>1 DEF OpWork
  <2>6. /\ Noting => lost'
        /\ op'.at = "rebuild" /\ disk[op'.s].unsent => lost'
    BY <2>1, <2>2, <2>4 DEF Noting
  <2>7. op'.at \in UserStages /\ op'.at # "row"
    BY <2>2, <2>4 DEF UserStages
  <2> QED
    BY <1>d, <2>1, <2>2, <2>3, <2>4, <2>5, <2>6, <2>7, UserGoesOn
<1> QED
  BY <1>1, <1>2, <1>3, <1>4 DEF OpeningForUser

\* A fresh id is in no row.
LEMMA FreshIdIs ==
  ASSUME FreshIds # {}
  PROVE  /\ (CHOOSE id \in FreshIds : TRUE) \in Ids
         /\ (CHOOSE id \in FreshIds : TRUE) \notin Named
<1>1. (CHOOSE id \in FreshIds : TRUE) \in FreshIds
  OBVIOUS
<1> QED
  BY <1>1 DEF FreshIds

\* A user new to the device gets a row.
LEMMA StoreIdKeeps ==
  ASSUME Inv, StoreId
  PROVE  Inv'
<1>a. Parts
  BY InvIsParts
<1>b. /\ op \in Operation /\ rows \in [Users -> [id: {0} \cup Ids, doomed: BOOLEAN]]
  BY <1>a DEF Parts, TypeOK
<1>c. /\ op.at = "row"
      /\ UNCHANGED <<slot, disk, dirs, locked, session, on, news, active, forgotten, leaving, gone, late,
                     stray, hushed, lost, losses, owed>>
      /\ Written' = Written /\ Held' = Held /\ Away' = Away
  BY DEF StoreId, At, processVars, lossVars, Written, Held, Away
<1>d. op.kind = "open" /\ on /\ op.u \in Users /\ active = NoActive /\ ~rows[op.u].doomed
  BY <1>a, <1>c DEF Parts, OpFits, UserStages, OnItsRow
<1>1. /\ rows' \in [Users -> [id: {0} \cup Ids, doomed: BOOLEAN]]
      /\ \A u \in Users \ {op.u} : rows'[u] = rows[u]
      /\ rows'[op.u].id \in Ids /\ rows'[op.u].id # 0 /\ ~rows'[op.u].doomed
      /\ rows'[op.u].id = rows[op.u].id \/ (rows[op.u].id = 0 /\ rows'[op.u].id \notin Named)
  <2>1. CASE rows[op.u].id # 0 /\ UNCHANGED rows
    BY <1>b, <1>d, <2>1
  <2>2. CASE rows[op.u].id = 0 /\ FreshIds # {} /\ rows' = [rows EXCEPT ![op.u].id = CHOOSE id \in FreshIds : TRUE]
    <3>1. PICK id : id = CHOOSE i \in FreshIds : TRUE
      OBVIOUS
    <3>2. id \in Ids /\ id \notin Named /\ id # 0
      BY <2>2, <3>1, FreshIdIs, StoreNames
    <3>3. rows' = [rows EXCEPT ![op.u].id = id]
      BY <2>2, <3>1
    <3>4. /\ rows' \in [Users -> [id: {0} \cup Ids, doomed: BOOLEAN]]
          /\ \A u \in Users \ {op.u} : rows'[u] = rows[u]
          /\ rows'[op.u].id = id /\ rows'[op.u].doomed = rows[op.u].doomed
      BY <1>b, <1>d, <3>2, <3>3
    <3> QED
      BY <1>d, <2>2, <3>2, <3>4
  <2> QED
    BY <2>1, <2>2 DEF StoreId
<1>2. PICK id : id = rows'[op.u].id
  OBVIOUS
<1>3. id \in Ids /\ id # 0 /\ rows'[op.u] = [id |-> id, doomed |-> FALSE]
  BY <1>1, <1>2, <1>d
<1>4. /\ op' \in Operation /\ op'.s = CacheOf(id) /\ op'.at = "key" /\ op'.back = "cache"
      /\ op'.kind = op.kind /\ op'.u = op.u /\ op'.id = id
      /\ op'.lives = op.lives /\ op'.err = op.err /\ op'.refused = op.refused
  <2>1. PICK o : o = [op EXCEPT !.id = id]
    OBVIOUS
  <2>2. op' = Opening(o, CacheOf(id), "cache")
    BY <1>2, <2>1 DEF StoreId
  <2>3. /\ o \in Operation /\ o.kind = op.kind /\ o.u = op.u /\ o.id = id
        /\ o.lives = op.lives /\ o.err = op.err /\ o.refused = op.refused
    BY <1>b, <1>3, <2>1 DEF Operation
  <2>4. "cache" \in Backs /\ CacheOf(id) \in Stores
    BY <1>3, StoreNames DEF Backs
  <2> QED
    BY <2>2, <2>3, <2>4, OpeningIs
<1>5. op'.s # Index /\ op'.s[1] = id
  BY <1>3, <1>4, StoreNames
<1>6. /\ op'.at \in OpenStages /\ op'.at \notin EraseStages /\ op'.at \notin EnableStages
      /\ op'.at \notin UserStages
  BY <1>4 DEF OpenStages, EraseStages, EnableStages, UserStages
<1>7. OpeningStore' /\ ~(ErasingRow') /\ ~(ErasingStray') /\ ~(CountingStray') /\ ~(Noting') /\ ~Noting
  BY <1>c, <1>4, <1>6 DEF OpeningStore, ErasingRow, ErasingStray, CountingStray, Noting
<1>8. /\ Named' \subseteq Named \cup {id} /\ Named \subseteq Named' /\ id \in Named'
  BY <1>1, <1>2, <1>3, <1>d DEF Named
<1>9. op.u \notin Away /\ Away \subseteq Users
  BY <1>a, <1>d DEF Parts, StaysAway, TypeOK, Away, Anyone
<1>10. TypeOK'
  BY <1>a, <1>c, <1>1, <1>4 DEF Parts, TypeOK
<1>11. OpenIsNamed' /\ KeysBeforeRow'
  BY <1>a, <1>c, <1>d, <1>8 DEF Parts, OpenIsNamed, KeysBeforeRow, NoActive
<1>12. OpFits'
  <2>1. OpensIts'
    BY <1>d, <1>4 DEF OpensIts, CacheOf
  <2> QED
    BY <1>a, <1>c, <1>d, <1>4, <1>6, <1>7, <2>1 DEF Parts, OpFits
<1>13. OneStoreEach'
  <2>1. ASSUME NEW u \in Users, NEW w \in Users, rows'[u].id = rows'[w].id, rows'[u].id # 0 PROVE u = w
    <3>1. \A v \in Users : rows[v].id # 0 => rows[v].id \in Named
      BY DEF Named
    <3> QED
      BY <1>a, <1>1, <2>1, <3>1 DEF Parts, OneStoreEach
  <2>2. \A u \in Users : rows'[u].doomed => rows'[u].id # 0
    BY <1>a, <1>1 DEF Parts, OneStoreEach
  <2> QED
    BY <2>1, <2>2 DEF OneStoreEach
<1>14. OnItsRow'
  <2>1. NoActive' = NoActive
    BY DEF NoActive
  <2> QED
    BY <1>c, <1>d, <1>3, <1>4, <1>7, <2>1 DEF OnItsRow
<1>15. EraseSoFar' /\ NothingSkipped'
  BY <1>d, <1>4, <1>6 DEF EraseSoFar, NothingSkipped
<1>16. DirsNamed'
  BY <1>a, <1>c, <1>4, <1>5, <1>8 DEF Parts, DirsNamed
<1>17. StaysAway'
  <2>1. ASSUME NEW u \in Away PROVE rows'[u] = rows[u] /\ id # rows[u].id
    <3>1. u \in Users \ {op.u}
      BY <1>9
    <3>2. rows[u].id = 0 \/ rows[u].id \in Named
      BY <3>1 DEF Named
    <3>3. CASE id = rows[op.u].id
      BY <1>a, <1>1, <1>3, <1>d, <3>1, <3>3 DEF Parts, OneStoreEach
    <3>4. CASE id \notin Named
      BY <1>1, <1>3, <3>1, <3>2, <3>4
    <3> QED
      BY <1>1, <1>2, <3>1, <3>3, <3>4
  <2>2. \A u \in Away' :
          /\ \A s \in Written' : s[1] # rows'[u].id
          /\ ~(op'.kind = "open" /\ op'.u = u)
          /\ OpeningStore' /\ op'.s # Index => op'.s[1] # rows'[u].id
          /\ session'.u = u => ~on' \/ (forgotten'.u = u /\ session'.epoch <= forgotten'.epoch)
    BY <1>a, <1>c, <1>4, <1>5, <2>1 DEF Parts, StaysAway
  <2> QED
    BY <1>a, <1>c, <1>d, <1>4, <2>2 DEF Parts, StaysAway
<1>18. LossesNoted'
  BY <1>a, <1>c, <1>d, <1>4, <1>7 DEF Parts, LossesNoted
<1> QED
  BY <1>10, <1>11, <1>12, <1>13, <1>14, <1>15, <1>16, <1>17, <1>18 DEF Inv, LocalInv

\* An outbox of another format goes, its loss noted.
LEMMA RebuildKeeps ==
  ASSUME Inv, Rebuild
  PROVE  Inv'
<1>a. Parts
  BY InvIsParts
<1>b. /\ op \in Operation /\ op.s \in Stores /\ disk \in [Stores -> File] /\ owed \in Owed
  BY <1>a DEF Parts, TypeOK, Operation
<1>c. /\ op.at = "rebuild" /\ Remove(op.s) /\ op' = Opening(op, op.s, "outbox")
      /\ UNCHANGED <<rows, slot, dirs, locked, session, on, news, active, forgotten, leaving, gone, late,
                     stray, hushed, lost, losses>>
      /\ Named' = Named /\ Away' = Away
  BY DEF Rebuild, At, processVars, Named, Away
<1>d. /\ op.kind = "open" /\ on /\ op.u \in Users /\ active = NoActive /\ active.u = Nobody
      /\ op.id # 0 /\ rows[op.u] = [id |-> op.id, doomed |-> FALSE] /\ op.s = OutboxOf(op.id)
  BY <1>a, <1>c DEF Parts, OpFits, UserStages, OnItsRow, NoActive
<1>e. op.id \in Ids /\ op.s # Index /\ op.s[1] = op.id /\ op.s[2] = "outbox"
  <2>1. op.id \in Ids
    BY <1>b, <1>d DEF Operation
  <2> QED
    BY <1>d, <2>1, StoreNames
<1>1. /\ disk' \in [Stores -> File] /\ disk'[op.s] = NoStore /\ \A t \in Stores \ {op.s} : disk'[t] = disk[t]
      /\ disk'[op.s].db = 0 /\ ~disk'[op.s].unsent
      /\ owed' \in Owed /\ owed'.recorded = owed.recorded /\ owed'.read = owed.read /\ owed'.of = owed.of
      /\ owed'.settled = owed.settled
      /\ owed'.all # owed.all => disk[op.s].unsent /\ op.s[1] \notin Doomed
  BY <1>b, <1>c, RemoveIs
<1>2. /\ op' \in Operation /\ op'.s = op.s /\ op'.at = "key" /\ op'.back = "outbox"
      /\ op'.kind = op.kind /\ op'.u = op.u /\ op'.id = op.id
      /\ op'.lives = op.lives /\ op'.err = op.err /\ op'.refused = op.refused
  <2>1. "outbox" \in Backs
    BY DEF Backs
  <2> QED
    BY <1>b, <1>c, <2>1, OpeningIs
<1>3. Written' \subseteq Written /\ Held' \subseteq Held
  BY <1>b, <1>c, <1>1 DEF Written, Held
<1>6. /\ op'.at \in OpenStages /\ op'.at \notin EraseStages /\ op'.at \notin EnableStages
      /\ op'.at \notin UserStages
  BY <1>2 DEF OpenStages, EraseStages, EnableStages, UserStages
<1>7. OpeningStore' /\ ~(ErasingRow') /\ ~(ErasingStray') /\ ~(CountingStray') /\ ~(Noting') /\ ~Noting
  BY <1>c, <1>2, <1>6 DEF OpeningStore, ErasingRow, ErasingStray, CountingStray, Noting
<1>8. op.id \in Named /\ \A u \in Away : op.id # rows[u].id
  BY <1>d, <1>e, NotAway
<1>9. TypeOK' /\ OpenIsNamed' /\ OneStoreEach'
  BY <1>a, <1>c, <1>1, <1>2 DEF Parts, TypeOK, OpenIsNamed, OneStoreEach
<1>10. KeysBeforeRow'
  BY <1>a, <1>c, <1>3 DEF Parts, KeysBeforeRow
<1>11. OpFits'
  <2>1. OpensIts'
    BY <1>d, <1>2 DEF OpensIts, OutboxOf
  <2> QED
    BY <1>a, <1>c, <1>d, <1>2, <1>6, <1>7, <2>1 DEF Parts, OpFits
<1>12. OnItsRow'
  <2>1. NoActive' = NoActive
    BY DEF NoActive
  <2> QED
    BY <1>c, <1>d, <1>2, <1>7, <2>1 DEF OnItsRow
<1>13. EraseSoFar' /\ NothingSkipped'
  BY <1>d, <1>2, <1>6 DEF EraseSoFar, NothingSkipped
<1>14. DirsNamed'
  <2>1. \A s \in Written' : s[1] \in dirs'
    BY <1>a, <1>c, <1>3 DEF Parts, DirsNamed
  <2> QED
    BY <1>a, <1>c, <1>e, <1>2, <1>8, <2>1 DEF Parts, DirsNamed
<1>15. StaysAway'
  <2>2. \A u \in Away' :
          /\ \A s \in Written' : s[1] # rows'[u].id
          /\ ~(op'.kind = "open" /\ op'.u = u)
          /\ OpeningStore' /\ op'.s # Index => op'.s[1] # rows'[u].id
          /\ session'.u = u => ~on' \/ (forgotten'.u = u /\ session'.epoch <= forgotten'.epoch)
    BY <1>a, <1>c, <1>e, <1>2, <1>3, <1>8 DEF Parts, StaysAway
  <2> QED
    BY <1>a, <1>c, <1>d, <1>2, <2>2 DEF Parts, StaysAway
<1>16. LossesNoted'
  <2>1. \A s \in Stores : disk'[s].unsent => s[2] = "outbox" /\ disk'[s].db # 0
    BY <1>a, <1>1 DEF Parts, LossesNoted
  <2>2. op'.at \notin {"rebuild", "outbox", "opened", "check"} /\ op'.kind # "list"
    BY <1>d, <1>2
  <2>3. owed'.all # owed.all => lost
    BY <1>a, <1>c, <1>1 DEF Parts, LossesNoted
  <2>4. owed'.read <= losses.newest
    BY <1>a, <1>1 DEF Parts, LossesNoted
  <2>5. ~hushed =>
          /\ owed'.all > owed'.recorded => lost
          /\ owed'.recorded > owed'.settled => losses.unacked
          /\ owed'.read > 0 /\ owed'.read = losses.newest => owed'.of >= owed'.recorded
    BY <1>a, <1>1, <1>7, <2>3 DEF Parts, LossesNoted
  <2> QED
    BY <1>c, <1>d, <1>7, <2>1, <2>2, <2>4, <2>5 DEF LossesNoted
<1> QED
  BY <1>9, <1>10, <1>11, <1>12, <1>13, <1>14, <1>15, <1>16 DEF Inv, LocalInv

-----------------------------------------------------------------------------
(* Sign-out and forget, other users' data. *)

\* A step of a user's, or of an operation: neither index, keys nor files.
LEMMA SessionKeeps ==
  ASSUME Inv, op' \in Operation, session' \in [u: Anyone, epoch: Nat], forgotten' \in [u: Anyone, epoch: Nat],
         leaving' \in [at: {"rest", "erase", "logout"}, u: Anyone, ok: BOOLEAN],
         gone' \subseteq Users, late' \subseteq Anyone, on' \in BOOLEAN, news' \in BOOLEAN,
         active' \in {active, NoActive}, active'.u # Nobody => on',
         UNCHANGED <<rows, slot, disk, dirs, locked, lost, losses, owed, stray, hushed>>,
         op'.at \in OpenStages => op' = op,
         ErasingStray' \/ op'.at \in {"rebuild", "outbox", "opened"} => op' = op,
         Noting => op' = op,
         op'.kind = "list" => active' = active,
         StaysAway', OpFits', OnItsRow', EraseSoFar', NothingSkipped'
  PROVE  Inv'
<1>a. Parts
  BY InvIsParts
<1>b. /\ UNCHANGED <<rows, slot, disk, dirs, locked, lost, losses, owed, stray, hushed>>
      /\ Named' = Named /\ Written' = Written /\ Held' = Held
  BY DEF Named, Written, Held
<1>1. NoActive \in [u: Anyone, id: {0} \cup Ids] /\ NoActive.u = Nobody
  BY DEF NoActive, Anyone
<1>2. TypeOK'
  <2>1. active' \in [u: Anyone, id: {0} \cup Ids]
    BY <1>a, <1>1 DEF Parts, TypeOK
  <2> QED
    BY <1>a, <1>b, <2>1 DEF Parts, TypeOK
<1>3. OpenIsNamed' /\ KeysBeforeRow' /\ OneStoreEach'
  BY <1>a, <1>b, <1>1 DEF Parts, OpenIsNamed, KeysBeforeRow, OneStoreEach
<1>4. DirsNamed'
  <2>1. OpeningStore' => op' = op /\ OpeningStore
    BY DEF OpeningStore
  <2> QED
    BY <1>a, <1>b, <2>1 DEF Parts, DirsNamed
<1>5. LossesNoted'
  <2>1. OpeningStore' => op' = op /\ OpeningStore
    BY DEF OpeningStore
  <2>2. /\ ErasingStray' => op' = op /\ ErasingStray
        /\ Noting => Noting'
    BY DEF ErasingStray, Noting
  <2>3. op'.at = "check" => op' = op
    BY DEF OpenStages
  <2>4. active'.u # Nobody => active'.id \in Ids /\ disk'[OutboxOf(active'.id)].db # 0
    BY <1>a, <1>b, <1>1 DEF Parts, LossesNoted
  <2>5. /\ op'.at = "rebuild" /\ disk'[op'.s].unsent => lost'
        /\ op'.at \in {"outbox", "opened"} /\ op'.out \in {"ready", "format", "keymissing"} => disk'[op'.s].db # 0
        /\ op'.at = "check" => disk'[op'.s].db # 0
        /\ ErasingStray' /\ disk'[OutboxOf(op'.id)].unsent => lost'
    BY <1>a, <1>b, <2>2, <2>3 DEF Parts, LossesNoted
  <2>6. op'.kind = "list" /\ OpeningStore' => op'.s # OutboxOf(active'.id)
    BY <1>a, <2>1 DEF Parts, LossesNoted
  <2>7. ~hushed' =>
          /\ owed'.all > owed'.recorded => lost' \/ Noting'
          /\ owed'.recorded > owed'.settled => losses'.unacked
          /\ owed'.read > 0 /\ owed'.read = losses'.newest => owed'.of >= owed'.recorded
    BY <1>a, <1>b, <2>2 DEF Parts, LossesNoted
  <2>8. /\ owed'.read <= losses'.newest
        /\ \A s \in Stores : disk'[s].unsent => s[2] = "outbox" /\ disk'[s].db # 0
    BY <1>a, <1>b DEF Parts, LossesNoted
  <2> QED
    BY <2>4, <2>5, <2>6, <2>7, <2>8 DEF LossesNoted
<1> QED
  BY <1>2, <1>3, <1>4, <1>5 DEF Inv, LocalInv

\* The operation goes on as it was.
LEMMA SameOpKeeps ==
  ASSUME Inv, UNCHANGED op, UNCHANGED <<rows, slot, disk, dirs, locked, lost, losses, owed, stray, hushed>>,
         session' \in [u: Anyone, epoch: Nat], forgotten' \in [u: Anyone, epoch: Nat],
         leaving' \in [at: {"rest", "erase", "logout"}, u: Anyone, ok: BOOLEAN],
         gone' \subseteq Users, late' \subseteq Anyone, on' \in BOOLEAN, news' \in BOOLEAN,
         active' \in {active, NoActive}, active'.u # Nobody => on',
         op.kind # "none" => UNCHANGED <<active, on>>,
         StaysAway'
  PROVE  Inv'
<1>a. Parts
  BY InvIsParts
<1>b. op' = op /\ op \in Operation /\ rows' = rows /\ stray' = stray /\ disk' = disk /\ slot' = slot /\ dirs' = dirs
  BY <1>a DEF Parts, TypeOK
<1>c. /\ NoOp' = NoOp /\ NoActive' = NoActive /\ Named' = Named /\ Doomed' = Doomed
      /\ (ErasingRow' <=> ErasingRow) /\ (ErasingStray' <=> ErasingStray)
      /\ (OpeningStore' <=> OpeningStore) /\ (CountingStray' <=> CountingStray)
      /\ (Erased' <=> Erased) /\ (OpensIts' <=> OpensIts)
  BY <1>b DEF NoOp, Index, NoActive, Named, Doomed, ErasingRow, ErasingStray, OpeningStore, CountingStray, Erased,
     OpensIts, CacheOf, OutboxOf
<1>1. OpFits'
  <2>1. op.kind # "none" => on' = on
    OBVIOUS
  <2> QED
    BY <1>a, <1>b, <1>c, <2>1 DEF Parts, OpFits
<1>2. OnItsRow'
  BY <1>a, <1>b, <1>c DEF Parts, OnItsRow
<1>3. EraseSoFar' /\ NothingSkipped'
  BY <1>a, <1>b, <1>c DEF Parts, EraseSoFar, NothingSkipped
<1>4. op.kind = "list" => active' = active
  OBVIOUS
<1> QED
  BY <1>b, <1>1, <1>2, <1>3, <1>4, SessionKeeps

\* sign_out_and_forget begins,
LEMMA ForgetKeeps ==
  ASSUME Inv, Forget
  PROVE  Inv'
<1>a. Parts
  BY InvIsParts
<1>b. /\ leaving.at = "rest" /\ session.u # Nobody
      /\ UNCHANGED <<rows, slot, disk, dirs, locked, session, on, news, gone, late, lost, losses, owed, stray, hushed>>
      /\ Written' = Written
  BY DEF Forget, diskVars, lossVars, Written
<1>c. /\ session \in [u: Anyone, epoch: Nat] /\ forgotten \in [u: Anyone, epoch: Nat] /\ gone \subseteq Users
      /\ late \subseteq Anyone /\ on \in BOOLEAN /\ news \in BOOLEAN /\ session.u \in Users /\ op \in Operation
      /\ active \in [u: Anyone, id: {0} \cup Ids] /\ dirs \subseteq Ids
  BY <1>a, <1>b DEF Parts, TypeOK, Anyone
<1>d. Away = gone \ late
  BY <1>b DEF Away
<1>1. CASE on
  <2>1. /\ op.kind = "none" /\ forgotten' = session
        /\ active' = IF active.u \in {session.u} THEN NoActive ELSE active
        /\ op' = [NoOp EXCEPT !.kind = "forget", !.at = "doom", !.u = session.u]
        /\ leaving' = [NoLeave EXCEPT !.at = "erase", !.u = session.u]
    BY <1>1 DEF Forget, Idle, CloseOf
  <2>2. op.at = "rest" /\ ~Noting
    BY <1>a, <2>1 DEF Parts, OpFits, Noting
  <2>3. /\ op' \in Operation /\ op'.kind = "forget" /\ op'.at = "doom" /\ op'.u = session.u /\ op'.back = ""
        /\ ~op'.err /\ ~op'.lives
    BY <1>c, <2>1, NoOpIs DEF Operation, Anyone
  <2>4. /\ leaving' \in [at: {"rest", "erase", "logout"}, u: Anyone, ok: BOOLEAN]
        /\ leaving'.at = "erase" /\ leaving'.u = session.u
    BY <1>c, <2>1 DEF NoLeave
  <2>5. /\ op'.at \notin OpenStages /\ op'.at \notin EraseStages /\ op'.at \notin EnableStages
        /\ op'.at \notin UserStages
    BY <2>3 DEF OpenStages, EraseStages, EnableStages, UserStages
  <2>6. ~(OpeningStore') /\ ~(ErasingRow') /\ ~(ErasingStray') /\ ~(CountingStray')
    BY <2>3, <2>5 DEF OpeningStore, ErasingRow, ErasingStray, CountingStray
  <2>7. active' \in {active, NoActive} /\ active'.u # session.u /\ (active'.u # Nobody => on)
    BY <1>1, <1>b, <2>1 DEF NoActive
  <2>8. OpFits' /\ OnItsRow' /\ EraseSoFar' /\ NothingSkipped'
    BY <1>1, <1>b, <1>c, <2>3, <2>5, <2>6, <2>7 DEF OpFits, OnItsRow, EraseSoFar, NothingSkipped
  <2>9. StaysAway'
    <3>1. Away' = Away
      BY <1>b, <1>d, <2>4 DEF Away
    <3>2. \A u \in Away' :
          /\ \A s \in Written' : s[1] # rows'[u].id
          /\ ~(op'.kind = "open" /\ op'.u = u)
          /\ OpeningStore' /\ op'.s # Index => op'.s[1] # rows'[u].id
          /\ session'.u = u => ~on' \/ (forgotten'.u = u /\ session'.epoch <= forgotten'.epoch)
      BY <1>a, <1>b, <1>d, <2>3, <2>6, <3>1 DEF Parts, StaysAway
    <3>3. forgotten'.u = op'.u /\ session'.epoch <= forgotten'.epoch
      <4>1. forgotten' = session /\ session' = session
        BY <1>b, <2>1
      <4>2. session.epoch \in Nat
        BY <1>c
      <4>3. op'.u = session.u
        BY <2>3
      <4>4. forgotten'.u = op'.u
        BY <4>1, <4>3
      <4>5. session'.epoch = session.epoch /\ forgotten'.epoch = session.epoch
        BY <4>1
      <4> QED
        BY <4>2, <4>4, <4>5
    <3> QED
      BY <1>a, <1>b, <2>3, <2>4, <3>2, <3>3 DEF Parts, StaysAway
  <2> QED
    BY <1>1, <1>b, <1>c, <2>1, <2>2, <2>3, <2>4, <2>5, <2>6, <2>7, <2>8, <2>9, SessionKeeps
<1>2. CASE ~on
  <2>1. /\ leaving' = [at |-> "logout", u |-> session.u, ok |-> dirs = {}]
        /\ UNCHANGED <<forgotten, active, op>>
    BY <1>2 DEF Forget, StoresOnDisk
  <2>2. leaving' \in [at: {"rest", "erase", "logout"}, u: Anyone, ok: BOOLEAN]
    BY <1>c, <2>1
  <2>3. active.u = Nobody
    BY <1>2, <1>a DEF Parts, OpenIsNamed
  <2>4. op.kind \in {"none", "enable"}
    BY <1>2, <1>a, <1>c DEF Parts, OpFits, Operation
  <2>5. op.kind = "none" => ~OpeningStore
    BY <1>a DEF Parts, OpFits, OpeningStore, OpenStages
  <2>6. StaysAway'
    <3>1. ASSUME NEW u \in Away'
          PROVE  /\ \A s \in Written' : s[1] # rows'[u].id
                 /\ ~(op'.kind = "open" /\ op'.u = u)
                 /\ OpeningStore' /\ op'.s # Index => op'.s[1] # rows'[u].id
                 /\ session'.u = u => ~on' \/ (forgotten'.u = u /\ session'.epoch <= forgotten'.epoch)
      <4>1. u \in Away \/ (u = session.u /\ dirs = {})
        BY <1>b, <1>d, <2>1, <3>1 DEF Away
      <4>2. CASE u \in Away
        <5>1. OpeningStore' <=> OpeningStore
          BY <2>1 DEF OpeningStore
        <5> QED
          BY <1>a, <1>2, <1>b, <2>1, <2>4, <4>2, <5>1 DEF Parts, StaysAway
      <4>3. CASE u = session.u /\ dirs = {}
        <5>1. Written = {}
          BY <1>a, <4>3 DEF Parts, DirsNamed
        <5>2. OpeningStore /\ op.s # Index => op.s[1] # rows[u].id
          <6> SUFFICES ASSUME OpeningStore, op.s # Index PROVE op.s[1] # rows[u].id
            OBVIOUS
          <6>1. op.kind = "enable" /\ op.back = "count" /\ op.id \in Ids /\ op.s = OutboxOf(op.id)
            BY <1>a, <2>4, <2>5 DEF Parts, OpFits, OpensIts
          <6>2. op.id \in stray \ Named
            BY <1>a, <6>1 DEF Parts, OnItsRow, CountingStray
          <6> QED
            BY <1>c, <4>3, <6>1, <6>2, StoreNames DEF Named
        <5>3. OpeningStore' <=> OpeningStore
          BY <2>1 DEF OpeningStore
        <5> QED
          BY <1>2, <1>b, <2>1, <2>4, <5>1, <5>2, <5>3
      <4> QED
        BY <4>1, <4>2, <4>3
    <3>2. leaving'.at = "logout" /\ op'.kind # "forget"
      BY <2>1, <2>4
    <3> QED
      BY <1>a, <1>b, <3>1, <3>2 DEF Parts, StaysAway
  <2> QED
    BY <1>b, <1>c, <2>1, <2>2, <2>3, <2>6, SameOpKeeps
<1> QED
  BY <1>1, <1>2, <1>c

\* a wipe dooms its row first,
LEMMA DoomKeeps ==
  ASSUME Inv, Doom
  PROVE  Inv'
<1>a. Parts
  BY InvIsParts
<1>b. /\ op.at = "doom"
      /\ UNCHANGED <<slot, disk, dirs, locked, session, on, news, active, forgotten, leaving, gone, late,
                     stray, hushed, lost, losses, owed>>
      /\ Written' = Written /\ Held' = Held /\ Away' = Away
  BY DEF Doom, At, processVars, lossVars, Written, Held, Away
<1>c. /\ op \in Operation /\ rows \in [Users -> [id: {0} \cup Ids, doomed: BOOLEAN]] /\ op.kind \in {"forget", "wipe"}
      /\ op.u \in Users /\ active.u # op.u /\ on /\ (op.kind = "wipe" => op.todo \subseteq Users)
      /\ active \in [u: Anyone, id: {0} \cup Ids] /\ news \in BOOLEAN /\ lost \in BOOLEAN
  BY <1>a, <1>b DEF Parts, TypeOK, OpFits, OnItsRow
<1>d. ~Noting
  BY <1>b DEF Noting
<1>1. CASE rows[op.u].id = 0
  <2>1. op' = [op EXCEPT !.at = "next", !.err = FALSE, !.lives = FALSE] /\ rows' = rows
    BY <1>1 DEF Doom
  <2>2. /\ op' \in Operation /\ op'.kind = op.kind /\ op'.at = "next" /\ op'.u = op.u /\ op'.back = op.back
        /\ ~op'.err /\ ~op'.lives /\ op'.todo = op.todo
    BY <1>c, <2>1 DEF Operation
  <2>3. /\ op'.at \notin OpenStages /\ op'.at \notin EraseStages /\ op'.at \notin EnableStages
        /\ op'.at \notin UserStages
    BY <2>2 DEF OpenStages, EraseStages, EnableStages, UserStages
  <2>4. ~(OpeningStore') /\ ~(ErasingRow') /\ ~(ErasingStray') /\ ~(CountingStray')
    BY <2>2, <2>3 DEF OpeningStore, ErasingRow, ErasingStray, CountingStray
  <2>5. OpWork /\ OpensRight /\ ForWhom /\ NotesIt
    BY <1>b, <1>c, <1>d, <2>1, <2>2, <2>3, <2>4 DEF OpWork, OpensRight, ForWhom, NotesIt
  <2>6. OpFits' /\ OnItsRow' /\ EraseSoFar' /\ NothingSkipped'
    BY <1>1, <1>b, <1>c, <2>1, <2>2, <2>3, <2>4 DEF OpFits, OnItsRow, EraseSoFar, NothingSkipped
  <2> QED
    BY <2>5, <2>6, OpWorkKeeps
<1>2. CASE rows[op.u].id # 0
  <2>1. rows' = [rows EXCEPT ![op.u].doomed = TRUE] /\ op' = Erasing(op, rows[op.u].id, "erased")
    BY <1>2 DEF Doom
  <2>2. PICK id : id = rows[op.u].id
    OBVIOUS
  <2>3. id \in Ids /\ id # 0 /\ "erased" \in Backs
    BY <1>2, <1>c, <2>2 DEF Backs
  <2>4. /\ op' \in Operation /\ op'.s = CacheOf(id) /\ op'.at = "destroy" /\ op'.back = "erased"
        /\ op'.kind = op.kind /\ op'.u = op.u /\ op'.id = id /\ op'.todo = op.todo
        /\ ~op'.lives /\ ~op'.err /\ op'.refused = op.refused
    BY <1>c, <2>1, <2>2, <2>3, ErasingIs
  <2>5. /\ rows' \in [Users -> [id: {0} \cup Ids, doomed: BOOLEAN]]
        /\ \A u \in Users : rows'[u].id = rows[u].id
        /\ \A u \in Users \ {op.u} : rows'[u] = rows[u]
        /\ rows'[op.u].doomed
    BY <1>c, <2>1
  <2>6. Named' = Named /\ op'.id \in Doomed'
    BY <1>c, <2>2, <2>4, <2>5 DEF Named, Doomed
  <2>7. /\ op'.at \notin OpenStages /\ op'.at \in EraseStages /\ op'.at \notin EnableStages
        /\ op'.at \notin UserStages
    BY <2>4 DEF OpenStages, EraseStages, EnableStages, UserStages
  <2>8. ~(OpeningStore') /\ ErasingRow' /\ ~(ErasingStray') /\ ~(CountingStray') /\ ~(Noting')
    BY <2>4, <2>7 DEF OpeningStore, ErasingRow, ErasingStray, CountingStray, Noting
  <2>9. TypeOK'
    BY <1>a, <1>b, <2>4, <2>5 DEF Parts, TypeOK
  <2>10. OpenIsNamed' /\ KeysBeforeRow' /\ OneStoreEach'
    <3>1. active.u # Nobody => active.u \in Users \ {op.u}
      BY <1>c DEF Anyone
    <3>2. \A u \in Users : rows'[u].doomed => rows'[u].id # 0
      BY <1>2, <1>a, <2>5 DEF Parts, OneStoreEach
    <3>3. \A u, w \in Users : rows'[u].id = rows'[w].id /\ rows'[u].id # 0 => u = w
      BY <1>a, <2>5 DEF Parts, OneStoreEach
    <3>4. OpenIsNamed'
      BY <1>a, <1>b, <2>5, <3>1 DEF Parts, OpenIsNamed
    <3> QED
      BY <1>a, <1>b, <2>6, <3>2, <3>3, <3>4 DEF Parts, OneStoreEach, KeysBeforeRow
  <2>11. OpFits'
    BY <1>b, <1>c, <2>3, <2>4, <2>6, <2>7, <2>8 DEF OpFits
  <2>12. OnItsRow'
    BY <1>b, <1>c, <2>2, <2>4, <2>5, <2>8 DEF OnItsRow
  <2>13. EraseSoFar' /\ NothingSkipped'
    BY <1>c, <2>3, <2>4, StoreNames DEF EraseSoFar, NothingSkipped
  <2>14. DirsNamed'
    BY <1>a, <1>b, <2>6, <2>7, <2>8 DEF Parts, DirsNamed
  <2>15. StaysAway'
    <3>1. Away \subseteq Users
      BY <1>a DEF Parts, TypeOK, Away, Anyone
    <3>2. \A u \in Away' :
          /\ \A s \in Written' : s[1] # rows'[u].id
          /\ ~(op'.kind = "open" /\ op'.u = u)
          /\ OpeningStore' /\ op'.s # Index => op'.s[1] # rows'[u].id
          /\ session'.u = u => ~on' \/ (forgotten'.u = u /\ session'.epoch <= forgotten'.epoch)
      BY <1>a, <1>b, <1>c, <2>4, <2>5, <2>8, <3>1 DEF Parts, StaysAway
    <3> QED
      BY <1>a, <1>b, <2>4, <3>2 DEF Parts, StaysAway
  <2>16. LossesNoted'
    BY <1>a, <1>b, <1>d, <2>4, <2>8 DEF Parts, LossesNoted
  <2> QED
    BY <2>9, <2>10, <2>11, <2>12, <2>13, <2>14, <2>15, <2>16 DEF Inv, LocalInv
<1> QED
  BY <1>1, <1>2

\* the erase is over, whatever became of it,
LEMMA ForgottenKeeps ==
  ASSUME Inv, Forgotten
  PROVE  Inv'
<1>a. Parts
  BY InvIsParts
<1>b. /\ op.kind = "forget" /\ op.at = "next" /\ op' = NoOp
      /\ leaving' = [leaving EXCEPT !.at = "logout", !.ok = Erased]
      /\ UNCHANGED <<rows, slot, disk, dirs, locked, session, on, news, active, forgotten, gone, late,
                     stray, hushed, lost, losses, owed>>
      /\ Written' = Written
  BY DEF Forgotten, At, Done, OpStep, diskVars, lossVars, Written
<1>c. /\ session \in [u: Anyone, epoch: Nat] /\ forgotten \in [u: Anyone, epoch: Nat] /\ gone \subseteq Users
      /\ late \subseteq Anyone /\ on \in BOOLEAN /\ news \in BOOLEAN /\ on
      /\ leaving \in [at: {"rest", "erase", "logout"}, u: Anyone, ok: BOOLEAN]
      /\ op.u \in Users /\ (Erased => rows[op.u].id = 0) /\ ~Noting
  BY <1>a, <1>b DEF Parts, TypeOK, OpFits, OnItsRow, Noting
<1>1. /\ leaving' \in [at: {"rest", "erase", "logout"}, u: Anyone, ok: BOOLEAN]
      /\ leaving'.at = "logout" /\ leaving'.u = leaving.u /\ (leaving'.ok => Erased)
  <2>1. PICK e \in BOOLEAN : e = Erased
    BY DEF Erased
  <2>2. leaving' = [leaving EXCEPT !.at = "logout", !.ok = e]
    BY <1>b, <2>1
  <2> QED
    BY <1>c, <2>1, <2>2
<1>2. /\ op'.kind = "none" /\ op'.at = "rest" /\ op'.back = "" /\ ~op'.err /\ ~op'.lives /\ op' \in Operation
  BY <1>b, NoOpIs
<1>3. /\ op'.at \notin OpenStages /\ op'.at \notin EraseStages /\ op'.at \notin EnableStages
      /\ op'.at \notin UserStages
  BY <1>2 DEF OpenStages, EraseStages, EnableStages, UserStages
<1>4. ~(OpeningStore') /\ ~(ErasingRow') /\ ~(ErasingStray') /\ ~(CountingStray')
  BY <1>2, <1>3 DEF OpeningStore, ErasingRow, ErasingStray, CountingStray
<1>5. OpFits' /\ OnItsRow' /\ EraseSoFar' /\ NothingSkipped'
  <2>1. NoOp' = NoOp
    BY DEF NoOp, Index
  <2>2. OpFits'
    BY <1>b, <1>2, <1>3, <1>4, <2>1 DEF OpFits
  <2> QED
    BY <1>2, <1>3, <2>2 DEF OnItsRow, EraseSoFar, NothingSkipped
<1>6. /\ leaving.at = "erase" /\ leaving.u \in {Nobody, op.u} /\ forgotten.u = op.u
      /\ leaving.u = session.u /\ session.u # Nobody => session.epoch <= forgotten.epoch
  BY <1>a, <1>b DEF Parts, StaysAway
<1>7. StaysAway'
  <2>1. ASSUME NEW u \in Away'
        PROVE  /\ \A s \in Written' : s[1] # rows'[u].id
               /\ session'.u = u => ~on' \/ (forgotten'.u = u /\ session'.epoch <= forgotten'.epoch)
    <3>1. u \in Away \/ (Erased /\ u = leaving.u /\ u # Nobody)
      BY <1>b, <1>1, <2>1 DEF Away
    <3>2. CASE u \in Away
      BY <1>a, <1>b, <3>2 DEF Parts, StaysAway
    <3>3. CASE Erased /\ u = leaving.u /\ u # Nobody
      <4>1. u = op.u /\ rows[u].id = 0
        BY <1>c, <1>6, <3>3
      <4>2. \A s \in Written : s[1] # 0
        BY StoreNames DEF Written
      <4> QED
        BY <1>b, <1>6, <3>3, <4>1, <4>2
    <3> QED
      BY <3>1, <3>2, <3>3
  <2> QED
    BY <1>a, <1>b, <1>1, <1>2, <1>4, <2>1 DEF Parts, StaysAway
<1> QED
  BY <1>b, <1>c, <1>1, <1>2, <1>3, <1>4, <1>5, <1>7, SessionKeeps

\* and the sign-out follows.
LEMMA LogoutKeeps ==
  ASSUME Inv, Logout
  PROVE  Inv'
<1>a. Parts
  BY InvIsParts
<1>b. /\ leaving.at = "logout" /\ leaving' = NoLeave /\ session' = [session EXCEPT !.u = Nobody]
      /\ news' = (news \/ session.u # Nobody)
      /\ gone' = IF leaving.ok THEN gone \cup ({leaving.u} \ {Nobody}) ELSE gone
      /\ UNCHANGED <<op, rows, slot, disk, dirs, locked, on, active, forgotten, late, stray, hushed, lost, losses, owed>>
      /\ Written' = Written
  BY DEF Logout, OpStep, diskVars, lossVars, Written
<1>c. /\ session \in [u: Anyone, epoch: Nat] /\ forgotten \in [u: Anyone, epoch: Nat] /\ gone \subseteq Users
      /\ late \subseteq Anyone /\ on \in BOOLEAN /\ news \in BOOLEAN
      /\ leaving \in [at: {"rest", "erase", "logout"}, u: Anyone, ok: BOOLEAN]
  BY <1>a DEF Parts, TypeOK
<1>1. news' \in BOOLEAN
  BY <1>b, Zenon
<1>2. session' \in [u: Anyone, epoch: Nat] /\ session'.u = Nobody /\ Nobody \in Anyone
  BY <1>b, <1>c DEF Anyone
<1>3. leaving' \in [at: {"rest", "erase", "logout"}, u: Anyone, ok: BOOLEAN] /\ leaving'.at = "rest"
  BY <1>b, <1>2 DEF NoLeave
<1>4. gone' \subseteq Users
  BY <1>b, <1>c DEF Anyone
<1>5. Away' = Away
  BY <1>b, <1>3 DEF Away
<1>6. Away \subseteq Users /\ Nobody \notin Users
  BY <1>c, UsersAssumption DEF Away, Anyone
<1>7. OpeningStore' <=> OpeningStore
  BY <1>b DEF OpeningStore
<1>8. StaysAway'
  BY <1>a, <1>b, <1>2, <1>3, <1>4, <1>5, <1>6, <1>7 DEF Parts, StaysAway
<1>9. active.u # Nobody => on
  BY <1>a DEF Parts, OpenIsNamed
<1> QED
  BY <1>b, <1>c, <1>1, <1>2, <1>3, <1>4, <1>8, <1>9, SameOpKeeps

\* Wiping and counting what other users left; turning local data off.
LEMMA OthersDataKeeps ==
  ASSUME Inv, OthersData
  PROVE  Inv'
<1>a. Parts
  BY InvIsParts
<1>b. /\ op \in Operation /\ session \in [u: Anyone, epoch: Nat] /\ rows \in [Users -> [id: {0} \cup Ids, doomed: BOOLEAN]]
      /\ lost \in BOOLEAN /\ news \in BOOLEAN /\ on \in BOOLEAN /\ gone \subseteq Users
      /\ late \subseteq Anyone /\ forgotten \in [u: Anyone, epoch: Nat]
      /\ leaving \in [at: {"rest", "erase", "logout"}, u: Anyone, ok: BOOLEAN]
  BY <1>a DEF Parts, TypeOK
<1>n. op.at \notin {"make", "check", "count", "outbox"} => ~Noting
  BY DEF Noting
<1>o. ASSUME op' \in Operation, active' \in {active, NoActive},
             UNCHANGED <<rows, slot, disk, dirs, locked, session, on, news, lost, forgotten, leaving,
                         gone, late, stray, hushed, losses, owed>>
      PROVE  OpWork
  BY <1>b, <1>o DEF OpWork
<1>s. ASSUME op' \in Operation, op'.kind \in {"wipe", "list"}, op'.kind = "wipe" \/ op'.kind = "list",
             op.kind \in {"none", op'.kind},
             op'.at \in {"doom", "next", "listed"}, op'.kind = "wipe" <=> op'.at # "listed",
             (~op'.err /\ ~op'.lives) \/ op'.refused, on, active' \in {active, NoActive},
             op'.kind = "wipe" => op'.todo \subseteq Users,
             op'.kind = "list" => op'.todo \subseteq Ids,
             op'.at = "doom" => op'.u \in Users /\ active'.u # op'.u, ~Noting,
             UNCHANGED <<rows, slot, disk, dirs, locked, session, on, news, lost, forgotten, leaving,
                         gone, late, stray, hushed, losses, owed>>
      PROVE  Inv'
  <2>1. /\ op'.at \notin OpenStages /\ op'.at \notin EraseStages /\ op'.at \notin EnableStages
        /\ op'.at \notin UserStages
    BY <1>s DEF OpenStages, EraseStages, EnableStages, UserStages
  <2>2. ~(OpeningStore') /\ ~(ErasingRow') /\ ~(ErasingStray') /\ ~(CountingStray')
    BY <1>s, <2>1 DEF OpeningStore, ErasingRow, ErasingStray, CountingStray
  <2>3. OpWork
    BY <1>o, <1>s
  <2>4. OpensRight /\ ForWhom /\ NotesIt
    BY <1>s, <2>1, <2>2 DEF OpensRight, ForWhom, NotesIt
  <2>5. OpFits'
    BY <1>s, <2>1, <2>2 DEF OpFits
  <2>6. OnItsRow' /\ EraseSoFar' /\ NothingSkipped'
    BY <1>s, <2>1, <2>2 DEF OnItsRow, EraseSoFar, NothingSkipped
  <2> QED
    BY <2>3, <2>4, <2>5, <2>6, OpWorkKeeps
<1>r. op.kind = "none" => op.at = "rest" /\ ~Noting
  BY <1>a, <1>n DEF Parts, OpFits
<1>m. op.kind \in {"wipe", "list"} => on
  BY <1>a DEF Parts, OpFits
<1>1. ASSUME WipeOthers PROVE Inv'
  <2>1. /\ op.kind = "none" /\ on
        /\ op' = [NoOp EXCEPT !.kind = "wipe", !.at = "next", !.todo = Others(session.u)]
        /\ UNCHANGED <<rows, slot, disk, dirs, locked, session, on, news, lost, forgotten, leaving,
                       gone, late, stray, hushed, losses, owed, active>>
    BY <1>1 DEF WipeOthers, Idle, diskVars, processVars, lossVars
  <2>2. PICK who : who = Others(session.u) /\ who \subseteq Users /\ who \in SUBSET (Ids \cup Users)
    BY DEF Others
  <2>3. op' = [NoOp EXCEPT !.kind = "wipe", !.at = "next", !.todo = who]
    BY <2>1, <2>2
  <2>4. /\ op' \in Operation /\ op'.kind = "wipe" /\ op'.at = "next" /\ op'.todo = who /\ ~op'.err /\ ~op'.lives
    BY <2>2, <2>3, NoOpIs DEF Operation
  <2> QED
    BY <1>r, <1>s, <2>1, <2>2, <2>4
<1>2. ASSUME WipeNext PROVE Inv'
  <2>1. /\ op.kind = "wipe" /\ op.at = "next" /\ on
        /\ UNCHANGED <<rows, slot, disk, dirs, locked, session, on, news, lost, forgotten, leaving,
                       gone, late, stray, hushed, losses, owed>>
    BY <1>2, <1>m DEF WipeNext, At, OpStep, diskVars, lossVars
  <2>2. ~Noting /\ op.todo \subseteq Users /\ (op.err \/ op.lives => op.refused)
    BY <1>a, <1>n, <2>1 DEF Parts, OnItsRow, OpFits
  <2>3. CASE op.todo = {} \/ ~Erased
    <3>1. op' = NoOp /\ active' = active
      BY <1>2, <2>3 DEF WipeNext, Done
    <3> QED
      BY <1>o, <2>1, <2>2, <3>1, NoOpIs, DoneKeeps
  <2>4. CASE ~(op.todo = {} \/ ~Erased)
    <3>1. PICK u \in op.todo : /\ active' = IF active.u \in {u} THEN NoActive ELSE active
                               /\ op' = [op EXCEPT !.at = "doom", !.u = u, !.todo = op.todo \ {u}]
      BY <1>2, <2>4 DEF WipeNext, CloseOf
    <3>2. /\ op' \in Operation /\ op'.kind = op.kind /\ op'.at = "doom" /\ op'.u = u /\ op'.todo = op.todo \ {u}
          /\ op'.err = op.err /\ op'.lives = op.lives /\ op'.refused = op.refused
      <4>1. u \in Anyone /\ op.todo \ {u} \in SUBSET (Ids \cup Users)
        BY <2>2 DEF Anyone
      <4> QED
        BY <1>b, <3>1, <4>1 DEF Operation
    <3>3. u \in Users /\ active' \in {active, NoActive} /\ active'.u # u
      BY <2>2, <3>1, UsersAssumption DEF NoActive
    <3>4. op'.todo \subseteq Users /\ ((~op'.err /\ ~op'.lives) \/ op'.refused)
      BY <2>2, <3>2
    <3> QED
      BY <1>s, <2>1, <2>2, <3>2, <3>3, <3>4
  <2> QED
    BY <2>3, <2>4
<1>3. ASSUME ListOthers PROVE Inv'
  <2>1. /\ op.kind = "none" /\ on
        /\ op' = [NoOp EXCEPT !.kind = "list", !.at = "listed", !.todo = {rows[w].id : w \in Others(session.u)}]
        /\ UNCHANGED <<rows, slot, disk, dirs, locked, session, on, news, lost, forgotten, leaving,
                       gone, late, stray, hushed, losses, owed, active>>
    BY <1>3 DEF ListOthers, Idle, diskVars, processVars, lossVars
  <2>2. PICK who : who = {rows[w].id : w \in Others(session.u)} /\ who \subseteq Ids /\ who \in SUBSET (Ids \cup Users)
    <3>1. {rows[w].id : w \in Others(session.u)} \subseteq Ids
      BY <1>b DEF Others
    <3> QED
      BY <3>1
  <2>3. op' = [NoOp EXCEPT !.kind = "list", !.at = "listed", !.todo = who]
    BY <2>1, <2>2
  <2>4. /\ op' \in Operation /\ op'.kind = "list" /\ op'.at = "listed" /\ op'.todo = who /\ ~op'.err /\ ~op'.lives
    BY <2>2, <2>3, NoOpIs DEF Operation
  <2> QED
    BY <1>r, <1>s, <2>1, <2>2, <2>4
<1>4. ASSUME ListNext PROVE Inv'
  <2>1. /\ op.kind = "list" /\ op.at = "listed" /\ on
        /\ UNCHANGED <<rows, slot, disk, dirs, locked, session, on, news, lost, forgotten, leaving,
                       gone, late, stray, hushed, losses, owed, active>>
    BY <1>4, <1>a, <1>m DEF ListNext, At, OpStep, diskVars, processVars, lossVars, Parts, OpFits
  <2>2. ~Noting /\ op.todo \subseteq Ids /\ (op.err \/ op.lives => op.refused)
    BY <1>a, <1>n, <2>1 DEF Parts, OnItsRow, OpFits
  <2>3. CASE op.todo = {}
    <3>1. op' = NoOp
      BY <1>4, <2>3 DEF ListNext, Done
    <3> QED
      BY <1>o, <2>1, <2>2, <3>1, NoOpIs, DoneKeeps
  <2>4. CASE op.todo # {}
    <3>1. PICK id \in op.todo :
            op' = IF disk[OutboxOf(id)].db = 0 \/ active.id = id
                    THEN [op EXCEPT !.todo = op.todo \ {id}]
                    ELSE Opening([op EXCEPT !.todo = op.todo \ {id}], OutboxOf(id), "listed")
      BY <1>4, <2>4 DEF ListNext
    <3>r. PICK rest : rest = [op EXCEPT !.todo = op.todo \ {id}]
      OBVIOUS
    <3>2. /\ rest \in Operation /\ rest.kind = op.kind /\ rest.at = op.at /\ rest.u = op.u /\ rest.id = op.id /\ rest.todo = op.todo \ {id}
          /\ rest.err = op.err /\ rest.lives = op.lives /\ rest.refused = op.refused
      <4>1. op.todo \ {id} \in SUBSET (Ids \cup Users)
        BY <2>2
      <4> QED
        BY <1>b, <3>r, <4>1 DEF Operation
    <3>3. CASE disk[OutboxOf(id)].db = 0 \/ active.id = id
      <4>1. op' = rest
        BY <3>1, <3>r, <3>3
      <4>2. op'.todo \subseteq Ids /\ ((~op'.err /\ ~op'.lives) \/ op'.refused)
        BY <2>2, <3>2, <4>1
      <4> QED
        BY <1>s, <2>1, <2>2, <3>2, <4>1, <4>2
    <3>4. CASE ~(disk[OutboxOf(id)].db = 0 \/ active.id = id)
      <4>1. op' = Opening(rest, OutboxOf(id), "listed") /\ "listed" \in Backs
        BY <3>1, <3>r, <3>4 DEF Backs
      <4>2. id \in Ids /\ OutboxOf(id) \in Stores /\ OutboxOf(id) # Index /\ OutboxOf(id)[1] = id
        BY <2>2, StoreNames
      <4>3. /\ op' \in Operation /\ op'.s = OutboxOf(id) /\ op'.at = "key" /\ op'.back = "listed"
            /\ op'.kind = op.kind /\ op'.todo = op.todo \ {id}
            /\ op'.lives = op.lives /\ op'.err = op.err /\ op'.refused = op.refused
        BY <3>2, <4>1, <4>2, OpeningIs
      <4>4. OpensIts'
        BY <2>1, <4>2, <4>3 DEF OpensIts, OutboxOf
      <4>5. OutboxOf(id) \in Written
        BY <3>4, <4>2 DEF Written
      <4>6. op'.s[1] \in Named \cup stray /\ \A u \in Away : op'.s[1] # rows[u].id
        BY <1>a, <4>2, <4>3, <4>5 DEF Parts, DirsNamed, StaysAway
      <4>7. OnItsRow' /\ NothingSkipped'
        BY <2>1, <2>2, <4>3 DEF OnItsRow, NothingSkipped
      <4>8. op'.s # OutboxOf(active'.id)
        BY <2>1, <3>4, <4>3 DEF OutboxOf
      <4> QED
        BY <1>o, <2>1, <2>2, <4>3, <4>4, <4>6, <4>7, <4>8, OpenBegins
    <3> QED
      BY <3>3, <3>4
  <2> QED
    BY <2>3, <2>4
<1>5. ASSUME CloseLocalData PROVE Inv'
  <2>1. /\ op.kind = "none" /\ on' = FALSE /\ active' = NoActive
        /\ UNCHANGED <<op, rows, slot, disk, dirs, locked, session, news, lost, forgotten, leaving,
                       gone, late, stray, hushed, losses, owed>>
    BY <1>5 DEF CloseLocalData, Idle, diskVars, lossVars
  <2>2. active'.u = Nobody
    BY <2>1 DEF NoActive
  <2>3. Away' = Away /\ Written' = Written /\ (OpeningStore' <=> OpeningStore)
    BY <2>1 DEF Away, Written, OpeningStore
  <2>4. StaysAway'
    BY <1>a, <2>1, <2>3 DEF Parts, StaysAway
  <2> QED
    BY <1>b, <2>1, <2>2, <2>4, SameOpKeeps
<1> QED
  BY <1>1, <1>2, <1>3, <1>4, <1>5 DEF OthersData

-----------------------------------------------------------------------------
(* What comes from outside. *)

\* A change from outside while no operation runs: of keys, or of files.
LEMMA OutsideKeeps ==
  ASSUME Inv, op.kind = "none", UNCHANGED <<op, rows, dirs, locked, processVars, lossVars, stray, hushed>>,
         slot' \in [Stores -> Nat], disk' \in [Stores -> File],
         \A s \in Stores : slot'[s] # 0 => slot[s] # 0,
         \A s \in Stores : disk'[s].db # 0 <=> disk[s].db # 0,
         \A s \in Stores : disk'[s].unsent => disk[s].unsent \/ (s[2] = "outbox" /\ disk[s].db # 0)
  PROVE  Inv'
<1>a. Parts
  BY InvIsParts
<1>b. /\ UNCHANGED <<op, rows, dirs, locked, session, on, news, active, forgotten, leaving, gone, late,
                     lost, losses, owed, stray, hushed>>
      /\ Named' = Named /\ Away' = Away
  BY DEF processVars, lossVars, Named, Away
<1>1. Written' = Written /\ Held' \subseteq Held
  BY DEF Written, Held
<1>2. op = NoOp /\ op.at = "rest" /\ op.back = ""
  BY <1>a, NoOpIs DEF Parts, OpFits
<1>3. /\ op'.at \notin OpenStages /\ op'.at \notin EraseStages /\ op'.at \notin EnableStages
      /\ op'.at \notin UserStages
  BY <1>b, <1>2 DEF OpenStages, EraseStages, EnableStages, UserStages
<1>4. ~(OpeningStore') /\ ~(ErasingRow') /\ ~(ErasingStray') /\ ~(CountingStray') /\ ~(Noting') /\ ~Noting
  BY <1>b, <1>2, <1>3 DEF OpeningStore, ErasingRow, ErasingStray, CountingStray, Noting
<1>5. TypeOK' /\ OpenIsNamed' /\ OneStoreEach' /\ KeysBeforeRow'
  <2>1. TypeOK'
    BY <1>a, <1>b DEF Parts, TypeOK
  <2> QED
    BY <1>a, <1>b, <1>1, <2>1 DEF Parts, OpenIsNamed, OneStoreEach, KeysBeforeRow
<1>6. OpFits' /\ OnItsRow' /\ EraseSoFar' /\ NothingSkipped'
  <2>1. NoOp' = NoOp
    BY DEF NoOp, Index
  <2>2. ~op.err /\ ~op.lives
    BY <1>2, NoOpIs
  <2>3. OpFits'
    BY <1>b, <1>2, <1>3, <1>4, <2>1, <2>2 DEF OpFits
  <2> QED
    BY <1>b, <1>2, <1>3, <2>3 DEF OnItsRow, EraseSoFar, NothingSkipped
<1>7. DirsNamed' /\ StaysAway'
  <2>1. DirsNamed'
    BY <1>a, <1>b, <1>1, <1>3, <1>4 DEF Parts, DirsNamed
  <2> QED
    BY <1>a, <1>b, <1>1, <1>4, <2>1 DEF Parts, StaysAway
<1>8. LossesNoted'
  <2>1. \A s \in Stores : disk'[s].unsent => s[2] = "outbox" /\ disk'[s].db # 0
    BY <1>a DEF Parts, LossesNoted
  <2>2. active.u # Nobody => active.id \in Ids /\ disk'[OutboxOf(active.id)].db # 0
    BY <1>a, StoreNames DEF Parts, LossesNoted
  <2>3. op'.kind = "none" /\ op'.at = "rest" /\ ~OpeningStore'
    BY <1>2, <1>b, <1>4
  <2>4. owed'.read <= losses'.newest
    BY <1>a, <1>b DEF Parts, LossesNoted
  <2>5. ~hushed' =>
          /\ owed'.all > owed'.recorded => lost'
          /\ owed'.recorded > owed'.settled => losses'.unacked
          /\ owed'.read > 0 /\ owed'.read = losses'.newest => owed'.of >= owed'.recorded
    BY <1>a, <1>b, <1>4 DEF Parts, LossesNoted
  <2>6. active'.u # Nobody => active'.id \in Ids /\ disk'[OutboxOf(active'.id)].db # 0
    BY <1>b, <2>2
  <2> QED
    BY <1>4, <2>1, <2>3, <2>4, <2>5, <2>6 DEF LossesNoted
<1> QED
  BY <1>5, <1>6, <1>7, <1>8 DEF Inv, LocalInv

\* The key store's lock, and what the app reads and says of losses.
LEMMA ToldKeeps ==
  ASSUME Inv, UNCHANGED <<op, rows, slot, disk, dirs, processVars, lost, stray, hushed>>,
         locked' \in BOOLEAN, losses' \in [newest: Nat, unacked: BOOLEAN], owed' \in Owed,
         owed'.all = owed.all, owed'.recorded = owed.recorded, owed'.read <= losses'.newest,
         ~hushed =>
           /\ owed'.recorded > owed'.settled => losses'.unacked
           /\ owed'.read > 0 /\ owed'.read = losses'.newest => owed'.of >= owed'.recorded
  PROVE  Inv'
<1>a. Parts
  BY InvIsParts
<1>b. /\ UNCHANGED <<op, rows, slot, disk, dirs, session, on, news, active, forgotten, leaving, gone, late, lost, stray, hushed>>
      /\ op' = op /\ rows' = rows /\ disk' = disk /\ slot' = slot /\ dirs' = dirs
  BY DEF processVars
<1>c. /\ NoOp' = NoOp /\ NoActive' = NoActive /\ Named' = Named /\ Doomed' = Doomed /\ Written' = Written
      /\ Held' = Held /\ Away' = Away
      /\ (ErasingRow' <=> ErasingRow) /\ (ErasingStray' <=> ErasingStray)
      /\ (OpeningStore' <=> OpeningStore) /\ (CountingStray' <=> CountingStray)
      /\ (Erased' <=> Erased) /\ (OpensIts' <=> OpensIts) /\ (Noting' <=> Noting)
  BY <1>b DEF NoOp, Index, NoActive, Named, Doomed, ErasingRow, ErasingStray, OpeningStore, CountingStray, Erased,
     OpensIts, CacheOf, OutboxOf, Written, Held, Away, Noting
<1>1. TypeOK'
  BY <1>a, <1>b DEF Parts, TypeOK
<1>2. OpenIsNamed' /\ KeysBeforeRow' /\ OneStoreEach'
  BY <1>a, <1>b, <1>c DEF Parts, OpenIsNamed, KeysBeforeRow, OneStoreEach
<1>3. OpFits'
  BY <1>a, <1>b, <1>c DEF Parts, OpFits
<1>4. OnItsRow'
  BY <1>a, <1>b, <1>c DEF Parts, OnItsRow
<1>5. EraseSoFar' /\ NothingSkipped'
  BY <1>a, <1>b, <1>c DEF Parts, EraseSoFar, NothingSkipped
<1>6. DirsNamed' /\ StaysAway'
  BY <1>a, <1>b, <1>c DEF Parts, DirsNamed, StaysAway
<1>7. LossesNoted'
  <2>1. ~hushed =>
          /\ owed'.all > owed'.recorded => lost \/ Noting
          /\ owed'.recorded > owed'.settled => losses'.unacked
          /\ owed'.read > 0 /\ owed'.read = losses'.newest => owed'.of >= owed'.recorded
    BY <1>a DEF Parts, LossesNoted
  <2> QED
    BY <1>a, <1>b, <1>c, <2>1 DEF Parts, LossesNoted
<1> QED
  BY <1>1, <1>2, <1>3, <1>4, <1>5, <1>6, <1>7 DEF Inv, LocalInv

\* The process dies between any two steps.
LEMMA CrashKeeps ==
  ASSUME Inv, Crash
  PROVE  Inv'
<1>a. Parts
  BY InvIsParts
<1>b. /\ op' = NoOp /\ session' = [session EXCEPT !.u = Nobody] /\ on' = FALSE /\ news' = FALSE
      /\ active' = NoActive /\ forgotten' = NoUser /\ leaving' = NoLeave
      /\ lost' = FALSE /\ losses' = NoLosses /\ hushed' = FALSE
      /\ owed' = NoneOwed
      /\ UNCHANGED <<rows, slot, disk, dirs, locked, gone, late, stray>>
      /\ Written' = Written /\ Held' = Held /\ Named' = Named
  BY DEF Crash, diskVars, Written, Held, Named
<1>1. /\ op'.kind = "none" /\ op'.at = "rest" /\ op'.back = "" /\ ~op'.err /\ ~op'.lives /\ op' \in Operation
  BY <1>b, NoOpIs
<1>2. /\ op'.at \notin OpenStages /\ op'.at \notin EraseStages /\ op'.at \notin EnableStages
      /\ op'.at \notin UserStages
  BY <1>1 DEF OpenStages, EraseStages, EnableStages, UserStages
<1>3. ~(OpeningStore') /\ ~(ErasingRow') /\ ~(ErasingStray') /\ ~(CountingStray') /\ ~(Noting')
  BY <1>1, <1>2 DEF OpeningStore, ErasingRow, ErasingStray, CountingStray, Noting
<1>4. /\ Nobody \in Anyone /\ active' \in [u: Anyone, id: {0} \cup Ids] /\ active'.u = Nobody
      /\ forgotten' \in [u: Anyone, epoch: Nat] /\ leaving' \in [at: {"rest", "erase", "logout"}, u: Anyone, ok: BOOLEAN]
      /\ leaving'.at = "rest"
  BY <1>b DEF Anyone, NoActive, NoUser, NoLeave
<1>5. /\ owed' \in Owed /\ owed'.all = 0 /\ owed'.recorded = 0 /\ owed'.settled = 0 /\ owed'.read = 0
      /\ losses' \in [newest: Nat, unacked: BOOLEAN] /\ losses'.newest = 0
  BY <1>b DEF NoneOwed, Owed, NoLosses
<1>6. session' \in [u: Anyone, epoch: Nat] /\ session'.u = Nobody
  BY <1>a, <1>b, <1>4 DEF Parts, TypeOK
<1>7. TypeOK'
  BY <1>a, <1>b, <1>1, <1>4, <1>5, <1>6 DEF Parts, TypeOK
<1>8. OpenIsNamed' /\ KeysBeforeRow' /\ OneStoreEach'
  BY <1>a, <1>b, <1>4 DEF Parts, OpenIsNamed, KeysBeforeRow, OneStoreEach
<1>9. OpFits' /\ OnItsRow' /\ EraseSoFar' /\ NothingSkipped'
  <2>1. NoOp' = NoOp
    BY DEF NoOp, Index
  <2>2. OpFits'
    BY <1>b, <1>1, <1>2, <1>3, <2>1 DEF OpFits
  <2> QED
    BY <1>1, <1>2, <2>2 DEF OnItsRow, EraseSoFar, NothingSkipped
<1>10. DirsNamed'
  BY <1>a, <1>b, <1>2, <1>3 DEF Parts, DirsNamed
<1>11. StaysAway'
  <2>1. Away' \subseteq Away
    BY <1>b, <1>4 DEF Away
  <2>2. gone \subseteq Users /\ Nobody \notin Users
    BY <1>a, UsersAssumption DEF Parts, TypeOK
  <2> QED
    BY <1>a, <1>b, <1>1, <1>3, <1>4, <1>6, <2>1, <2>2 DEF Parts, StaysAway
<1>12. LossesNoted'
  <2>1. /\ \A s \in Stores : disk'[s].unsent => s[2] = "outbox" /\ disk'[s].db # 0
        /\ op'.at \notin {"rebuild", "outbox", "opened", "check"}
    BY <1>a, <1>b, <1>1 DEF Parts, LossesNoted
  <2>2. /\ ~(owed'.all > owed'.recorded) /\ ~(owed'.recorded > owed'.settled) /\ ~(owed'.read > 0)
        /\ owed'.read <= losses'.newest
    BY <1>5
  <2> QED
    BY <1>1, <1>3, <1>4, <2>1, <2>2 DEF LossesNoted
<1> QED
  BY <1>7, <1>8, <1>9, <1>10, <1>11, <1>12 DEF Inv, LocalInv

\* Somebody signs in: not who asked to be forgotten, but a new session.
LEMMA SignInKeeps ==
  ASSUME Inv, NEW u \in Users, SignIn(u)
  PROVE  Inv'
<1>a. Parts
  BY InvIsParts
<1>b. /\ session.u # u /\ session' = [u |-> u, epoch |-> session.epoch + 1]
      /\ news' = TRUE /\ gone' = gone \ {u} /\ late' = late \ {u}
      /\ leaving' = IF leaving.u = u THEN [leaving EXCEPT !.u = Nobody] ELSE leaving
      /\ UNCHANGED <<op, rows, slot, disk, dirs, locked, on, active, forgotten, lost, losses, owed, stray, hushed>>
      /\ Written' = Written /\ (OpeningStore' <=> OpeningStore)
  BY DEF SignIn, diskVars, lossVars, Written, OpeningStore
<1>c. /\ session \in [u: Anyone, epoch: Nat] /\ forgotten \in [u: Anyone, epoch: Nat] /\ gone \subseteq Users
      /\ late \subseteq Anyone /\ on \in BOOLEAN
      /\ leaving \in [at: {"rest", "erase", "logout"}, u: Anyone, ok: BOOLEAN]
  BY <1>a DEF Parts, TypeOK
<1>1. session' \in [u: Anyone, epoch: Nat] /\ session'.u = u /\ u # Nobody
  BY <1>b, <1>c, UsersAssumption DEF Anyone
<1>2. /\ leaving' \in [at: {"rest", "erase", "logout"}, u: Anyone, ok: BOOLEAN]
      /\ leaving'.at = leaving.at /\ leaving'.ok = leaving.ok /\ leaving'.u \in {Nobody, leaving.u} /\ leaving'.u # u
  BY <1>b, <1>c, <1>1 DEF Anyone
<1>3. Away' \subseteq Away \ {u}
  <2> SUFFICES ASSUME NEW w \in Away' PROVE w \in Away \ {u}
    OBVIOUS
  <2>1. w # u /\ w \notin late
    BY <1>b, <1>2 DEF Away
  <2>2. w \in gone \/ (leaving.at = "logout" /\ leaving.ok /\ w = leaving.u /\ w # Nobody)
    BY <1>b, <1>2 DEF Away
  <2> QED
    BY <2>1, <2>2 DEF Away
<1>4. StaysAway'
  <2>1. \A w \in Away' :
          /\ \A s \in Written' : s[1] # rows'[w].id
          /\ ~(op'.kind = "open" /\ op'.u = w)
          /\ OpeningStore' /\ op'.s # Index => op'.s[1] # rows'[w].id
          /\ session'.u = w => ~on' \/ (forgotten'.u = w /\ session'.epoch <= forgotten'.epoch)
    BY <1>a, <1>b, <1>1, <1>3 DEF Parts, StaysAway
  <2>2. \A w \in gone' : session'.u # w
    BY <1>b, <1>1
  <2>3. /\ leaving'.at = "erase" <=> op'.kind = "forget"
        /\ leaving'.at = "erase" => leaving'.u \in {Nobody, op'.u} /\ forgotten'.u = op'.u
    BY <1>a, <1>b, <1>2 DEF Parts, StaysAway
  <2> QED
    BY <1>1, <1>2, <2>1, <2>2, <2>3 DEF StaysAway
<1>5. active.u # Nobody => on
  BY <1>a DEF Parts, OpenIsNamed
<1> QED
  BY <1>b, <1>c, <1>1, <1>2, <1>4, <1>5, SameOpKeeps

\* Everything that comes from outside.
LEMMA OuterKeeps ==
  ASSUME Inv, Outer
  PROVE  Inv'
<1>a. Parts
  BY InvIsParts
<1>b. /\ session \in [u: Anyone, epoch: Nat] /\ forgotten \in [u: Anyone, epoch: Nat] /\ gone \subseteq Users
      /\ late \subseteq Anyone /\ on \in BOOLEAN /\ news \in BOOLEAN
      /\ leaving \in [at: {"rest", "erase", "logout"}, u: Anyone, ok: BOOLEAN]
      /\ slot \in [Stores -> Nat] /\ disk \in [Stores -> File]
      /\ losses \in [newest: Nat, unacked: BOOLEAN] /\ owed \in Owed /\ locked \in BOOLEAN
  BY <1>a DEF Parts, TypeOK
<1>1. ASSUME NEW u \in Users, SignIn(u) PROVE Inv'
  BY <1>1, SignInKeeps
<1>2. ASSUME SignOut PROVE Inv'
  <2>1. /\ session' = [session EXCEPT !.u = Nobody] /\ news' = TRUE
        /\ UNCHANGED <<op, rows, slot, disk, dirs, locked, on, active, forgotten, leaving, gone, late, lost, losses, owed, stray, hushed>>
        /\ Written' = Written /\ (OpeningStore' <=> OpeningStore) /\ Away' = Away
    BY <1>2 DEF SignOut, diskVars, lossVars, Written, OpeningStore, Away
  <2>2. session' \in [u: Anyone, epoch: Nat] /\ session'.u = Nobody
    BY <1>b, <2>1 DEF Anyone
  <2>3. Nobody \notin Away /\ Nobody \notin gone
    BY <1>b, UsersAssumption DEF Away
  <2>4. StaysAway'
    BY <1>a, <2>1, <2>2, <2>3 DEF Parts, StaysAway
  <2>5. active.u # Nobody => on
    BY <1>a DEF Parts, OpenIsNamed
  <2> QED
    BY <1>b, <2>1, <2>2, <2>4, <2>5, SameOpKeeps
<1>3. ASSUME Queue PROVE Inv'
  <2>1. op.kind = "none" /\ active.id \in Ids /\ disk[OutboxOf(active.id)].db # 0
    BY <1>3, <1>a DEF Queue, Idle, Parts, LossesNoted
  <2>2. PICK s : s = OutboxOf(active.id)
    OBVIOUS
  <2>3. s \in Stores /\ s[2] = "outbox" /\ disk[s].db # 0
    BY <2>1, <2>2, StoreNames
  <2>4. disk' = [disk EXCEPT ![s].unsent = TRUE] /\ slot' = slot
        /\ UNCHANGED <<op, rows, dirs, locked, processVars, lossVars, stray, hushed>>
    BY <1>3, <2>2 DEF Queue
  <2>5. /\ disk' \in [Stores -> File] /\ disk'[s].db = disk[s].db
        /\ \A t \in Stores \ {s} : disk'[t] = disk[t]
    BY <1>b, <2>3, <2>4 DEF File
  <2>6. /\ \A t \in Stores : disk'[t].db # 0 <=> disk[t].db # 0
        /\ \A t \in Stores : disk'[t].unsent => disk[t].unsent \/ (t[2] = "outbox" /\ disk[t].db # 0)
    BY <2>3, <2>5
  <2> QED
    BY <1>b, <2>1, <2>4, <2>5, <2>6, OutsideKeeps
<1>4. ASSUME ReadLoss PROVE Inv'
  <2>1. /\ losses.unacked /\ owed' = [owed EXCEPT !.read = losses.newest, !.of = owed.recorded]
        /\ UNCHANGED <<op, rows, slot, disk, dirs, processVars, lost, stray, hushed, locked, losses>>
    BY <1>4 DEF ReadLoss, diskVars
  <2>2. /\ owed' \in Owed /\ owed'.all = owed.all /\ owed'.recorded = owed.recorded /\ owed'.settled = owed.settled
        /\ owed'.read = losses.newest /\ owed'.of = owed.recorded /\ losses.newest \in Nat /\ owed.recorded \in Nat
    BY <1>b, <2>1 DEF Owed
  <2>3. losses' = losses /\ losses.unacked
    BY <2>1
  <2> QED
    BY <1>b, <2>1, <2>2, <2>3, ToldKeeps
<1>5. ASSUME Acknowledge PROVE Inv'
  <2> DEFINE t == IF Acknowledged THEN owed.of ELSE owed.settled
  <2>1. /\ owed.read > 0 /\ owed' = [owed EXCEPT !.read = 0, !.settled = t]
        /\ losses' = IF Acknowledged THEN [losses EXCEPT !.unacked = FALSE] ELSE losses
        /\ UNCHANGED <<op, rows, slot, disk, dirs, processVars, lost, stray, hushed, locked>>
    BY <1>5 DEF Acknowledge, diskVars
  <2>2. /\ owed.of \in Nat /\ owed.settled \in Nat /\ owed.recorded \in Nat /\ losses.newest \in Nat
        /\ t \in Nat /\ (Acknowledged => t = owed.of) /\ (~Acknowledged => t = owed.settled)
    BY <1>b DEF Owed
  <2> HIDE DEF t
  <2>3. /\ owed' \in Owed /\ owed'.all = owed.all /\ owed'.recorded = owed.recorded /\ owed'.settled = t
        /\ owed'.read = 0
    BY <1>b, <2>1, <2>2 DEF Owed
  <2>4. /\ losses' \in [newest: Nat, unacked: BOOLEAN] /\ losses'.newest = losses.newest
        /\ ~Acknowledged => losses' = losses
    BY <1>b, <2>1
  <2>5. ASSUME ~hushed, owed'.recorded > owed'.settled PROVE losses'.unacked
    <3>1. ~Acknowledged
      <4> SUFFICES ASSUME Acknowledged PROVE FALSE
        OBVIOUS
      <4>1. owed.of >= owed.recorded
        BY <1>a, <2>1, <2>5 DEF Parts, LossesNoted, Acknowledged
      <4> QED
        BY <2>2, <2>3, <2>5, <4>1
    <3>2. owed.recorded > owed.settled
      BY <2>2, <2>3, <2>5, <3>1
    <3> QED
      BY <1>a, <2>4, <2>5, <3>1, <3>2 DEF Parts, LossesNoted
  <2>6. ~(owed'.read > 0) /\ owed'.read <= losses'.newest
    BY <2>2, <2>3, <2>4
  <2> QED
    BY <1>b, <2>1, <2>3, <2>4, <2>5, <2>6, ToldKeeps
<1>6. ASSUME LockKeys PROVE Inv'
  <2>1. /\ locked' = ~locked
        /\ UNCHANGED <<op, rows, slot, disk, dirs, processVars, lost, stray, hushed, losses, owed>>
    BY <1>6 DEF LockKeys, lossVars
  <2>2. locked' \in BOOLEAN
    BY <2>1, Zenon
  <2>3. owed' = owed /\ losses' = losses
    BY <2>1
  <2> QED
    BY <1>a, <1>b, <2>1, <2>2, <2>3, ToldKeeps DEF Parts, LossesNoted
<1>7. ASSUME Crash PROVE Inv'
  BY <1>7, CrashKeeps
<1>8. ASSUME NEW s \in Stores, Lose(s) PROVE Inv'
  <2>1. op.kind = "none" /\ slot' = [slot EXCEPT ![s] = 0] /\ disk' = disk
        /\ UNCHANGED <<op, rows, dirs, locked, processVars, lossVars, stray, hushed>>
    BY <1>8 DEF Lose, Idle, Outer0
  <2>2. slot' \in [Stores -> Nat] /\ \A t \in Stores : slot'[t] # 0 => slot[t] # 0
    BY <1>b, <2>1
  <2> QED
    BY <1>b, <2>1, <2>2, OutsideKeeps
<1>9. ASSUME NEW s \in Stores, Damage(s) PROVE Inv'
  <2>1. op.kind = "none" /\ slot' = slot /\ disk' = [disk EXCEPT ![s].db = 9] /\ disk[s].db # 0
        /\ UNCHANGED <<op, rows, dirs, locked, processVars, lossVars, stray, hushed>>
    BY <1>9 DEF Damage, Idle, Outer0, Unreadable
  <2>2. /\ disk' \in [Stores -> File] /\ disk'[s].db = 9 /\ disk'[s].unsent = disk[s].unsent
        /\ \A t \in Stores \ {s} : disk'[t] = disk[t]
    BY <1>b, <2>1 DEF File
  <2>3. /\ \A t \in Stores : disk'[t].db # 0 <=> disk[t].db # 0
        /\ \A t \in Stores : disk'[t].unsent => disk[t].unsent
    BY <2>1, <2>2
  <2> QED
    BY <1>b, <2>1, <2>2, <2>3, OutsideKeeps
<1>10. ASSUME NEW kind \in {"index", "cache", "outbox"}, Upgrade(kind) PROVE Inv'
  <2>1. op.kind = "none" /\ slot' = slot
        /\ disk' = [s \in Stores |-> IF s[2] = kind /\ disk[s].db # 0 THEN [disk[s] EXCEPT !.old = TRUE] ELSE disk[s]]
        /\ UNCHANGED <<op, rows, dirs, locked, processVars, lossVars, stray, hushed>>
    BY <1>10 DEF Upgrade, Idle, Outer0
  <2>2. \A s \in Stores : /\ disk'[s] \in File /\ disk'[s].db = disk[s].db /\ disk'[s].unsent = disk[s].unsent
    BY <1>b, <2>1 DEF File
  <2>3. disk' \in [Stores -> File]
    BY <1>b, <2>1, <2>2
  <2>4. /\ \A t \in Stores : disk'[t].db # 0 <=> disk[t].db # 0
        /\ \A t \in Stores : disk'[t].unsent => disk[t].unsent
    BY <2>2
  <2> QED
    BY <1>b, <2>1, <2>3, <2>4, OutsideKeeps
<1> QED
  BY <1>1, <1>2, <1>3, <1>4, <1>5, <1>6, <1>7, <1>8, <1>9, <1>10 DEF Outer

-----------------------------------------------------------------------------
(* The theorems. *)

\* An empty device.
LEMMA InitHolds ==
  ASSUME Init
  PROVE  Inv
<1>a. /\ rows = [u \in Users |-> NoRow] /\ slot = [s \in Stores |-> 0] /\ disk = [s \in Stores |-> NoStore]
      /\ dirs = {} /\ locked = FALSE /\ session = NoUser /\ on = FALSE /\ news = FALSE /\ active = NoActive
      /\ forgotten = NoUser /\ lost = FALSE /\ losses = NoLosses /\ op = NoOp /\ leaving = NoLeave
      /\ gone = {} /\ late = {} /\ stray = {} /\ owed = NoneOwed /\ hushed = FALSE
  BY DEF Init, NoActive
<1>1. /\ \A u \in Users : rows[u].id = 0 /\ ~rows[u].doomed
      /\ rows \in [Users -> [id: {0} \cup Ids, doomed: BOOLEAN]]
  BY <1>a DEF NoRow
<1>2. /\ disk \in [Stores -> File] /\ slot \in [Stores -> Nat]
      /\ \A s \in Stores : disk[s].db = 0 /\ ~disk[s].unsent /\ slot[s] = 0
  BY <1>a DEF NoStore, File
<1>3. Named = {} /\ Doomed = {} /\ Written = {} /\ Held = {} /\ Away = {}
  BY <1>a, <1>1, <1>2 DEF Named, Doomed, Written, Held, Away, NoLeave
<1>4. op.kind = "none" /\ op.at = "rest" /\ op.back = "" /\ ~op.err /\ ~op.lives /\ op \in Operation /\ op = NoOp
  BY <1>a, NoOpIs
<1>5. /\ op.at \notin OpenStages /\ op.at \notin EraseStages /\ op.at \notin EnableStages
      /\ op.at \notin UserStages
  BY <1>4 DEF OpenStages, EraseStages, EnableStages, UserStages
<1>6. ~OpeningStore /\ ~ErasingRow /\ ~ErasingStray /\ ~CountingStray /\ ~Noting
  BY <1>4, <1>5 DEF OpeningStore, ErasingRow, ErasingStray, CountingStray, Noting
<1>7. /\ Nobody \in Anyone /\ active \in [u: Anyone, id: {0} \cup Ids] /\ active.u = Nobody
      /\ session \in [u: Anyone, epoch: Nat] /\ forgotten \in [u: Anyone, epoch: Nat]
      /\ leaving \in [at: {"rest", "erase", "logout"}, u: Anyone, ok: BOOLEAN] /\ leaving.at = "rest"
  BY <1>a DEF Anyone, NoActive, NoUser, NoLeave
<1>8. /\ owed \in Owed /\ owed.all = 0 /\ owed.recorded = 0 /\ owed.settled = 0 /\ owed.read = 0
      /\ losses \in [newest: Nat, unacked: BOOLEAN] /\ losses.newest = 0
  BY <1>a DEF NoneOwed, Owed, NoLosses
<1>9. TypeOK
  BY <1>a, <1>1, <1>2, <1>4, <1>7, <1>8 DEF TypeOK
<1>10. OpenIsNamed /\ KeysBeforeRow /\ OneStoreEach
  BY <1>1, <1>3, <1>7 DEF OpenIsNamed, KeysBeforeRow, OneStoreEach
<1>11. OpFits /\ OnItsRow /\ EraseSoFar /\ NothingSkipped
  <2>1. OpFits
    BY <1>4, <1>5, <1>6 DEF OpFits
  <2> QED
    BY <1>4, <1>5, <2>1 DEF OnItsRow, EraseSoFar, NothingSkipped
<1>12. DirsNamed
  BY <1>a, <1>3, <1>5, <1>6 DEF DirsNamed
<1>13. StaysAway
  BY <1>a, <1>3, <1>4, <1>7 DEF StaysAway
<1>14. LossesNoted
  <2>1. \A s \in Stores : disk[s].unsent => s[2] = "outbox" /\ disk[s].db # 0
    BY <1>2
  <2>2. op.at \notin {"rebuild", "outbox", "opened", "check"}
    BY <1>4
  <2>3. /\ ~(owed.all > owed.recorded) /\ ~(owed.recorded > owed.settled) /\ ~(owed.read > 0)
        /\ owed.read <= losses.newest
    BY <1>8
  <2> QED
    BY <1>4, <1>6, <1>7, <2>1, <2>2, <2>3 DEF LossesNoted
<1> QED
  BY <1>9, <1>10, <1>11, <1>12, <1>13, <1>14 DEF Inv, LocalInv

\* Nothing happens.
LEMMA StutterKeeps ==
  ASSUME Inv, UNCHANGED vars
  PROVE  Inv'
<1>a. Parts
  BY InvIsParts
<1>b. /\ UNCHANGED <<op, rows, slot, disk, dirs, processVars, lost, stray, hushed>>
      /\ locked' = locked /\ losses' = losses /\ owed' = owed
  BY DEF vars, diskVars, lossVars
<1>1. locked \in BOOLEAN /\ losses \in [newest: Nat, unacked: BOOLEAN] /\ owed \in Owed
  BY <1>a DEF Parts, TypeOK
<1>2. /\ owed.read <= losses.newest
      /\ ~hushed =>
           /\ owed.recorded > owed.settled => losses.unacked
           /\ owed.read > 0 /\ owed.read = losses.newest => owed.of >= owed.recorded
  BY <1>a DEF Parts, LossesNoted
<1>3. /\ locked' \in BOOLEAN /\ losses' \in [newest: Nat, unacked: BOOLEAN] /\ owed' \in Owed
      /\ owed'.all = owed.all /\ owed'.recorded = owed.recorded /\ owed'.read <= losses'.newest
  BY <1>b, <1>1, <1>2
<1>4. ~hushed =>
        /\ owed'.recorded > owed'.settled => losses'.unacked
        /\ owed'.read > 0 /\ owed'.read = losses'.newest => owed'.of >= owed'.recorded
  BY <1>b, <1>2
<1> QED
  BY <1>b, <1>3, <1>4, ToldKeeps

\* Inv is inductive.
LEMMA NextKeeps ==
  ASSUME Inv, [Next]_vars
  PROVE  Inv'
<1>1. CASE Opens
  BY <1>1, OpensKeep
<1>2. CASE Erases
  BY <1>2, ErasesKeep
<1>3. CASE Reconciles
  BY <1>3, ReconcilingKeeps, DropsKeep, EnabledKeeps DEF Reconciles, Reconciling
<1>4. CASE OpensUser
  BY <1>4, OpensUserKeeps, DropsKeep, StoreIdKeeps, RebuildKeeps, UserOpenedKeeps DEF OpensUser, OpeningForUser
<1>5. CASE Forgets
  BY <1>5, ForgetKeeps, DoomKeeps, DropsKeep, ForgottenKeeps, LogoutKeeps DEF Forgets
<1>6. CASE OthersData
  BY <1>6, OthersDataKeeps
<1>7. CASE Outer
  BY <1>7, OuterKeeps
<1>8. CASE UNCHANGED vars
  BY <1>8, StutterKeeps
<1> QED
  BY <1>1, <1>2, <1>3, <1>4, <1>5, <1>6, <1>7, <1>8 DEF Next

\* What LocalData's operations rely on is so in every reachable state.
THEOREM StaysInv == Spec => []Inv
<1>1. Init => Inv
  BY InitHolds
<1>2. Inv /\ [Next]_vars => Inv'
  BY NextKeeps
<1> QED
  BY <1>1, <1>2, PTL DEF Spec

\* LocalInv: the stores open are their user's and not being wiped, and no key or database is
\* left that the index does not lead to, except where the index itself was lost (local.rs).
THEOREM StoresAreNamed == Spec => []LocalInv
<1>1. Inv => LocalInv
  BY DEF Inv
<1> QED
  BY <1>1, StaysInv, PTL

\* ForgottenIsGone: once sign_out_and_forget answered Ok nothing of that user is on the device
\* until the next sign-in, unless local data was turned on meanwhile (client_offline.rs).
THEOREM ForgottenStaysGone == Spec => []ForgottenIsGone
<1>1. Inv => ForgottenIsGone
  BY InvIsParts DEF Parts, StaysAway, Away, ForgottenIsGone
<1> QED
  BY <1>1, StaysInv, PTL

\* LossIsSaid: unsent messages lost without their user's asking are said to be until that loss, or
\* a later one, is acknowledged (lost_unsent, Losses), except those `hushed` names.
THEOREM LossesAreSaid == Spec => []LossIsSaid
<1>1. ASSUME Inv PROVE LossIsSaid
  <2> SUFFICES ASSUME Idle, ~hushed, owed.all > owed.settled PROVE lost \/ losses.unacked
    BY DEF LossIsSaid
  <2>a. Parts
    BY <1>1, InvIsParts
  <2>1. op.at = "rest"
    BY <2>a DEF Parts, OpFits, Idle
  <2>2. ~Noting
    BY <2>1 DEF Noting
  <2>3. owed.all \in Nat /\ owed.recorded \in Nat /\ owed.settled \in Nat
    BY <2>a DEF Parts, TypeOK, Owed
  <2>4. /\ owed.all > owed.recorded => lost
        /\ owed.recorded > owed.settled => losses.unacked
    BY <2>a, <2>2 DEF Parts, LossesNoted
  <2> QED
    BY <2>3, <2>4
<1> QED
  BY <1>1, StaysInv, PTL

\* ReconcileFinishes: a start that nothing refused leaves no doomed row and no directory that no
\* row names (reconcile).
THEOREM ReconcilesAll == Spec => ReconcileFinishes
<1>1. ASSUME Inv, [Next]_vars, ~on, on', ~op.refused
      PROVE  Doomed = {} /\ dirs \subseteq Named
  <2>1. Parts
    BY <1>1, InvIsParts
  <2>2. ~(on' = on)
    BY <1>1
  <2>3. Next
    BY <2>2, <1>1 DEF vars, processVars
  <2>4. Enabled
    <3>1. ~Opens
      BY <2>2 DEF Opens, OpenKey, OpenNew, OpenFits, OpenRemake, OpenOther, OpenMake, OpenCheck, OpenFails,
         StoreStep, processVars
    <3>2. ~Erases
      BY <2>2 DEF Erases, Destroy, RemoveFiles, RemoveDir, EraseFails, EraseStep, processVars
    <3>3. Reconciles => Enabled
      BY <2>2 DEF Reconciles, Enable, EnableIndex, ListDoomed, EraseDoomed, DoomedErased, EraseStray,
         StrayCounted, StrayErased, processVars
    <3>4. ~OpensUser
      BY <2>2 DEF OpensUser, Watch, OpenUser, UserErased, StoreId, CacheOpened, OutboxOpened, Rebuild, UserOpened,
         processVars
    <3>5. ~Forgets
      BY <2>2 DEF Forgets, Forget, Doom, WipeErased, Forgotten, Logout, processVars
    <3>6. ~OthersData
      BY <1>1 DEF OthersData, WipeOthers, WipeNext, ListOthers, ListNext, CloseLocalData, processVars
    <3>7. ~Outer
      BY <1>1 DEF Outer, SignIn, SignOut, Queue, ReadLoss, Acknowledge, LockKeys, Lose, Damage, Upgrade, Crash,
         Outer0, processVars
    <3> QED
      BY <2>3, <3>1, <3>2, <3>3, <3>4, <3>5, <3>6, <3>7 DEF Next
  <2>5. op.at = "reconciled" /\ op.kind = "enable"
    BY <2>1, <2>4 DEF Enabled, At, Parts, OpFits, EnableStages
  <2> QED
    BY <1>1, <2>1, <2>5 DEF Parts, NothingSkipped
<1>2. Inv /\ [Next]_vars => [~on /\ on' /\ ~op.refused => Doomed = {} /\ dirs \subseteq Named]_vars
  BY <1>1
<1> QED
  BY <1>2, StaysInv, PTL DEF Spec, ReconcileFinishes
=============================================================================
