----------------------------- MODULE Membership -----------------------------
(***************************************************************************)
(* Who belongs to a channel, who owns it, and how far each member has read *)
(* (services/api/app/routers/channels.py), under concurrent requests.      *)
(*                                                                         *)
(* Requests run on Postgres under READ COMMITTED.  What a request changes  *)
(* becomes visible at its commit; until then it holds the lock of the      *)
(* change counter (every change is stamped: ChangeCounter) and that of the *)
(* channel's row, if it touches it.  Removal and the ownership offers lock *)
(* the channel first, with FOR UPDATE, and decide under that lock; the     *)
(* others decide on what they read, then take the counter, and reach the   *)
(* channel's row last (its seq, or the foreign key of what they insert).   *)
(***************************************************************************)
EXTENDS Integers, FiniteSets

CONSTANTS
  Users,
  Admins,       \* global admins
  Creator,      \* the admin who created the channel
  Reqs,         \* requests being served
  Nobody,       \* not a user, not a request
  MaxMessages   \* bound: messages sent

ASSUME UsersAssumption ==
  Admins \subseteq Users /\ Creator \in Admins /\ Nobody \notin Users \cup Reqs
ASSUME BoundAssumption == MaxMessages \in Nat

VARIABLES
  (* the database, committed *)
  exists,   \* the channel does
  role,     \* of each user's membership, "none" without one
  marker,   \* last_read_message_id, 0 for none; messages are numbered
  offers,   \* owner_offers: who offered a user ownership
  newest,   \* the last message
  (* row locks *)
  stamping, \* the request that has the change counter's row
  chan,     \* the request that has the channel's row
  (* the requests *)
  place, task,
  saw       \* what it read of a marker, or of the newest message

committedVars == <<exists, role, marker, offers, newest>>
lockVars      == <<stamping, chan>>
reqVars       == <<place, task, saw>>
membersVars   == <<committedVars, lockVars, reqVars>>

\* Removal and offers: serialised by the channel's lock.
Locking == {"remove", "offer", "withdraw", "accept", "decline"}
Others  == {"add", "join", "delete", "send", "read"}

\* `who` is the caller where the request names no one else, `msg` the message
\* of a read marker, 0 for the newest.
Task == [op: Locking \cup Others, by: Users, who: Users, msg: Nat]

NamesSomeone(op) == op \in {"remove", "offer", "withdraw", "add"}

Fitting(k) == (k.who = k.by \/ NamesSomeone(k.op)) /\ (k.msg = 0 \/ k.op = "read")

Requests ==
  {k \in [op: Locking \cup Others, by: Users, who: Users, msg: 0..MaxMessages] : Fitting(k)}

NoTask == [op |-> "read", by |-> Creator, who |-> Creator, msg |-> 0]

MembersTypeOK ==
  /\ exists \in {"yes", "no"} /\ role \in [Users -> {"none", "member", "owner"}]
  /\ marker \in [Users -> Nat] /\ offers \in [Users -> Users \cup {Nobody}] /\ newest \in Nat
  /\ stamping \in Reqs \cup {Nobody} /\ chan \in Reqs \cup {Nobody}
  /\ place \in [Reqs -> {"idle", "start", "locked", "asked", "decided", "counter", "write"}]
  /\ task \in [Reqs -> Task] /\ saw \in [Reqs -> Nat]
  /\ \A r \in Reqs : Fitting(task[r])

\* create_channel
MembersInit ==
  /\ exists = "yes" /\ role = [u \in Users |-> IF u = Creator THEN "owner" ELSE "none"]
  /\ marker = [u \in Users |-> 0] /\ offers = [u \in Users |-> Nobody] /\ newest = 0
  /\ stamping = Nobody /\ chan = Nobody
  /\ place = [r \in Reqs |-> "idle"] /\ task = [r \in Reqs |-> NoTask]
  /\ saw = [r \in Reqs |-> 0]

-----------------------------------------------------------------------------
IsMember(u) == role[u] # "none"

\* A global admin, or an owner of the channel.
Manages(u) == u \in Admins \/ role[u] = "owner"

Op(r)  == task[r].op
By(r)  == task[r].by
Who(r) == task[r].who

Goto(r, l) == place' = [place EXCEPT ![r] = l]

\* The request is answered, its transaction over, its locks released.
End(r) ==
  /\ Goto(r, "idle")
  /\ task' = [task EXCEPT ![r] = NoTask] /\ saw' = [saw EXCEPT ![r] = 0]
  /\ stamping' = IF stamping = r THEN Nobody ELSE stamping
  /\ chan' = IF chan = r THEN Nobody ELSE chan

Fail(r) == End(r) /\ UNCHANGED committedVars

\* The bound on messages counts those on their way.
Room == newest + Cardinality({r \in Reqs : Op(r) = "send"}) < MaxMessages

Start(r, k) ==
  /\ place[r] = "idle" /\ Goto(r, "start")
  /\ k.op = "send" => Room
  /\ task' = [task EXCEPT ![r] = k]
  /\ UNCHANGED <<committedVars, lockVars, saw>>

-----------------------------------------------------------------------------
(* Removal and offers.                                                     *)

\* Mutant of LockChannel: an ordinary read of the channel.
ReadChannel(r) ==
  /\ place[r] = "start" /\ Op(r) \in Locking
  /\ Goto(r, "locked") /\ UNCHANGED <<committedVars, lockVars, task, saw>>

\* SELECT ... FOR UPDATE of the channel.
LockChannel(r) ==
  /\ place[r] = "start" /\ Op(r) \in Locking
  /\ chan = Nobody /\ chan' = r
  /\ Goto(r, "locked") /\ UNCHANGED <<committedVars, stamping, task, saw>>

AnotherOwner(u) == \E w \in Users \ {u} : role[w] = "owner"

MayRemove(by, who) ==
  /\ IsMember(by) \/ by \in Admins
  /\ by = who \/ Manages(by)
  /\ IsMember(who)
  /\ role[who] = "owner" => (by = who \/ by \in Admins) /\ AnotherOwner(who)

\* An offer that is there already is answered as it is.
MayOffer(by, who)    == Manages(by) /\ role[who] = "member" /\ offers[who] = Nobody
MayWithdraw(by, who) == Manages(by) /\ offers[who] # Nobody
MayAccept(by)        == IsMember(by) /\ offers[by] # Nobody
MayDecline(by)       == (IsMember(by) \/ by \in Admins) /\ offers[by] # Nobody

MayLocking(k) ==
  \/ k.op = "remove"   /\ MayRemove(k.by, k.who)
  \/ k.op = "offer"    /\ MayOffer(k.by, k.who)
  \/ k.op = "withdraw" /\ MayWithdraw(k.by, k.who)
  \/ k.op = "accept"   /\ MayAccept(k.by)
  \/ k.op = "decline"  /\ MayDecline(k.by)

\* What it reads under the lock, and what it may do by that.
Decide(r) ==
  /\ place[r] = "locked" /\ exists = "yes" /\ MayLocking(task[r])
  /\ Goto(r, "decided") /\ UNCHANGED <<committedVars, lockVars, task, saw>>

Refuse(r) ==
  /\ place[r] = "locked" /\ ~(exists = "yes" /\ MayLocking(task[r]))
  /\ Fail(r)

\* The offers left when u has gone: those to u and those u made go too.
RemovedOffers(u) == [w \in Users |-> IF w = u \/ offers[w] = u THEN Nobody ELSE offers[w]]

CommitLocking(r) ==
  /\ place[r] = "write" /\ Op(r) \in Locking
  /\ \/ /\ Op(r) = "remove"
        /\ role' = [role EXCEPT ![Who(r)] = "none"]
        /\ marker' = [marker EXCEPT ![Who(r)] = 0]
        /\ offers' = RemovedOffers(Who(r))
     \/ /\ Op(r) = "offer" /\ offers' = [offers EXCEPT ![Who(r)] = By(r)]
        /\ UNCHANGED <<role, marker>>
     \/ /\ Op(r) = "accept" /\ role' = [role EXCEPT ![By(r)] = "owner"]
        /\ offers' = [offers EXCEPT ![By(r)] = Nobody] /\ UNCHANGED marker
     \/ /\ Op(r) \in {"withdraw", "decline"} /\ offers' = [offers EXCEPT ![Who(r)] = Nobody]
        /\ UNCHANGED <<role, marker>>
  /\ End(r) /\ UNCHANGED <<exists, newest>>

-----------------------------------------------------------------------------
(* Adding and joining, deleting, sending, marking read.                    *)

\* The caller and the channel, as first read.  A public channel, not archived.
MayAsk(k) ==
  /\ exists = "yes"
  /\ k.op \in {"add", "delete"} => Manages(k.by)
  /\ k.op \in {"send", "read"} => IsMember(k.by)

\* Of a request to mark read, the membership read here is the one it writes to.
Ask(r) ==
  /\ place[r] = "start" /\ Op(r) \in Others /\ MayAsk(task[r])
  /\ saw' = IF Op(r) = "read" THEN [saw EXCEPT ![r] = marker[By(r)]] ELSE saw
  /\ Goto(r, IF Op(r) \in {"delete", "send"} THEN "decided" ELSE "asked")
  /\ UNCHANGED <<committedVars, lockVars, task>>

Denied(r) ==
  /\ place[r] = "start" /\ Op(r) \in Others /\ ~MayAsk(task[r])
  /\ Fail(r)

\* add_member, join_channel: whom it is about, and the newest message.
LookUp(r) ==
  /\ place[r] = "asked" /\ Op(r) \in {"add", "join"} /\ ~IsMember(Who(r))
  /\ saw' = [saw EXCEPT ![r] = newest]
  /\ Goto(r, "decided") /\ UNCHANGED <<committedVars, lockVars, task>>

Target(k) == IF k.msg = 0 THEN newest ELSE k.msg

\* Mutant of Known: any id will do.
KnownAlways(k) == Target(k) # 0

\* A message of the channel, or its newest if it has any.
Known(k) == Target(k) \in 1..newest

\* mark_read: the message is known, and ahead of the marker that was read.
Ahead(r) == Known(task[r]) /\ Target(task[r]) > saw[r]

FindMessage(r) ==
  /\ place[r] = "asked" /\ Op(r) = "read" /\ Ahead(r)
  /\ task' = [task EXCEPT ![r].msg = Target(task[r])]
  /\ Goto(r, "decided") /\ UNCHANGED <<committedVars, lockVars, saw>>

\* A member already, no such message, or nothing to advance.
NothingToDo(r) ==
  /\ place[r] = "asked" /\ Fail(r)
  /\ \/ Op(r) \in {"add", "join"} /\ IsMember(Who(r))
     \/ Op(r) = "read" /\ ~Ahead(r)

\* The first change of the transaction is flushed: it takes the counter.
TakeCounter(r) ==
  /\ place[r] = "decided" /\ stamping = Nobody /\ stamping' = r
  /\ Goto(r, IF Op(r) \in Others \ {"read"} THEN "counter" ELSE "write")
  /\ UNCHANGED <<committedVars, chan, task, saw>>

\* Its statements reach the channel's row.
TakeChannel(r) ==
  /\ place[r] = "counter" /\ chan = Nobody /\ exists = "yes" /\ chan' = r
  /\ Goto(r, "write") /\ UNCHANGED <<committedVars, stamping, task, saw>>

\* No channel any more, a membership that is there already (its key), or none
\* to update: the flush fails, and the request with it.
Fails(r) ==
  \/ place[r] = "counter" /\ chan = Nobody /\ exists = "no"
  \/ place[r] = "write" /\ Op(r) \in {"add", "join"} /\ IsMember(Who(r))
  \/ place[r] = "write" /\ Op(r) = "read" /\ ~IsMember(By(r))

FlushFails(r) == Fails(r) /\ Fail(r)

CommitMember(r) ==
  /\ place[r] = "write" /\ Op(r) \in {"add", "join"} /\ ~IsMember(Who(r))
  /\ role' = [role EXCEPT ![Who(r)] = "member"]
  /\ marker' = [marker EXCEPT ![Who(r)] = saw[r]]
  /\ End(r) /\ UNCHANGED <<exists, offers, newest>>

\* delete_channel: the database's cascade deletes memberships and offers.
CommitDelete(r) ==
  /\ place[r] = "write" /\ Op(r) = "delete"
  /\ exists' = "no" /\ role' = [u \in Users |-> "none"] /\ marker' = [u \in Users |-> 0]
  /\ offers' = [u \in Users |-> Nobody]
  /\ End(r) /\ UNCHANGED newest

\* send_message reads the membership again once its message is in: the sender
\* may have gone meanwhile, and has read the message.
CommitSend(r) ==
  /\ place[r] = "write" /\ Op(r) = "send"
  /\ newest' = newest + 1
  /\ marker' = IF IsMember(By(r)) /\ newest + 1 > marker[By(r)]
                THEN [marker EXCEPT ![By(r)] = newest + 1] ELSE marker
  /\ End(r) /\ UNCHANGED <<exists, role, offers>>

CommitRead(r) ==
  /\ place[r] = "write" /\ Op(r) = "read" /\ IsMember(By(r))
  /\ marker' = [marker EXCEPT ![By(r)] = task[r].msg]
  /\ End(r) /\ UNCHANGED <<exists, role, offers, newest>>

-----------------------------------------------------------------------------
\* Each waits for a row the other has.
WaitingFor(r, q) ==
  \/ place[r] = "start" /\ Op(r) \in Locking /\ chan = q
  \/ place[r] = "counter" /\ chan = q
  \/ place[r] = "decided" /\ stamping = q

Stuck(r) == \E q \in Reqs : WaitingFor(r, q) /\ WaitingFor(q, r)

\* Postgres finds the cycle and aborts one of them.
Victim(r) == Stuck(r) /\ Fail(r)

Serve(r) ==
  \/ \E k \in Requests : Start(r, k)
  \/ LockChannel(r) \/ Decide(r) \/ Refuse(r) \/ CommitLocking(r)
  \/ Ask(r) \/ Denied(r) \/ LookUp(r) \/ FindMessage(r) \/ NothingToDo(r)
  \/ TakeCounter(r) \/ TakeChannel(r) \/ FlushFails(r) \/ Victim(r)
  \/ CommitMember(r) \/ CommitDelete(r) \/ CommitSend(r) \/ CommitRead(r)

MembersNext == \E r \in Reqs : Serve(r)

MembersSpec == MembersInit /\ [][MembersNext]_membersVars

-----------------------------------------------------------------------------
(* What the locks and checks are for.                                      *)

\* While the channel exists somebody owns it, whoever leaves or is removed at
\* once ("two owners leaving at once must not both count the other as still
\* there (READ COMMITTED), which would leave the channel ownerless").
KeepsOwner == exists = "yes" => \E u \in Users : role[u] = "owner"

\* A pending offer is to a member who isn't an owner, from somebody who may still
\* make it: accept_ownership trusts it as it stands ("whoever made it had the
\* authority then, and it can't outlive that today").
OffersStand ==
  \A u \in Users : offers[u] # Nobody => role[u] = "member" /\ Manages(offers[u])

\* Nobody becomes an owner but by an offer that is pending at that moment: one
\* withdrawn, or gone with its maker, can't be accepted any more.
OwnedByOffer ==
  [][\A u \in Users : role[u] # "owner" /\ role'[u] = "owner" => offers[u] # Nobody]_membersVars

\* No request moves a marker back ("Only ever advance the marker").  The code
\* does not keep it: see README, section 5.
MarkerAdvances ==
  [][\A u \in Users : IsMember(u) /\ IsMember(u)' => marker'[u] >= marker[u]]_membersVars

\* Requests wait for each other in turn: "change-writing transactions commit one at
\* a time" (the design of the change sequence).  The code does not keep it: see
\* README, section 5.
NoneStuck == \A r \in Reqs : ~Stuck(r)

-----------------------------------------------------------------------------
(* The inductive invariant (proved in DeliveryProofs).                     *)

HasCounter(r) == place[r] \in {"counter", "write"}

HasChannel(r) ==
  \/ place[r] = "locked"
  \/ place[r] = "decided" /\ Op(r) \in Locking
  \/ place[r] = "write" /\ Op(r) # "read"

\* A lock's holder is the one whose step says so.
LocksHeld ==
  \A r \in Reqs :
    /\ stamping = r <=> HasCounter(r)
    /\ chan = r <=> HasChannel(r)
    /\ place[r] = "locked" => Op(r) \in Locking
    /\ place[r] \in {"asked", "counter"} => Op(r) \in Others
    /\ place[r] = "counter" => Op(r) # "read"

\* What was decided under the channel's lock still holds when it is done.
DecisionHolds ==
  \A r \in Reqs : place[r] \in {"decided", "write"} /\ Op(r) \in Locking
                   => exists = "yes" /\ MayLocking(task[r])

\* Nobody has read past the newest message ("a client could set a future marker
\* and permanently suppress its own unread count").
MarkersSent ==
  /\ \A u \in Users : marker[u] <= newest
  /\ \A r \in Reqs : saw[r] <= newest
  /\ \A r \in Reqs : place[r] \in {"decided", "write"} => task[r].msg <= newest

MembersInv == MembersTypeOK /\ LocksHeld /\ DecisionHolds /\ MarkersSent /\ KeepsOwner /\ OffersStand
=============================================================================
