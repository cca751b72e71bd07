------------------------------- MODULE Outbox -------------------------------
(***************************************************************************)
(* The client core's durable send queue (core/src/outbox.rs) together with *)
(* the two things it is only correct against: the session it sends under   *)
(* (core/src/offline.rs, client_offline.rs, cache_http.rs) and the         *)
(* server's idempotent POST (services/api/app/routers/channels.py).        *)
(*                                                                         *)
(* One device, one user's outbox, text messages.  An id is a client_id; it *)
(* is used in one channel, its Home.  A message with files goes through    *)
(* the same states with an upload before the POST: that part is left to a  *)
(* module of its own.                                                      *)
(*                                                                         *)
(* Atomicity.  A database call is one step, and so is whatever runs        *)
(* between two awaits.  Calls made back to back under a channel's lock are *)
(* merged where no other step can touch what they read.                    *)
(***************************************************************************)
EXTENDS Integers, Sequences, FiniteSets

CONSTANTS
  Channels,   \* channels of the server
  Ids,        \* client_ids of messages this device sends
  Home,       \* the channel each id is sent to
  Replies,    \* the ids whose message quotes another one
  Callers,    \* concurrent callers of delete_pending
  NoId,       \* no message
  MaxOrdinal, \* bound: rows ever inserted
  MaxEpoch,   \* bound: sign-ins
  MaxFaults,  \* bound: crashes, failed writes and lost answers together
  MaxTrouble  \* bound: sign-ins and faults together

ASSUME HomeAssumption == Home \in [Ids -> Channels]
ASSUME RepliesAssumption == Replies \subseteq Ids
ASSUME NoIdAssumption == NoId \notin Ids
ASSUME BoundsAssumption ==
  MaxOrdinal \in Nat /\ MaxEpoch \in Nat /\ MaxFaults \in Nat /\ MaxTrouble \in Nat

VARIABLES
  (* outbox.db and cache.db: durable *)
  st,       \* state of each id's row, "none" without a row
  err,      \* error of a failed row
  ord,      \* ordinal of the row (of the last row, once it is gone)
  form,     \* "reply" while the row has its reply_to_id, else "plain"
  nextOrd,  \* AUTOINCREMENT: the ordinal of the next row
  cached,   \* ids whose message the cache holds
  (* the Outbox in memory, one sender task and one lock per channel *)
  phase,    \* the outbox is "open" or "closed"
  watch,    \* the session watch: epoch signed in, 0 while signed out
  ep,       \* per channel: epoch the sender read, 0 while it waits
  pc,       \* per channel: what the holder of its lock is doing
  at,       \* per channel: the id the holder works on
  ans,      \* per channel: how far the server got with the POST that is out
  deleting, \* per caller: the row its Delete waits to remove
  (* the client's session store *)
  http,     \* epoch of the session requests are made under, 0 for none
  epoch,    \* the last epoch handed out
  mine,     \* epochs that signed in this outbox's user
  (* the server *)
  log,      \* per channel: this user's messages, in commit order
  late,     \* POSTs still executing that no client waits for any more
  writable, \* channels the user is a member of and that aren't archived
  target,   \* the quoted message is "live" or "deleted"
  (* bookkeeping *)
  faults,   \* faults so far
  owed,     \* history: queued by the user and not deleted by the user
  posted,   \* history: ids a POST has left the device for
  loose,    \* history: ids outside the queue's order (sent directly, deleted,
            \* or queued again after a POST)
  used,     \* history: epochs whose token a POST carried
  told      \* history: what delete_pending last said of an id

rowVars     == <<st, err, ord, form, nextOrd>>
senderVars  == <<ep, pc, at, ans>>
sessionVars == <<http, epoch, mine>>
serverVars  == <<log, late, writable, target>>
history     == <<owed, posted, loose, used, told>>
vars == <<rowVars, cached, phase, watch, senderVars, deleting, sessionVars,
          serverVars, faults, history>>

RowState == {"none", "pending", "sending", "accepted", "failed"}
Code     == {"none", "reply_target_gone", "refused"}
Doing    == {"rest", "held", "out", "ack", "drop", "direct"}
Refusal  == {"reply_target_gone", "refused"}
Answer   == {"none", "looked", "ok", "lost"} \cup Refusal
Form     == {"reply", "plain"}
Sent     == [id: Ids, form: Form]
Request  == [id: Ids, form: Form, stage: {"none", "looked"}]

TypeOK ==
  /\ st \in [Ids -> RowState] /\ err \in [Ids -> Code]
  /\ ord \in [Ids -> Nat] /\ form \in [Ids -> Form]
  /\ nextOrd \in Nat /\ cached \subseteq Ids
  /\ phase \in {"open", "closed"} /\ watch \in Nat
  /\ ep \in [Channels -> Nat] /\ pc \in [Channels -> Doing]
  /\ at \in [Channels -> Ids \cup {NoId}] /\ ans \in [Channels -> Answer]
  /\ deleting \in [Callers -> Ids \cup {NoId}]
  /\ http \in Nat /\ epoch \in Nat /\ mine \subseteq Nat
  /\ log \in [Channels -> Seq(Sent)] /\ late \subseteq Request
  /\ writable \subseteq Channels /\ target \in {"live", "deleted"}
  /\ faults \in Nat
  /\ owed \subseteq Ids /\ posted \subseteq Ids /\ loose \subseteq Ids
  /\ used \subseteq Nat /\ told \in [Ids -> {"nothing", "Removed", "AlreadySent"}]

\* The message as the user wrote it.
FormOf(i) == IF i \in Replies THEN "reply" ELSE "plain"

Init ==
  /\ st = [i \in Ids |-> "none"] /\ err = [i \in Ids |-> "none"]
  /\ ord = [i \in Ids |-> 0] /\ form = [i \in Ids |-> FormOf(i)]
  /\ nextOrd = 1 /\ cached = {}
  /\ phase = "closed" /\ watch = 0
  /\ ep = [c \in Channels |-> 0] /\ pc = [c \in Channels |-> "rest"]
  /\ at = [c \in Channels |-> NoId] /\ ans = [c \in Channels |-> "none"]
  /\ deleting = [u \in Callers |-> NoId]
  /\ http = 0 /\ epoch = 0 /\ mine = {}
  /\ log = [c \in Channels |-> <<>>] /\ late = {}
  /\ writable = Channels /\ target = "live"
  /\ faults = 0
  /\ owed = {} /\ posted = {} /\ loose = {} /\ used = {}
  /\ told = [i \in Ids |-> "nothing"]

-----------------------------------------------------------------------------
(* Rows, locks, faults.                                                    *)

RowsOf(c) == {i \in Ids : Home[i] = c /\ st[i] # "none"}

\* ORDER BY ordinal LIMIT 1
Heads(c) == {i \in RowsOf(c) : \A j \in RowsOf(c) : ord[i] <= ord[j]}

\* The ids whose message the server has.
Stored == {i \in Ids : \E k \in DOMAIN log[Home[i]] : log[Home[i]][k].id = i}

\* The channel's lock is free: between two attempts, and no direct send.
Unlocked(c) == pc[c] = "rest"

Fault ==
  /\ faults < MaxFaults /\ faults + epoch < MaxTrouble
  /\ faults' = faults + 1

\* `current`: the session is still the one the attempt began under.
Current(c) == watch = ep[c]

\* What an attempt that learnt nothing leaves the row as.
Waiting(i) == IF st[i] = "accepted" THEN "accepted" ELSE "pending"

\* The holder lets the lock go.
Release(c) ==
  /\ pc' = [pc EXCEPT ![c] = "rest"] /\ at' = [at EXCEPT ![c] = NoId]
  /\ ep' = [ep EXCEPT ![c] = 0] /\ ans' = [ans EXCEPT ![c] = "none"]

\* The POST leaves the device for the message the lock holder works on.
Departs(c, i, doing) ==
  /\ pc' = [pc EXCEPT ![c] = doing] /\ at' = [at EXCEPT ![c] = i]
  /\ posted' = posted \cup {i} /\ used' = used \cup {http}

\* The request the server executes for the holder, and whether it still does.
RequestOf(c) == [id |-> at[c], form |-> form[at[c]], stage |-> ans[c]]
Executing(c) == pc[c] \in {"out", "direct"} /\ ans[c] \in {"none", "looked"}
Abandoned(c) == IF Executing(c) THEN {RequestOf(c)} ELSE {}

-----------------------------------------------------------------------------
(* The session, and the outbox that follows it.                            *)

\* A sign-in, of this user or of another one, with or without a
\* sign-out before it.
SignIn(who) ==
  /\ epoch < MaxEpoch /\ faults + epoch < MaxTrouble
  /\ epoch' = epoch + 1 /\ http' = epoch + 1
  /\ mine' = IF who = "me" THEN mine \cup {epoch + 1} ELSE mine
  /\ UNCHANGED <<rowVars, cached, phase, watch, senderVars, deleting, serverVars,
                 faults, history>>

\* (The epoch it takes for itself is left out: no session has it.)
SignOut ==
  /\ http # 0 /\ http' = 0
  /\ UNCHANGED <<rowVars, cached, phase, watch, senderVars, deleting, epoch, mine,
                 serverVars, faults, history>>

\* Offline::signed_in for the user whose stores are open, Offline::signed_out:
\* the watcher catches up with the session store.
Follow ==
  /\ phase = "open" /\ watch # http /\ http \in mine \cup {0}
  /\ watch' = http
  /\ UNCHANGED <<rowVars, cached, phase, senderVars, deleting, sessionVars,
                 serverVars, faults, history>>

\* Offline::signed_in for a user whose stores aren't open: Outbox::open and
\* resume.
Open ==
  /\ phase = "closed" /\ http \in mine
  /\ phase' = "open" /\ watch' = http
  /\ st' = [i \in Ids |-> IF st[i] = "sending" THEN "pending" ELSE st[i]]
  /\ UNCHANGED <<err, ord, form, nextOrd, cached, senderVars, deleting,
                 sessionVars, serverVars, faults, history>>

\* Everything in memory goes; POSTs on the wire stay there, in any subset.
Stops ==
  /\ phase = "open" /\ phase' = "closed" /\ watch' = 0
  /\ ep' = [c \in Channels |-> 0] /\ pc' = [c \in Channels |-> "rest"]
  /\ at' = [c \in Channels |-> NoId] /\ ans' = [c \in Channels |-> "none"]
  /\ deleting' = [u \in Callers |-> NoId]
  /\ late' = late \cup {RequestOf(c) : c \in {d \in Channels : Executing(d)}}
  /\ UNCHANGED <<rowVars, cached, sessionVars, log, writable, target, history>>

\* Another user signed in: close_active.
Close == http \notin mine \cup {0} /\ Stops /\ UNCHANGED faults

Crash == Fault /\ Stops

-----------------------------------------------------------------------------
(* What the user does.                                                     *)

\* enqueue, of an id that has no row.  (With a row it changes nothing.)
Enqueue(i) ==
  /\ phase = "open" /\ st[i] = "none" /\ nextOrd <= MaxOrdinal
  /\ st' = [st EXCEPT ![i] = "pending"] /\ err' = [err EXCEPT ![i] = "none"]
  /\ ord' = [ord EXCEPT ![i] = nextOrd] /\ nextOrd' = nextOrd + 1
  /\ form' = [form EXCEPT ![i] = FormOf(i)]
  /\ owed' = owed \cup {i}
  /\ loose' = IF i \in posted THEN loose \cup {i} ELSE loose
  /\ UNCHANGED <<cached, phase, watch, senderVars, deleting, sessionVars,
                 serverVars, faults, posted, used, told>>

\* enqueue whose insert fails: send_direct, where nothing is waiting.
SendDirect(i) ==
  LET c == Home[i] IN
  /\ phase = "open" /\ Fault /\ Unlocked(c) /\ watch # 0 /\ RowsOf(c) = {}
  /\ http = watch                  \* otherwise Post::send refuses: NotSent
  /\ Departs(c, i, "direct")
  /\ form' = [form EXCEPT ![i] = FormOf(i)]
  /\ loose' = loose \cup {i}
  /\ UNCHANGED <<st, err, ord, nextOrd, cached, phase, watch, ep, ans, deleting,
                 sessionVars, serverVars, owed, told>>

\* retry_row of a failed row.
Retry(i) ==
  /\ phase = "open" /\ Unlocked(Home[i]) /\ st[i] = "failed"
  /\ st' = [st EXCEPT ![i] = "pending"] /\ err' = [err EXCEPT ![i] = "none"]
  /\ UNCHANGED <<ord, form, nextOrd, cached, phase, watch, senderVars, deleting,
                 sessionVars, serverVars, faults, history>>

\* retry_without_reply: only a row refused because of its quote.
RetryWithoutReply(i) ==
  /\ phase = "open" /\ Unlocked(Home[i])
  /\ st[i] = "failed" /\ err[i] = "reply_target_gone"
  /\ st' = [st EXCEPT ![i] = "pending"] /\ err' = [err EXCEPT ![i] = "none"]
  /\ form' = [form EXCEPT ![i] = "plain"]
  /\ UNCHANGED <<ord, nextOrd, cached, phase, watch, senderVars, deleting,
                 sessionVars, serverVars, faults, history>>

\* delete_pending up to its wait for the lock.
AskDelete(u, i) ==
  /\ phase = "open" /\ deleting[u] = NoId /\ st[i] # "none"
  /\ deleting' = [deleting EXCEPT ![u] = i]
  /\ UNCHANGED <<rowVars, cached, phase, watch, senderVars, sessionVars,
                 serverVars, faults, history>>

\* Mutant of DoDelete: no answer when the row is gone.
DoDeletePresent(u) ==
  LET i == deleting[u] IN
  /\ phase = "open" /\ i # NoId /\ Unlocked(Home[i]) /\ st[i] # "none"
  /\ deleting' = [deleting EXCEPT ![u] = NoId]
  /\ st' = [st EXCEPT ![i] = "none"]
  /\ told' = [told EXCEPT ![i] = IF st[i] = "accepted" THEN "AlreadySent" ELSE "Removed"]
  /\ owed' = owed \ {i} /\ loose' = loose \cup {i}
  /\ UNCHANGED <<err, ord, form, nextOrd, cached, phase, watch, senderVars,
                 sessionVars, serverVars, faults, posted, used>>

\* delete_pending from there on: remove_row, and what it found.
DoDelete(u) ==
  LET i == deleting[u] IN
  /\ phase = "open" /\ i # NoId /\ Unlocked(Home[i])
  /\ deleting' = [deleting EXCEPT ![u] = NoId]
  /\ st' = [st EXCEPT ![i] = "none"]
  /\ told' = [told EXCEPT ![i] = IF st[i] \in {"none", "accepted"}
                                 THEN "AlreadySent" ELSE "Removed"]
  /\ owed' = IF st[i] = "none" THEN owed ELSE owed \ {i}
  /\ loose' = IF st[i] = "none" THEN loose ELSE loose \cup {i}
  /\ UNCHANGED <<err, ord, form, nextOrd, cached, phase, watch, senderVars,
                 sessionVars, serverVars, faults, posted, used>>

\* The store can't remove it: the caller gets the error.
DeleteFails(u) ==
  /\ phase = "open" /\ deleting[u] # NoId /\ Unlocked(Home[deleting[u]]) /\ Fault
  /\ deleting' = [deleting EXCEPT ![u] = NoId]
  /\ UNCHANGED <<rowVars, cached, phase, watch, senderVars, sessionVars,
                 serverVars, history>>

-----------------------------------------------------------------------------
(* run_channel and attempt: the channel's sender.                          *)

\* signed_in().await: paused while signed out.
Wake(c) ==
  /\ phase = "open" /\ ep[c] = 0 /\ watch # 0
  /\ ep' = [ep EXCEPT ![c] = watch]
  /\ UNCHANGED <<rowVars, cached, phase, watch, pc, at, ans, deleting, sessionVars,
                 serverVars, faults, history>>

\* Mutant of Take: only a pending row, so one whose attempt couldn't be recorded
\* stays "sending" for good.
TakePending(c) ==
  /\ phase = "open" /\ Unlocked(c) /\ ep[c] # 0
  /\ \E i \in Heads(c) :
       /\ st[i] = "pending"
       /\ st' = [st EXCEPT ![i] = "sending"] /\ err' = [err EXCEPT ![i] = "none"]
       /\ pc' = [pc EXCEPT ![c] = "held"] /\ at' = [at EXCEPT ![c] = i]
  /\ UNCHANGED <<ord, form, nextOrd, cached, phase, watch, ep, ans, deleting,
                 sessionVars, serverVars, faults, history>>

\* The lock, next_row, and the row marked sending.
Take(c) ==
  /\ phase = "open" /\ Unlocked(c) /\ ep[c] # 0
  /\ \E i \in Heads(c) :
       /\ st[i] # "failed"
       /\ st' = [st EXCEPT ![i] = IF @ = "accepted" THEN @ ELSE "sending"]
       /\ err' = [err EXCEPT ![i] = "none"]
       /\ pc' = [pc EXCEPT ![c] = "held"] /\ at' = [at EXCEPT ![c] = i]
  /\ UNCHANGED <<ord, form, nextOrd, cached, phase, watch, ep, ans, deleting,
                 sessionVars, serverVars, faults, history>>

\* Nothing waiting, or a failed row first: idle, until woken.
Idle(c) ==
  /\ phase = "open" /\ Unlocked(c) /\ ep[c] # 0
  /\ \A i \in Heads(c) : st[i] = "failed"
  /\ ep' = [ep EXCEPT ![c] = 0]
  /\ UNCHANGED <<rowVars, cached, phase, watch, pc, at, ans, deleting, sessionVars,
                 serverVars, faults, history>>

\* A store that can't be read, or can't mark the row: the sender waits too.
CantStart(c) ==
  /\ phase = "open" /\ Unlocked(c) /\ ep[c] # 0 /\ Fault
  /\ ep' = [ep EXCEPT ![c] = 0]
  /\ UNCHANGED <<rowVars, cached, phase, watch, pc, at, ans, deleting, sessionVars,
                 serverVars, history>>

\* Mutant of Post: sent under whatever session the store holds.
PostAnySession(c) ==
  /\ phase = "open" /\ pc[c] = "held" /\ Current(c) /\ http # 0
  /\ Departs(c, at[c], "out")
  /\ UNCHANGED <<rowVars, cached, phase, watch, ep, ans, deleting, sessionVars,
                 serverVars, faults, owed, loose, told>>

\* The POST, under the attempt's epoch only: `current` looks at the watch,
\* Post::send at the session store.
Post(c) ==
  /\ phase = "open" /\ pc[c] = "held" /\ Current(c) /\ http = ep[c]
  /\ Departs(c, at[c], "out")
  /\ UNCHANGED <<rowVars, cached, phase, watch, ep, ans, deleting, sessionVars,
                 serverVars, faults, owed, loose, told>>

\* No answer the client can use: a lost connection, a 5xx, 401, 408 or 429, an
\* unreadable body.  The request may be executing still.
Lost(c) ==
  /\ phase = "open" /\ pc[c] = "out" /\ ans[c] # "lost" /\ Fault
  /\ late' = late \cup Abandoned(c)
  /\ ans' = [ans EXCEPT ![c] = "lost"]
  /\ UNCHANGED <<rowVars, cached, phase, watch, ep, pc, at, deleting, sessionVars,
                 log, writable, target, history>>

\* The row waits for the next attempt: nothing was sent, nothing came back, or
\* the session moved on meanwhile and the answer isn't applied.
GiveBack(c) ==
  /\ phase = "open"
  /\ \/ pc[c] = "held" /\ ~(Current(c) /\ http = ep[c])
     \/ pc[c] = "out" /\ ans[c] = "lost"
     \/ pc[c] = "out" /\ ~Executing(c) /\ ~Current(c)
  /\ st' = [st EXCEPT ![at[c]] = Waiting(at[c])]
  /\ Release(c)
  /\ UNCHANGED <<err, ord, form, nextOrd, cached, phase, watch, deleting,
                 sessionVars, serverVars, faults, history>>

\* Mutant of Acked: any answer counts as the message.
AckedUnread(c) ==
  /\ phase = "open" /\ pc[c] = "out" /\ ans[c] \in {"ok", "lost"} /\ Current(c)
  /\ pc' = [pc EXCEPT ![c] = "ack"]
  /\ UNCHANGED <<rowVars, cached, phase, watch, ep, at, ans, deleting, sessionVars,
                 serverVars, faults, history>>

\* The stored message came back.
Acked(c) ==
  /\ phase = "open" /\ pc[c] = "out" /\ ans[c] = "ok" /\ Current(c)
  /\ pc' = [pc EXCEPT ![c] = "ack"]
  /\ UNCHANGED <<rowVars, cached, phase, watch, ep, at, ans, deleting, sessionVars,
                 serverVars, faults, history>>

Refused(c) ==
  /\ phase = "open" /\ pc[c] = "out" /\ ans[c] \in Refusal /\ Current(c)
  /\ st[at[c]] # "accepted"
  /\ st' = [st EXCEPT ![at[c]] = "failed"] /\ err' = [err EXCEPT ![at[c]] = ans[c]]
  /\ Release(c)
  /\ UNCHANGED <<ord, form, nextOrd, cached, phase, watch, deleting, sessionVars,
                 serverVars, faults, history>>

\* A refusal of an accepted row: it can't be fetched back, and stays sent.
RefusedSent(c) ==
  /\ phase = "open" /\ pc[c] = "out" /\ ans[c] \in Refusal /\ Current(c)
  /\ st[at[c]] = "accepted"
  /\ pc' = [pc EXCEPT ![c] = "drop"]
  /\ UNCHANGED <<rowVars, cached, phase, watch, ep, at, ans, deleting, sessionVars,
                 serverVars, faults, history>>

\* apply_ack: the message into the cache, committed, before the row goes.
ApplyAck(c) ==
  /\ phase = "open" /\ pc[c] = "ack"
  /\ cached' = cached \cup {at[c]}
  /\ pc' = [pc EXCEPT ![c] = "drop"]
  /\ UNCHANGED <<rowVars, phase, watch, ep, at, ans, deleting, sessionVars,
                 serverVars, faults, history>>

\* The cache can't take it: the row is kept, accepted.
CacheFails(c) ==
  /\ phase = "open" /\ pc[c] = "ack" /\ st[at[c]] # "accepted" /\ Fault
  /\ st' = [st EXCEPT ![at[c]] = "accepted"]
  /\ Release(c)
  /\ UNCHANGED <<err, ord, form, nextOrd, cached, phase, watch, deleting,
                 sessionVars, serverVars, history>>

\* The second time (the same fault, still there) the row goes anyway: /sync brings
\* the message.
CacheFailsAgain(c) ==
  /\ phase = "open" /\ pc[c] = "ack" /\ st[at[c]] = "accepted"
  /\ pc' = [pc EXCEPT ![c] = "drop"]
  /\ UNCHANGED <<rowVars, cached, phase, watch, ep, at, ans, deleting, sessionVars,
                 serverVars, faults, history>>

\* drop_row: the message is on the server, its row goes.
DropRow(c) ==
  /\ phase = "open" /\ pc[c] = "drop"
  /\ st' = [st EXCEPT ![at[c]] = "none"]
  /\ Release(c)
  /\ UNCHANGED <<err, ord, form, nextOrd, cached, phase, watch, deleting,
                 sessionVars, serverVars, faults, history>>

\* drop_row of a store that can't remove it: kept, accepted.
DropFails(c) ==
  /\ phase = "open" /\ pc[c] = "drop" /\ Fault
  /\ st' = [st EXCEPT ![at[c]] = "accepted"]
  /\ Release(c)
  /\ UNCHANGED <<err, ord, form, nextOrd, cached, phase, watch, deleting,
                 sessionVars, serverVars, history>>

\* A store that can't record the attempt's outcome: the row stays as it was.
CantRecord(c) ==
  /\ phase = "open" /\ pc[c] \notin {"rest", "direct"} /\ ~Executing(c) /\ Fault
  /\ Release(c)
  /\ UNCHANGED <<rowVars, cached, phase, watch, deleting, sessionVars, serverVars,
                 history>>

\* A direct send's answer, which the cache may not take.  The sender's own wait
\* for a session goes on.
DirectSent(c) ==
  /\ phase = "open" /\ pc[c] = "direct" /\ ans[c] = "ok"
  /\ cached' \in {cached, cached \cup {at[c]}}
  /\ pc' = [pc EXCEPT ![c] = "rest"] /\ at' = [at EXCEPT ![c] = NoId]
  /\ ans' = [ans EXCEPT ![c] = "none"]
  /\ UNCHANGED <<rowVars, phase, watch, ep, deleting, sessionVars, serverVars,
                 faults, history>>

\* Refused, or no answer: NotSent.
DirectNotSent(c) ==
  /\ phase = "open" /\ pc[c] = "direct"
  /\ late' = late \cup Abandoned(c)
  /\ pc' = [pc EXCEPT ![c] = "rest"] /\ at' = [at EXCEPT ![c] = NoId]
  /\ ans' = [ans EXCEPT ![c] = "none"]
  /\ UNCHANGED <<rowVars, cached, phase, watch, ep, deleting, sessionVars, log,
                 writable, target, faults, history>>

-----------------------------------------------------------------------------
(* The server: send_message, up to its insert and from it.                 *)

\* _require_member, archived, _stored_send, the quoted message.
Lookup(i, f) ==
  IF Home[i] \notin writable THEN "refused"
  ELSE IF i \in Stored THEN "ok"
  ELSE IF f = "reply" /\ target = "deleted" THEN "reply_target_gone" ELSE "looked"

\* Mutant of Insert: no unique index.
InsertAgain(i, f) ==
  log' = [log EXCEPT ![Home[i]] = Append(@, [id |-> i, form |-> f])]

\* The insert and commit; the unique index on (author, client_id) turns a
\* second one into the stored answer.
Insert(i, f) ==
  log' = IF i \in Stored THEN log
         ELSE [log EXCEPT ![Home[i]] = Append(@, [id |-> i, form |-> f])]

ServeLookup(c) ==
  /\ pc[c] \in {"out", "direct"} /\ ans[c] = "none"
  /\ ans' = [ans EXCEPT ![c] = Lookup(at[c], form[at[c]])]
  /\ UNCHANGED <<rowVars, cached, phase, watch, ep, pc, at, deleting, sessionVars,
                 serverVars, faults, history>>

ServeInsert(c) ==
  /\ pc[c] \in {"out", "direct"} /\ ans[c] = "looked"
  /\ Insert(at[c], form[at[c]])
  /\ ans' = [ans EXCEPT ![c] = "ok"]
  /\ UNCHANGED <<rowVars, cached, phase, watch, ep, pc, at, deleting, sessionVars,
                 late, writable, target, faults, history>>

\* A POST nobody waits for.  (Two equal ones are one element: the second to
\* execute finds the message stored, or is refused like the first.)
LateLookup(r) ==
  /\ r \in late /\ r.stage = "none"
  /\ late' = (late \ {r}) \cup
       (IF Lookup(r.id, r.form) = "looked" THEN {[r EXCEPT !.stage = "looked"]} ELSE {})
  /\ UNCHANGED <<rowVars, cached, phase, watch, senderVars, deleting, sessionVars,
                 log, writable, target, faults, history>>

LateInsert(r) ==
  /\ r \in late /\ r.stage = "looked"
  /\ Insert(r.id, r.form) /\ late' = late \ {r}
  /\ UNCHANGED <<rowVars, cached, phase, watch, senderVars, deleting, sessionVars,
                 writable, target, faults, history>>

\* It never reached the server, or the server failed it.
LateDies(r) ==
  /\ r \in late /\ late' = late \ {r}
  /\ UNCHANGED <<rowVars, cached, phase, watch, senderVars, deleting, sessionVars,
                 log, writable, target, faults, history>>

\* The user is removed, or the channel archived; and back.
Admit(c) ==
  /\ writable' \in {writable \cup {c}, writable \ {c}}
  /\ UNCHANGED <<rowVars, cached, phase, watch, senderVars, deleting, sessionVars,
                 log, late, target, faults, history>>

\* The quoted message is deleted.
TargetDeleted ==
  /\ Replies # {} /\ target = "live" /\ target' = "deleted"
  /\ UNCHANGED <<rowVars, cached, phase, watch, senderVars, deleting, sessionVars,
                 log, late, writable, faults, history>>

-----------------------------------------------------------------------------
Session == (\E who \in {"me", "other"} : SignIn(who)) \/ SignOut \/ Follow \/ Open \/ Close \/ Crash

User ==
  \/ \E i \in Ids : Enqueue(i) \/ SendDirect(i) \/ Retry(i) \/ RetryWithoutReply(i)
  \/ \E u \in Callers : DoDelete(u) \/ DeleteFails(u) \/ \E i \in Ids : AskDelete(u, i)

Sender(c) ==
  \/ Wake(c) \/ Take(c) \/ Idle(c) \/ CantStart(c)
  \/ Post(c) \/ Lost(c) \/ GiveBack(c)
  \/ Acked(c) \/ Refused(c) \/ RefusedSent(c)
  \/ ApplyAck(c) \/ CacheFails(c) \/ CacheFailsAgain(c)
  \/ DropRow(c) \/ DropFails(c) \/ CantRecord(c)
  \/ DirectSent(c) \/ DirectNotSent(c)

Server ==
  \/ \E c \in Channels : ServeLookup(c) \/ ServeInsert(c) \/ Admit(c)
  \/ \E r \in Request : LateLookup(r) \/ LateInsert(r) \/ LateDies(r)
  \/ TargetDeleted

Next == Session \/ User \/ (\E c \in Channels : Sender(c)) \/ Server

Spec == Init /\ [][Next]_vars

-----------------------------------------------------------------------------
(* What the queue promises.                                                *)

\* A message the user queued, and did not delete, is in the outbox or at the
\* server: no crash, sign-out, failed write or lost answer drops it (enqueue is
\* "durable before this returns"; the row goes only after the answer).
NothingLost == \A i \in owed : st[i] # "none" \/ i \in Stored

\* One message per client_id, however many POSTs of it executed, in whatever
\* order and together (send_message's savepoint and unique index).
AtMostOnce ==
  \A c \in Channels : \A m, n \in DOMAIN log[c] :
    log[c][m].id = log[c][n].id => m = n

\* The server commits a channel's messages in the order they were queued, the
\* POSTs that timed out and executed late included.  Ids that were deleted, sent
\* directly or queued again after a POST are outside the promise.
InOrder ==
  \A c \in Channels : \A m, n \in DOMAIN log[c] :
    /\ m < n
    /\ log[c][m].id \notin loose /\ log[c][n].id \notin loose
    => ord[log[c][m].id] < ord[log[c][n].id]

\* The device believes sent only what the server has: an accepted row, a row
\* about to be dropped, a cached message.
SentIsStored ==
  /\ \A i \in Ids : st[i] = "accepted" \/ i \in cached => i \in Stored
  /\ \A c \in Channels : pc[c] \in {"ack", "drop"} => at[c] \in Stored

\* No POST ever carried the token of a session that isn't this outbox's user's,
\* though the watch lags behind the session store (attempt's `current`, and the
\* epoch handed to Post::send).
OwnSessionOnly == used \subseteq mine

\* A row can't be deleted, retried or overtaken beneath an attempt: until the
\* attempt ends it is its channel's first row, sending or accepted.
AttemptKeepsRow ==
  \A c \in Channels : pc[c] \in {"held", "out", "ack", "drop"} =>
    at[c] \in Heads(c) /\ st[at[c]] \in {"sending", "accepted"}

\* A row the user did not delete leaves only once the cache has its message, or
\* when it was accepted before: the message never vanishes from the screen
\* between the two stores.
AckBeforeDrop ==
  [][\A i \in owed \cap owed' : st[i] # "none" /\ st'[i] = "none" =>
       i \in cached \/ st[i] = "accepted"]_vars

\* That the server took a message is never forgotten: no refusal, sign-out or
\* crash puts an accepted row back among the unsent ones.
AcceptedStays ==
  [][\A i \in Ids : st[i] = "accepted" => st'[i] \in {"accepted", "none"}]_vars

\* Deleted::AlreadySent: "The server had already accepted it" (outbox.rs).
AlreadySentIsStored == \A i \in Ids : told[i] = "AlreadySent" => i \in Stored

\* What AlreadySent does mean: the server has the message, or another Delete
\* took the row first and was told so (remove_row under the channel's lock).
AlreadySentOrRemoved ==
  [][\A i \in Ids : told'[i] = "AlreadySent" => told[i] # "nothing" \/ i \in Stored]_vars

\* retry_without_reply: "the server stored nothing for a refused send".
RefusedStoredNothing ==
  [][\A i \in Ids : form[i] = "reply" /\ form'[i] = "plain" => i \notin Stored]_vars

-----------------------------------------------------------------------------
(* Progress.  Each sender task is scheduled, its HTTP call is answered or times*)
(* out, the server answers what it receives, and tokio's mutex is fair: a     *)
(* Delete that waits for the lock gets it though the sender keeps retaking it.*)
(* Nobody has to sign in, and the user has to do nothing.                     *)

Fairness ==
  /\ WF_vars(Follow) /\ WF_vars(Close) /\ WF_vars(Open)
  /\ \A c \in Channels :
       /\ WF_vars(Wake(c)) /\ WF_vars(Take(c) \/ Idle(c)) /\ WF_vars(Post(c))
       /\ WF_vars(ServeLookup(c)) /\ WF_vars(ServeInsert(c))
       /\ WF_vars(GiveBack(c) \/ Acked(c) \/ Refused(c) \/ RefusedSent(c))
       /\ WF_vars(ApplyAck(c)) /\ WF_vars(DropRow(c))
       /\ WF_vars(DirectSent(c) \/ DirectNotSent(c))
  /\ \A u \in Callers : SF_vars(DoDelete(u))

FairSpec == Spec /\ Fairness

\* The user stays signed in.
StaysSignedIn == <>[](http \in mine)

\* While signed in, every queued message is in the end sent, or held up by a
\* refused message before it in its channel that waits for the user: never by a
\* lost wake-up, a fault, or a session change that got merged.
QueuedGetsSent ==
  StaysSignedIn => \A i \in Ids :
    st[i] \in {"pending", "sending", "accepted"} ~>
      \/ st[i] = "none"
      \/ \E j \in RowsOf(Home[i]) : ord[j] <= ord[i] /\ st[j] = "failed"

\* A Delete always answers, whatever the sender of its channel is doing.
DeleteAnswers == \A u \in Callers : deleting[u] # NoId ~> deleting[u] = NoId

-----------------------------------------------------------------------------
(* The inductive invariant the safety properties follow from (proved in      *)
(* DeliveryProofs), in five parts besides the types.                         *)

\* Whoever holds a channel's lock works on a message of that channel.
HolderHasWork ==
  \A c \in Channels : pc[c] # "rest" => at[c] \in Ids /\ Home[at[c]] = c

TypeInv == TypeOK /\ HolderHasWork

\* Rows, and what the user is owed.  Ordinals are distinct and increasing; what
\* is neither deleted nor sent directly has been queued once.
Ledger ==
  /\ \A i \in Ids : ord[i] < nextOrd /\ (st[i] # "none" => ord[i] > 0)
  /\ \A i, j \in Ids : ord[i] = ord[j] /\ ord[i] > 0 => i = j
  /\ NothingLost
  /\ \A i \in Ids : ord[i] > 0 /\ i \notin loose => i \in owed
  /\ \A i \in posted : i \notin loose => ord[i] > 0
  /\ \A u \in Callers : deleting[u] # NoId => ord[deleting[u]] > 0
  /\ \A i \in Ids : ord[i] > 0 /\ st[i] = "none" => i \in Stored \/ told[i] # "nothing"

\* The channel's lock, and the answer its holder waits for.
Locks ==
  /\ AttemptKeepsRow
  /\ phase = "closed" => \A c \in Channels : pc[c] = "rest"
  /\ \A c \in Channels :
       /\ pc[c] = "direct" => at[c] \in loose
       /\ pc[c] \in {"out", "direct"} => at[c] \in posted
       /\ pc[c] \in {"rest", "held"} => ans[c] = "none"
       /\ pc[c] = "ack" => ans[c] = "ok"
       /\ pc[c] = "drop" => at[c] \in cached \/ st[at[c]] = "accepted"

\* Every message of a channel was posted, to that channel.
LogPosted ==
  \A c \in Channels : \A k \in DOMAIN log[c] :
    log[c][k].id \in posted /\ Home[log[c][k].id] = c

\* The server's messages, and what the device knows of them.
Served ==
  /\ SentIsStored
  /\ \A c \in Channels : ans[c] = "ok" /\ pc[c] # "rest" => at[c] \in Stored
  /\ \A r \in late : r.id \in posted
  /\ LogPosted
  /\ AtMostOnce

\* A POST leaves only for the first row, so whatever was queued before a posted
\* message is stored.
EarlierStored ==
  \A i, j \in Ids :
    /\ Home[i] = Home[j] /\ i \notin loose /\ j \notin loose
    /\ 0 < ord[i] /\ ord[i] < ord[j] /\ j \in posted
    => i \in Stored

Ordered == EarlierStored /\ InOrder

\* The watch and the senders only ever hold epochs of this outbox's user.
Sessions ==
  /\ OwnSessionOnly
  /\ watch \in mine \cup {0}
  /\ \A c \in Channels : ep[c] \in mine \cup {0}
  /\ \A c \in Channels : pc[c] \notin {"rest", "direct"} => ep[c] # 0

IInv == TypeInv /\ Ledger /\ Locks /\ Served /\ Ordered /\ Sessions
=============================================================================
