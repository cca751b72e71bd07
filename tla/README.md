# Brook, in TLA+

Brook is a self-hosted team messenger: a Python API server over Postgres (`services/api`), a
Rust client core (`core`), native clients over that core, and Janus for calls. These modules
model the parts of it where several actors, crashes or lost messages meet. Each definition
carries the name of the code it models; `PROJECT.json` gives the file and lines.

Check a configuration with `tlc -config Outbox_promise.cfg MCOutbox.tla`, a proof with
`tlapm DeliveryProofs.tla`.

## 1. The system

| Part | State | Operations | What is hard | What makes it correct |
|---|---|---|---|---|
| Outbox (`core/src/outbox.rs`) | rows in `outbox.db`; one sender task and lock per channel | enqueue, send directly, retry, retry without the quote, delete, the sender's attempt | crashes mid-send, answers lost, POSTs that execute after their timeout, Delete against a running send, session changes | nothing lost, once, in order, no other user's session, progress |
| Session store, offline watcher (`session_store.rs`, `client_offline.rs`, `offline.rs`) | current login and epoch; which user's stores are open | sign in, sign out, follow | the watcher lags behind the login; another user signs in | as above |
| Send (`routers/channels.py`, `send_message`) | messages, unique (author, client_id) | look up, insert in a savepoint, answer | two executions of one client_id at once | one message per client_id |
| Change sequence (`app/sync.py`) | one counter row, `seq` on rows | take, stamp, forget on rollback | commit order, savepoints, rollbacks | sequence order is commit order |
| `/sync` (`routers/sync.py`) | none of its own | bounded page over several statements | commits between the statements | a cursor never passes an undelivered change |
| Memberships (`routers/channels.py`) | memberships, roles, offers, read markers | add, join, leave, remove, offer, accept, mark read | decisions on rows read before a lock | a channel keeps an owner; markers only advance; locks in one order |
| Offline cache (`cache.rs`, `sync.rs`, `apply.rs`, `coverage.rs`) | cached rows, cursor, removal fences, coverage; who runs a sync | apply a page, a live event, a history page; reset; ask for a sync | anything in any order | converges to the server's state; no request for a sync is dropped |
| Calls (`calls.py`, `janus.py`; `call.rs`) | calls, participants, grace timers, offer versions | join, leave, resume, answer, teardown | SFU failures, grace against resume, stale answers | nobody in a call they left; no orphan at the SFU |
| Tokens and second factor (`auth.py`, `totp.py`; `client.rs`, `account.rs`, `persist.rs`) | refresh families, sessions' cut-off, codes spent; stored login | rotate, replay, sign out everywhere; enrol, activate, enter a code | lost answers, concurrent refreshes, codes replayed | a live login is not ended by its own retries; a code counts once |
| Files, sending (`files.py`, `sweep.py`; `transfer.rs`, `snapshot.rs`) | file rows, parts, blobs | create, upload, commit, attach, sweep | sweep against upload or attach | an attached file keeps its blob |
| Files, kept (`files.rs`, `file_rows.rs`, `transfer.rs`) | rows and encrypted blobs, pins, downloads shared by callers | cache, open, pin, evict, drop with the message, sweep | a drop, a close or a crash inside a download | a row tells the truth of its blob; a blob without a row goes |
| Local data (`local.rs`, `store.rs`, `keyslot.rs`, `offline.rs`) | index of stores, key slots, directories | open, wipe, reconcile | a crash or a locked key store inside a wipe | what was removed is gone; what was lost is said |
| GNOME client (`chat.rs`, `sidebar.rs`, `history.rs`) | what is on screen; futures on the GTK loop | open, scroll, react, send, manage conversations | answers that come after the user moved on | nothing is drawn where it doesn't belong, nothing is missing at rest |
| Rate limits, users, bindings | | | mostly sequential | |

The parts meet as follows. A client's outbox POSTs to `send_message` under the session the
session store holds; the server stamps what commits with the change sequence; `/sync` and live
events bring it to every client's cache, which the outbox's own acknowledgement also writes. A
message with files goes out when its uploads are done, and the server's sweep takes back what
was uploaded and never sent. A device's files belong to the messages it has cached; its stores, to
users, who are signed in, replaced and removed. The GNOME client draws from the cache and the
network alike. Events and call signaling share one WebSocket, whose session a sign-out everywhere
closes.

## 2. Modules

- `Outbox`: the send queue of one user on one device, with the session it sends under and the
  server's idempotent send.
- `OnceInOrder`: what the queue promises, for any implementation: a queue per channel from
  which messages reach the server's log once and in order, or are deleted.
- `OutboxRefinement`: the mapping from one to the other.
- `MCOutbox`: the instances TLC checks.

- `ChangeCounter`: the server's change sequence, with transactions, savepoints and their hooks.
- `ChangeLog`: what it is to the rest: changes one after another, numbered one by one.
- `SyncPaging`: one client catching up over `/sync` while transactions of `ChangeCounter` commit.
- `Membership`: who belongs to a channel and owns it, and the read markers, under concurrent
  requests and their row locks.
- `MCSync`, `MCMembership`: the instances TLC checks.
- `DeliveryProofs` (of `Outbox`, `ChangeCounter`, `SyncPaging` and `Membership`, whose specifications
  are therefore called `Spec`, `CounterSpec`, `SyncSpec` and `MembersSpec`): the proofs.

- `SyncRuns`: who runs a device's sync, and when.
- `Cache` (extends it): a device's cache of one channel, against the server's side of it.
- `CallRoster`: who is in a channel's call, and what the api keeps at the SFU for it.
- `CallMedia`: one participant's offers, answers, publishing and mute, client, api and SFU.
- `Sessions`: the clients of one process, their stored login, and the server's refresh tokens.
- `Attachments`: one message with files, from the sender's disk to the server's, and the sweep.
- `FileCache`: the files a device keeps of its messages.
- `LocalData`: a device's users, their stores and keys.
- `Timeline`, `Conversations` (extends it), `ChatView` (extends both): the GNOME client's open
  conversation, its list of conversations with their dialogs, and the handlers that compose them.
- `MCCache`, `MCCalls`, `MCMedia`, `MCSessions`, `MCAttachments`, `MCFileCache`, `MCLocalData`,
  `MCChat`: the instances TLC checks.
- `CacheProofs` (of `Cache` and `SyncRuns`), `CallProofs` (of `CallRoster` and `CallMedia`), `SessionsProofs`,
  `AttachmentsProofs`, `FileCacheProofs`, `LocalDataProofs`: the proofs.

### Outbox

| Model | Code |
|---|---|
| `st`, `err`, `ord`, `form`, `nextOrd` | the `outbox` table: `state`, `error`, `ordinal` (AUTOINCREMENT), `reply_to_id` |
| `cached` | messages in `cache.db` |
| `pc`, `at`, `ep`, `ans` | where the holder of a channel's lock stands in `run_channel`/`attempt`, or in `send_direct` |
| `watch` | the `tokio::sync::watch` of sessions; `http` the session `Post::send` finds |
| `deleting` | callers of `delete_pending` waiting for the lock |
| `log`, `late` | the server's messages, and requests still executing that nobody waits for |
| `owed`, `posted`, `loose`, `used`, `told` | history, for the properties only |

A step is one database call or the code between two awaits. The server's send is two steps,
the checks (`ServeLookup`) and the insert with its commit (`ServeInsert`); between them other
requests run, also a second one of the same `client_id`. A POST the client stopped waiting for
(timeout, session change, crash) moves to `late`, where it may execute at any time or never.

Abstractions, each where the properties can't tell: an id belongs to one channel, so the
server's "client_id used in another channel" and the client's "another message came back" do
not occur; requests in `late` that are equal are one element, since the second finds the
message stored or is refused alike; back-off delays are left out, a waiting row may be taken
at any time; a deleted message keeps its row at the server (soft delete), so the log never
shrinks; a sign-out's own epoch is not counted. Membership is not checked again between the
two server steps, as in the code. Messages with files are in
`Attachments`.

### ChangeCounter

| Model | Code |
|---|---|
| `counter`, `rowSeq` | `sync_counter.seq`, the `seq` columns, as committed |
| `bumps`, `writes` | a transaction's own updates; a bump holds the counter's row lock |
| `open`, `begun` | the session's transaction and its open savepoints |
| `info`, `takenIn`, `hints` | `session.info[_KEY]`, `[_TX]` with its parents, `[_HINT]` |
| `published`, `early` | history: every version ever committed; rows whose hint went at a savepoint's release |

The database is Postgres under READ COMMITTED: a statement sees what has committed when it
runs; the counter's row is locked from the bump until the transaction, or the savepoint it was
taken in, ends. A flush writes any set of rows: which rows a change stamps (a reaction its
message, an offer its channel) is not told apart, and every row counts as one a hint is for
(the code hints memberships and profiles only, a subset). Two statements of one savepoint need
no order, so both carry the number of savepoints begun when they ran. A savepoint's release ends a
transaction of SQLAlchemy's too, so `ReleaseSavepoint` sends the hint, as `_hint_after_commit` does. The row a fresh test
database lacks is always there.

### SyncPaging

| Model | Code |
|---|---|
| `stage`, `current`, `upper`, `todo`, `got`, `loaded` | one request: where it stands, `current`, `upper`, statements to run, rows read, the caller's own `User` in the identity map |
| `cursor`, `seen` | the cache's `meta.cursor`, the `seq` of each cached row |
| `base` | history: the cursor of the first sync, which brings no messages |

Each row has a statement of its own and the statements run in any order, which includes what
the code's fixed order over tables can see. What the client may see does not change: joining
and leaving, tombstones and fences are in `Cache`. The 410 reset is unreachable
here, as `Behind` proves (a cursor never exceeds the counter, and nothing raises the floor): it
needs a restored database, which is not modelled. Such a server is only recognised while its
counter is below the client's cursor. Live events are every committed version, in any order,
any number of times or never.

### Membership

| Model | Code |
|---|---|
| `exists`, `role`, `marker`, `offers`, `newest` | one channel, its memberships, `owner_offers` and last message, as committed |
| `counter`, `chan` | who has the row locks of `sync_counter` and of the channel |
| `place`, `task`, `saw` | each request, and what it read and uses later |

A request's writes show at its commit, so they are one step; the reads and the locks before it
are steps of their own, in the code's order. Statements of one request that read without
anything in between that they decide on together (whom to add, and the newest message) are one.
The foreign key's share lock and the update of the channel's `seq` are one lock here: whoever
takes either has the counter, so no two do at once, and both wait for `FOR UPDATE`. A message's
id is made once the counter is held (`before_flush` runs before the insert's defaults), so ids
follow commits; two within one millisecond may not, which is left out. The channel is public
and not archived, messages are not deleted, and admins stay admins. A deadlock ends as Postgres
ends it, with either request aborted. Between its check and its insert, `add_member` may add
for a caller who has been removed meanwhile: the code takes no lock there, nor does the model.

### Cache

| Model | Code |
|---|---|
| `now`, `floor`, `msgs`, `mine`, `theirs`, `chan`, `tombs` | `sync_counter`, and the channel's rows as committed |
| `sends`, `live` | handlers past their commit (`emit`, `_emit_channel_update`), events on their way |
| `st` | `cache.db`: `meta`, the channel, memberships, messages, `removed`, `coverage` |
| `req` | a `/sync` request: what each statement of it has read |
| `loads` | history requests: asked, checked, read, with the generation they were asked under |
| `base`, `early`, `skipped`, `unseen` | history, for the properties only |

A change is one step here (its lock order is `ChangeCounter`'s, the decision behind it
`Membership`'s); a `/sync` request has a step per statement, since each sees newer commits. A
live event is read, sent and applied in steps of its own and may be lost, delayed or overtaken.
An id and its place in time are the same number.

`Current` has two exclusions, each a way the code has of never correcting a row, and each a
variable that says when: `early`, live events or history that were asked for before the first
page landed (a first sync brings no messages, so nothing corrects what came around it); and
`unseen`, a removal that no page reported because the user was back, and the kinds of event
and return that section 5 tells of. `skipped` is set by a statement of a page that finds the user
out, until they are back. Not modelled: deleting a channel, reply quotes, users' rows, unread counts.

`SyncRuns` says when a run begins: hints and retries sleep in tasks of their own and call
`sync_now`, which records a request, tries the lock and, with it, runs as long as there is a
request. Each access to the flag and to the lock is a step. In the behaviours of `Cache` without
a budget for hints, runs just happen.

### CallRoster

| Model | Code |
|---|---|
| `byChannel`, `byId`, `roster`, `parts`, `callOf`, `conn`, `grace` | `CallManager`, `Call`, `Participant` with its grace task |
| `lock` | the channel's `asyncio.Lock`, first come first served |
| `pc`, `target`, `removal` | where a socket's command, or a removal, stands between two awaits |
| `kept` | keepalives and sessions at the SFU, by what they were made for |
| `sock`, `holds` | the sockets, and what each device was told last |

Every await at the SFU either works or fails, but for the `finally` of `_destroy_call`. A
removed member is `revoked` until `end_for_user` or `end_channel` gets to the call.

### CallMedia

| Model | Code |
|---|---|
| `gen`, `up`, `ready`, `waiting`, `inbox` | `ws.rs`: the connection's generation, requests without a reply, frames sent |
| `events`, `replies`, `changed` | the call task's `route_rx`, `input_rx`, `conn_rx` |
| `link`, `sub`, `pub`, `media` | the `Link`, `Subscribe`, `Publish` and `Media` machines of `call.rs` |
| `srv`, `task`, `answering`, `wanted` | a participant's subscribe side in `calls.py`: version, pending offer, the reconcile under its lock |
| `sfu`, `noticed` | Janus, external: one subscriber handle and its offers |

Replies of a dead socket are handled before the next is ready, as `run_once` drains `pending`.
The replay after a resume (offer, publish answer, media) is one step, since nothing else writes
to the new socket before it. `gaveUp` marks the one state from which the code does not try
again: the SFU refused the join of the last reconcile.

### Sessions

| Model | Code |
|---|---|
| `tokens`, `cut`, `closing`, `cutoffs`, `sockets` | `refresh_tokens`, `sessions_valid_after`, and the hub's cut-offs and connections |
| `slot`, `fenced` | the login in the keychain, and the fence file over it |
| `factor`, `passed`, `raced` | `users.totp_*` with the last step and the codes spent; history: codes accepted, and whether a request went on under a session that had ended since it was looked at |
| `owner`, `stored`, `slotLock`, `marks` | `OWNERS`, `FAMILIES`, `SLOT_LOCKS`, a client's `slot_tokens` |
| `cl`, `attempt`, `task` | a client, what waits for its refresh lock, what has it |
| `lost`, `over`, `overtaken` | history, for the properties only |

A request is one step at the server, which holds the user's row in each of these routes, and it
may run after its client gave up. A sign-out, and a newer sign-in, come at any time, also while a
restore, a sign-in or a code is on its way, or with no session at all. The grace window is never over; access tokens don't expire on
their own; the 429 wait and `replace_user` are left out; the keychain and the fence do not fail at
once. A code of the authenticator is its time step; of the skew the code allows, the steps either
side of now are taken; the limits of attempts and the cryptography are left out.

### Attachments

| Model | Code |
|---|---|
| `snaps`, `journal`, `row`, `fid`, `flags` | the snapshot directory, the `deletions` journal, the outbox row, `outbox_files.file_id`, the transfers' flags |
| `call`, `s`, `deleting` | `enqueue_with_files`, the sender (`upload_files` to `finish`), a `delete_pending` that waits |
| `rows`, `bytes`, `left` | `files` rows, final files, parts nobody writes |
| `puts`, `posts` | PUTs being served, sends the client gave up on |
| `sweep`, `removing` | a pass of `sweep_once`, unlinks after a commit |

The bytes of a file are its `file_client_id`, so "the right bytes" is "under its own id"; ids
are `<<file, n>>`, used again only when nothing of the old is left. `create_file` is one step,
with quota, disk floor and the limit of creates as a refusal; retries are nondeterministic;
sessions and pauses are transient failures. Time is hours and days: parts of a PUT stay fresh
unless the machine is frozen, which is one of the faults. A second enqueue of one `client_id` and
the race of two creates for the disk floor are left out.

### FileCache

| Model | Code |
|---|---|
| `listed`, `rows`, `journal`, `blob` | `message_files`, `files` and `deletions` of `cache.db`; the blob of each file as the keys its chunks are sealed under, and how many are synced |
| `flight`, `lock` | `Files::flights` with each download's `EncryptingSink`; `blob_lock` |
| `sweep`, `sweeper` | `sweep_journal`; the task that `files_dropped` wakes, and `cancel_unlisted` |
| `caller`, `fetcher`, `unpinning` | calls of `cache_file`; the pin fetcher; `unpin_file` between its halves |
| `crossed`, `misled`, `stray` | history, for the properties only; `stray` are the files whose journal entry went for a row that was not made, until there is a row or a start |

A step is one database call, one operation on a blob, or the code between two awaits. A file is
some chunks; it opens when each is sealed under its row's key. After a crash a blob keeps what was
synced and any part of the rest, and the next open reconciles it with the rows. Open copies, Save
and previews (they read a whole file), the order of last use (any unpinned file may be evicted) and
the time a back-off takes are left out.

### LocalData

| Model | Code |
|---|---|
| `rows`, `slot`, `disk`, `dirs`, `locked` | the index database; the platform's keys; each store's file by the key it is encrypted under; the stores' directories |
| `session`, `news`, `active`, `op`, `leaving` | the signed-in user and what the watcher has to look at; `Offline::active`; the operation that holds its lock; `sign_out_and_forget` |
| `lost`, `losses` | `lost_unsent`, `Losses` |
| `gone`, `late`, `stray`, `owed`, `hushed` | history, for the properties only |

A step of an operation is one call of the key store, the index or the file system, and a crash may
come between any two. Store ids and keys are drawn from small sets, never one in use. Two processes on one
directory, the registry of open stores and Android's stores without keys are left out.

### Timeline, Conversations, ChatView

| Model | Code |
|---|---|
| `rows`, `pager`, `fill`, `current`, `replying` | the open conversation's `ListBox`, its `Pager`, the reply |
| `tasks` | `glib::spawn_future_local`: a bag of futures, each by the await it stands at |
| `events`, `notes`, `poke` | what the loop of events has not taken: live events, the cache's and the outbox's notices |
| `held`, `heldChip`, `cover`, `known` | what the core's cache would answer; `ver`, `away`, `link`, `behind`: the server and the connection |
| `reacting`, `voters`, `cast`, `base`, `voteEvents`, `tally`, `order` | reactions of one emoji to one message (`Reacted`): requests, the server's rows and numbers, events on their way, the chip on screen |
| `seen`, `stale` | history: the newest change told and the newest that left no trace; what of the chip drawn may be behind |
| `composer`, `textDraft`, `staged`, `sends`, `queue`, `bubbles` | the composer with its client ids, staged files, what a Send made |
| `shown`, `browse`, `dialog`, `finds` | the sidebar's list, Public channels, Rename, the search |
| `line`, `banner`, `asking`, `side`, `marks` and the like | the line of errors and typing with its timers, the offline banner, the question of an offered ownership, the sidebar's keys, `mark_read` |

GTK runs one handler at a time, so a step is a handler, or a future from one await to the next. A
handler with everything it calls is one action of `ChatView`, composed from the pieces of
`Timeline` and `Conversations`. The core and the server answer in their own time and in any order.
Text is one value, messages two channels' worth of numbers, chips one emoji on one message; drawing,
unread badges, call and attachment widgets and the admin's dialogs are left out. Rows that
`fill_from_cache` draws in the open, focused conversation are not marked read, as in the code; that
two users find or create their DM at once is marked as open in `channels.py` and left out.

## 3. What is checked

| Run | Instance | Shows |
|---|---|---|
| `outbox_promise` | two messages of one channel, the second a reply; one Delete; three insertions; one sign-in; one fault | `NothingLost`, `AtMostOnce`, and that `Outbox` implements `OnceInOrder` (`KeepsPromise`) |
| `outbox_session` | two messages of one channel, the second a reply; sign-ins of this user and another, two insertions, one Delete, one fault, sign-ins and faults two together | `OwnSessionOnly`, `QueuedGetsSent`, `DeleteAnswers` |
| `sync_paging` | two sessions, a channel and a message, numbers to 3, one savepoint each, one number a page, one answer lost | `NothingMissed`, `CatchesUp`, and that `ChangeCounter` implements `ChangeLog` (`ImplementsLog`) |
| `membership_owners` | an admin and two others, two requests at once, one message | the inductive invariant `MembersInv`, `OwnedByOffer` |
| `cache_feed` | five changes, pages of one number and one message, three callers of `sync_now`, 15 mixes | `CacheInv` (`Covered`, `RunsInv`), `Current` (with `NoGap`) |
| `calls_roster` | two sockets of one user, two calls, two participants, a removal, a loss of the SFU | `RosterInv`, `ResumedStays`, `DetachedEnds` |
| `calls_media` | two streams, mixes of changes, refusals, cuts, mutes | `MediaInv`, `SubscribesConverge`, `CommandsLand` |
| `sessions_tokens` | up to three clients, 16 mixes, seven of them with the second factor | `ServerInv`, `EndedNotStored`, `OwnersLoginStays`, `Refreshable` |
| `files_upload` | one or two files, one upload at a time, mixes of failures, requests, deletions | `AttachInv`, `SentWhole`, `LeftoversGo`, `QueuedEnds` |
| `files_cache` | two files of two chunks, room for one unpinned, ten mixes | `FileInv`, `NothingOutlives`, `PinnedGetsCached`, `CallersAnswered` |
| `local_data` | two users, three store ids, eight mixes | `LocalInv`, `ForgottenIsGone`, `LossIsSaid`, `ReconcileFinishes` |
| `chat_view` | two channels, five messages (three there at the start), pages and windows of two, three futures and two untaken events at a time, 37 mixes | `ScreenInv`, `ScreenSettled`, `ChipsConverge`, `NoTwin`, `ViewSettles` |

The modules whose environment does many kinds of things (`Cache`, `CallMedia`, `Sessions`,
`Attachments`, `FileCache`, `LocalData`, `ChatView`) take a set `Budgets`: how often each kind may
happen in one behaviour. The MC modules choose those that combine the kinds a hazard needs, as every
combination at once would be too large: a removal with a rejoin and an edit, a cut socket with a
change, a lost key with a full outbox, and so on.
Configurations that no run lists (`Outbox_beyond`, `Sync_beyond`, `Membership_beyond`, `Calls_media_refused`,
`Sessions_beyond`, `Files_beyond`, `Cache_rejoin`, `Local_beyond`, `Chat_beyond`) are kept for what
section 5 says of them. Each property of theirs is to be checked alone: it fails.

One savepoint a session gives every place a number can be taken and a rollback can hit: inside, at
and around it; that more of them change nothing is proved (section 4). With numbers to 3 a row
changes, is read, and changes again past the page, and two pages of one number have a commit between
their statements.

Two requests suffice for a decision gone stale (each request decides once) and for a cycle (there
are two locks); three users for an offer whose maker goes while its taker stays. Symmetry under
the requests and the users who aren't admins is sound there: the run has no liveness property.

`CatchesUp` assumes weak fairness of the client's request as a whole: a hint, a reconnect or
`schedule_retry` asks again after every failure, and a request's statements run. Commits have
no fairness; answers lost are bounded (`MaxLost`), since a network that loses every answer
refutes any progress. Three callers of `sync_now` are the one that runs, one that finds the lock
taken and one that comes when it lets go.

Bounds. Two messages show overtaking and duplication; a third insertion lets an id be deleted
and queued again. One fault suffices for each single failure at each point, and a crash needs
no fault after it to leave a late POST behind. The properties of the outbox are proved for every
number of sign-ins, so two suffice for the run. Channels have nothing in common but the session, so
the runs have one; the proofs are for any. Symmetry is not used there: the messages differ (one
is a reply, and their order is what is checked). Two files and room for one make an eviction; two
chunks, a download cut in the middle. Two users and three ids make a switch, a wipe of the other and
a store made anew. Two pages of two reach the start of a conversation of three with one to come;
three futures are two that race and a third that finds what they left.

Deadlock checking is off where an idle system is a legitimate end (an empty outbox, no
request to serve).

Fairness of the outbox. Weak fairness of the watcher (a spawned task), of each sender's own steps (a spawned
task per channel), of the server's two steps and of the answer or its loss (`Post::send` has a
time limit). Strong fairness of `DoDelete`: the sender takes and releases the lock again and
again, and tokio's mutex serves its waiters in order. Nothing is assumed of the user, of
sign-ins or of faults; `QueuedGetsSent` is stated for a user who stays signed in.

A cache database that can't be written may stay so (`CacheFailsAgain` costs no fault): a second
row must get its answer from it again.

Fairness of calls. Every task between two awaits runs on, and every grace timer ends (`Removed`
waits for the channel's lock, which is served in order). In `CallMedia` the socket's ends are
noticed by both sides, frames are handled, and the client reconnects; the SFU's refusals, changes
of the others and cuts are bounded by budgets and not fair. `SubscribesConverge` is `<>[]`: once
the outside rests, the engine has what the SFU sends.

Fairness of files. Weak fairness of the callers, the sender, the served PUTs, of reopening after
a crash and of a pass of the sweep; strong fairness of a day passing with nobody frozen, without
which the sweep's ages mean nothing. Faults are not fair.

`FileCache` and `ChatView` have one weak fairness each, of all the program's own steps together
(tasks on the runtime, the GTK loop with its timers and the answers it waits for): some step is
taken while one can be. It is enough because none of them can go on without the outside for ever;
it assumes less than fairness of each. `LocalData` needs none.

## 4. What is proved

Of `Outbox`, `DeliveryProofs` proves, for every set of channels, ids and callers and every value of the
bounds, `Spec => []IInv` and from it each safety and action property of `Outbox`, also those no run
lists (`InOrder`, `SentIsStored`, `AttemptKeepsRow`, `AckBeforeDrop`, `AcceptedStays`). `IInv` has
five parts besides the types. `Ledger` relates rows to what the user is owed: ordinals are
distinct and below `nextOrd`, so a re-queued id never takes an old place. `Locks` says what
the holder of a lock may rely on: its row is the first of its channel and nobody changes it.
`Served` says that an answer of success, an accepted row and a row about to go are all of
stored messages. `Ordered` is the key to `InOrder`: when a POST of `j` left, everything queued
before `j` was stored (the lock holder works on the first row only), so a late execution of an
earlier message finds it stored and appends nothing. `Sessions` bounds the watch and the
senders' epochs to this user's. None of the properties is inductive alone: `InOrder` needs
`EarlierStored`, that needs `AttemptKeepsRow`, and that the rest of `Locks`.

The assumptions are the four on the constants in `Outbox`.

It proves of `ChangeCounter`, for any sessions, rows, numbers and savepoints, the invariant
`CounterIInv` and from it `StampedUnderLock`, `HintsCoverWrites` (every change that survives is in the
hint of the commit or in one that went early, at a savepoint's release),
`SeqIsCommitOrder` and the refinement of `ChangeLog`. `StampedUnderLock` is not inductive: the hooks decide by the chain of
savepoints the number was taken in, not by what the database undid. `Remembered` ties the two:
the bump is younger than every savepoint of that chain, and an open savepoint older than the
bump is of the chain, so a rollback undoes the bump exactly when it meets the chain. `OneTaker`
(the lock) makes a remembered number the next one, and `Committed` puts everything committed at
or below the counter; together they give commit order.

Over `CounterIInv` it proves `SyncInv` of `SyncPaging`, hence `NothingMissed` and `OnlyForward`, for
every page size. The lemma `Settled` carries it: a row whose number is at or below the counter
a request read keeps that number or moves above the counter. So a row that changes under a
page leaves its window for a later one, and `InHand` says all others read so far are in hand.
Assumed: the messages apart, every row comes with a first sync, the caller's own among them
(`StateRowsAssumption`), and the bounds are numbers.

It proves `MembersInv` of `Membership` and from it `KeepsOwner`, `OffersStand` and
`OwnedByOffer`, for any users and requests. The step is `DecisionHolds`: roles and offers change
only in a step of the request that has the channel's lock (`LocksHeld` says who has it), so what a
removal or an answer read under that lock is still so when it commits (lemma `Alone`). Assumed:
the creator is an admin, and the value that stands for no one is no user and no request.

`CallProofs` proves `RosterInv` and `ResumedStays` for any devices, calls, participants and
generations of a socket, whatever of them is bounded in the run. `NoGhost` (no session at the SFU
without a participant in a roster or a removal on its way) needs three kinds of facts. `LockInv`: at
an await with the channel's lock, the task is first in line, and whoever waits is in it, so nobody
else's roster changes meanwhile (lemma `Alone`). `RostersAre` and `TargetsAre`: a participant is in
one roster, that of the call it names, and what a task aims at is still there when its await
returns. `Connected`: a socket's participant is connected by that socket or by none. `KeptInv` says
of each session kept who will take it back. Among the module's assumptions is that there is a device.

Of `CallMedia` it proves `MediaInv`, for any streams and however often anything comes from outside, in every
behaviour in which no handle is given up while an offer the SFU made on it by itself is still with the
listener (`GivesUpEarly`). That condition is needed: such a step is what section 5 shows under
`Calls_media_refused`, and why the run's mixes keep a feed that goes and a refusal apart; the theorem says that
nothing else breaks it. `PendingFits` (the offer that is due is of the handle in use and the one the SFU
waits for) needs `LockIsIdle`: an answer, a forwarded offer and a reconcile take the same lock, and a
reconcile begins work only when nothing is due. It needs `NoticesFit`: an offer with the listener is the SFU's
last, unanswered, of the handle in use, and the only one, so it can become the one that is due. The types
(`MediaTypeOK`) hold without the condition. The one assumption is that budgets are numbers.

`SessionsProofs` proves the server's part of `Sessions`, `ServerInv`, for every budget and number of
clients. `OneLive` follows from `Successors`: a rotated token's successor is of its family and
comes after it, so a replay within the grace finds the one to retire. `SocketsRevoked` follows from
`LiveIsAfter` and `CutOffs` (every token the hub may still be asked to register is checked against
the cut-off it will see). `CodesOnce` needs `CodesBehind`: what was accepted is of an earlier secret,
or at or before the step last used, or of a batch of recovery codes that is spent; so no
interleaving of sign-ins, activations and resets accepts it again. `FactorHolds` needs
`ProvedSince`: with the factor on, every token after the cut-off comes of a sign-in with it. What
the clients and the requests on their way may carry is `LocalPart`: tokens of a family that exists,
and codes of this secret or earlier ones.

It also proves `EndedNotStored` of the device: whatever was under way when its user signed out, signed in
again or gave up a code, the login that ended is not what is stored afterwards. `DeviceInv` is the
invariant. A login goes on (`Good`) if it was not ended, does not come of a challenge that was given up,
nor of one that still can be; the stored copy is good, and so is whatever its owner may still write to it
(`Writes`): its session, what a restore asked with, an answer that has come. An answer is what its task asked
for (`Fits`), since a request somebody waits for is that client's only one (`Awaited`). A session and an
answer that could bring it back never coexist (`Calm`): restores, sign-ins and codes run while there is no
session, and a refresh of a session that ended meanwhile is not taken. Every challenge is held by one
client (`Challenges`), so giving it up takes no login from another.

And it proves `OwnersLoginStays`: a client that was replaced never asks the server to end the login that
the one that replaced it goes on with. `SparedInv` says it of what is stored, whoever asks: no sign-out on its
way is of the stored login, if nothing came between (`Alive`). Its owner is spared because it deletes
what is stored before it revokes (`OwnersSession`: its session is the stored one), another because it
finds the token it has, or asks with, marked with the generation stored (`MarkedStored`). A change by the owner,
or a restore, still finds what it read when its answer comes (`OwnersChange`, `OwnersRestore`), as it holds the
slot's lock (`Locked`). A pair that begins a login is in nobody else's hands and unmarked until it is
stored (`Apart`, `Unmarked`). Left out are logins that `overtaken` says were signed out of, quit or signed in
again in between, and those of which the keychain refused a pair: the proof asked for this last reason,
and TLC shows why (section 5: the next write stores the login unmarked).

And it proves `Refreshable`: unless two answers were lost, the next launch and the next refresh find a
token the server accepts, if the user has not signed out everywhere since and nothing `overtaken`
records came between. `TipInv` says how far the server may be past what is stored (`Tip`). Nobody
waiting: the stored token is accepted, and live if no answer was lost. Its refresh under way: what was
sent is what is stored, and if its client was replaced meanwhile, that was the one answer lost.
Answered: the answer is live, and the stored token is the one before it, or no answer is left to lose. A run
of a request nobody waits for, which would take the server a step further, is recorded (`Recorded`).
It rests on `SparedInv`: the slot's lock lets one client at a time refresh (`Locked`), the owner's
session is what is stored (`OwnersSession`), and no sign-out of the stored login is on its way
(`SlotSpared`). At the server the cases are those of `_rotate` (lemmas `RotateLeaves`, `SlotRotates`),
and every other request leaves the login alone or ends all (`ServedTips`).

`AttachmentsProofs` proves `AttachInv` and `SentWhole` for one message of any number of files,
copies, uploads at a time and faults. At the server, `RowsInv`: a committed row has its bytes
(`HasBytes`) because who renames them is its only writer (`Renaming`, `OneWriter`), and because whatever is about to be
unlinked has no row any more (`ToRemove`), nor can the sweep's list of known files have missed one
that counts (`Seen`). On the device, `DeviceInv`: a row's snapshots are all there, and a send carries an id of
each file. `PostsInv` says the same of the sends given up on. `SentWhole` is what both sides add up
to.

`FileCacheProofs` proves `FileInv` of `FileCache` for any files, any number of chunks and any
`SYNC_EVERY`, and from it that a complete file opens without a connection (`UncrossedOpen`), but for
files in `crossed`. What a row counts of its blob (`RowsHold`) is written by somebody else, the sink
of a download, so the invariant has to tie the two by their keys: `SinksAgree` says that the sink of
a row which is not crossed has the row's key, has sealed no less than is counted, and its chunks are
in the blob. `LockHeld` (who has `blob_lock`) makes that so when a sink opens; `SweptAway` says that a
sweep between its list of paths and its `DELETE` meets no row that a download knows. A new row has a
key nobody has (lemma `FreshKey`: there are fewer keys in use than there are keys). A blob without a row is in the journal or in `stray`
(section 5). Assumed: the
sweeper and nobody are no files. The proof found what the runs had missed: restarting a crossed
download on a blob that a sweep unlinks doesn't make row and blob agree (section 5).

`CacheProofs` proves `CacheInv`, for any number of callers, changes, pages and events. Its first part
is `RunsInv` of `SyncRuns` (also proved alone, `RunsKept`): one run at a time, a request is never left
with nobody to see it, an offline cache has a retry ahead, whoever's run it was that failed. Its
second, `Covered`, ties the runs to the pages: with nobody at it and no timer set, the cursor is where
the counter was when a sync was last asked for, unless the server refused. The invariant behind it is
in two parts. `RequestOK`: one request is out at a time, of the cursor as it is, and a page that isn't
followed by another reaches up to the counter as the request read it (lemma `BoundIsDue`; it rests on
`Nth`, as the bound is the `SyncLimit`-th number that is due). `AskedOK`: what was asked for has come, or a request is
recorded, or a timer set, or the run under way read the counter, or will, after it was asked for; and
when no run is under way, or the last one failed. Assumed: the bounds are numbers, and a behaviour
begins with fewer messages than there may be changes.

And it proves `Current`: with the cursor at the counter, the cache is what the server has, for any
number of messages, changes, pages, events and history pages, in any order and however late. The
invariant is `Feed`. A version is still to come (`Due`) if it is above the cursor and the fence, and of after
the user's return where the device knows of the removal before and not of the return. A row is the
server's version or that one is due (`RowsExact`), so is every message of the range held that is not here
(`RangeExact`), and with the cursor at the counter nothing is due. For a page to keep this, what it has
read must be all that was due below its bound (`PageRows`), with the channel and the memberships to let
it land (`PageChannel`, `PageJoin`, `PageTheirs`), or the removal (`PageOut`); an event or a history page
that arrives late must be of versions the server had (`LiveOK`, `LoadsOK`), and an old one must find
the newer here or due (`LiveExact`, `LoadsExact`). Each of the user's stays needs its own: what
was told while they were out is from before they left (`LiveTold`, `PageTold`), a device that has heard of
the last removal has nothing of the channel (`GoneOK`, `OutHeard`), one that has not knows of the
stay before it (`JoinHeard`, `PrevHeard`, `FirstPage`). The last is what `In` has to tell the history
when it fails (`Unheard`): the proof of it failed on the seven-change case of section 5, which five changes
had not reached, and on the same of a first page. A server's change is one lemma for all
but the user's own leaving and return (`QuietKeepsFeed`), as its number is above everything that is stored,
sent or asked for.

`LocalDataProofs` proves `LocalInv`, `ForgottenIsGone`, `LossIsSaid` and `ReconcileFinishes` of `LocalData`
for any users, any store ids and any number of faults. Each fails alone because an operation is many steps
and a crash may end it at any; the invariant (`Inv`) says of each step what has been done for whom.
`OpFits` and `OnItsRow`: `open_user` opens the stores of a row that is not doomed, and an erase is of
a doomed row's store or of a directory that no row names. `EraseSoFar`: keys go before files, the outbox after the cache, the row only when
both keys are gone; with `OneStoreEach` no other row loses its store. So `KeysBeforeRow` and `DirsNamed`
hold: what is left of a store is named by a row, or was when the index was lost (`stray`). Crashes
forget the operation and nothing on the disk, which is why these are stated of the disk alone.
`NothingSkipped` is what `reconcile` still has to erase, at each of its steps, unless something refused.
`StaysAway` carries `ForgottenIsGone`: who asked to be forgotten has no store, no operation is opening one,
and a session of theirs is the one refused, or no later than it, until they sign in anew. `LossesNoted` carries
`LossIsSaid`: messages wait only in outboxes with a database, and a loss not recorded yet has the flag set or
comes from a step whose operation can only go on to set it (`Noting`); what the app has read of the losses is
never ahead of the newest record, so an acknowledgement that counts covers all of them. Assumed: the value
that stands for nobody is no user, and the bounds are numbers. `Inv` was checked on the run's instance
before it was proved.

Only model-checked: `ChatView`'s `ScreenInv`, `ScreenSettled`, `ChipsConverge` and `NoTwin`
(which are of two modules' state and the handlers between them, most of it sequences);
liveness (temporal proofs under fairness are outside the prover); the refinement of `OnceInOrder` (its mapping sorts a set into
a sequence, whose properties need induction).

## 5. Where the code and its comments differ

Each is shown by the configuration it stands under, kept beside the runs: TLC finds the property
violated, checked alone.

`Outbox_beyond`
- `AlreadySentIsStored`: `delete_pending` answers `AlreadySent` whenever the row is gone once it
  has the lock. Two Deletes of one unsent message both pass the first look; the second is told
  the message was sent. The comment on `AlreadySent` says the server had accepted it.
- `RefusedStoredNothing`: `retry_without_reply` relies on "the server stored nothing for a refused
  send". The refused POST stored nothing, but an earlier one of the same row, given up on, may
  still commit. The id stays safe to reuse: the resend gets the stored reply.

`Sync_beyond`
- `HintAtCommit`: SQLAlchemy reports `after_commit` for a savepoint's release too, so
  `_hint_after_commit` (`sync.py:150`) takes the hint and sends it before the transaction commits,
  though it is to send it "after a commit that stamped changes". Who syncs at once finds nothing, and
  the commit has no hint left for it. Today's routes enter their savepoints (`channels.py:851`,
  `files.py:174`) with nothing to hint.

`Membership_beyond`
- `MarkerAdvances`: `mark_read` decides on the marker it read before its transaction had any
  lock, so an older mark can be written over a newer one. The comment says it only ever advances.
- `NoneStuck`: removals and offers lock the channel's row and then the counter, everything
  else the other way round. The design has writers wait in turn; Postgres aborts one instead.

`Cache_rejoin`
- `CurrentAnyway`: the page re-reads the caller's channels in each statement and leaves a removal
  out when the caller is back. Removed after one statement and back before the next page, a
  client hears of no removal, keeps its rows, and never gets what changed in between. `apply.rs:275`
  says such a row can't be current.

`Calls_media_refused`
- `PendingFits`: an offer the SFU made by itself waits for the participant's lock and is
  passed on (`calls.py:590`) even when the reconcile it waited for gave its handle up. It is left
  pending, what follows defers to it, and its answer is refused.

`Sessions_beyond`
- `OwnersLoginStaysAnyway`: a client that was replaced while it refreshed, and whose user signs out
  there, revokes the pair that arrives as a stranger's (`client.rs:1314`); it is of the family the
  new client has restored.
- `OwnersLoginStaysUnwritten`: a login whose first write failed is stored by its next refresh without a
  mark (`session_store.rs:188`), so a replaced client that signs out ends it. `OwnersLoginStays`
  leaves out the logins of which a write failed.
- `QuitKeepsLogin`: a client that quits while it restores revokes the fresh pair (`client.rs:400`)
  while the stored login stays, although `session_store.rs:517` says quitting isn't a sign-out.
- `FactorHoldsAnyway`: `change_password` and `activate` read the user again under the lock, and not
  whether the session still stands. One that was looked at before a sign-out everywhere goes on
  after it with a new session; so "every other session is signed out" (`totp.py`, `activate`) has an
  exception, which `FactorHolds` leaves out by `raced`.

`Files_beyond`
- `CompleteOpens`: eviction keeps what was downloading when it looked (`files.rs:895`). A file that is
  unpinned, evicted and pinned again while its download runs gets a row with a new key (`pin_file`,
  238), and `finish` marks that row complete over the blob under the old one (1444). The file counts
  as cached and no Open can read it.
- `CountsAnyway`: a file dropped, listed and pinned again while its download runs and a sweep unlinks
  its blob. When that download starts over (`restart`, 1361), it takes the new row's key and goes on
  writing to a blob that is gone; `record` counts its chunks in the row, although "`done` (the
  crash-resume point) is recorded only after the chunks under it are fsynced" (1231). It heals when
  the download verifies what it wrote, or at the next start.
- `PinnedGetsCachedAnyway`: an Open that read the row before the fetcher's download completed it
  downloads anew, starting the pinned row over. When that fails, nothing wakes the fetcher for it.

- `NothingOutlivesAnyway`: `EncryptingSink::open` deletes the path's journal entry and commits also when
  it makes no row, as the message was dropped since the row was read (`files.rs:1273`: the entry "is stale
  now"). The blob of the earlier copy is left with neither row nor entry, so no sweep removes it before
  the next start's reconcile. `stray` records it, and `FileInv` and `NothingOutlives` leave it out.

`FileInv` holds in these mixes as well.

`Local_beyond`
- `ForgottenIsGoneAnyway`: `sign_out_and_forget` answers Ok for a device without stores, and before
  its sign-out the watcher that came with `enable_local_data` makes some.
- `LossIsSaidAnyway`: an outbox whose key is gone is made anew within `store::open`; when that
  fails half-way, no loss is recorded, and the next open finds nothing to lose. The comment of
  `lost_unsent` says such messages are reported.

`Chat_beyond`
- `RowsUpToDate`: a message edited while the connection is down stays as it was on screen
  (`chat.rs:1424` says "duplicates replace their cached row", of the pages only).
- `TalliesInSync`: an event for a message not on screen is dropped (`chat.rs:2386`), and a cached or an
  older page drawn afterwards brings the reactions of before it; what is drawn later does not redraw a row
  that is there. The chip stays behind until the next event or opening, although the tallies are "kept in
  sync from `reaction.update` events" (164). So it is for events lost with a connection.
- `TriedAgainIsOne`: without local data, a text that failed and is sent again is two messages if the
  first was stored (`chat.rs:140`).
- `KeptIdIsOne`: with local data as well, when another text was sent or came through between the two
  attempts: there is one slot for the id of a text (`text_draft`), which the other send takes or
  empties. The slot of the staged files is taken the same way by a send to another conversation
  or of other files. `NoTwin` excludes what was crossed so (`crossed`), and holds of everything else.
- `TypedTwiceIsTwo`: the same words typed and sent again while the first send is on its way get the
  first one's id, though it has not failed (`chat.rs:140`, `1917`): the outbox has the message
  already, and the second is never sent.
- `FilesStayHome`: files picked, another conversation opened while they are being prepared, and a
  send that fails: they end up staged in the other (`chat.rs:1342`).
- `OffersAsk`: two crossed answers of `refresh_channels` leave a withdrawn offer asked about
  (`chat.rs:1098`).
- `RenamesWhatItShows`: Rename is filled in for the open channel and saves to the one open at Save
  (`chat.rs:3575`, `3604`); the list loaded for a join can open another in between.
- `ListRedrawn`: a conversation that ends while the connection is down stays listed; leaving it
  answers `not_found`, and nothing is drawn again (`chat.rs:2873`).
- `OpenIsOurs`: a row clicked after `channel.delete` was handled and before the list is redrawn opens
  the ended conversation, which stays open (`chat.rs:963`).

Others were met while modelling and are excluded by a property's condition, a constant or the model's scope:

- A `/sync` request loads the caller's own `User` when it is authenticated, before it reads the
  counter, and SQLAlchemy's identity map answers the later users statement with that object. A
  profile change from another device, committed in between, is passed by the cursor and not
  delivered, which `app/sync.py` says cannot happen. With `Own` other than `{}`, `SyncPaging` shows it
  (`OwnProfileNotMissed`); `NothingMissed` is of all other rows.
- `_destroy_call` (`calls.py:326`) takes the channel's entry away whatever call it holds. The last
  removal from a call that a lost SFU made the api forget takes the entry of the call started since,
  and the next join makes a second one, although `calls.py:6` says one call per channel
  (`OneCallPerChannel` of `CallRoster`).
- A message edited after the page read the counter is above its bound and not in it, a newer one
  is: the range held as complete grows over the gap (`coverage.rs:118`) until the next run brings the
  edit (`NoGapEver`). `NoGap` is stated for a client that has caught up.
- `send_message` reads the row again after its commit (`channels.py:876`) and sends it to who were
  members before it: someone removed in between can get a version of after their removal. Edited
  once more while they are out, added again, and with a page in between, the event that arrives
  last puts the older version back below the cursor (`apply.rs:275` says that such a row cannot be).
  Five changes do not reach it; `unseen` is set there, and `Current` excludes it.
- A user is removed, added, and removed and added again, and the device hears of the first removal
  by its event but of nothing of the stay that follows it: the rows a page brings of that stay are
  dropped as the channel is not there, or go with it when that event comes late (`apply.rs:121`
  takes a removal as news unless the device's own membership is newer). The page after the second
  return has the channel and not the message, and an event of that stay that is still under way
  puts an older version of it back below the cursor. It takes seven changes; `unseen` is set.
  The first page does the same when its list of channels is of one stay and its members
  of another: it lands with neither heard of, a late event of the removal in between takes the
  channel away, and an older event brings the channel and then the row back. `unseen` is set there, too.
- After a restart a message's flags are made when something lists it or its upload begins. A Delete
  asked before finds none, cancels nothing and waits for the channel's lock until every file is
  uploaded, which `outbox.rs:1112` says a Delete never does (`DeleteStopsUploads`).
- A reaction numbered before a reconnect and told after it is drawn over a newer state, as a new
  connection clears the order of events; so is one told after a conversation was opened, over the
  chips just drawn. Such an event leaves its part of the chip in `stale`, which `ChipsConverge`
  excludes until a newer event or page. Being added to a channel while the connection is down is
  not shown until the list is next loaded.
- `/sync` never delivers the users row of an existing user who is newly added to a channel the caller
  is in (only the membership is in the window), and a restored database is not recognised once its
  counter passes a client's cursor.

## 6. Plan

Done: the send queue with its files, the change sequence with paging, memberships, the offline
cache with the runs of its sync, calls on both sides, sessions, refresh tokens and the second factor,
uploads and the sweep, the file cache, local data, the GNOME client's conversation view. Proved: the
invariants of the outbox, the change sequence, paging, memberships, the runs of the sync and what
they cover, the call roster, the offers of a participant's call, the server's tokens, what the device stores of them and its next refresh, uploads, the file
cache, that a cache that has caught up is the server's, and local data. Left, in this order:

1. A proof of `ChatView`'s `NoTwin`.
2. A WebSocket client of its own (`ws.rs`: re-authentication, back-off, replies against
   time-outs); its generations, replies and reconnects are in `CallMedia`.
3. Rate limits, as pure operators over time.

Not modelled, and why: user administration and server information (one row a request, no protocol
of their own); the other native clients and the bindings (views and media engines over the core, whose
rules live in the core); deployment and storage configuration.
