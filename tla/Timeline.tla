------------------------------- MODULE Timeline -------------------------------
(***************************************************************************)
(* The open conversation of the GNOME client (clients/gnome/src/chat.rs,   *)
(* history.rs): which rows of which messages are on screen, the paging     *)
(* back, the reaction chips, the composer with its staged files and what   *)
(* a Send makes of them, the bubbles of what waits in the outbox.          *)
(*                                                                         *)
(* One GTK thread.  A task is a future of it: it asks the core or the      *)
(* network, which answers in its own time, and goes on when GTK next runs  *)
(* it, whatever was opened, drawn or deleted meanwhile.  ChatView composes *)
(* these pieces into the handlers.                                         *)
(***************************************************************************)
EXTENDS Integers, Sequences, FiniteSetsExt, Bags

CONSTANTS
  Channels,
  Closed,     \* no conversation is open
  Home,       \* of each message its channel; ids are in time order
  Posted,     \* the messages there are at the start
  Reacted,    \* the one of them that is reacted to
  Page,       \* messages of a page (50)
  Window,     \* rows that fill the window
  MaxTasks,   \* bound: futures at a time
  MaxEvents,  \* bound: live events not taken yet
  Budgets     \* bound: how often what comes from outside happens, see Spend

Outside == {"select", "scroll", "post", "edit", "delete", "drop", "fail", "react", "restore",
            "type", "send", "reply", "pick", "unclear", "cancel",
            "gone", "added", "start", "browse", "join", "manage", "rename", "search",
            "error", "typing", "flip", "focus", "offer", "withdraw", "answer", "end"}

Messages == DOMAIN Home

ASSUME TimelineAssumption ==
  /\ Closed \notin Channels /\ Messages \subseteq Nat \ {0} /\ Home \in [Messages -> Channels]
  /\ Posted \subseteq Messages /\ Reacted \in Posted /\ {Page, Window, MaxTasks, MaxEvents} \subseteq Nat \ {0}
  /\ Budgets \subseteq [Outside -> Nat] \X [open : Channels \cup {Closed}, store : BOOLEAN, away : SUBSET Channels]

VARIABLES
  budget,     \* what is left of it
  (* the server and the core *)
  ver,        \* of each message: 0 not posted, 1 as posted, 2 edited, 3 deleted
  away,       \* channels this user isn't in: not joined yet, left, removed from, deleted
  link,       \* the live connection
  behind,     \* messages that changed while it was down and no sync has brought
  store,      \* this user's local data is open
  held,       \* the cache: the version it has of each message, 0: none
  heldChip,   \* the reactions of the message reacted to, as the cache has them
  cover,      \* the range of each channel the cache vouches for
  known,      \* the channels the cache lists
  events,     \* live events on their way to the GTK loop
  notes,      \* channels of the cache notices on their way to it; Closed: of channels removed
  (* the view *)
  current, rows, pager, fill, replying,
  tasks,      \* the bag of the futures
  sound,      \* history: no page was drawn here that the cache didn't vouch for
  (* the chip of one emoji on the message reacted to *)
  reacting,   \* requests to react, or to take it back
  voters, cast, voteEvents, tally, order,
  base,       \* changes numbered before the server's numbering started over
  seen,       \* history: the newest change applied, of anyone and of mine, and the newest gone by without a trace
  stale,      \* history: what of the chip drawn may be wrong
  (* sending *)
  composer, textDraft, staged, sends, queue, poke, bubbles, shownIds, lastId,
  made,       \* history: what was meant, and the message made of it
  crossed     \* history: what may be sent again though another send has taken the place of its id

serverVars == <<ver, away, link, behind, store>>
cacheVars == <<held, heldChip, cover, known>>
feedVars == <<events, notes>>
viewVars == <<current, rows, pager, fill, replying, sound>>
chipVars == <<reacting, voters, cast, voteEvents, tally, order, base, seen, stale>>
sendVars == <<composer, textDraft, staged, sends, queue, poke, bubbles, shownIds, lastId, made, crossed>>

Spend(what) == budget[what] > 0 /\ budget' = [budget EXCEPT ![what] = @ - 1]

NoRange == [top |-> 0, bottom |-> 0, start |-> FALSE, any |-> FALSE]
NewPager(n) == [generation |-> n, ready |-> FALSE, loading |-> FALSE, atStart |-> FALSE,
                pagedBack |-> FALSE, backoff |-> FALSE]
Chip == {"count", "flag"}
NoChip == [count |-> 0, me |-> FALSE]
NoOrder == [count |-> 0, own |-> 0]
NoVotes == [chip |-> NoChip, upto |-> 0]
Zeros == [c \in Channels |-> 0]
\* What a future was started for, and what it brings back.
NoTask == [kind |-> "none", at |-> "", chan |-> Closed, gen |-> 0, before |-> 0, sure |-> FALSE,
           got |-> <<>>, votes |-> NoVotes, ids |-> {}, chans |-> {}, offers |-> Zeros, last |-> Zeros]
NoDraft == [draft |-> <<>>, id |-> 0]
NoText == [text |-> "", meant |-> 0]
NotStaged == [files |-> {}, preparing |-> FALSE, slot |-> NoDraft, cancelled |-> 0]

Of(c) == {m \in Messages : Home[m] = c}
Newest(S) == {m \in S : Cardinality({x \in S : x > m}) < Page}
Versions(S, v) == [m \in S |-> v[m]]

\* The rows an opening of `c` comes to without anything in its way.
TimelineInit ==
  \E b \in Budgets :
    LET c == b[2].open
        old == IF c = Closed THEN {} ELSE Newest(Of(c) \cap Posted) IN
    /\ budget = b[1] /\ store = b[2].store
    /\ ver = [m \in Messages |-> IF m \in Posted THEN 1 ELSE 0]
    /\ away = b[2].away /\ known = (IF store THEN Channels \ away ELSE {}) /\ link = "up" /\ behind = {}
    /\ held = [m \in Messages |-> IF store /\ m \in old THEN 1 ELSE 0]
    /\ cover = [d \in Channels |-> IF ~store \/ d # c THEN NoRange
                ELSE [top |-> IF old = {} THEN 0 ELSE Max(old), bottom |-> IF old = {} THEN 0 ELSE Min(old),
                      start |-> Cardinality(old) < Page, any |-> TRUE]]
    /\ events = <<>> /\ notes = {}
    /\ current = c /\ rows = Versions(old, ver) /\ pager = [NewPager(1) EXCEPT !.ready = c # Closed]
    /\ fill = FALSE /\ replying = 0 /\ tasks = EmptyBag /\ sound = TRUE
    /\ reacting = {} /\ voters = {} /\ cast = 0 /\ voteEvents = {} /\ tally = NoChip /\ order = NoOrder
    /\ heldChip = NoVotes /\ base = 0 /\ seen = [count |-> 0, flag |-> 0, gone |-> 0] /\ stale = {}
    /\ composer = NoText /\ textDraft = NoDraft /\ staged = NotStaged /\ sends = {} /\ queue = {}
    /\ poke = FALSE /\ bubbles = {} /\ shownIds = {} /\ lastId = 0 /\ made = {} /\ crossed = {}

\* f, and g where f says nothing.
Over(f, g) == [x \in DOMAIN f \cup DOMAIN g |-> IF x \in DOMAIN f THEN f[x] ELSE g[x]]

Fits(n) == BagCardinality(tasks) + n <= MaxTasks
New(kind, at, c) == [NoTask EXCEPT !.kind = kind, !.at = at, !.chan = c]
Spawned(t) == tasks (+) SetToBag({t})
Ended(t) == tasks (-) SetToBag({t})
Goes(t, u) == Ended(t) (+) SetToBag({u})
Task(t, kind, at) == t.kind = kind /\ t.at = at

\* What the server says of the reactions, and the changes that takes in.
Votes == [chip |-> [count |-> Cardinality(voters), me |-> "me" \in voters], upto |-> cast]
\* Part of messages S, or else v as it was.
VotesIn(S, v) == IF Reacted \in S THEN Votes ELSE v

-----------------------------------------------------------------------------
(* The server, and the core beside the view. *)

Push(e) == events' = Append(events, e)
Room == Len(events) < MaxEvents

\* A change of message m reaches the cache and the event stream, or waits for a sync.
Changes(m, v, kind) ==
  /\ Home[m] \notin away /\ ver' = [ver EXCEPT ![m] = v]
  /\ IF link = "up"
     THEN /\ Room /\ Push([k |-> kind, m |-> m, c |-> Home[m]])
          /\ held' = [held EXCEPT ![m] = IF store THEN v ELSE 0] /\ heldChip' = VotesIn({m}, heldChip)
          /\ notes' = IF store THEN notes \cup {Home[m]} ELSE notes
          /\ UNCHANGED behind
     ELSE behind' = behind \cup {m} /\ UNCHANGED <<events, held, heldChip, notes>>
  /\ UNCHANGED <<away, link, store, cover, known, viewVars, tasks, chipVars, sendVars>>

Post == \E m \in Messages :
  /\ ver[m] = 0 /\ (\A x \in Messages : x < m => ver[x] # 0) /\ Spend("post") /\ Changes(m, 1, "new")
Edit == \E m \in Messages : ver[m] = 1 /\ Spend("edit") /\ Changes(m, 2, "update")
Delete == \E m \in Messages : ver[m] \in {1, 2} /\ Spend("delete") /\ Changes(m, 3, "delete")

\* Channels C leave the cache, with all of theirs.
Forgets(C) ==
  /\ held' = [m \in Messages |-> IF Home[m] \in C THEN 0 ELSE held[m]]
  /\ cover' = [c \in Channels |-> IF c \in C THEN NoRange ELSE cover[c]] /\ UNCHANGED heldChip

\* This user is out of channel c: channel.delete, if it gets here.
Out(c) ==
  /\ away' = away \cup {c}
  /\ IF link = "up"
     THEN /\ Room /\ Push([k |-> "gone", m |-> 0, c |-> c]) /\ Forgets({c}) /\ known' = known \ {c}
          /\ notes' = IF store THEN notes \cup {Closed} ELSE notes
     ELSE UNCHANGED <<events, cacheVars, notes>>
\* ... and in it: channel.update, which the cache lists it by.
In(c) ==
  /\ away' = away \ {c}
  /\ IF link = "up"
     THEN /\ Room /\ Push([k |-> "meta", m |-> 0, c |-> c])
          /\ IF store THEN known' = known \cup {c} /\ notes' = notes \cup {c} ELSE UNCHANGED <<known, notes>>
     ELSE UNCHANGED <<events, known, notes>>
  /\ UNCHANGED <<held, heldChip, cover>>

\* Changes N go by without a trace; the chip drawn may not show them.
GoesBy(N) ==
  /\ seen' = [seen EXCEPT !.gone = Max(N \cup {@})]
  /\ stale' = IF N # {} THEN Chip ELSE stale
\* The connection drops, with the reaction events that were on it.
Drop ==
  /\ link = "up" /\ Spend("drop") /\ link' = "down"
  /\ voteEvents' = {} /\ GoesBy({e.n : e \in voteEvents})
  /\ UNCHANGED <<ver, away, behind, store, cacheVars, feedVars, viewVars, tasks, reacting, voters, cast, base, tally,
                 order, sendVars>>
Reconnect ==
  /\ link = "down" /\ Room /\ link' = "up" /\ Push([k |-> "ready", m |-> 0, c |-> Closed])
  /\ UNCHANGED <<budget, ver, away, behind, store, cacheVars, notes, viewVars, tasks, chipVars, sendVars>>

\* A sync run: the channels and the messages it brings, and the tops it settles.
Sync ==
  LET here == Channels \ away
      moved == {m \in behind : Home[m] \in here} IN
  /\ store /\ link = "up" /\ (behind # {} \/ known # here) /\ behind' = {} /\ known' = here
  /\ held' = [m \in Messages |-> IF m \in moved THEN ver[m] ELSE IF Home[m] \in away THEN 0 ELSE held[m]]
  /\ heldChip' = VotesIn(moved, heldChip)
  /\ cover' = [c \in Channels |->
       LET S == {m \in Of(c) : held'[m] # 0} IN
       IF c \in away THEN NoRange
       ELSE IF cover[c].any /\ S # {} /\ Max(S) > cover[c].top
       THEN [cover[c] EXCEPT !.top = Max(S), !.bottom = IF @ = 0 THEN Min(S) ELSE @]
       ELSE cover[c]]
  /\ notes' = notes \cup {Home[m] : m \in moved} \cup (here \ known) \cup (IF known \cap away # {} THEN {Closed} ELSE {})
  /\ UNCHANGED <<budget, ver, away, link, store, events, viewVars, tasks, chipVars, sendVars>>

\* What the server answers to channel_history: the deleted are left out.
History(c, before) ==
  Newest({m \in Of(c) : ver[m] \in {1, 2} /\ (before = 0 \/ m < before)})

CachedPage(h, c, before) == Newest({m \in Of(c) : h[m] # 0 /\ (before = 0 \/ m < before)})

\* MessagesPage::needs_network, denied.
Vouched(h, r, before, S) ==
  LET alive == {m \in S : h[m] # 3}
      edge == IF before # 0 THEN {before} ELSE IF alive = {} THEN {} ELSE {Max(alive)} IN
  /\ r.any
  /\ \A m \in edge : r.top # 0 /\ m <= r.top
  /\ r.start \/ (Cardinality(S) >= Page /\ Min(S) >= r.bottom)

\* The range once a page S fetched before `before` (0: the newest) landed: record_head, record_older.
Covered(r, before, S) ==
  LET short == Cardinality(S) < Page
      meets == r.bottom # 0 /\ r.top >= Min(S) /\ Max(S) >= r.bottom IN
  IF before # 0 THEN IF r.any /\ r.bottom = before
                     THEN [r EXCEPT !.bottom = IF S = {} THEN @ ELSE Min(S), !.start = @ \/ short]
                     ELSE r
  ELSE IF S = {} THEN IF r.top = 0 THEN [r EXCEPT !.start = TRUE, !.any = TRUE] ELSE r
  ELSE IF r.bottom # 0 /\ Max(S) < r.bottom THEN r
  ELSE [top |-> Max(S \cup {r.top}), any |-> TRUE,
        bottom |-> IF meets THEN Min({r.bottom, Min(S)}) ELSE Min(S),
        start |-> IF meets THEN r.start \/ short ELSE short]

\* load_head and load_older: the cache with a page of the server's.
Load(c, before) ==
  LET S == History(c, before) IN
  [held |-> [m \in Messages |-> IF m \in S THEN ver[m] ELSE held[m]], chip |-> VotesIn(S, heldChip),
   cover |-> [cover EXCEPT ![c] = Covered(@, before, S)], notes |-> notes \cup {c}]
AsItIs == [held |-> held, chip |-> heldChip, cover |-> cover, notes |-> notes]

-----------------------------------------------------------------------------
(* Rows and chips. *)

\* append_message: a row for the message as given, in place of the one it has.
Append1(r, m, v) == Over([x \in {m} |-> v], r)
\* mark_quotes_deleted apart, show_deleted.
Tombstone(r, m) == [r EXCEPT ![m] = 3]
\* update_message: a tombstone stays one.
Updated(r, m, v) == IF m \in DOMAIN r /\ r[m] # 3 THEN [r EXCEPT ![m] = v] ELSE r

\* Mutant: my flag is only taken from the newest event of all.
JudgeTogether(o, e) == [count |-> e.seq > o.count, flag |-> e.mine /\ e.seq > o.count]
\* ReactionOrder::judge and reactions_after.
Judge(o, e) == [count |-> e.seq > o.count, flag |-> e.mine /\ e.seq > o.own]
ChipAfter(chip, e, fresh) ==
  LET flagged == IF fresh.flag THEN e.added ELSE chip.me
      next == IF fresh.count THEN [count |-> e.count, me |-> IF chip.count = 0 THEN fresh.flag /\ e.added ELSE flagged]
              ELSE IF chip.count # 0 THEN [chip EXCEPT !.me = flagged] ELSE chip IN
  IF next.count = 0 THEN NoChip ELSE next

\* toggle_reaction: the request reads whether this user's reaction is there,
ReactAsks == \E u \in {"me", "other"} :
  /\ ver[Reacted] # 3 /\ Home[Reacted] \notin away /\ Spend("react")
  /\ reacting' = reacting \cup {[n |-> budget'["react"], u |-> u, sees |-> u \in voters, at |-> "read", seq |-> 0,
                               count |-> 0]}
  /\ UNCHANGED <<serverVars, cacheVars, feedVars, viewVars, tasks, voters, cast, base, voteEvents, tally, order, seen,
                 stale, sendVars>>
Moves(r, s) == reacting' = (reacting \ {r}) \cup {s}
ChipStep == UNCHANGED <<budget, ver, away, link, store, cacheVars, feedVars, viewVars, tasks, base, tally, order, sendVars>>
\* an overlapping one added it meanwhile: rolled back, and read again,
ReactCollides == \E r \in reacting :
  /\ r.at = "read" /\ ~r.sees /\ r.u \in voters /\ Moves(r, [r EXCEPT !.sees = TRUE])
  /\ ChipStep /\ UNCHANGED <<behind, voters, cast, voteEvents, seen, stale>>
\* it adds or removes, and the server numbers that, for a sync to bring the message,
ReactCommits == \E r \in reacting :
  /\ r.at = "read" /\ (r.sees \/ r.u \notin voters) /\ cast' = cast + 1
  /\ voters' = IF r.sees THEN voters \ {r.u} ELSE voters \cup {r.u}
  /\ behind' = IF store THEN behind \cup {Reacted} ELSE behind
  /\ Moves(r, [r EXCEPT !.at = "done", !.seq = cast'])
  /\ ChipStep /\ UNCHANGED <<voteEvents, seen, stale>>
\* it counts, later commits included,
ReactCounts == \E r \in reacting :
  /\ r.at = "done" /\ Moves(r, [r EXCEPT !.at = "counted", !.count = Cardinality(voters)])
  /\ ChipStep /\ UNCHANGED <<behind, voters, cast, voteEvents, seen, stale>>
\* and the members are told.
ReactTells == \E r \in reacting :
  /\ r.at = "counted" /\ reacting' = reacting \ {r}
  /\ IF link = "up" /\ Home[Reacted] \notin away
     THEN /\ voteEvents' = voteEvents \cup {[n |-> r.seq, seq |-> r.seq - base, mine |-> r.u = "me", added |-> ~r.sees,
                                            count |-> r.count]}
          /\ UNCHANGED <<seen, stale>>
     ELSE GoesBy({r.seq}) /\ UNCHANGED voteEvents
  /\ ChipStep /\ UNCHANGED <<behind, voters, cast>>

\* What an event leaves of the doubts about the chip drawn: the newest yet ends them, unless it comes behind
\* a change that left no trace.
Doubts(e) ==
  LET told == {x \in (IF e.mine THEN Chip ELSE {"count"}) : e.n > seen[x]} IN
  (stale \ told) \cup {x \in told : e.n < seen.gone}

\* apply_reaction, in whatever order the events come, but behind the "ready" of their connection: nothing
\* is drawn or remembered when the message isn't on screen.
Reaction == \E e \in voteEvents :
  /\ \A i \in DOMAIN events : events[i].k # "ready"
  /\ voteEvents' = voteEvents \ {e}
  /\ IF Reacted \in DOMAIN rows
     THEN LET fresh == Judge(order, e) IN
          /\ tally' = ChipAfter(tally, e, fresh)
          /\ order' = [count |-> IF fresh.count THEN e.seq ELSE order.count,
                       own |-> IF fresh.flag THEN e.seq ELSE order.own]
          /\ seen' = [seen EXCEPT !.count = Max({@, e.n}), !.flag = IF e.mine THEN Max({@, e.n}) ELSE @]
          /\ stale' = Doubts(e)
     ELSE seen' = [seen EXCEPT !.gone = Max({@, e.n})] /\ UNCHANGED <<tally, order, stale>>
  /\ UNCHANGED <<budget, serverVars, cacheVars, feedVars, viewVars, tasks, reacting, voters, cast, base, sendVars>>

\* The server is restored from a backup: its numbering starts over, its connections and requests end.
Restore ==
  /\ link = "down" /\ Spend("restore") /\ base' = cast /\ reacting' = {}
  /\ GoesBy({r.seq : r \in {x \in reacting : x.at # "read"}})
  /\ UNCHANGED <<serverVars, cacheVars, feedVars, viewVars, tasks, voters, cast, voteEvents, tally, order, sendVars>>

Forgotten == [count |-> 0, flag |-> 0, gone |-> Max({seen.gone, seen.count})]
\* The connection is another: what was applied says nothing about what follows.
ForgetOrder == order' = NoOrder /\ seen' = Forgotten
\* The rows go, and their chips.
ForgetChips == ForgetOrder /\ tally' = NoChip /\ stale' = {}

\* append_message: messages S are drawn, with the reactions they were read with.
DrawsChip(S, v) ==
  IF Reacted \in S
  THEN /\ tally' = v.chip
       /\ stale' = IF v.upto < Max({seen.gone, seen.count}) THEN Chip ELSE {}
  ELSE UNCHANGED <<tally, stale>>
ChipsElse == UNCHANGED <<reacting, voters, cast, base, voteEvents, order, seen>>

-----------------------------------------------------------------------------
(* select_channel and the future it leaves; paging back. *)

Cleared ==
  /\ rows' = <<>> /\ pager' = NewPager(pager.generation + 1) /\ fill' = FALSE

OpenView(c, others) ==
  /\ Cleared /\ current' = c /\ replying' = 0 /\ sound' = TRUE
  /\ tasks' = others (+) SetToBag({[New("open", "cache", c) EXCEPT !.gen = pager.generation + 1]})
  /\ bubbles' = {} /\ shownIds' = {}
  /\ LET left == IF staged.preparing THEN staged ELSE NotStaged IN staged' = left

CloseView ==
  /\ Cleared /\ current' = Closed /\ UNCHANGED <<replying, sound>>

\* A request about c fails; one about a channel this user isn't in always does.
Failing(c) == IF c \in away THEN UNCHANGED budget ELSE Spend("fail")

\* A page of the cache k, and whether it vouches for it.
PageOf(k, c, before) ==
  LET S == CachedPage(k.held, c, before) IN
  [got |-> Versions(S, k.held), sure |-> Vouched(k.held, k.cover[c], before, S),
   votes |-> IF Reacted \in S THEN k.chip ELSE NoVotes]
\* The server's page as a task brings it.
Fetched(t, at) ==
  LET S == History(t.chan, t.before) IN [t EXCEPT !.at = at, !.got = Versions(S, ver), !.votes = VotesIn(S, NoVotes)]
\* What can't be vouched for is loaded first, from `from` on; k is the cache the page is read from then.
CacheAnswers(c, before, from, k) ==
  /\ IF PageOf(AsItIs, c, before).sure THEN k = AsItIs /\ UNCHANGED budget
     ELSE \/ k = Load(c, from) /\ c \notin away /\ UNCHANGED budget
          \/ k = AsItIs /\ Failing(c)
  /\ held' = k.held /\ heldChip' = k.chip /\ cover' = k.cover /\ notes' = k.notes /\ UNCHANGED known

OpenReads == \E t \in DOMAIN tasks :
  LET c == t.chan IN
  /\ Task(t, "open", "cache")
  /\ IF store
     THEN \E k \in {AsItIs, Load(c, 0)} :
            LET p == PageOf(k, c, 0) IN
            /\ CacheAnswers(c, 0, 0, k)
            /\ tasks' = Goes(t, [t EXCEPT !.at = "cached", !.got = p.got, !.sure = p.sure, !.votes = p.votes])
     ELSE tasks' = Goes(t, [t EXCEPT !.at = "network"]) /\ UNCHANGED <<budget, cacheVars, notes>>
  /\ UNCHANGED <<serverVars, events, viewVars, chipVars, sendVars>>

\* Back in GTK with the cached page: every message of it is drawn.
OpenDrawsCached == \E t \in DOMAIN tasks :
  /\ Task(t, "open", "cached")
  /\ IF current # t.chan
     THEN tasks' = Ended(t) /\ UNCHANGED <<viewVars, tally, stale>>
     ELSE /\ rows' = Over(t.got, rows) /\ DrawsChip(DOMAIN t.got, t.votes) /\ sound' = (sound /\ t.sure)
          /\ pager' = IF t.gen = pager.generation THEN [pager EXCEPT !.ready = TRUE] ELSE pager
          /\ tasks' = Goes(t, [t EXCEPT !.at = "network", !.got = <<>>, !.votes = NoVotes])
          /\ UNCHANGED <<current, fill, replying>>
  /\ ChipsElse /\ UNCHANGED <<budget, serverVars, cacheVars, feedVars, sendVars>>

OpenFetches == \E t \in DOMAIN tasks :
  /\ Task(t, "open", "network")
  /\ \/ tasks' = Goes(t, [Fetched(t, "history") EXCEPT !.sure = TRUE])
        /\ t.chan \notin away /\ UNCHANGED budget
     \/ tasks' = Goes(t, [t EXCEPT !.at = "history", !.sure = FALSE]) /\ Failing(t.chan)
  /\ UNCHANGED <<serverVars, cacheVars, feedVars, viewVars, chipVars, sendVars>>

\* Mutant: the list is cleared when the history arrives, not when the conversation is opened.
OpenDrawsLate == \E t \in DOMAIN tasks :
  /\ Task(t, "open", "history") /\ tasks' = Ended(t)
  /\ IF current # t.chan THEN UNCHANGED <<viewVars, poke, tally, stale>>
     ELSE /\ rows' = t.got /\ DrawsChip(DOMAIN t.got, t.votes) /\ poke' = TRUE /\ fill' = TRUE
          /\ pager' = IF t.gen = pager.generation THEN [pager EXCEPT !.ready = TRUE] ELSE pager
          /\ UNCHANGED <<current, replying, sound>>
  /\ ChipsElse /\ UNCHANGED <<budget, serverVars, cacheVars, feedVars, composer, textDraft, staged, sends, queue,
                              bubbles, shownIds, lastId, made, crossed>>
\* Back with the history: what isn't on screen is drawn; the queue's bubbles, and perhaps an older page.
OpenDraws == \E t \in DOMAIN tasks :
  /\ Task(t, "open", "history") /\ tasks' = Ended(t)
  /\ IF current # t.chan THEN UNCHANGED <<viewVars, poke, tally, stale>>
     ELSE /\ rows' = Over(rows, t.got) /\ DrawsChip(DOMAIN t.got \ DOMAIN rows, t.votes)
          /\ poke' = TRUE /\ fill' = TRUE
          /\ pager' = IF t.gen = pager.generation THEN [pager EXCEPT !.ready = TRUE] ELSE pager
          /\ UNCHANGED <<current, replying, sound>>
  /\ ChipsElse /\ UNCHANGED <<budget, serverVars, cacheVars, feedVars, composer, textDraft, staged, sends, queue,
                              bubbles, shownIds, lastId, made, crossed>>

\* Pager::begin.
MayPage == current # Closed /\ pager.ready /\ ~pager.loading /\ ~pager.atStart /\ ~pager.backoff /\ rows # <<>>
Pages ==
  IF MayPage
  THEN /\ Fits(1) /\ pager' = [pager EXCEPT !.loading = TRUE]
       /\ tasks' = Spawned([New("older", "ask", current) EXCEPT !.gen = pager.generation, !.before = Min(DOMAIN rows)])
  ELSE UNCHANGED <<pager, tasks>>

Scroll ==
  /\ MayPage /\ Spend("scroll") /\ Pages
  /\ UNCHANGED <<serverVars, cacheVars, feedVars, current, rows, fill, replying, sound, chipVars, sendVars>>

\* fill_view: a list that doesn't fill the window asks for more.
FillView ==
  /\ fill /\ fill' = FALSE
  /\ IF Cardinality(DOMAIN rows) <= Window THEN Pages ELSE UNCHANGED <<pager, tasks>>
  /\ UNCHANGED <<budget, serverVars, cacheVars, feedVars, current, rows, replying, sound, chipVars, sendVars>>

\* older_page: from the cache if it vouches for the page, else from the network.
OlderReads == \E t \in DOMAIN tasks :
  LET oldest == IF cover[t.chan].any THEN cover[t.chan].bottom ELSE 0 IN
  /\ Task(t, "older", "ask")
  /\ IF store
     THEN \E k \in {AsItIs, Load(t.chan, oldest)} :
            /\ CacheAnswers(t.chan, t.before, oldest, k)
            /\ LET p == PageOf(k, t.chan, t.before) IN
               tasks' = Goes(t, IF p.sure THEN [t EXCEPT !.at = "page", !.got = p.got, !.votes = p.votes] ELSE [t EXCEPT !.at = "network"])
     ELSE tasks' = Goes(t, [t EXCEPT !.at = "network"]) /\ UNCHANGED <<budget, cacheVars, notes>>
  /\ UNCHANGED <<serverVars, events, viewVars, chipVars, sendVars>>

OlderFetches == \E t \in DOMAIN tasks :
  /\ Task(t, "older", "network")
  /\ \/ /\ tasks' = Goes(t, Fetched(t, "page"))
        /\ t.chan \notin away /\ UNCHANGED budget
     \/ tasks' = Goes(t, [t EXCEPT !.at = "failed"]) /\ Failing(t.chan)
  /\ UNCHANGED <<serverVars, cacheVars, feedVars, viewVars, chipVars, sendVars>>

OlderDraws == \E t \in DOMAIN tasks :
  /\ Task(t, "older", "page") /\ tasks' = Ended(t)
  /\ IF current = t.chan /\ t.gen = pager.generation
     THEN /\ pager' = [pager EXCEPT !.loading = FALSE, !.backoff = FALSE, !.atStart = @ \/ t.got = <<>>,
                                    !.pagedBack = @ \/ t.got # <<>>]
          /\ rows' = Over(rows, t.got) /\ DrawsChip(DOMAIN t.got \ DOMAIN rows, t.votes) /\ fill' = TRUE
     ELSE UNCHANGED <<pager, rows, fill, tally, stale>>
  /\ ChipsElse /\ UNCHANGED <<budget, serverVars, cacheVars, feedVars, current, replying, sound, sendVars>>

\* Mutant: a failed page is still counted as loading.
OlderFailsLoading == \E t \in DOMAIN tasks :
  /\ Task(t, "older", "failed") /\ tasks' = Ended(t)
  /\ pager' = IF t.gen = pager.generation THEN [pager EXCEPT !.backoff = TRUE] ELSE pager
  /\ UNCHANGED <<budget, serverVars, cacheVars, feedVars, current, rows, fill, replying, sound, chipVars, sendVars>>
OlderFails == \E t \in DOMAIN tasks :
  /\ Task(t, "older", "failed") /\ tasks' = Ended(t)
  /\ pager' = IF t.gen = pager.generation THEN [pager EXCEPT !.loading = FALSE, !.backoff = TRUE] ELSE pager
  /\ UNCHANGED <<budget, serverVars, cacheVars, feedVars, current, rows, fill, replying, sound, chipVars, sendVars>>

BackoffEnds ==
  /\ pager.backoff /\ pager' = [pager EXCEPT !.backoff = FALSE]
  /\ UNCHANGED <<budget, serverVars, cacheVars, feedVars, current, rows, fill, replying, sound, tasks, chipVars,
                 sendVars>>

\* fill_from_cache.
FillReads == \E t \in DOMAIN tasks :
  LET p == PageOf(AsItIs, t.chan, 0) IN
  /\ Task(t, "fill", "ask") /\ tasks' = Goes(t, [t EXCEPT !.at = "page", !.got = p.got, !.votes = p.votes])
  /\ UNCHANGED <<budget, serverVars, cacheVars, feedVars, viewVars, chipVars, sendVars>>
\* What isn't shown is drawn, what was deleted becomes a tombstone; the rest stays as it is.
FillDraws == \E t \in DOMAIN tasks :
  /\ Task(t, "fill", "page") /\ tasks' = Ended(t)
  /\ IF current # t.chan THEN UNCHANGED <<rows, tally, stale>>
     ELSE /\ rows' = Over([m \in DOMAIN rows |-> IF m \in DOMAIN t.got /\ t.got[m] = 3 THEN 3 ELSE rows[m]], t.got)
          /\ DrawsChip(DOMAIN t.got \ DOMAIN rows, t.votes)
  /\ ChipsElse
  /\ UNCHANGED <<budget, serverVars, cacheVars, feedVars, current, pager, fill, replying, sound, sendVars>>

-----------------------------------------------------------------------------
(* Sending: the composer, the draft's outbox id, the outbox, the bubbles.  *)

\* Mutant: every send gets a new id.
IdAnew(d, slot) == lastId + 1
\* draft_id: the failed attempt's id for exactly the same send, else a new one.
IdOf(d, slot) == IF slot.draft = d THEN slot.id ELSE lastId + 1
Draft(c, text, reply, files) == <<c, text, reply, files>>
Writable == current # Closed /\ ~staged.preparing

\* The user writes something new in the empty box.
Type(text) ==
  /\ Writable /\ composer = NoText /\ Spend("type")
  /\ composer' = [text |-> text, meant |-> budget'["type"] + 1]
  /\ UNCHANGED <<serverVars, cacheVars, feedVars, viewVars, tasks, chipVars, textDraft, staged, sends, queue, poke,
                 bubbles, shownIds, lastId, made, crossed>>

Reply == \E m \in DOMAIN rows :
  /\ rows[m] # 3 /\ replying = 0 /\ Spend("reply") /\ replying' = m
  /\ UNCHANGED <<serverVars, cacheVars, feedVars, current, rows, pager, fill, sound, tasks, chipVars, sendVars>>

Files(s) == s.draft[4]
\* The same words typed once, to the same place; the same files.
Meant(s) == <<s.meant, s.draft>>
\* What was tried, and may be once more: its text is in the box or on its way, its files are staged.
Begun == {Meant(s) : s \in sends} \cup {x.meant : x \in made}
TextsAgain == {b \in Begun : b[2][4] = {} /\ b[1] \in {composer.meant} \cup {s.meant : s \in sends}}
FilesAgain == {b \in Begun : b[2][4] # {} /\ b[2][4] \subseteq staged.files}
Crosses(S) == crossed' = crossed \cup S

SendText ==
  LET d == Draft(current, composer.text, replying, {})
      id == IdOf(d, textDraft) IN
  /\ Writable /\ staged.files = {} /\ composer # NoText /\ Spend("send")
  /\ textDraft' = [draft |-> d, id |-> id] /\ lastId' = Max({lastId, id})
  /\ sends' = sends \cup {[id |-> id, draft |-> d, meant |-> composer.meant, result |-> "none"]}
  /\ composer' = NoText /\ replying' = 0 /\ Crosses({b \in TextsAgain : b[2] # d})
  /\ UNCHANGED <<serverVars, cacheVars, feedVars, current, rows, pager, fill, sound, tasks, chipVars, staged,
                 queue, poke, bubbles, shownIds, made>>

SendFiles ==
  LET d == Draft(current, composer.text, replying, staged.files)
      id == IdOf(d, staged.slot) IN
  /\ Writable /\ staged.files # {} /\ Spend("send")
  /\ staged' = [staged EXCEPT !.slot = [draft |-> d, id |-> id], !.preparing = TRUE, !.cancelled = 0]
  /\ lastId' = Max({lastId, id})
  /\ sends' = sends \cup {[id |-> id, draft |-> d, meant |-> 0, result |-> "none"]}
  /\ Crosses({b \in FilesAgain : b[2] # d})
  /\ UNCHANGED <<serverVars, cacheVars, feedVars, viewVars, tasks, chipVars, composer, textDraft, queue, poke,
                 bubbles, shownIds, made>>

Answer(s, result) == sends' = (sends \ {s}) \cup {[s EXCEPT !.result = result]}
\* One more message of what was meant: the same one again for a known id.
Makes(s, key) == made' = made \cup {[meant |-> Meant(s), key |-> key, files |-> Files(s), chan |-> s.draft[1]]}

\* Into the outbox, which a cancelled copy leaves as it was; a failure may be one that stored it.
Enqueues == \E s \in sends :
  /\ s.result = "none" /\ store
  /\ \/ /\ ~(Files(s) # {} /\ staged.cancelled # 0)
        /\ Makes(s, s.id) /\ UNCHANGED lastId
        /\ queue' = IF \E q \in queue : q.id = s.id THEN queue
                    ELSE queue \cup {[id |-> s.id, chan |-> s.draft[1], out |-> FALSE]}
        /\ poke' = (poke \/ s.draft[1] = current)
        /\ \/ Answer(s, "queued") /\ UNCHANGED budget
           \/ Answer(s, "failed") /\ Spend("unclear")
     \/ /\ Files(s) # {} /\ staged.cancelled # 0 /\ Answer(s, "failed")
        /\ UNCHANGED <<budget, made, queue, poke, lastId>>
     \/ Answer(s, "failed") /\ Spend("fail") /\ UNCHANGED <<made, queue, poke, lastId>>
  /\ UNCHANGED <<serverVars, cacheVars, feedVars, viewVars, tasks, chipVars, composer, textDraft, staged, bubbles,
                 shownIds, crossed>>

\* No local data: text goes straight to the server, without an id; files are refused.
SendsDirect == \E s \in sends :
  /\ s.result = "none" /\ ~store
  /\ \/ /\ Files(s) = {} /\ Makes(s, <<"server", lastId + 1>>) /\ lastId' = lastId + 1
        /\ \/ Answer(s, "sent") /\ UNCHANGED budget
           \/ Answer(s, "failed") /\ Spend("unclear")
     \/ Files(s) # {} /\ Answer(s, "failed") /\ UNCHANGED <<budget, made, lastId>>
     \/ Files(s) = {} /\ Answer(s, "failed") /\ Spend("fail") /\ UNCHANGED <<made, lastId>>
  /\ UNCHANGED <<serverVars, cacheVars, feedVars, viewVars, tasks, chipVars, composer, textDraft, staged, queue,
                 poke, bubbles, shownIds, crossed>>

\* Back in send_current: the slot is free again, or the text is back in the box if it is empty.
TextAnswered(s) ==
  /\ Files(s) = {} /\ s.result # "none" /\ sends' = sends \ {s}
  /\ IF s.result # "failed"
     THEN /\ textDraft' = NoDraft /\ poke' = (poke \/ s.result = "queued") /\ UNCHANGED <<composer, replying>>
          /\ Crosses({b \in TextsAgain : b[1] # s.meant})
     ELSE /\ IF composer = NoText
             THEN composer' = [text |-> s.draft[2], meant |-> s.meant]
                  /\ replying' = IF s.draft[3] # 0 THEN s.draft[3] ELSE replying
             ELSE UNCHANGED <<composer, replying>>
          /\ UNCHANGED <<textDraft, poke, crossed>>
  /\ UNCHANGED <<budget, serverVars, cacheVars, feedVars, current, rows, pager, fill, sound, tasks, chipVars, staged,
                 queue, bubbles, shownIds, lastId, made>>

\* Back in send_with_files.
FilesAnswered(s) ==
  /\ Files(s) # {} /\ s.result # "none" /\ sends' = sends \ {s}
  /\ IF s.result = "queued"
     THEN /\ staged' = NotStaged
          /\ composer' = IF composer.text = s.draft[2] THEN NoText ELSE composer
          /\ replying' = 0 /\ poke' = TRUE
     ELSE /\ LET kept == {f \in staged.files : f.n # staged.cancelled} IN
             staged' = [files |-> kept, preparing |-> FALSE, cancelled |-> 0,
                        slot |-> IF staged.cancelled # 0 /\ kept = {} THEN NoDraft ELSE staged.slot]
          /\ UNCHANGED <<composer, replying, poke>>
  /\ UNCHANGED <<budget, serverVars, cacheVars, feedVars, current, rows, pager, fill, sound, tasks, chipVars,
                 textDraft, queue, bubbles, shownIds, lastId, made, crossed>>

\* Files are picked, dropped or pasted; what they are is asked first.
Pick ==
  /\ Writable /\ Fits(1) /\ Spend("pick")
  /\ tasks' = Spawned([New("stage", "", current) EXCEPT !.gen = budget'["pick"] + 1])
  /\ UNCHANGED <<serverVars, cacheVars, feedVars, viewVars, chipVars, sendVars>>
Stages == \E t \in DOMAIN tasks :
  /\ t.kind = "stage" /\ tasks' = Ended(t)
  /\ staged' = IF current # t.chan THEN staged
               ELSE [staged EXCEPT !.files = @ \cup {[n |-> t.gen, chan |-> t.chan]}]
  /\ UNCHANGED <<budget, serverVars, cacheVars, feedVars, viewVars, chipVars, composer, textDraft, sends, queue, poke,
                 bubbles, shownIds, lastId, made, crossed>>

\* A chip's button: it cancels the copy, or takes the file out.
ChipButton == \E f \in staged.files :
  /\ Spend("cancel")
  /\ staged' = IF staged.preparing THEN [staged EXCEPT !.cancelled = f.n]
               ELSE [staged EXCEPT !.files = @ \ {f}]
  /\ UNCHANGED <<serverVars, cacheVars, feedVars, viewVars, tasks, chipVars, composer, textDraft, sends, queue, poke,
                 bubbles, shownIds, lastId, made, crossed>>

\* The outbox sends a message: its event, then its row goes and the app is told.
OutboxSends == \E q \in queue :
  /\ ~q.out /\ link = "up" /\ Room /\ Push([k |-> "echo", m |-> q.id, c |-> q.chan])
  /\ queue' = (queue \ {q}) \cup {[q EXCEPT !.out = TRUE]}
  /\ UNCHANGED <<budget, serverVars, cacheVars, notes, viewVars, tasks, chipVars, composer, textDraft, staged, sends,
                 poke, bubbles, shownIds, lastId, made, crossed>>
OutboxDrops == \E q \in queue :
  /\ q.out /\ queue' = queue \ {q} /\ poke' = (poke \/ q.chan = current)
  /\ UNCHANGED <<budget, serverVars, cacheVars, feedVars, viewVars, tasks, chipVars, composer, textDraft, staged,
                 sends, bubbles, shownIds, lastId, made, crossed>>

\* render_pending: what is queued now, drawn later, but what is already shown as a message.
BubblesAsk ==
  /\ poke /\ poke' = FALSE
  /\ IF current = Closed THEN UNCHANGED tasks
     ELSE Fits(1) /\ tasks' = Spawned(New("bubbles", "ask", current))
  /\ UNCHANGED <<budget, serverVars, cacheVars, feedVars, viewVars, chipVars, composer, textDraft, staged, sends,
                 queue, bubbles, shownIds, lastId, made, crossed>>
BubblesRead == \E t \in DOMAIN tasks :
  /\ Task(t, "bubbles", "ask")
  /\ tasks' = Goes(t, [t EXCEPT !.at = "page",
                                  !.ids = {q.id : q \in {r \in queue : store /\ r.chan = t.chan}}])
  /\ UNCHANGED <<budget, serverVars, cacheVars, feedVars, viewVars, chipVars, sendVars>>
BubblesDraw == \E t \in DOMAIN tasks :
  /\ Task(t, "bubbles", "page") /\ tasks' = Ended(t)
  /\ bubbles' = IF current = t.chan THEN t.ids \ shownIds ELSE bubbles
  /\ UNCHANGED <<budget, serverVars, cacheVars, feedVars, viewVars, chipVars, composer, textDraft, staged, sends,
                 queue, poke, shownIds, lastId, made, crossed>>

\* A message of ours with its client_id is drawn.
Echoed(id) ==
  /\ shownIds' = shownIds \cup {id} /\ poke' = (poke \/ bubbles # {})
  /\ UNCHANGED <<composer, textDraft, staged, sends, queue, bubbles, lastId, made, crossed>>

-----------------------------------------------------------------------------
Quiet == /\ tasks = EmptyBag /\ events = <<>> /\ notes = {} /\ ~fill /\ ~poke
         /\ behind = {} /\ link = "up" /\ (store => known = Channels \ away) /\ sends = {} /\ queue = {} /\ voteEvents = {} /\ reacting = {}

TimelineTypeOK ==
  /\ budget \in [Outside -> Nat] /\ store \in BOOLEAN /\ link \in {"up", "down"}
  /\ ver \in [Messages -> 0..3] /\ held \in [Messages -> 0..3] /\ behind \subseteq Messages
  /\ cover \in [Channels -> [top : Messages \cup {0}, bottom : Messages \cup {0}, start : BOOLEAN, any : BOOLEAN]]
  /\ Len(events) <= MaxEvents /\ notes \subseteq Channels \cup {Closed} /\ away \cup known \subseteq Channels /\ current \in Channels \cup {Closed}
  /\ DOMAIN rows \subseteq Messages /\ \A m \in DOMAIN rows : rows[m] \in 1..3
  /\ DOMAIN pager = DOMAIN NewPager(1) /\ replying \in Messages \cup {0}
  /\ IsABag(tasks) /\ Fits(0) /\ \A t \in DOMAIN tasks : DOMAIN t = DOMAIN NoTask
  /\ DOMAIN tally = DOMAIN NoChip /\ DOMAIN staged = DOMAIN NotStaged

\* Whatever an answer comes back to, the rows on screen are the open channel's.
OnlyOpen == \A m \in DOMAIN rows : Home[m] = current

\* At rest, no message is missing among the rows: those newer than the oldest are all there.
Unbroken ==
  rows # <<>> => \A m \in Of(current) : ver[m] \in {1, 2} /\ m > Min(DOMAIN rows) => m \in DOMAIN rows

\* At rest, every row shows its message as it is.
UpToDate == \A m \in DOMAIN rows : rows[m] = ver[m]

\* At rest, no bubble stands beside the message it became.
NoDouble == bubbles \cap shownIds = {}

\* The chip of the message, if it is on screen, tells the truth.
ChipRight == Reacted \in DOMAIN rows => tally = Votes.chip
ChipTrue ==
  /\ Reacted \in DOMAIN rows /\ "count" \notin stale => tally.count = Cardinality(voters)
  /\ stale = {} => ChipRight

OneEach == \A x, y \in made : x.meant = y.meant => x.key = y.key
Uncrossed == \A x, y \in made : x.meant = y.meant /\ x.meant \notin crossed => x.key = y.key
AtHome == \A x \in made : \A f \in x.files : f.chan = x.chan
=============================================================================
