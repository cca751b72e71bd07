-------------------------------- MODULE Cache --------------------------------
(***************************************************************************)
(* A device's cache of one channel (core/src/apply.rs, cache.rs,           *)
(* coverage.rs, sync.rs), fed by /sync pages, live events and history      *)
(* pages, while the server's side of it changes: messages are sent, edited *)
(* and deleted, the user and one other member leave and come back.         *)
(*                                                                         *)
(* A message's number is its id: ids are in the order of creation.  A      *)
(* version of a row is its seq.  A committed change is one step, with the  *)
(* next seq (ChangeCounter); the statements of a request are steps of      *)
(* their own, and see what has committed by then.                          *)
(***************************************************************************)
EXTENDS Integers, Sequences, FiniteSetsExt, SyncRuns

CONSTANTS
  MaxSeq,    \* bound: changes
  SyncLimit, \* MAX_PAGE: seqs a /sync page has
  Limit,     \* messages a history page has
  Budgets    \* bound: how often each kind of thing happens, see Spend

Events == {"send", "edit", "delete", "out", "in", "mark", "member", "reset", "load", "event", "lose",
           "hint", "refuse"}

\* Messages there are from before the device.
Old == "old"

ASSUME BoundsAssumption == MaxSeq \in Nat /\ SyncLimit \in Nat \ {0} /\ Limit \in Nat \ {0}
ASSUME BudgetsAssumption == Budgets \subseteq {b \in [Events \cup {Old} -> Nat] : b[Old] < MaxSeq}

Ids == 1..MaxSeq

VARIABLES
  budget,
  (* the server *)
  now,     \* sync_counter.seq
  floor,   \* sync_counter.floor
  msgs,    \* messages: seq, gone
  mine, theirs, \* memberships of the user and of another: in, seq, joined
  chan,    \* the channel's seq
  tombs,   \* sync_tombstones of the channel
  sends,   \* handlers that have committed, with what they still have to send
  live,    \* events on their way to the device
  (* the device *)
  st,      \* cache.db, see Store
  req,     \* the /sync request
  loads,   \* history requests
  (* history *)
  wanted,  \* the counter when a sync was last asked for
  refused, \* the last run ended with an error that isn't for lack of a network
  base,    \* the cursor of the last sync from 0, which brings no messages
  early,   \* something from before that sync came outside it: the sync corrects none of it
  skipped, \* a statement of a page was read since the user left, and before they were back
  unseen   \* the user was back before a page could say that they left, or again while the device
           \* knew of no part of their last stay; or a page by a list, or a new message's event
           \* by the members, from before they left holds what changed since

serverVars == <<now, floor, msgs, mine, theirs, chan, tombs, sends>>
historyVars == <<base, early, skipped, unseen>>
askVars == <<runVars, wanted, refused>>
vars == <<budget, serverVars, live, st, req, loads, historyVars, askVars>>

Version == [seq |-> 0, gone |-> FALSE]
NoVersions == [i \in Ids |-> Version]
NoRows == [i \in Ids |-> [seq |-> 0, gone |-> FALSE, partial |-> FALSE]]
NoCoverage == [held |-> FALSE, top |-> 0, bottom |-> 0, complete |-> FALSE]

\* cache.db: meta, the rows of the channel, `removed` and `coverage`.  A seq of 0
\* is no row, an id of 0 no id.
Empty == [cursor |-> 0, gen |-> 0, ch |-> 0, my |-> 0, th |-> Version, rows |-> NoRows,
          fence |-> 0, active |-> FALSE, cov |-> NoCoverage]

NoBatch == [ch |-> 0, my |-> 0, th |-> 0, removed |-> 0, left |-> 0, rows |-> NoVersions,
            tombstones |-> [i \in Ids |-> 0], history |-> FALSE, floor |-> 0]
Idle == [at |-> "idle"]

Member == [in |-> TRUE, seq |-> 1, joined |-> 1]

Init ==
  /\ budget \in Budgets
  /\ now = 1 + budget[Old] /\ msgs = [i \in 1..budget[Old] |-> [seq |-> i + 1, gone |-> FALSE]]
  /\ floor = 0 /\ mine = Member /\ theirs = Member /\ chan = 1
  /\ tombs = {} /\ sends = {} /\ live = {}
  /\ st = Empty /\ req = Idle /\ loads = {}
  /\ base = 0 /\ early = FALSE /\ skipped = FALSE /\ unseen = FALSE
  /\ RunsInit(budget["hint"] > 0) /\ wanted = 0 /\ refused = FALSE

Spend(what) == budget[what] > 0 /\ budget' = [budget EXCEPT ![what] = @ - 1]

-----------------------------------------------------------------------------
(* The server's changes.                                                   *)

\* The next change, after which these are to be sent.
Change(what, after) ==
  /\ now < MaxSeq /\ now' = now + 1 /\ sends' = sends \cup after
  /\ Spend(what)
  /\ UNCHANGED <<floor, live, st, req, loads, base, early>>

\* send_message, by the user or the other: the user's own moves their read marker.
Send(own) ==
  /\ IF own THEN mine.in ELSE theirs.in
  /\ Change("send", IF mine.in THEN {[kind |-> "new", id |-> Len(msgs) + 1]} ELSE {})
  /\ msgs' = Append(msgs, [seq |-> now + 1, gone |-> FALSE])
  /\ mine' = IF own THEN [mine EXCEPT !.seq = now + 1] ELSE mine
  /\ UNCHANGED <<theirs, chan, tombs, skipped, unseen>>

\* edit_message, and what else re-stamps a message (reactions).
Edit(i) ==
  /\ ~msgs[i].gone
  /\ Change("edit", {[kind |-> "update", id |-> i]})
  /\ msgs' = [msgs EXCEPT ![i].seq = now + 1]
  /\ UNCHANGED <<mine, theirs, chan, tombs, skipped, unseen>>

\* delete_message
Delete(i) ==
  /\ ~msgs[i].gone
  /\ Change("delete", {[kind |-> "delete", id |-> i, seq |-> now + 1]})
  /\ msgs' = [msgs EXCEPT ![i] = [seq |-> now + 1, gone |-> TRUE]]
  /\ UNCHANGED <<mine, theirs, chan, tombs, skipped, unseen>>

\* remove_member of the user, who is told; the channel is re-stamped.
Out ==
  /\ mine.in
  /\ Change("out", {[kind |-> "out", seq |-> now + 1], [kind |-> "channel", seq |-> 0]})
  /\ mine' = [mine EXCEPT !.in = FALSE] /\ chan' = now + 1
  /\ tombs' = tombs \cup {[who |-> "me", seq |-> now + 1]}
  /\ skipped' = FALSE
  /\ UNCHANGED <<msgs, theirs, unseen>>

LastOut == Max({0} \cup {t.seq : t \in {t \in tombs : t.who = "me"}})

\* A device that has synced, or that is to land its first page, has heard of neither the
\* beginning nor the end of the user's last stay.
Unheard ==
  /\ st.fence < LastOut
  /\ IF st.cursor # 0 THEN st.my < mine.joined \/ st.ch = 0
     ELSE req.at \in {"state", "members", "page"} /\ req.page.my < mine.joined

\* add_member, join_channel.
In ==
  /\ ~mine.in
  /\ Change("in", {[kind |-> "channel", seq |-> 0]})
  /\ mine' = [in |-> TRUE, seq |-> now + 1, joined |-> now + 1] /\ chan' = now + 1
  /\ unseen' = (unseen \/ (skipped /\ st.fence < LastOut) \/ Unheard)
  /\ UNCHANGED <<msgs, theirs, tombs, skipped>>

\* mark_read, on another device.
Mark ==
  /\ mine.in
  /\ Change("mark", {})
  /\ mine' = [mine EXCEPT !.seq = now + 1]
  /\ UNCHANGED <<msgs, theirs, chan, tombs, skipped, unseen>>

\* The other member leaves, or joins.
OtherMember ==
  /\ Change("member", {[kind |-> "channel", seq |-> 0]})
  /\ chan' = now + 1
  /\ \/ /\ theirs.in
        /\ theirs' = [theirs EXCEPT !.in = FALSE]
        /\ tombs' = tombs \cup {[who |-> "them", seq |-> now + 1]}
     \/ /\ ~theirs.in
        /\ theirs' = [in |-> TRUE, seq |-> now + 1, joined |-> now + 1]
        /\ UNCHANGED tombs
  /\ UNCHANGED <<msgs, mine, skipped, unseen>>

\* The deployment drops old tombstones: cursors below are refused.
RaiseFloor ==
  /\ floor < now /\ Spend("reset") /\ floor' = now
  /\ UNCHANGED <<now, msgs, mine, theirs, chan, tombs, sends, live, st, req, loads, historyVars>>

-----------------------------------------------------------------------------
(* What is sent live, after the commit.                                    *)

Row(i) == [NoBatch EXCEPT !.rows[i] = msgs[i]]
Tombstone(i, n) == [NoBatch EXCEPT !.tombstones[i] = n]
ChannelRow(n) == [NoBatch EXCEPT !.ch = n]
Removal(n) == [NoBatch EXCEPT !.removed = n]

\* _emit_channel_update reads the channel, and later who is in it.
ReadChannel(e) ==
  /\ e \in sends /\ e.kind = "channel" /\ e.seq = 0
  /\ sends' = (sends \ {e}) \cup {[e EXCEPT !.seq = chan]}
  /\ UNCHANGED <<budget, now, floor, msgs, mine, theirs, chan, tombs, live, st, req, loads, historyVars>>

\* The rest of a handler: the row as it is now, to whoever is a member now; a new
\* message to the members of its commit, a removal to who was removed.
Emit(e) ==
  /\ e \in sends /\ ~(e.kind = "channel" /\ e.seq = 0)
  /\ sends' = sends \ {e}
  /\ \/ /\ e.kind = "new" \/ (e.kind = "update" /\ ~msgs[e.id].gone /\ mine.in)
        /\ live' = live \cup {Row(e.id)}
     \/ e.kind = "delete" /\ mine.in /\ live' = live \cup {Tombstone(e.id, e.seq)}
     \/ e.kind = "channel" /\ mine.in /\ live' = live \cup {ChannelRow(e.seq)}
     \/ e.kind = "out" /\ live' = live \cup {Removal(e.seq)}
  /\ unseen' = (unseen \/ (e.kind = "new" /\ ~mine.in /\ msgs[e.id].seq > LastOut))
  /\ UNCHANGED <<budget, now, floor, msgs, mine, theirs, chan, tombs, st, req, loads, base, early, skipped>>

-----------------------------------------------------------------------------
(* apply, in its order.  Each part maps the store to the store after it.   *)

Fenced(s, n) == s.active /\ n <= s.fence

\* 1. The user's own membership; above the fence it lifts it.
ApplyMine(s, b) ==
  IF b.my > s.my /\ ~Fenced(s, b.my) THEN [s EXCEPT !.my = b.my, !.active = FALSE] ELSE s

\* Mutant: a removal older than the user's membership counts.
ApplyRemovalAlways(s, b) ==
  IF b.removed = 0 \/ b.removed <= s.fence THEN s
  ELSE [Empty EXCEPT !.cursor = s.cursor, !.gen = s.gen, !.fence = b.removed, !.active = TRUE]

\* 2. A removal above it: the fence, and the channel's rows go.
ApplyRemoval(s, b) ==
  IF b.removed = 0 \/ (s.my # 0 /\ b.removed <= s.my) \/ b.removed <= s.fence THEN s
  ELSE [Empty EXCEPT !.cursor = s.cursor, !.gen = s.gen, !.fence = b.removed, !.active = TRUE]

\* 3. The channel, the other member, their departure, through the guard.
ApplyChannel(s, b) == IF b.ch > s.ch /\ ~Fenced(s, b.ch) THEN [s EXCEPT !.ch = b.ch] ELSE s
ApplyTheirs(s, b) ==
  IF b.th > s.th.seq /\ ~Fenced(s, b.th) THEN [s EXCEPT !.th = [seq |-> b.th, gone |-> FALSE]] ELSE s
ApplyLeft(s, b) == IF b.left > s.th.seq THEN [s EXCEPT !.th = [seq |-> b.left, gone |-> TRUE]] ELSE s

\* message_may_land
MayLand(s, n, history) == s.ch # 0 /\ ~Fenced(s, n) /\ (history \/ n > s.fence)

\* 4. Messages, a history page's unless there was a removal since it was asked for;
\* a full row also replaces a partial one of its seq.
ApplyRows(s, b) ==
  LET Lands(i) ==
        /\ b.rows[i].seq # 0 /\ (b.history => b.floor = s.fence)
        /\ MayLand(s, b.rows[i].seq, b.history)
        /\ b.rows[i].seq > s.rows[i].seq \/ (b.rows[i].seq = s.rows[i].seq /\ s.rows[i].partial)
  IN [s EXCEPT !.rows = [i \in Ids |->
       IF Lands(i) THEN [seq |-> b.rows[i].seq, gone |-> b.rows[i].gone, partial |-> FALSE] ELSE s.rows[i]]]

\* Live deletes leave a partial tombstone.
ApplyTombstones(s, b) ==
  LET Lands(i) == MayLand(s, b.tombstones[i], FALSE) /\ b.tombstones[i] > s.rows[i].seq
  IN [s EXCEPT !.rows = [i \in Ids |->
       IF Lands(i) THEN [seq |-> b.tombstones[i], gone |-> TRUE, partial |-> TRUE] ELSE s.rows[i]]]

Apply(s, b) ==
  ApplyTombstones(ApplyRows(ApplyLeft(ApplyTheirs(ApplyChannel(
    ApplyRemoval(ApplyMine(s, b), b), b), b), b), b), b)

\* The version an event carries: it has one.
VersionOf(e) == Max({e.ch, e.removed} \cup {e.rows[i].seq : i \in Ids} \cup {e.tombstones[i] : i \in Ids})

\* live_event, apply_ack.  An event may be lost, and they arrive in any order.
LiveEvent(e) ==
  /\ e \in live /\ Spend("event")
  /\ live' = live \ {e} /\ st' = Apply(st, e)
  /\ early' = (early \/ VersionOf(e) <= base)
  /\ UNCHANGED <<serverVars, req, loads, base, skipped, unseen>>

-----------------------------------------------------------------------------
(* Coverage.                                                               *)

Cached(s) == {i \in Ids : s.rows[i].seq # 0}

\* settle_tops: the range reaches the newest message the run accounts for.
Settle(s) ==
  LET known == {i \in Cached(s) : s.rows[i].seq <= s.cursor} IN
  IF s.cov.held /\ known # {} /\ Max(known) > s.cov.top
  THEN [s EXCEPT !.cov.top = Max(known), !.cov.bottom = IF @ = 0 THEN Min(known) ELSE @]
  ELSE s

\* record_head of a page that has these.
RecordHead(s, page) ==
  LET c == s.cov  all == Cardinality(page) < Limit  newest == Max(page)  oldest == Min(page)
      overlaps == c.top # 0 /\ c.top >= oldest /\ newest >= c.bottom
  IN
  IF page = {}
  THEN IF c.top = 0 THEN [s EXCEPT !.cov.held = TRUE, !.cov.complete = TRUE] ELSE s
  ELSE IF c.bottom # 0 /\ newest < c.bottom THEN s
  ELSE [s EXCEPT !.cov =
         [held |-> TRUE, top |-> Max({c.top, newest}),
          bottom |-> IF overlaps THEN Min({c.bottom, oldest}) ELSE oldest,
          complete |-> all \/ (overlaps /\ c.complete)]]

\* record_older, of the page below `before`.
RecordOlder(s, before, page) ==
  IF ~s.cov.held \/ s.cov.bottom # before THEN s
  ELSE [s EXCEPT !.cov.bottom = IF page = {} THEN @ ELSE Min(page),
                 !.cov.complete = @ \/ Cardinality(page) < Limit]

\* The `n` largest of S.
Newest(S, n) == {i \in S : Cardinality({j \in S : j > i}) < n}

\* Mutant: cached rows are proof of what is between them.
PageOfRows(s, before, n) ==
  LET page == Newest({i \in Cached(s) : before = 0 \/ i < before}, n) IN
  [ids |-> page, needs |-> ~(s.cov.held /\ (s.cov.complete \/ Cardinality(page) >= n))]

\* cached_messages before an id (0: the newest): the page, and whether it needs the network.
CachedPage(s, before, n) ==
  LET page == Newest({i \in Cached(s) : before = 0 \/ i < before}, n)
      shown == {i \in page : ~s.rows[i].gone}
      edge == IF before # 0 THEN before ELSE IF shown = {} THEN 0 ELSE Max(shown)
      topOk == edge = 0 \/ edge <= s.cov.top
      bottomOk == s.cov.complete \/ (Cardinality(page) >= n /\ s.cov.bottom # 0 /\ Min(page) >= s.cov.bottom)
  IN [ids |-> page, needs |-> ~(s.cov.held /\ topOk /\ bottomOk)]

-----------------------------------------------------------------------------
(* History requests.                                                       *)

\* load: the newest page, or the one below the range, of a channel that is cached.
AskHistory(before) ==
  /\ st.ch # 0 /\ before \in {0, st.cov.bottom} /\ Spend("load")
  /\ loads' = loads \cup {[before |-> before, floor |-> st.fence, gen |-> st.gen, first |-> st.cursor = 0,
                          at |-> "asked", rows |-> NoVersions]}
  /\ UNCHANGED <<serverVars, live, st, req, historyVars>>

\* history: a member's request goes on, another ends.
CheckReader(l) ==
  /\ l \in loads /\ l.at = "asked"
  /\ loads' = (loads \ {l}) \cup (IF mine.in THEN {[l EXCEPT !.at = "member"]} ELSE {})
  /\ UNCHANGED <<budget, serverVars, live, st, req, historyVars>>

\* The newest messages that aren't deleted.
ReadHistory(l) ==
  LET page == Newest({i \in DOMAIN msgs : ~msgs[i].gone /\ (l.before = 0 \/ i < l.before)}, Limit) IN
  /\ l \in loads /\ l.at = "member"
  /\ loads' = (loads \ {l}) \cup
       {[l EXCEPT !.at = "read", !.rows = [i \in Ids |-> IF i \in page THEN msgs[i] ELSE Version]]}
  /\ UNCHANGED <<budget, serverVars, live, st, req, historyVars>>

\* The page arrives: nothing of it after a reset; the range grows if the page could land.
LandHistory(l) ==
  LET page == {i \in Ids : l.rows[i].seq # 0}
      after == Apply(st, [NoBatch EXCEPT !.rows = l.rows, !.history = TRUE, !.floor = l.floor])
      covers == st.fence = l.floor /\ st.ch # 0 /\ ~st.active
  IN
  /\ l \in loads /\ l.at = "read" /\ loads' = loads \ {l}
  /\ st' = IF st.gen # l.gen THEN st
           ELSE IF ~covers THEN after
           ELSE IF l.before = 0 THEN RecordHead(after, page) ELSE RecordOlder(after, l.before, page)
  /\ early' = (early \/ (l.first /\ st.gen = l.gen))
  /\ UNCHANGED <<budget, serverVars, live, req, base, skipped, unseen>>

-----------------------------------------------------------------------------
(* /sync.                                                                  *)

Stays == UNCHANGED <<budget, serverVars, live, st, loads, base, early>>

\* A statement of a page; one by the list of channels reads this.
Statement == skipped' = (skipped \/ ~mine.in) /\ Stays /\ UNCHANGED unseen
ReadsBlindly(seq) ==
  /\ skipped' = (skipped \/ ~mine.in) /\ unseen' = (unseen \/ (~mine.in /\ seq > LastOut))
  /\ Stays

\* hint, of a change above the cursor; a connection that comes or goes asks as well.
AskForSync ==
  /\ st.cursor < now /\ Spend("hint") /\ Schedules /\ wanted' = now
  /\ UNCHANGED <<serverVars, live, st, req, loads, historyVars, refused>>

\* run_into: one request at a time, from the stored cursor.
AskSync ==
  /\ req = Idle /\ (Running \/ (Anybody /\ st.cursor < now))
  /\ req' = [at |-> "asked", since |-> st.cursor]
  /\ Stays /\ UNCHANGED <<skipped, unseen>>

\* sync: the counter, and whether the cursor is one of this server's.
ReadCounter ==
  /\ req.at = "asked"
  /\ req' = IF req.since # 0 /\ req.since < floor THEN [at |-> "reset"]
            ELSE [at |-> "ids", since |-> req.since, current |-> now]
  /\ Stays /\ UNCHANGED <<skipped, unseen>>

\* The channels the caller is in (my_channel_ids).
ReadIds ==
  /\ req.at = "ids"
  /\ req' = [at |-> IF req.since = 0 THEN "state" ELSE "bound", since |-> req.since, current |-> req.current,
             ours |-> mine.in, upper |-> req.current, more |-> FALSE, page |-> NoBatch]
  /\ Statement

\* _state_only: the channels of the list, then their members; no messages.
ReadState ==
  /\ req.at = "state"
  /\ IF req.ours THEN req' = [req EXCEPT !.at = "members", !.page.ch = chan] /\ ReadsBlindly(chan)
     ELSE req' = [req EXCEPT !.at = "page"] /\ Statement
ReadStateMembers ==
  /\ req.at = "members"
  /\ req' = [req EXCEPT !.at = "page", !.page.my = IF mine.in THEN mine.seq ELSE 0,
                        !.page.th = IF theirs.in THEN theirs.seq ELSE 0]
  /\ ReadsBlindly(theirs.seq)

\* The page's upper bound: the seqs the caller may see, SyncLimit of them at most.
ReadBound ==
  LET seqs == (IF mine.in THEN {chan, mine.seq} \cup {msgs[i].seq : i \in DOMAIN msgs}
                               \cup (IF theirs.in THEN {theirs.seq} ELSE {}) ELSE {})
              \cup {t.seq : t \in {t \in tombs : t.who = "me" \/ mine.in}}
      due == {n \in seqs : req.since < n /\ n <= req.current}
      more == Cardinality(due) > SyncLimit
  IN
  /\ req.at = "bound"
  /\ req' = [req EXCEPT !.at = "channels", !.more = more,
               !.upper = IF more THEN CHOOSE n \in due : Cardinality({k \in due : k <= n}) = SyncLimit ELSE req.current]
  /\ Statement

InWindow(n) == req.since < n /\ n <= req.upper

ReadChannels ==
  /\ req.at = "channels"
  /\ req' = [req EXCEPT !.at = "memberships", !.page.ch = IF mine.in /\ InWindow(chan) THEN chan ELSE 0]
  /\ Statement

ReadMemberships ==
  /\ req.at = "memberships"
  /\ req' = [req EXCEPT !.at = "new",
               !.page.my = IF mine.in /\ InWindow(mine.seq) THEN mine.seq ELSE 0,
               !.page.th = IF mine.in /\ theirs.in /\ InWindow(theirs.seq) THEN theirs.seq ELSE 0]
  /\ Statement

\* new_to_me: a channel the caller joined in the window, then its members, then itself.
ReadNew ==
  /\ req.at = "new"
  /\ req' = [req EXCEPT !.at = IF mine.in /\ InWindow(mine.joined) THEN "newMembers" ELSE "tombs"]
  /\ Statement
ReadNewMembers ==
  LET Add(have, m) == IF have = 0 /\ m.in THEN m.seq ELSE have IN
  /\ req.at = "newMembers"
  /\ req' = [req EXCEPT !.at = "newChannel", !.page.my = Add(@, mine), !.page.th = Add(@, theirs)]
  /\ ReadsBlindly(theirs.seq)
ReadNewChannel ==
  /\ req.at = "newChannel"
  /\ req' = [req EXCEPT !.at = "tombs", !.page.ch = IF @ = 0 THEN chan ELSE @]
  /\ ReadsBlindly(chan)

\* Of the caller's tombstones, those of channels they aren't in; of the others', those
\* of channels they are in.
ReadTombs ==
  LET Of(who) == Max({0} \cup {t.seq : t \in {t \in tombs : t.who = who /\ InWindow(t.seq)}}) IN
  /\ req.at = "tombs"
  /\ req' = [req EXCEPT !.at = "messages", !.page.removed = IF req.ours THEN 0 ELSE Of("me"),
               !.page.left = IF req.ours /\ mine.in THEN Of("them") ELSE 0]
  /\ Statement

ReadMessages ==
  /\ req.at = "messages"
  /\ req' = [req EXCEPT !.at = "page", !.page.rows = [i \in Ids |->
               IF mine.in /\ i \in DOMAIN msgs /\ InWindow(msgs[i].seq) THEN msgs[i] ELSE Version]]
  /\ Statement

\* run_into: the rows and the cursor in one transaction; after the last page the ranges settle.
LandPage ==
  LET after == [Apply(st, req.page) EXCEPT !.cursor = req.upper] IN
  /\ req.at = "page"
  /\ st' = IF req.more THEN after ELSE Settle(after)
  /\ req' = Idle
  /\ base' = IF req.since = 0 THEN req.upper ELSE base
  /\ early' = (early \/ (req.since = 0 /\ st.ch # 0))
  /\ IF req.more THEN UNCHANGED <<runVars, refused>> ELSE Ends("done") /\ refused' = FALSE
  /\ UNCHANGED <<budget, serverVars, live, loads, skipped, unseen, wanted>>

\* No answer, or an error: the run ends, and another begins where it began.
LosePage ==
  /\ req.at = "page" /\ req' = Idle
  /\ \/ Spend("lose") /\ Ends("unreachable") /\ refused' = FALSE
     \/ Spend("refuse") /\ Ends("error") /\ refused' = TRUE
  /\ UNCHANGED <<serverVars, live, st, loads, historyVars, wanted>>

\* 410: reset_rows.
Reset ==
  /\ req.at = "reset"
  /\ st' = [Empty EXCEPT !.gen = st.gen + 1] /\ req' = Idle /\ early' = FALSE
  /\ Ends("reset") /\ refused' = FALSE
  /\ UNCHANGED <<budget, serverVars, live, loads, base, skipped, unseen, wanted>>

-----------------------------------------------------------------------------
Changes ==
  \/ \E own \in BOOLEAN : Send(own)
  \/ \E i \in DOMAIN msgs : Edit(i) \/ Delete(i)
  \/ Out \/ In \/ Mark \/ OtherMember \/ RaiseFloor

Live == (\E e \in sends : ReadChannel(e) \/ Emit(e)) \/ (\E e \in live : LiveEvent(e))

History ==
  \/ \E before \in {0} \cup Ids : AskHistory(before)
  \/ \E l \in loads : CheckReader(l) \/ ReadHistory(l) \/ LandHistory(l)

Reads ==
  \/ AskSync \/ ReadCounter \/ ReadIds \/ ReadState \/ ReadStateMembers \/ ReadBound \/ ReadChannels
  \/ ReadMemberships \/ ReadNew \/ ReadNewMembers
  \/ ReadNewChannel \/ ReadTombs \/ ReadMessages

Sync ==
  \/ AskForSync \/ LandPage \/ LosePage \/ Reset
  \/ RunsNext /\ UNCHANGED <<budget, serverVars, live, st, req, loads, historyVars, wanted, refused>>

Next ==
  \/ (Changes \/ Live \/ History \/ Reads) /\ UNCHANGED askVars
  \/ Sync

Spec == Init /\ [][Next]_vars

-----------------------------------------------------------------------------
(* Properties.                                                             *)

TypeOK ==
  /\ now \in 1..MaxSeq /\ floor \in 0..now /\ chan \in 1..now
  /\ \A i \in DOMAIN msgs : msgs[i].seq \in 1..now
  /\ st.cursor \in 0..now /\ st.ch \in 0..now /\ st.my \in 0..now /\ st.fence \in 0..now
  /\ \A i \in Ids : st.rows[i].seq \in 0..now

CaughtUp == st.cursor = now

\* A message cached is as the server has it, a channel the caller is out of is not here.
Agrees ==
  IF mine.in
  THEN /\ st.ch = chan /\ st.my = mine.seq
       /\ IF theirs.in THEN st.th = [seq |-> theirs.seq, gone |-> FALSE] ELSE st.th.seq = 0 \/ st.th.gone
       /\ \A i \in Cached(st) : st.rows[i].seq = msgs[i].seq /\ st.rows[i].gone = msgs[i].gone
  ELSE st.ch = 0 /\ Cached(st) = {}

Shown(i) == i \in DOMAIN msgs /\ ~msgs[i].gone

\* A page that is said not to need the network lacks no message (coverage.rs).
Whole(before, n) ==
  LET p == CachedPage(st, before, n)
      bottom == IF Cardinality(p.ids) < n THEN 1 ELSE Min(p.ids)
  IN ~p.needs => \A i \in bottom..(IF before = 0 THEN Len(msgs) ELSE before - 1) : Shown(i) => i \in p.ids

NoGap == \A before \in 0..Len(msgs), n \in 1..Limit : Whole(before, n)

\* Whatever came by page, event or history, in whatever order, and whatever arrives
\* late: with the cursor at the counter, the cache is what the server has, and what is
\* said to be all there is, is (apply.rs, coverage.rs).
Current == CaughtUp /\ ~unseen /\ ~early => Agrees /\ (mine.in => NoGap)

\* The same for a user who was removed and back between two pages.
CurrentAnyway == CaughtUp => Agrees

\* With nobody at it, everything a sync was asked for has come, unless the server
\* refused, and the cache isn't left offline (cache.rs, sync_now).
Covered == AtRest => ~offline /\ (refused \/ wanted <= st.cursor)

CacheInv == TypeOK /\ RunsInv /\ Covered

\* Within the range there is no gap at any time (coverage.rs, settle_tops).
NoGapEver ==
  LET bottom == IF st.cov.complete THEN 1 ELSE st.cov.bottom IN
  ~unseen /\ ~early /\ st.cov.held => \A i \in bottom..st.cov.top : Shown(i) => i \in Cached(st)
=============================================================================
