------------------------------- MODULE ChatView -------------------------------
(***************************************************************************)
(* The GNOME client's main window (clients/gnome/src/chat.rs, sidebar.rs): *)
(* the handlers of its live events, of the cache's notices and of the      *)
(* user's clicks, each with every call it makes, over the open             *)
(* conversation (Timeline), the list of them (Conversations) and what       *)
(* stands around both: the line that errors                                *)
(* and typing share, the offline banner, the question of an offered        *)
(* ownership, the sidebar's order, what is read and what is not.           *)
(***************************************************************************)
EXTENDS Conversations

CONSTANTS
  Texts,                               \* what the user writes
  ErrorShown, Lifetime, AfterMessage   \* ticks: 6 s, 4 s and 2 s of the line

ASSUME TicksAssumption == {ErrorShown, Lifetime, AfterMessage} \subseteq Nat \ {0}

VARIABLES
  line,      \* hold, typing: what is left of them; timers: of those armed; label
  banner,    \* the flag, the one read, the bookkeeping and the source of the banner
  offers,    \* the server: of each channel the offer that stands, 0: none
  listed,    \* the same as the last list had it
  asking,    \* the question on screen
  deferred,  \* the one put off
  answers,   \* answers on their way
  alert,     \* Couldn't Answer
  side,      \* the sidebar's keys: activity, sorted, awaiting
  news,      \* history: the newest live message of each channel
  focused, owed,
  marker,    \* the server: read up to
  marks,     \* mark_read requests on their way
  unread,    \* history: channels a mark_read failed for
  ended      \* signed out

lineVars == <<line>>
askVars == <<offers, listed, asking, deferred, answers, alert>>
sideVars == <<side, news>>
readVars == <<focused, owed, marker, marks, unread>>
shellVars == <<line, banner, askVars, sideVars, readVars, ended>>
timelineVars == <<budget, serverVars, cacheVars, feedVars, viewVars, tasks, chipVars, sendVars>>
vars == <<timelineVars, convVars, shellVars>>

NoKey == <<Closed, 0>>
QuietLine == [hold |-> 0, timers |-> {}, seen |-> 0, after |-> 0, wake |-> -1, label |-> "none"]
NoBanner == [flag |-> FALSE, read |-> FALSE, shown |-> FALSE, waiting |-> 0, last |-> 0, source |-> 0]
AnyOffer == [c \in Channels |-> 0]

Init ==
  /\ TimelineInit /\ ConvInit
  /\ line = QuietLine /\ banner = NoBanner
  /\ offers = AnyOffer /\ listed = AnyOffer /\ asking = NoKey /\ deferred = NoKey
  /\ answers = {} /\ alert = FALSE
  /\ side = [activity |-> AnyOffer, sorted |-> AnyOffer, awaiting |-> {}] /\ news = AnyOffer
  /\ focused = TRUE /\ owed = FALSE /\ marker = AnyOffer /\ marks = {} /\ unread = {} /\ ended = FALSE

-----------------------------------------------------------------------------
(* The line above the composer. *)

\* render_typing: an error held keeps the line.
Rendered(l) ==
  IF l.hold > 0 THEN l
  ELSE [l EXCEPT !.label = IF l.seen > 0 THEN "typing" ELSE "none",
                 !.wake = IF l.seen > 0 THEN l.seen ELSE -1]
Noted(l) == IF l.after > 0 THEN Rendered(l) ELSE Rendered([l EXCEPT !.seen = Lifetime])
Answered(l) == Rendered([l EXCEPT !.seen = 0, !.after = AfterMessage])
\* show_send_error, and the timer it arms.
Errored(l) == [l EXCEPT !.label = "error", !.hold = ErrorShown, !.timers = @ \cup {ErrorShown}]
\* clear_typing: another conversation.
Switched(l) == Rendered([l EXCEPT !.seen = 0, !.after = 0, !.hold = 0])

\* An error's timer, which GLib may fire a tick early: over, or armed again for what is left.
ErrorTimer == \E d \in line.timers :
  /\ d <= 1
  /\ line' = IF line.hold > 0 THEN [line EXCEPT !.timers = (@ \ {d}) \cup {line.hold}]
             ELSE Rendered([line EXCEPT !.timers = @ \ {d}])
  /\ line' # line
  /\ UNCHANGED <<timelineVars, banner, askVars, sideVars, readVars, ended>>
TypingTimer ==
  /\ line.wake = 0 /\ line' = Rendered([line EXCEPT !.wake = -1])
  /\ UNCHANGED <<timelineVars, banner, askVars, sideVars, readVars, ended>>
Tick ==
  LET Less(n) == IF n > 0 THEN n - 1 ELSE n IN
  /\ line' = [line EXCEPT !.hold = Less(@), !.seen = Less(@), !.after = Less(@), !.wake = Less(@),
                          !.timers = {Less(d) : d \in @}]
  /\ line' # line
  /\ UNCHANGED <<timelineVars, banner, askVars, sideVars, readVars, ended>>

\* A failed reaction; a typing event of somebody in the open conversation.
Fails ==
  /\ current # Closed /\ Spend("error") /\ line' = Errored(line)
  /\ UNCHANGED <<serverVars, cacheVars, feedVars, viewVars, tasks, chipVars, sendVars, banner, askVars, sideVars,
                 readVars, ended>>
Typing ==
  /\ current # Closed /\ Spend("typing") /\ line' = Noted(line)
  /\ UNCHANGED <<serverVars, cacheVars, feedVars, viewVars, tasks, chipVars, sendVars, banner, askVars, sideVars,
                 readVars, ended>>

-----------------------------------------------------------------------------
(* The offline banner (watch_offline, OfflineBanner). *)

BannerStep == UNCHANGED <<line, askVars, sideVars, readVars>>

Flip ==
  /\ ~ended /\ Spend("flip") /\ banner' = [banner EXCEPT !.flag = ~@]
  /\ UNCHANGED <<serverVars, cacheVars, feedVars, viewVars, tasks, chipVars, sendVars, ended>> /\ BannerStep
\* The loop reads the flag: hide, start a timer, or keep.
WatchHides ==
  /\ ~ended /\ banner.read /\ ~banner.flag
  /\ banner' = [banner EXCEPT !.read = FALSE, !.waiting = 0, !.source = 0, !.shown = FALSE]
  /\ UNCHANGED <<timelineVars, ended>> /\ BannerStep
WatchStarts ==
  /\ ~ended /\ ~banner.read /\ banner.flag
  /\ LET r == [banner EXCEPT !.read = TRUE] IN
     banner' = IF banner.shown \/ banner.waiting # 0 THEN r
               ELSE [r EXCEPT !.last = @ + 1, !.waiting = banner.last + 1, !.source = banner.last + 1]
  /\ UNCHANGED <<timelineVars, ended>> /\ BannerStep
BannerTimer ==
  /\ banner.source # 0
  /\ banner' = IF banner.waiting = banner.source
               THEN [banner EXCEPT !.source = 0, !.waiting = 0, !.shown = TRUE]
               ELSE [banner EXCEPT !.source = 0]
  /\ UNCHANGED <<timelineVars, ended>> /\ BannerStep
\* sign_out_dialog: the view goes, and with it the watch.
SignOut ==
  /\ ~ended /\ Spend("end") /\ ended' = TRUE
  /\ banner' = [banner EXCEPT !.waiting = 0, !.source = 0]
  /\ UNCHANGED <<serverVars, cacheVars, feedVars, viewVars, tasks, chipVars, sendVars>> /\ BannerStep

-----------------------------------------------------------------------------
(* The question of an offered ownership. *)

Wanted(c, list) == IF c # Closed /\ list[c] # 0 THEN <<c, list[c]>> ELSE NoKey
\* ask_about_ownership: close the one on screen, ask now, or leave it.
Question(open, off, wanted) ==
  LET close == open # NoKey /\ open # wanted
      stays == open # NoKey /\ ~close IN
  IF wanted # NoKey /\ ~stays /\ off # wanted THEN wanted ELSE IF close THEN NoKey ELSE open

\* refresh_channels is begun.
ListAsks == Fits(1) /\ tasks' = Spawned(New("list", "ask", Closed))

\* Somebody offers this user an ownership, or takes the offer back: channel.update, if it gets here.
Offered(c, n) ==
  /\ offers' = [offers EXCEPT ![c] = n]
  /\ IF link = "up" THEN Room /\ Push([k |-> "meta", m |-> 0, c |-> c]) ELSE UNCHANGED events
  /\ UNCHANGED <<serverVars, cacheVars, notes, viewVars, tasks, chipVars, sendVars, line, banner, listed, asking,
                 deferred, answers, alert, sideVars, readVars, ended>>
Offer == \E c \in Channels \ away : offers[c] = 0 /\ Spend("offer") /\ Offered(c, budget["offer"])
Withdraw == \E c \in Channels \ away : offers[c] # 0 /\ Spend("withdraw") /\ Offered(c, 0)

\* The answer is on its way, and the question gone from the screen.
AnswerIt ==
  /\ asking # NoKey /\ Spend("answer") /\ answers' = answers \cup {[key |-> asking, at |-> "going", gone |-> FALSE]} /\ asking' = NoKey
  /\ UNCHANGED <<serverVars, cacheVars, feedVars, viewVars, tasks, chipVars, sendVars, line, banner, offers, listed,
                 deferred, alert, sideVars, readVars, ended>>
\* The server accepts or declines an offer that stands, and says so to the members.
AnswerLands == \E a \in answers :
  LET stands == offers[a.key[1]] = a.key[2] /\ a.key[1] \notin away IN
  /\ a.at = "going"
  /\ \/ /\ offers' = IF stands THEN [offers EXCEPT ![a.key[1]] = 0] ELSE offers
        /\ IF stands /\ link = "up" THEN Room /\ Push([k |-> "meta", m |-> 0, c |-> a.key[1]]) ELSE UNCHANGED events
        /\ answers' = (answers \ {a}) \cup {[a EXCEPT !.at = "back", !.gone = TRUE]}
        /\ UNCHANGED budget
     \/ /\ Spend("fail") /\ UNCHANGED <<offers, events>>
        /\ answers' = (answers \ {a}) \cup {[a EXCEPT !.at = "back"]}
  /\ UNCHANGED <<serverVars, cacheVars, notes, viewVars, tasks, chipVars, sendVars, line, banner, listed, asking,
                 deferred, alert, sideVars, readVars, ended>>
\* Failed: put off, and the alert.  Either way the list is loaded again.
AnswerBack == \E a \in answers :
  /\ a.at = "back" /\ answers' = answers \ {a} /\ ListAsks
  /\ IF a.gone THEN UNCHANGED <<deferred, alert>> ELSE deferred' = a.key /\ alert' = TRUE
  /\ UNCHANGED <<budget, serverVars, cacheVars, feedVars, viewVars, chipVars, sendVars, line, banner, offers, listed,
                 asking, sideVars, readVars, ended>>
TryAgain ==
  /\ alert /\ alert' = FALSE /\ deferred' = NoKey
  /\ asking' = Question(asking, NoKey, Wanted(current, listed))
  /\ UNCHANGED <<timelineVars, line, banner, offers, listed, answers, sideVars, readVars, ended>>
Later ==
  /\ alert /\ alert' = FALSE
  /\ UNCHANGED <<timelineVars, line, banner, offers, listed, asking, deferred, answers, sideVars, readVars, ended>>

-----------------------------------------------------------------------------
(* The sidebar's order. *)

Last(c) == Max({m \in Of(c) : held[m] # 0} \cup {0})
Advanced(acts, c, m) == [acts EXCEPT ![c] = Max({@, m})]
Sorted(s) == [s EXCEPT !.sorted = s.activity]
\* Mutant: a live message re-sorts only if it is newer than what is known of its conversation.
SideLiveKnown(s, c, m) ==
  LET t == [s EXCEPT !.activity = Advanced(@, c, m), !.awaiting = @ \ {c}] IN
  IF m > s.activity[c] THEN Sorted(t) ELSE t
\* SidebarState::live.
SideLive(s, c, m) ==
  LET t == [s EXCEPT !.activity = Advanced(@, c, m), !.awaiting = @ \ {c}] IN
  IF m > s.sorted[c] THEN Sorted(t) ELSE t
\* SidebarState::notice: a back-fill, and the open conversation, move nothing.
SideNotice(s, last) ==
  LET moved == {c \in Channels : last[c] > s.activity[c]}
      t == [s EXCEPT !.activity = [c \in Channels |-> Max({@[c], last[c]})], !.awaiting = @ \ moved] IN
  IF moved \ (s.awaiting \cup {current}) # {} THEN Sorted(t) ELSE t
SideLearn(s, last) == Sorted([s EXCEPT !.activity = [c \in Channels |-> Max({@[c], last[c]})]])

\* badges_from_cache.
BadgesRead == \E t \in DOMAIN tasks :
  /\ Task(t, "badges", "ask") /\ tasks' = Goes(t, [t EXCEPT !.at = "back", !.last = [c \in Channels |-> Last(c)]])
  /\ UNCHANGED <<budget, serverVars, cacheVars, feedVars, viewVars, chipVars, sendVars, shellVars>>
BadgesApply == \E t \in DOMAIN tasks :
  /\ Task(t, "badges", "back") /\ tasks' = Ended(t) /\ side' = SideNotice(side, t.last)
  /\ UNCHANGED <<budget, serverVars, cacheVars, feedVars, viewVars, chipVars, sendVars, line, banner, askVars, news,
                 readVars, ended>>

-----------------------------------------------------------------------------
(* What is read. *)

\* mark_read is asked: up to m, or what there is when it lands (0).
Mark(c, m) == marks' = marks \cup {[chan |-> c, upto |-> m]}
MarkLands == \E r \in marks :
  /\ marks' = marks \ {r}
  /\ \/ /\ marker' = [marker EXCEPT ![r.chan] =
                 Max({@} \cup IF r.upto # 0 THEN {r.upto} ELSE {m \in Of(r.chan) : ver[m] # 0})]
        /\ UNCHANGED <<budget, unread>>
     \/ Spend("fail") /\ unread' = unread \cup {r.chan} /\ UNCHANGED marker
  /\ UNCHANGED <<serverVars, cacheVars, feedVars, viewVars, tasks, chipVars, sendVars, line, banner, askVars, sideVars,
                 focused, owed, ended>>

Unfocus ==
  /\ focused /\ Spend("focus") /\ focused' = FALSE
  /\ UNCHANGED <<serverVars, cacheVars, feedVars, viewVars, tasks, chipVars, sendVars, line, banner, askVars, sideVars,
                 owed, marker, marks, unread, ended>>
\* read_what_arrived.
Focus ==
  /\ ~focused /\ focused' = TRUE /\ owed' = FALSE
  /\ IF owed /\ current # Closed THEN Mark(current, 0) ELSE UNCHANGED marks
  /\ UNCHANGED <<timelineVars, line, banner, askVars, sideVars, marker, unread, ended>>

-----------------------------------------------------------------------------
(* The user opens a conversation; the loops of live events and of cache notices. *)

\* select_channel beside the futures `others`; `list` and `s` are the sidebar then, `asks` the question on screen.
Opens(c, others, list, s, asks) ==
  /\ OpenView(c, others) /\ ForgetChips
  /\ deferred' = IF c # current THEN NoKey ELSE deferred
  /\ side' = [s EXCEPT !.awaiting = @ \cup {c}]
  /\ asking' = Question(asks, deferred', Wanted(c, list))
  /\ Mark(c, 0) /\ line' = Switched(line)
  /\ UNCHANGED <<reacting, voters, cast, base, voteEvents, composer, textDraft, sends, queue, poke, lastId, made,
                 crossed>>

\* A click on a conversation in the sidebar, or on a result of a search, if its channel is listed.
Clicks(c) ==
  /\ focused /\ Plain /\ Fits(1) /\ Spend("select") /\ Opens(c, tasks, listed, side, asking)
  /\ UNCHANGED <<serverVars, cacheVars, feedVars, shown, browse, dialog, late, astray, renamed, banner, offers, listed,
                 answers, alert, news, focused, owed, marker, unread, ended>>
Select == \E c \in shown : Clicks(c) /\ UNCHANGED finds
Jump == \E c \in finds.chans \cap shown : Clicks(c) /\ finds' = [finds EXCEPT !.chans = {}]

\* refresh_channels: the server's list, else the cache's (which may not have the change yet), else nothing.
ListReads == \E t \in DOMAIN tasks :
  LET n == 1 + Max({0} \cup {u.before : u \in {x \in DOMAIN tasks : Task(x, "list", "back")}})
      Came(in, got) ==
        tasks' = Goes(t, [t EXCEPT !.at = "back", !.before = n, !.chans = in, !.offers = got,
                                   !.last = [c \in Channels |-> Last(c)]]) IN
  /\ Task(t, "list", "ask")
  /\ \/ Came(Channels \ away, offers) /\ UNCHANGED <<budget, late, astray>>
     \/ /\ Spend("fail") /\ astray' = TRUE
        /\ IF store THEN late' = late \cup {n} /\ \E got \in {offers, listed} : Came(known, got)
                    ELSE tasks' = Ended(t) /\ UNCHANGED late
  /\ UNCHANGED <<serverVars, cacheVars, feedVars, viewVars, chipVars, sendVars, shown, browse, dialog, finds, renamed,
                 shellVars>>
\* Drawn as it came; the conversation it was loaded for is opened, if it is there and not open.
ListApplies == \E t \in DOMAIN tasks :
  LET asks == Question(asking, deferred, Wanted(current, listed'))
      learnt == SideLearn(side, t.last)
      older == {u.before : u \in {x \in DOMAIN tasks : Task(x, "list", "back") /\ x.before < t.before}} IN
  /\ Task(t, "list", "back")
  /\ shown' = t.chans /\ listed' = [c \in Channels |-> IF c \in t.chans THEN t.offers[c] ELSE 0]
  /\ late' = (late \cup older) \ {t.before} /\ astray' = (t.chans # Channels \ away /\ (astray \/ t.before \in late))
  /\ IF t.chan \in t.chans \ {current}
     THEN Opens(t.chan, Ended(t), listed', learnt, asks)
     ELSE /\ tasks' = Ended(t) /\ side' = learnt /\ asking' = asks
          /\ UNCHANGED <<viewVars, chipVars, sendVars, line, deferred, marks>>
  /\ UNCHANGED <<budget, serverVars, cacheVars, feedVars, browse, dialog, finds, renamed, banner, offers, answers, alert, news,
                 focused, owed, marker, unread, ended>>

Comes(k) == events # <<>> /\ Head(events).k = k /\ events' = Tail(events)
Event == Head(events)

TakeNew ==
  LET c == Event.c
      m == Event.m
      open == c = current IN
  /\ Comes("new")
  /\ side' = SideLive(side, c, m) /\ news' = [news EXCEPT ![c] = m]
  /\ line' = IF open THEN Answered(line) ELSE line
  /\ rows' = IF open THEN Append1(rows, m, 1) ELSE rows
  /\ IF open /\ focused THEN Mark(c, m) /\ UNCHANGED owed
                        ELSE owed' = (owed \/ open) /\ UNCHANGED marks
  /\ UNCHANGED <<budget, serverVars, cacheVars, notes, current, pager, fill, replying, sound, tasks, chipVars, sendVars,
                 banner, askVars, focused, marker, unread, ended>>
TakeUpdate ==
  /\ Comes("update") /\ rows' = Updated(rows, Event.m, 2)
  /\ UNCHANGED <<budget, serverVars, cacheVars, notes, current, pager, fill, replying, sound, tasks, chipVars, sendVars,
                 shellVars>>
TakeDelete ==
  /\ Comes("delete") /\ rows' = IF Event.m \in DOMAIN rows THEN Tombstone(rows, Event.m) ELSE rows
  /\ replying' = IF replying = Event.m THEN 0 ELSE replying
  /\ UNCHANGED <<budget, serverVars, cacheVars, notes, current, pager, fill, sound, tasks, chipVars, sendVars, shellVars>>
TakeGone ==
  /\ Comes("gone") /\ ListAsks
  /\ IF Event.c = current THEN CloseView /\ ForgetChips ELSE UNCHANGED <<viewVars, tally, order, seen, stale>>
  /\ UNCHANGED <<budget, serverVars, cacheVars, notes, reacting, voters, cast, base, voteEvents, sendVars, shellVars>>
TakeMeta ==
  /\ Comes("meta") /\ ListAsks
  /\ UNCHANGED <<budget, serverVars, cacheVars, notes, viewVars, chipVars, sendVars, shellVars>>
TakeReady ==
  /\ Comes("ready") /\ ForgetOrder
  /\ UNCHANGED <<budget, serverVars, cacheVars, notes, viewVars, tasks, reacting, voters, cast, base, voteEvents, tally,
                 stale, sendVars, shellVars>>
\* A message of ours came out of the outbox: its row knows its client_id.
TakeEcho ==
  /\ Comes("echo") /\ IF Event.c = current THEN Echoed(Event.m) ELSE UNCHANGED sendVars
  /\ UNCHANGED <<budget, serverVars, cacheVars, notes, viewVars, tasks, chipVars, shellVars>>

TakeNote == \E c \in notes :
  LET badges == New("badges", "ask", Closed) IN
  /\ notes' = notes \ {c}
  /\ IF c = Closed THEN ListAsks
     ELSE IF c # current THEN Fits(1) /\ tasks' = Spawned(badges)
     ELSE Fits(2) /\ tasks' = Spawned(New("fill", "ask", c)) (+) SetToBag({badges})
  /\ UNCHANGED <<budget, serverVars, cacheVars, events, viewVars, chipVars, sendVars, shellVars>>

\* A send is answered; one that failed says so, but for a copy the user cancelled.
SendBack == \E s \in sends :
  /\ TextAnswered(s) \/ FilesAnswered(s)
  /\ line' = IF s.result = "failed" /\ ~(Files(s) # {} /\ staged.cancelled # 0) THEN Errored(line) ELSE line
  /\ UNCHANGED <<banner, askVars, sideVars, readVars, ended>>

-----------------------------------------------------------------------------
Beside(A) == A /\ UNCHANGED <<convVars, shellVars>>   \* a step of Timeline
Within(A) == A /\ UNCHANGED shellVars                 \* a step of Conversations
Apart(A) == A /\ UNCHANGED convVars                   \* a step of this module that leaves them alone

\* What comes from outside: the user, the other users, the server, the connection.
World ==
  \/ Select \/ Jump
  \/ Apart(Unfocus) \/ Apart(Fails) \/ Apart(Typing) \/ Apart(Flip) \/ Apart(SignOut) \/ Apart(Offer) \/ Apart(Withdraw)
  \/ Apart(AnswerIt) \/ Apart(TryAgain) \/ Apart(Later)
  \/ Within(Ends) \/ Within(Added) \/ Within(Start) \/ Within(Browse) \/ Within(JoinPublic)
  \/ Within(Leave) \/ Within(DeleteIt) \/ Within(Archive) \/ Within(AddMember) \/ Within(MemberAction)
  \/ Within(RenameOpens) \/ Within(RenameSaves) \/ Within(Search)
  \/ Beside(Post) \/ Beside(Edit) \/ Beside(Delete) \/ Beside(Drop) \/ Beside(ReactAsks) \/ Beside(Restore)
  \/ Beside(Scroll) \/ Beside(Reply) \/ Beside(SendText) \/ Beside(SendFiles) \/ Beside(Pick) \/ Beside(ChipButton)
  \/ (\E text \in Texts : Beside(Type(text)))

\* The client's own steps, and the answers it waits for; the commonest first.
Progress ==
  \/ Apart(MarkLands) \/ ListApplies \/ Beside(BubblesDraw) \/ Beside(BubblesRead) \/ Beside(FillView)
  \/ Beside(FillDraws) \/ Apart(BadgesApply) \/ ListReads \/ Beside(BubblesAsk) \/ Apart(BadgesRead)
  \/ Beside(FillReads) \/ Beside(OlderDraws) \/ Beside(OlderReads) \/ Beside(ReactTells) \/ Apart(Tick)
  \/ Beside(ReactCounts) \/ Beside(Reaction) \/ Apart(TakeNote) \/ Beside(OlderFetches) \/ Apart(TakeMeta)
  \/ Beside(OpenDraws) \/ Within(ManageBack) \/ Beside(OpenFetches) \/ Apart(TakeEcho) \/ Apart(TakeGone)
  \/ Apart(TakeNew) \/ Apart(TakeReady) \/ Beside(Reconnect) \/ Beside(OpenReads) \/ Within(ManageLands)
  \/ Apart(SendBack) \/ Apart(ErrorTimer) \/ Apart(AnswerBack) \/ Apart(TakeDelete) \/ Beside(OutboxDrops)
  \/ Beside(ReactCommits) \/ Beside(OpenDrawsCached) \/ Beside(Sync) \/ Apart(Focus) \/ Beside(OutboxSends)
  \/ Apart(AnswerLands) \/ Within(SearchDraws) \/ Beside(ReactCollides) \/ Beside(OlderFails)
  \/ Apart(TakeUpdate) \/ Within(SearchReads) \/ Beside(BackoffEnds) \/ Apart(TypingTimer)
  \/ Within(JoinBack) \/ Within(JoinLands) \/ Beside(Enqueues) \/ Beside(SendsDirect) \/ Beside(Stages)
  \/ Within(BrowseReads) \/ Within(BrowseShows) \/ Apart(WatchHides) \/ Apart(BannerTimer)
  \/ Apart(WatchStarts)

Next == ~ended /\ (World \/ Progress)
Spec == Init /\ [][Next]_vars /\ WF_vars(~ended /\ Progress)

-----------------------------------------------------------------------------
\* An error and a typing notice on the line have a timer that ends them.
LineEnds ==
  /\ line.hold > 0 \/ line.label = "error" => line.timers # {}
  /\ line.label = "typing" => line.wake >= 0

\* The timer that is to show the banner is the last one started, and a banner shown is of an outage read.
BannerKept == (banner.waiting # 0 => banner.source = banner.waiting) /\ (banner.shown => banner.read)

\* The question on screen is of the open conversation's offer, as last listed.
QuestionStands == asking # NoKey /\ current # Closed => asking = <<current, listed[current]>>

\* The offer that stands is asked about, or was put off; nothing else is asked.
Asked == LET offer == Wanted(current, offers) IN asking = offer \/ (asking = NoKey /\ deferred = offer)

\* Whatever a handler finds changed when its answer comes back, the rows on screen are the open
\* conversation's, every error, typing notice and outage shown has the timer that ends or follows it, the
\* question asked is the open conversation's, and a live message moved its conversation in the sidebar,
\* though a notice of the cache had told of it before.
ScreenInv ==
  /\ TimelineTypeOK /\ ConvTypeOK /\ OnlyOpen /\ LineEnds /\ BannerKept /\ QuestionStands
  /\ \A c \in Channels : news[c] <= side.sorted[c]

\* When everything asked was answered and drawn: no message is missing among the rows of a conversation
\* this user is in (unless a page was drawn the cache didn't vouch for), no bubble stands beside the message it became, what arrived live in
\* the open conversation is read (unless the request failed), and the offer that stands is asked about or
\* was put off (unless the list in the sidebar is older than it).
ScreenSettled ==
  Quiet /\ answers = {} /\ marks = {} =>
    /\ (sound /\ current \notin away => Unbroken) /\ NoDouble /\ ListedRight /\ NewestFound
    /\ focused /\ current \in Channels \ unread => news[current] <= marker[current]
    /\ current # Closed /\ listed = offers => Asked

\* Reaction events are applied in the order they come, which is not the server's, over what the page drawn
\* said: the chip ends at the server's count, and at whether this user is among them. Unless a change went
\* by without a trace (its event was lost with the connection, or came before its message was drawn) that the
\* page drawn doesn't have, or an older one came behind it, or behind the order forgotten; the next change's
\* event then mends the count, though the server's numbering started over.
ChipsConverge == voteEvents = {} /\ reacting = {} => ChipTrue

\* With local data: what failed and is sent again, unchanged, makes one message, also when the failed
\* attempt was stored after all; unless something else was sent, or came through, in between.
NoTwin == store => Uncrossed

\* Again and again the screen is at rest: an outage is shown or over, no error stands on the line, the
\* opened conversation can be paged back and no page is awaited, no composer is kept by files it prepares.
ViewSettles == []<>(
  \/ ended
  \/ /\ banner.flag = banner.shown /\ line.label # "error" /\ (current # Closed => pager.ready)
     /\ ~pager.loading /\ ~staged.preparing)

-----------------------------------------------------------------------------
(* What comments of the code say and its steps don't keep.                 *)

\* select_channel: "duplicates replace their cached row".
RowsUpToDate == Quiet => UpToDate
\* struct MessageWidgets: "Current reaction tallies, kept in sync from `reaction.update` events."
TalliesInSync == Quiet => ChipRight
\* text_draft: a failed send tried again "can never become two messages".
TriedAgainIsOne == OneEach
\* ... nor with it: "a second Send of the same message after an unclear failure can't make a second message".
KeptIdIsOne == store => OneEach
\* draft_id: "The outbox id for `this` send: the failed attempt's again when it's the same send, else a new one".
TypedTwiceIsTwo == store => \A x, y \in made : x.key = y.key => x.meant = y.meant
\* select_channel: "Files picked for one conversation never go to another."
FilesStayHome == AtHome
\* refresh_channels: "An offer made while it's open asks now; a withdrawn one stops asking."
OffersAsk == Quiet /\ answers = {} /\ current # Closed => Asked
\* rename_channel_dialog: "Rename dialog, prefilled with the current channel's name."
RenamesWhatItShows == NamedAsWritten
\* already_gone: "The `channel.update` or `channel.delete` on its way redraws."
ListRedrawn == Quiet => shown = Channels \ away
\* spawn_event_loop: "If the open channel was deleted, clear the conversation view."
OpenIsOurs == Quiet /\ ~astray => current \notin away
=============================================================================
