------------------------------- MODULE CallMedia -------------------------------
(***************************************************************************)
(* One participant's media in a call, end to end: the client's call task   *)
(* (core/src/call.rs) over its socket (core/src/ws.rs), and what the api   *)
(* does for that participant (services/api/app/calls.py: reconcile, _offer,*)
(* subscribe_answer, publish, call.media, call.resume).                    *)
(*                                                                         *)
(* Each socket has a generation.  From the moment its link is cut nothing  *)
(* gets through, and both sides find out in their own time.  At the client *)
(* replies and events of a socket reach the task by ways of their own, so  *)
(* in any order; what a dead socket left is handled before the next one is *)
(* ready (a reconnect takes a second's backoff, or a round trip).          *)
(*                                                                         *)
(* The SFU is as the code uses it: it has one offer of a subscriber handle *)
(* unanswered at a time, makes the next once it is answered, and may       *)
(* renegotiate by itself when a feed goes.                                 *)
(***************************************************************************)
EXTENDS Integers, Sequences, FiniteSets

CONSTANTS
  Streams,   \* what the others may publish
  Budgets    \* bound: how often what comes from outside happens, see Spend

Outside == {"change", "feed", "refuse", "cut", "republish", "mute"}

ASSUME BudgetsAssumption == Budgets \subseteq [Outside -> Nat]

VARIABLES
  budget,    \* what is left of it
  (* the socket *)
  gen,       \* the client's last socket
  up,        \* its link carries frames
  ready,     \* the client believes so (Conn.ready)
  waiting,   \* requests of it without a reply (run_once, pending)
  inbox,     \* of each socket: frames the api has not handled
  (* the client's call task *)
  events,    \* route_rx: frames of the call
  replies,   \* input_rx: outcomes of requests
  changed,   \* conn_rx: the connection changed
  link,      \* generation, connected, resuming
  sub,       \* Subscribe: latest, applying, retained, acked; applied, by the engine
  pub,       \* Publish: state, seq, again (republish_pending), unsent
  offered,   \* what the engine had to publish when it made the offer
  engine,    \* what it has now: how often it was changed
  media,     \* Media: has, flight, queued, dirty, reannounce
  ended,
  (* the api *)
  mediaConn, \* Participant.conn, 0 for none
  answering, \* of each socket: an answer that waits for the participant's lock
  wanted,    \* a reconcile is spawned
  desired,   \* the streams of others whose media is up
  task,      \* the reconcile that holds the lock: its request, and for what
  srv,       \* sub_hid, sub_streams, sub_version, sub_pending, sub_dirty
  published, \* the last offer the SFU took
  intent,    \* audio_intent, video_intent
  (* the SFU *)
  sfu,       \* the handle, its streams, its last offer, if it is answered, and one put off
  noticed,   \* offers it made by itself, with the listener
  gaveUp     \* history: it refused the last reconcile's join

wireVars == <<gen, up, ready, waiting, inbox>>
clientVars == <<link, sub, pub, offered, engine, media, ended>>
inputVars  == <<events, replies, changed>>
serverVars == <<mediaConn, answering, wanted, desired, task, srv, published, intent>>
sfuVars    == <<sfu, noticed, gaveUp>>
mediaVars == <<budget, wireVars, inputVars, clientVars, serverVars, sfuVars>>

\* An offer to the client: its version, and what it offers on which handle.
Offer == [version: Nat, handle: Nat, streams: SUBSET Streams]
None  == [version |-> 0, handle |-> 0, streams |-> {}]

MediaTypeOK ==
  /\ budget \in [Outside -> Nat]
  /\ gen \in Nat /\ up \in BOOLEAN /\ ready \in BOOLEAN /\ waiting \subseteq {"resume", "publish", "media"}
  /\ events \in Seq(Offer) /\ changed \in BOOLEAN /\ ended \in {"no", "refused", "timeout", "replaced"}
  /\ link \in [gen: Nat, connected: BOOLEAN, resuming: BOOLEAN]
  /\ sub \in [latest: Offer, applying: Offer, retained: Offer, acked: Nat, applied: Offer]
  /\ pub \in [state: {"idle", "offering", "awaiting", "applying", "stable", "restart"},
              seq: Nat, again: BOOLEAN, unsent: BOOLEAN]
  /\ offered \in Nat /\ engine \in Nat /\ published \in Nat /\ intent \in Nat
  /\ media \in [has: Nat, flight: Nat, queued: Nat, dirty: BOOLEAN, reannounce: BOOLEAN]
  /\ mediaConn \in 0..gen /\ DOMAIN inbox = DOMAIN answering /\ wanted \in BOOLEAN /\ desired \subseteq Streams
  /\ task \in [ask: {"no", "join", "update"}, streams: SUBSET Streams]
  /\ srv \in [handle: Nat, streams: SUBSET Streams, version: Nat, pending: Offer, dirty: BOOLEAN]
  /\ noticed \subseteq Offer /\ gaveUp \in BOOLEAN
  /\ sfu \in [handle: Nat, streams: SUBSET Streams, offer: SUBSET Streams,
              answered: BOOLEAN, putOff: BOOLEAN]

\* Joined on the first socket, and about to make the first publish offer.
MediaInit ==
  /\ budget \in Budgets
  /\ gen = 1 /\ up = TRUE /\ ready = TRUE /\ waiting = {} /\ inbox = <<<<>>>>
  /\ events = <<>> /\ replies = {} /\ changed = FALSE
  /\ link = [gen |-> 1, connected |-> TRUE, resuming |-> FALSE]
  /\ sub = [latest |-> None, applying |-> None, retained |-> None, acked |-> 0, applied |-> None]
  /\ pub = [state |-> "offering", seq |-> 1, again |-> FALSE, unsent |-> FALSE]
  /\ offered = 1 /\ engine = 1 /\ ended = "no"
  /\ media = [has |-> 0, flight |-> 0, queued |-> 0, dirty |-> FALSE, reannounce |-> FALSE]
  /\ mediaConn = 1 /\ answering = <<None>> /\ wanted = FALSE /\ desired = {}
  /\ task = [ask |-> "no", streams |-> {}]
  /\ srv = [handle |-> 0, streams |-> {}, version |-> 0, pending |-> None, dirty |-> FALSE]
  /\ published = 0 /\ intent = 0
  /\ sfu = [handle |-> 0, streams |-> {}, offer |-> {}, answered |-> TRUE, putOff |-> FALSE]
  /\ noticed = {} /\ gaveUp = FALSE

Spend(what) == budget[what] > 0 /\ budget' = [budget EXCEPT ![what] = @ - 1]

-----------------------------------------------------------------------------
(* The socket (ws.rs).                                                     *)

\* Requests to the api, and what becomes of them.
Asks(ask, n, o)     == [ask |-> ask, n |-> n, offer |-> o]
Outcome(ask, n, res) == [ask |-> ask, n |-> n, res |-> res]
ResumeCall    == Asks("resume", gen, None)
PublishOf(n, seq) == Asks("publish", n, [None EXCEPT !.version = seq])
MediaOf(i)    == Asks("media", i, None)
AnswerTo(o)   == Asks("answer", 0, o)

Alive == ended = "no"

\* submit: written only on the generation it is for.
CanSend == link.connected /\ ready /\ link.gen = gen

\* Frames written in this order, on a link that may be cut.
Writes(frames) ==
  /\ inbox' = IF up THEN [inbox EXCEPT ![gen] = @ \o frames] ELSE inbox
  /\ waiting' = waiting \cup ({frames[i].ask : i \in DOMAIN frames} \ {"answer"})
WritesNothing == UNCHANGED <<inbox, waiting>>

CutLink ==
  /\ up /\ Spend("cut") /\ up' = FALSE
  /\ UNCHANGED <<gen, ready, waiting, inbox, inputVars, clientVars, serverVars, sfuVars>>

\* The end of run_once: whatever waits for a reply gets none.
NoticeCut ==
  /\ ready /\ ~up /\ ready' = FALSE /\ changed' = TRUE
  /\ waiting' = {}
  /\ replies' = replies \cup {Outcome(a, IF a = "resume" THEN gen ELSE pub.seq, "unknown") : a \in waiting}
  /\ UNCHANGED <<budget, gen, up, inbox, events, clientVars, serverVars, sfuVars>>

\* No reply within REPLY_TIMEOUT, before the cut is noticed.
TimeOut(a) ==
  /\ a \in waiting /\ ready /\ ~up
  /\ waiting' = waiting \ {a}
  /\ replies' = replies \cup {Outcome(a, IF a = "resume" THEN gen ELSE pub.seq, "timeout")}
  /\ UNCHANGED <<budget, gen, up, ready, inbox, events, changed, clientVars, serverVars, sfuVars>>

\* run_once from the handshake to the auth's answer: nothing was sent on the new socket.
NewSocket ==
  /\ gen' = gen + 1 /\ up' = TRUE /\ ready' = TRUE /\ changed' = TRUE
  /\ inbox' = Append(inbox, <<>>) /\ answering' = Append(answering, None)

Reconnect ==
  /\ ~ready /\ replies = {} /\ ~changed /\ NewSocket
  /\ UNCHANGED <<budget, waiting, events, replies, clientVars,
                 mediaConn, wanted, desired, task, srv, published, intent, sfuVars>>

-----------------------------------------------------------------------------
(* The client's call task: subscriptions.                                  *)

\* maybe_apply_offer
ApplyNext(s) ==
  IF s.applying = None THEN [s EXCEPT !.applying = s.latest, !.latest = None] ELSE s

Answers(o) == IF o # None /\ CanSend THEN Writes(<<AnswerTo(o)>>) ELSE WritesNothing

\* call.subscribe.offer: a replay of what was answered is answered again, not applied.
OnOffer ==
  LET o == Head(events) IN
  /\ events # <<>> /\ events' = Tail(events)
  /\ \/ /\ o.version > sub.acked /\ o.version = sub.retained.version
        /\ Answers(sub.retained) /\ UNCHANGED sub
     \/ /\ o.version <= sub.acked \/ o.version <= sub.latest.version \/ o.version <= sub.applying.version
        /\ o.version # sub.retained.version \/ o.version <= sub.acked
        /\ WritesNothing /\ UNCHANGED sub
     \/ /\ o.version > sub.acked /\ o.version > sub.latest.version /\ o.version > sub.applying.version
        /\ o.version # sub.retained.version
        /\ sub' = ApplyNext([sub EXCEPT !.latest = o])
        /\ WritesNothing
  /\ UNCHANGED <<budget, gen, up, ready, replies, changed, link, pub, offered, engine, media, ended, serverVars, sfuVars>>

\* The engine has applied an offer: its answer is kept until it is acknowledged,
\* unless a newer offer is there already.
SubscribeApplied ==
  LET s == [sub EXCEPT !.applied = sub.applying, !.applying = None] IN
  /\ sub.applying # None
  /\ \/ /\ s.latest # None /\ sub' = ApplyNext(s) /\ WritesNothing
     \/ /\ s.latest = None
        /\ sub' = [s EXCEPT !.retained = s.applied] /\ Answers(s.applied)
  /\ UNCHANGED <<budget, gen, up, ready, inputVars, link, pub, offered, engine, media, ended, serverVars, sfuVars>>

Larger(a, b) == IF a > b THEN a ELSE b

\* An answer's outcome. Lost, it is sent again after the resume.
SubscribeAck(r) ==
  LET held == sub.retained.version = r.n IN
  /\ r \in replies /\ r.ask = "answer" /\ replies' = replies \ {r}
  /\ sub' = CASE r.res = "ok"    -> [sub EXCEPT !.acked = Larger(@, r.n), !.retained = IF held THEN None ELSE @]
             [] r.res = "stale" -> [sub EXCEPT !.retained = IF held THEN None ELSE @]
             [] OTHER           -> sub
  /\ ended' = IF r.res = "refused" THEN "refused" ELSE ended
  /\ UNCHANGED <<budget, wireVars, events, changed, link, pub, offered, engine, media, serverVars, sfuVars>>

-----------------------------------------------------------------------------
(* Publishing, and mute.                                                   *)

\* start_publish_offer: what the engine has by now goes with it.
NewOffer == pub' = [state |-> "offering", seq |-> pub.seq + 1, again |-> FALSE, unsent |-> FALSE] /\ offered' = engine

\* create_labelled_offer is done: call.publish, or once resumed.
SendPublish ==
  /\ pub.state = "offering" /\ ~pub.unsent
  /\ IF CanSend THEN /\ pub' = [pub EXCEPT !.state = "awaiting"]
                     /\ Writes(<<PublishOf(offered, pub.seq)>>)
                ELSE /\ pub' = [pub EXCEPT !.unsent = TRUE]
                     /\ WritesNothing
  /\ UNCHANGED <<budget, gen, up, ready, inputVars, link, sub, offered, engine, media, ended, serverVars, sfuVars>>

PublishReply(r) ==
  LET mine == pub.state = "awaiting" /\ r.n = pub.seq IN
  /\ r \in replies /\ r.ask = "publish" /\ replies' = replies \ {r}
  /\ pub' = CASE mine /\ r.res = "ok"      -> [pub EXCEPT !.state = "applying"]
             [] mine /\ r.res = "unknown" -> [pub EXCEPT !.state = "restart"]
             [] OTHER                     -> pub
  /\ ended' = IF mine /\ r.res \in {"refused", "timeout"} THEN r.res ELSE ended
  /\ UNCHANGED <<budget, wireVars, events, changed, link, sub, offered, engine, media, serverVars, sfuVars>>

\* send_media: one at a time; offline, the resume sends it.
SendMedia(m, i, can) ==
  [m EXCEPT !.has = i, !.reannounce = FALSE, !.flight = IF can THEN i ELSE @, !.dirty = @ \/ ~can]

\* flush_reannounce
Flushed(m, connected, can) ==
  IF m.reannounce /\ m.flight = 0 /\ connected THEN SendMedia(m, m.has, can) ELSE m

\* call.media goes out when one is in flight that wasn't.
MediaFrames(was, m) == IF was.flight = 0 /\ m.flight # 0 THEN <<MediaOf(m.flight)>> ELSE <<>>

\* The publish has landed: a mute made meanwhile must win (reannounce_media).
PublishApplied ==
  LET m == Flushed([media EXCEPT !.reannounce = @ \/ media.has # 0], link.connected, CanSend) IN
  /\ pub.state = "applying"
  /\ media' = m /\ Writes(MediaFrames(media, m))
  /\ IF pub.again /\ link.connected
     THEN NewOffer
     ELSE pub' = [pub EXCEPT !.state = "stable"] /\ UNCHANGED offered
  /\ UNCHANGED <<budget, gen, up, ready, inputVars, link, sub, engine, ended, serverVars, sfuVars>>

\* The app changed what the engine has to publish.
Republish ==
  /\ Spend("republish") /\ engine' = engine + 1
  /\ IF pub.state = "stable" /\ link.connected
     THEN pub' = [pub EXCEPT !.state = "offering", !.seq = @ + 1] /\ offered' = engine + 1
     ELSE pub' = [pub EXCEPT !.again = TRUE] /\ UNCHANGED offered
  /\ UNCHANGED <<wireVars, inputVars, link, sub, media, ended, serverVars, sfuVars>>

\* set_media, with a setting not used before.
SetMedia ==
  LET i == 1 + Larger(media.has, media.queued)
      m == SendMedia(media, i, CanSend)
  IN
  /\ Spend("mute")
  /\ IF media.flight # 0 THEN media' = [media EXCEPT !.queued = i] /\ WritesNothing
                         ELSE media' = m /\ Writes(MediaFrames(media, m))
  /\ UNCHANGED <<gen, up, ready, inputVars, link, sub, pub, offered, engine, ended, serverVars, sfuVars>>

\* Mutant of MediaAck: an outcome that isn't known is taken for done.
MediaAckAny(r) ==
  LET q == [media EXCEPT !.flight = 0, !.queued = 0]
      m == Flushed(IF media.queued # 0 THEN SendMedia(q, media.queued, CanSend) ELSE q, link.connected, CanSend)
  IN
  /\ r \in replies /\ r.ask = "media" /\ replies' = replies \ {r}
  /\ media' = m /\ Writes(MediaFrames(q, m))
  /\ UNCHANGED <<budget, gen, up, ready, events, changed, link, sub, pub, offered, engine, ended, serverVars, sfuVars>>

MediaAck(r) ==
  LET q == [media EXCEPT !.flight = 0, !.queued = 0, !.dirty = @ \/ r.res # "ok"]
      m == Flushed(IF media.queued # 0 THEN SendMedia(q, media.queued, CanSend) ELSE q, link.connected, CanSend)
  IN
  /\ r \in replies /\ r.ask = "media" /\ replies' = replies \ {r}
  /\ media' = m /\ Writes(MediaFrames(q, m))
  /\ UNCHANGED <<budget, gen, up, ready, events, changed, link, sub, pub, offered, engine, ended, serverVars, sfuVars>>

-----------------------------------------------------------------------------
(* Reconnecting, and the resume.                                           *)

\* What on_conn makes of the connection as it is.
Seen(l) == [l EXCEPT !.connected = @ /\ ready /\ gen = l.gen]
Resumes(l) == ready /\ gen > l.gen /\ ~l.resuming

SeeConnection(l) ==
  IF Resumes(l)
  THEN link' = [Seen(l) EXCEPT !.resuming = TRUE] /\ Writes(<<ResumeCall>>)
  ELSE link' = Seen(l) /\ WritesNothing

OnConn ==
  /\ changed /\ changed' = FALSE /\ SeeConnection(link)
  /\ UNCHANGED <<budget, gen, up, ready, events, replies, sub, pub, offered, engine, media, ended, serverVars, sfuVars>>

ResumeLost(r) ==
  /\ r \in replies /\ r.ask = "resume" /\ r.res # "ok" /\ replies' = replies \ {r}
  /\ SeeConnection([link EXCEPT !.resuming = FALSE])
  /\ UNCHANGED <<budget, gen, up, ready, events, changed, sub, pub, offered, engine, media, ended, serverVars, sfuVars>>

\* after_resume: what the drop interrupted is done again.
AfterResume(r) ==
  LET can    == ready /\ r.n = gen
      starts == pub.state \in {"restart", "awaiting"} \/ (pub.state = "stable" /\ pub.again)
      sends  == pub.state = "offering" /\ pub.unsent
      m1 == IF media.dirty /\ media.flight = 0
            THEN IF media.has = 0 THEN [media EXCEPT !.dirty = FALSE]
                 ELSE SendMedia([media EXCEPT !.dirty = FALSE], media.has, can)
            ELSE media
      m  == Flushed(m1, TRUE, can)
      frames == (IF sends THEN <<PublishOf(offered, pub.seq)>> ELSE <<>>)
             \o (IF sub.retained # None THEN <<AnswerTo(sub.retained)>> ELSE <<>>)
             \o MediaFrames(media, m)
  IN
  /\ r \in replies /\ r.ask = "resume" /\ r.res = "ok" /\ replies' = replies \ {r}
  /\ link' = [gen |-> r.n, connected |-> TRUE, resuming |-> FALSE]
  /\ IF can THEN Writes(frames) ELSE WritesNothing
  /\ media' = m
  /\ \/ starts /\ NewOffer
     \/ sends /\ pub' = [pub EXCEPT !.state = IF can THEN "awaiting" ELSE @, !.unsent = ~can] /\ UNCHANGED offered
     \/ ~starts /\ ~sends /\ UNCHANGED <<pub, offered>>
  /\ UNCHANGED <<budget, gen, up, ready, events, changed, sub, engine, ended, serverVars, sfuVars>>

-----------------------------------------------------------------------------
(* The api: one command of a socket after the other.                       *)

Reaches(g) == g = gen /\ up

\* A reply to socket g, and what then waits for one no more.
Reply(g, r) ==
  IF Reaches(g) THEN replies' = replies \cup {r} /\ waiting' = waiting \ {r.ask}
                ELSE UNCHANGED <<replies, waiting>>

\* Participant.send
SentOn(g, o) == events' = IF o # None /\ Reaches(g) THEN Append(events, o) ELSE events
Sent(o) == SentOn(mediaConn, o)

Next1(g) == inbox[g] # <<>> /\ answering[g] = None
Taken(g) == inbox' = [inbox EXCEPT ![g] = Tail(@)]

\* Mutant of HandleResume: only what is offered from now on.
HandleResumeAnew(g) ==
  /\ Next1(g) /\ Head(inbox[g]).ask = "resume" /\ Taken(g)
  /\ mediaConn' = g /\ Reply(g, Outcome("resume", g, "ok"))
  /\ ended' = IF mediaConn # g /\ Reaches(mediaConn) THEN "replaced" ELSE ended
  /\ UNCHANGED <<budget, gen, up, ready, events, changed, link, sub, pub, offered, engine, media,
                 answering, wanted, desired, task, srv, published, intent, sfuVars>>

\* After call.joined, the offer still unanswered is sent again (its task is next
\* in the loop).  The client sees "replaced" when an older socket's resume comes late.
HandleResume(g) ==
  /\ Next1(g) /\ Head(inbox[g]).ask = "resume" /\ Taken(g)
  /\ mediaConn' = g /\ Reply(g, Outcome("resume", g, "ok")) /\ SentOn(g, srv.pending)
  /\ ended' = IF mediaConn # g /\ Reaches(mediaConn) THEN "replaced" ELSE ended
  /\ UNCHANGED <<budget, gen, up, ready, changed, link, sub, pub, offered, engine, media,
                 answering, wanted, desired, task, srv, published, intent, sfuVars>>

\* A frame of a socket that isn't the participant's: "not_in_call".
HandleStranger(g) ==
  /\ Next1(g) /\ Head(inbox[g]).ask # "resume" /\ mediaConn # g /\ Taken(g)
  /\ Reply(g, Outcome(Head(inbox[g]).ask, Head(inbox[g]).offer.version, "refused"))
  /\ UNCHANGED <<budget, gen, up, ready, events, changed, clientVars, serverVars, sfuVars>>

\* publish: the SFU takes the offer, or not.
HandlePublish(g) ==
  LET f == Head(inbox[g]) IN
  /\ Next1(g) /\ f.ask = "publish" /\ mediaConn = g /\ Taken(g)
  /\ \/ published' = f.n /\ Reply(g, Outcome("publish", f.offer.version, "ok")) /\ UNCHANGED budget
     \/ Spend("refuse") /\ Reply(g, Outcome("publish", f.offer.version, "refused")) /\ UNCHANGED published
  /\ UNCHANGED <<gen, up, ready, events, changed, clientVars,
                 mediaConn, answering, wanted, desired, task, srv, intent, sfuVars>>

HandleMedia(g) ==
  LET f == Head(inbox[g]) IN
  /\ Next1(g) /\ f.ask = "media" /\ mediaConn = g /\ Taken(g)
  /\ intent' = f.n /\ Reply(g, Outcome("media", f.n, "ok"))
  /\ UNCHANGED <<budget, gen, up, ready, events, changed, clientVars,
                 mediaConn, answering, wanted, desired, task, srv, published, sfuVars>>

\* subscribe_answer waits for the participant's lock.
HandleAnswer(g) ==
  LET f == Head(inbox[g]) IN
  /\ Next1(g) /\ f.ask = "answer" /\ mediaConn = g /\ Taken(g)
  /\ answering' = [answering EXCEPT ![g] = f.offer]
  /\ UNCHANGED <<budget, gen, up, ready, waiting, inputVars, clientVars,
                 mediaConn, wanted, desired, task, srv, published, intent, sfuVars>>

Unlocked == task.ask = "no"

\* An answer to what isn't, or no longer, the offer that is out.
Stale(o) == srv.pending = None \/ o.version # srv.version

\* The SFU has its answer, and makes the offer it had put off.
AnswerTaken(f) ==
  IF f.putOff THEN [f EXCEPT !.putOff = FALSE, !.offer = f.streams] ELSE [f EXCEPT !.answered = TRUE]

PutOffOffer ==
  IF sfu.putOff THEN {[version |-> 0, handle |-> sfu.handle, streams |-> sfu.streams]} ELSE {}

\* Mutant of StartOver: the offer stays the one that is due.
StartOverPending(s) == [s EXCEPT !.handle = 0, !.streams = {}]

\* The SFU rejected the answer: a new handle, and a new offer.
StartOver(s) == [s EXCEPT !.handle = 0, !.streams = {}, !.pending = None, !.dirty = FALSE]

AnswerRuns(g) ==
  LET o == answering[g]
      Says(res) == Reply(g, Outcome("answer", o.version, res))
  IN
  /\ o # None /\ Unlocked /\ answering' = [answering EXCEPT ![g] = None]
  /\ \/ /\ Stale(o) \/ srv.handle = 0
        /\ Says(IF Stale(o) THEN "stale" ELSE "refused")
        /\ UNCHANGED <<budget, srv, wanted, sfuVars>>
     \/ /\ ~Stale(o) /\ srv.handle # 0 /\ Says("ok")
        /\ sfu' = AnswerTaken(sfu) /\ noticed' = noticed \cup PutOffOffer /\ UNCHANGED gaveUp
        /\ srv' = [srv EXCEPT !.pending = None, !.dirty = FALSE] /\ wanted' = (wanted \/ srv.dirty)
        /\ UNCHANGED budget
     \/ /\ ~Stale(o) /\ srv.handle # 0 /\ Spend("refuse") /\ Says("refused")
        /\ srv' = StartOver(srv) /\ wanted' = TRUE /\ UNCHANGED sfuVars
  /\ UNCHANGED <<gen, up, ready, inbox, events, changed, clientVars,
                 mediaConn, desired, task, published, intent>>

\* on_disconnect, once all that came was handled.  (The grace is CallRoster's.)
SocketEnds ==
  /\ mediaConn # 0 /\ ~Reaches(mediaConn) /\ inbox[mediaConn] = <<>> /\ answering[mediaConn] = None
  /\ mediaConn' = 0
  /\ UNCHANGED <<budget, wireVars, inputVars, clientVars,
                 answering, wanted, desired, task, srv, published, intent, sfuVars>>

-----------------------------------------------------------------------------
(* The api: what the participant is subscribed to.                         *)

\* The others' media changed: _reconcile_all.
Change ==
  /\ Spend("change") /\ \E D \in SUBSET Streams \ {desired} : desired' = D
  /\ wanted' = TRUE
  /\ UNCHANGED <<wireVars, inputVars, clientVars,
                 mediaConn, answering, task, srv, published, intent, sfuVars>>

\* reconcile takes the lock, and asks the SFU when there is something to ask.
Reconcile ==
  /\ wanted /\ Unlocked /\ wanted' = FALSE /\ gaveUp' = FALSE
  /\ srv' = IF srv.pending # None THEN [srv EXCEPT !.dirty = TRUE] ELSE srv
  /\ task' = IF srv.pending # None \/ desired = srv.streams THEN task
             ELSE [ask |-> IF srv.handle = 0 THEN "join" ELSE "update", streams |-> desired]
  /\ UNCHANGED <<budget, wireVars, inputVars, clientVars,
                 mediaConn, answering, desired, published, intent, sfu, noticed>>

\* _offer
Offered(s, o) == [s EXCEPT !.version = @ + 1, !.pending = [o EXCEPT !.version = s.version + 1]]

TaskDone == task' = [ask |-> "no", streams |-> {}]

Join ==
  LET h == sfu.handle + 1
      o == [version |-> 0, handle |-> h, streams |-> task.streams]
  IN
  /\ task.ask = "join" /\ TaskDone
  /\ \/ /\ sfu' = [handle |-> h, streams |-> task.streams, offer |-> task.streams,
                    answered |-> FALSE, putOff |-> FALSE]
        /\ srv' = Offered([srv EXCEPT !.handle = h, !.streams = task.streams], o)
        /\ Sent(srv'.pending) /\ UNCHANGED <<budget, gaveUp>>
     \/ Spend("refuse") /\ gaveUp' = TRUE /\ UNCHANGED <<srv, sfu, events>>
  /\ UNCHANGED <<wireVars, replies, changed, clientVars,
                 mediaConn, answering, wanted, desired, published, intent, noticed>>

\* Without an answer to its last offer, the SFU makes no offer yet.  Refused,
\* the handle goes and it all begins again.
Update ==
  LET o == [version |-> 0, handle |-> sfu.handle, streams |-> task.streams] IN
  /\ task.ask = "update" /\ TaskDone
  /\ \/ /\ sfu.answered
        /\ sfu' = [sfu EXCEPT !.streams = task.streams, !.offer = task.streams, !.answered = FALSE]
        /\ srv' = Offered([srv EXCEPT !.streams = task.streams], o)
        /\ Sent(srv'.pending) /\ UNCHANGED <<budget, wanted>>
     \/ /\ ~sfu.answered
        /\ sfu' = [sfu EXCEPT !.streams = task.streams, !.putOff = TRUE]
        /\ srv' = [srv EXCEPT !.streams = task.streams]
        /\ UNCHANGED <<budget, wanted, events>>
     \/ /\ Spend("refuse") /\ srv' = [srv EXCEPT !.handle = 0, !.streams = {}]
        /\ wanted' = TRUE /\ UNCHANGED <<sfu, events>>
  /\ UNCHANGED <<wireVars, replies, changed, clientVars,
                 mediaConn, answering, desired, published, intent, noticed, gaveUp>>

\* A publisher is gone: the SFU makes an offer by itself, or once it may.
FeedGone(x) ==
  LET left == sfu.streams \ {x} IN
  /\ srv.handle # 0 /\ x \in sfu.streams /\ Spend("feed")
  /\ IF sfu.answered
     THEN /\ sfu' = [sfu EXCEPT !.streams = left, !.offer = left, !.answered = FALSE]
          /\ noticed' = noticed \cup {[version |-> 0, handle |-> sfu.handle, streams |-> left]}
     ELSE /\ sfu' = [sfu EXCEPT !.streams = left, !.putOff = TRUE]
          /\ UNCHANGED noticed
  /\ desired' = desired \ {x} /\ wanted' = TRUE
  /\ UNCHANGED <<wireVars, inputVars, clientVars,
                 mediaConn, answering, task, srv, published, intent, gaveUp>>

\* _sub_listener forwards it under the lock.
Forward(o) ==
  /\ o \in noticed /\ Unlocked /\ noticed' = noticed \ {o}
  /\ srv' = Offered(srv, o) /\ Sent(srv'.pending)
  /\ UNCHANGED <<budget, wireVars, replies, changed, clientVars,
                 mediaConn, answering, wanted, desired, task, published, intent, sfu, gaveUp>>

-----------------------------------------------------------------------------
Client ==
  \/ OnConn \/ OnOffer \/ SubscribeApplied \/ SendPublish \/ PublishApplied
  \/ \E r \in replies :
       SubscribeAck(r) \/ PublishReply(r) \/ MediaAck(r) \/ ResumeLost(r) \/ AfterResume(r)

Handle(g) ==
  \/ HandleResume(g) \/ HandleStranger(g) \/ HandlePublish(g) \/ HandleMedia(g)
  \/ HandleAnswer(g) \/ AnswerRuns(g)

Subscriptions == Reconcile \/ Join \/ Update \/ (\E o \in noticed : Forward(o))

\* What happens from outside.
Environment ==
  \/ CutLink \/ Change \/ Republish \/ SetMedia
  \/ \E x \in Streams : FeedGone(x)
  \/ \E a \in waiting : TimeOut(a)

MediaNext ==
  /\ Alive
  /\ \/ Environment \/ NoticeCut \/ Reconnect
     \/ Client
     \/ Subscriptions \/ SocketEnds
     \/ \E g \in 1..gen : Handle(g)

\* Tasks run, requests to the SFU are answered (REQUEST_TIMEOUT_S), and the
\* client connects again for as long as there is a session.
MediaFairness ==
  /\ WF_mediaVars(Alive /\ NoticeCut) /\ WF_mediaVars(Alive /\ Reconnect) /\ WF_mediaVars(Alive /\ SocketEnds)
  /\ WF_mediaVars(Alive /\ Client) /\ WF_mediaVars(Alive /\ Subscriptions)
  /\ WF_mediaVars(Alive /\ \E g \in 1..gen : Handle(g))

MediaSpec == MediaInit /\ [][MediaNext]_mediaVars /\ MediaFairness

-----------------------------------------------------------------------------
(* Properties.                                                             *)

\* The offer the client owes an answer is the one the SFU waits for an answer to:
\* none is passed on to a handle that is gone, or to a later offer.
PendingFits ==
  srv.pending # None =>
    /\ srv.handle = srv.pending.handle /\ sfu.handle = srv.handle
    /\ ~sfu.answered /\ sfu.offer = srv.pending.streams

\* What holds of every state of the participant, types and the offer that is due
\* (calls.py, _offer and subscribe_answer).
MediaInv == MediaTypeOK /\ PendingFits

\* When the others' media settles, so does what this participant is subscribed to,
\* whatever was lost with the socket and whatever order the answers came in: the
\* client's last description is of just those streams, and nothing is due.  (A
\* join that the SFU refuses isn't tried again until the next change, and a
\* handle that is given up with nothing to follow leaves the description as it was.)
Subscribed ==
  /\ srv.streams = desired /\ srv.pending = None
  /\ srv.handle # 0 => sub.applied.streams = desired
SubscribesConverge == <>[](ended # "no" \/ gaveUp \/ Subscribed)

\* A change of what the client publishes gets to the SFU, and so does a mute,
\* although the socket that carried it, or its reply, was lost (call.rs, after_resume).
CommandsLand ==
  <>[](ended # "no" \/ (published = engine /\ (media.has = 0 \/ intent = media.has)))
=============================================================================
