----------------------------- MODULE Conversations -----------------------------
(***************************************************************************)
(* Which conversations the sidebar of the GNOME client lists, and the      *)
(* dialogs that change them (clients/gnome/src/chat.rs): starting or       *)
(* finding one, joining a public channel, leaving, renaming, deleting,     *)
(* adding somebody, and the search that jumps to one.  Each sends its      *)
(* request and goes on when the answer comes; the list itself is loaded    *)
(* again by a task ("list") that ChatView draws.                           *)
(***************************************************************************)
EXTENDS Timeline

VARIABLES
  shown,     \* the channels the sidebar lists
  browse,    \* the channels on offer in Public channels
  dialog,    \* the channel Rename was opened for
  finds,     \* the search dialog: the newest search, the one drawn, the newest that failed, the results' channels
  late,      \* history: the lists that came from the cache, or before one drawn already
  astray,    \* history: the list drawn may be another than the server's
  renamed    \* history: Rename opened for one channel and sent for another

convVars == <<shown, browse, dialog, finds, late, astray, renamed>>

NoFinds == [asked |-> 0, drawn |-> 0, lost |-> 0, chans |-> {}]

ConvInit ==
  /\ shown = Channels \ away /\ browse = {} /\ dialog = Closed /\ finds = NoFinds
  /\ late = {} /\ astray = FALSE /\ renamed = {}

\* No dialog stands before the window.
Plain == dialog = Closed /\ browse = {}

-----------------------------------------------------------------------------
(* Who is in.                                                              *)

ConvStep == UNCHANGED <<viewVars, chipVars, sendVars, shown, browse, dialog, finds, late, renamed>>
\* What no event and no sync will tell.
Missed(unseen) == astray' = (astray \/ (link = "down" /\ unseen))

\* Another member deletes a channel or removes this user; another adds this user.
Ends == \E c \in Channels \ away :
  /\ Spend("gone") /\ Out(c) /\ Missed(c \notin known)
  /\ UNCHANGED <<ver, link, behind, store, tasks>> /\ ConvStep
Added == \E c \in away :
  /\ Spend("added") /\ In(c) /\ Missed(TRUE)
  /\ UNCHANGED <<ver, link, behind, store, tasks>> /\ ConvStep

-----------------------------------------------------------------------------
(* Starting, browsing, joining. *)

JoinTask(c) == New("join", "ask", c)
Beginning == UNCHANGED <<serverVars, cacheVars, feedVars, viewVars, chipVars, sendVars, shown, finds, late, astray, renamed>>

\* open_dm, create_channel: the server finds the conversation or makes it.
Start == \E c \in Channels :
  /\ Plain /\ Fits(1) /\ Spend("start") /\ tasks' = Spawned(JoinTask(c))
  /\ Beginning /\ UNCHANGED <<browse, dialog>>
Browse ==
  /\ Plain /\ Fits(1) /\ Spend("browse") /\ tasks' = Spawned(New("browse", "ask", Closed))
  /\ Beginning /\ UNCHANGED <<browse, dialog>>
\* What this user isn't in, as the server has it; or an alert.
BrowseReads == \E t \in DOMAIN tasks :
  /\ Task(t, "browse", "ask")
  /\ tasks' = Goes(t, [t EXCEPT !.at = "back", !.chans = away]) \/ tasks' = Ended(t)
  /\ Beginning /\ UNCHANGED <<budget, browse, dialog>>
BrowseShows == \E t \in DOMAIN tasks :
  /\ Task(t, "browse", "back") /\ tasks' = Ended(t) /\ browse' = t.chans
  /\ Beginning /\ UNCHANGED <<budget, dialog>>
\* Join, of what was on offer when the dialog was drawn.
JoinPublic == \E c \in browse :
  /\ Fits(1) /\ Spend("join") /\ tasks' = Spawned(JoinTask(c)) /\ browse' = {}
  /\ Beginning /\ UNCHANGED dialog

\* The server lets this user in, or refuses (an alert); the answer may be lost after it did.
JoinLands == \E t \in DOMAIN tasks :
  LET c == t.chan IN
  /\ Task(t, "join", "ask")
  /\ \/ /\ IF c \in away THEN In(c) ELSE UNCHANGED <<away, cacheVars, feedVars>>
        /\ \/ tasks' = Goes(t, [t EXCEPT !.at = "back"]) /\ UNCHANGED <<budget, astray>>
           \/ tasks' = Ended(t) /\ Spend("unclear") /\ Missed(c \in away)
     \/ tasks' = Ended(t) /\ UNCHANGED <<budget, away, cacheVars, feedVars, astray>>
  /\ UNCHANGED <<ver, link, behind, store>> /\ ConvStep
\* Listed again, to be opened then.
JoinBack == \E t \in DOMAIN tasks :
  /\ Task(t, "join", "back") /\ tasks' = Goes(t, [t EXCEPT !.kind = "list", !.at = "ask"])
  /\ Beginning /\ UNCHANGED <<budget, browse, dialog>>

-----------------------------------------------------------------------------
(* The open channel's dialogs. *)

ManageTask(what, c) == New("manage", what, c)

\* A request about the open channel, from a dialog that was drawn for it.
Asks(what) ==
  /\ Plain /\ current # Closed /\ Fits(1) /\ Spend("manage") /\ tasks' = Spawned(ManageTask(what, current))
  /\ Beginning /\ UNCHANGED <<browse, dialog>>
Leave == Asks("leave")
DeleteIt == Asks("delete")
Archive == Asks("update")
AddMember == Asks("add")
\* Remove a member, offer an ownership or withdraw the offer: its button says how it went.
MemberAction == Asks("member")

\* Rename is drawn for the open channel and asked for the one open when it is saved.
RenameOpens ==
  /\ Plain /\ current # Closed /\ Spend("rename") /\ dialog' = current
  /\ Beginning /\ UNCHANGED <<tasks, browse>>
RenameSaves ==
  /\ dialog # Closed /\ Spend("rename") /\ dialog' = Closed
  /\ IF current = Closed THEN UNCHANGED <<tasks, renamed>>
     ELSE Fits(1) /\ tasks' = Spawned(ManageTask("update", current)) /\ renamed' = renamed \cup {<<dialog, current>>}
  /\ UNCHANGED <<serverVars, cacheVars, feedVars, viewVars, chipVars, sendVars, shown, browse, finds, late, astray>>

\* Done, and told to the members; not found; refused, which is an alert.  `sure`: the list is loaded again.
ManageLands == \E t \in DOMAIN tasks :
  LET Back(again) == tasks' = Goes(t, [t EXCEPT !.at = "back", !.sure = again]) IN
  /\ t.kind = "manage" /\ t.at # "back"
  /\ IF t.chan \in away
     THEN \E again \in {FALSE, t.at \notin {"leave", "member"}} : Back(again) /\ UNCHANGED <<away, cacheVars, feedVars, astray>>
     ELSE \/ /\ t.at \in {"leave", "delete"} /\ Out(t.chan) /\ Missed(t.chan \notin known) /\ Back(FALSE)
          \/ /\ t.at \in {"update", "add", "member"} /\ Back(t.at = "add") /\ UNCHANGED <<away, cacheVars, notes, astray>>
             /\ IF link = "up" THEN Room /\ Push([k |-> "meta", m |-> 0, c |-> t.chan]) ELSE UNCHANGED events
          \/ Back(FALSE) /\ UNCHANGED <<away, cacheVars, feedVars, astray>>
  /\ UNCHANGED <<budget, ver, link, behind, store>> /\ ConvStep
ManageBack == \E t \in DOMAIN tasks :
  /\ Task(t, "manage", "back")
  /\ tasks' = IF t.sure THEN Goes(t, New("list", "ask", Closed)) ELSE Ended(t)
  /\ Beginning /\ UNCHANGED <<budget, browse, dialog>>

-----------------------------------------------------------------------------
(* Searching. *)

Searching == UNCHANGED <<serverVars, cacheVars, feedVars, viewVars, chipVars, sendVars, shown, browse, dialog, late, astray, renamed>>

Search ==
  /\ Plain /\ Fits(1) /\ Spend("search") /\ finds' = [finds EXCEPT !.asked = @ + 1]
  /\ tasks' = Spawned([New("search", "ask", Closed) EXCEPT !.gen = finds.asked + 1])
  /\ Searching
\* Messages of the channels this user is in then.
SearchReads == \E t \in DOMAIN tasks :
  /\ Task(t, "search", "ask")
  /\ \/ tasks' = Goes(t, [t EXCEPT !.at = "back", !.chans = Channels \ away]) /\ UNCHANGED <<budget, finds>>
     \/ tasks' = Ended(t) /\ Spend("fail") /\ finds' = [finds EXCEPT !.lost = Max({@, t.gen})]
  /\ Searching
\* An older, slower search draws nothing.
SearchDraws == \E t \in DOMAIN tasks :
  /\ Task(t, "search", "back") /\ tasks' = Ended(t)
  /\ finds' = IF t.gen = finds.asked THEN [finds EXCEPT !.drawn = t.gen, !.chans = t.chans] ELSE finds
  /\ Searching /\ UNCHANGED budget

-----------------------------------------------------------------------------
ConvTypeOK ==
  /\ shown \cup browse \subseteq Channels /\ dialog \in Channels \cup {Closed} /\ DOMAIN finds = DOMAIN NoFinds
  /\ late \subseteq Nat \ {0} /\ astray \in BOOLEAN

\* At rest the sidebar lists the channels this user is in.
ListedRight == ~astray => shown = Channels \ away

\* At rest the results on screen are the newest search's.
NewestFound == finds.lost # finds.asked => finds.drawn = finds.asked

\* A new name goes to the channel it was written for.
NamedAsWritten == \A p \in renamed : p[1] = p[2]
=============================================================================
