------------------------------ MODULE CallRoster ------------------------------
(***************************************************************************)
(* Who is in a channel's call (services/api/app/calls.py, CallManager),    *)
(* and what the api keeps at the SFU for it.                               *)
(*                                                                         *)
(* The api is one asyncio process: a step is the code between two awaits.  *)
(* Joins, resumes and removals of a channel take its lock in turn; losing  *)
(* the SFU, a socket's end and the lookups before the lock don't take it.  *)
(* A socket runs one command at a time, and its disconnect hooks run after *)
(* the command that was running.                                           *)
(***************************************************************************)
EXTENDS Integers, Sequences, FiniteSets

CONSTANTS
  Devices,      \* each of a user of its own
  Sockets,      \* the sockets of a device: one half open, one new, say
  DeviceOf,
  Nobody,       \* not a socket
  Revocations,  \* the sets of devices that lose their membership together
  MaxInCall,    \* MAX_PARTICIPANTS
  MaxCalls,     \* bound: calls made
  MaxParts,     \* bound: participants made
  MaxLosses     \* bound: times the SFU's socket is lost

ASSUME SocketsAssumption == DeviceOf \in [Sockets -> Devices] /\ Nobody \notin Sockets /\ Devices # {}
ASSUME BoundsAssumption ==
  /\ Revocations \subseteq SUBSET Devices /\ MaxInCall \in Nat
  /\ MaxCalls \in Nat /\ MaxParts \in Nat /\ MaxLosses \in Nat

\* Ids are made in turn; 0 is none.
Calls == 1..MaxCalls
Parts == 1..MaxParts

VARIABLES
  member,     \* devices whose user belongs to the channel
  revoked,    \* removals end_for_user, or end_channel, is still to run for
  sock,       \* "open", "dead" until the api sees it, "closed": a device connects again with another
  pc,         \* of a socket's command
  target,     \* the call a join works on, the participant a resume asks for
  holds,      \* the participant a device was last told it is, 0 for none
  byChannel, byId, calls,       \* the channel's call, those by id, how many were made
  roster,                       \* Call.participants
  parts, callOf, deviceOf,      \* participants made, their call and their user
  conn,       \* Participant.conn
  grace,      \* participants whose grace timer runs
  removal,    \* of each participant: the one asked for, and that by grace
  lock,       \* the channel's lock: its holder and who waits, in order
  kept,       \* SFU sessions kept alive, with what they are for
  losses

memberVars == <<member, revoked>>
socketVars == <<sock, pc, target, holds>>
callVars   == <<byChannel, byId, calls, roster>>
partVars   == <<parts, callOf, deviceOf, conn, grace>>
vars == <<memberVars, socketVars, callVars, partVars, removal, lock, kept, losses>>

Kinds == {"asked", "grace"}
Removal(p, k) == <<"remove", p, k>>
Command(s)    == <<"command", s>>
Tasks == {Command(s) : s \in Sockets} \cup {Removal(p, k) : p \in Parts, k \in Kinds}

\* The session of a call, of a participant, or of one that a join is making.
CallSession(c)    == <<"call", c>>
PartSession(p)    == <<"part", p>>
NewCallSession(s) == <<"new call", s>>
NewPartSession(s) == <<"new part", s>>
Sessions == {CallSession(c) : c \in Calls} \cup {PartSession(p) : p \in Parts}
            \cup {NewCallSession(s) : s \in Sockets} \cup {NewPartSession(s) : s \in Sockets}

TypeOK ==
  /\ member \in SUBSET Devices /\ revoked \in SUBSET Revocations
  /\ sock \in [Sockets -> {"open", "dead", "closed"}]
  /\ pc \in [Sockets -> {"idle", "checked", "room", "refused", "feed", "undo", "resume"}]
  /\ target \in [Sockets -> Nat] /\ holds \in [Devices -> 0..MaxParts]
  /\ byChannel \in 0..MaxCalls /\ byId \in SUBSET Calls /\ calls \in 0..MaxCalls
  /\ roster \in [Calls -> SUBSET Parts]
  /\ parts \in 0..MaxParts /\ callOf \in [Parts -> 0..MaxCalls] /\ deviceOf \in [Parts -> Devices]
  /\ conn \in [Parts -> Sockets \cup {Nobody}] /\ grace \in SUBSET Parts
  /\ removal \in [Parts -> [Kinds -> {"no", "waiting", "closing"}]]
  /\ lock \in Seq(Tasks) /\ kept \in SUBSET Sessions /\ losses \in 0..MaxLosses

Init ==
  /\ member = Devices /\ revoked = {}
  /\ sock = [s \in Sockets |-> "open"] /\ pc = [s \in Sockets |-> "idle"]
  /\ target = [s \in Sockets |-> 0] /\ holds = [d \in Devices |-> 0]
  /\ byChannel = 0 /\ byId = {} /\ calls = 0 /\ roster = [c \in Calls |-> {}]
  /\ parts = 0 /\ callOf = [p \in Parts |-> 0]
  /\ deviceOf = [p \in Parts |-> CHOOSE d \in Devices : TRUE]
  /\ conn = [p \in Parts |-> Nobody] /\ grace = {}
  /\ removal = [p \in Parts |-> [k \in Kinds |-> "no"]] /\ lock = <<>>
  /\ kept = {} /\ losses = 0

-----------------------------------------------------------------------------
HasLock(t) == lock # <<>> /\ Head(lock) = t
Release    == lock' = Tail(lock)

\* A lock that is free is taken without a pause; otherwise its tasks wake in turn.
Takes(t)      == (lock = <<>> /\ lock' = <<t>>) \/ (HasLock(t) /\ UNCHANGED lock)
PassesWith(t) == (lock = <<>> /\ UNCHANGED lock) \/ (HasLock(t) /\ Release)
Waits(t)      == lock # <<>> /\ (\A i \in DOMAIN lock : lock[i] # t) /\ lock' = Append(lock, t)

Goto(s, l)  == pc' = [pc EXCEPT ![s] = l]
Aim(s, x)   == target' = [target EXCEPT ![s] = x]
Answered(s) == Goto(s, "idle") /\ Aim(s, 0)

\* The answer reaches the device, or is lost with the socket.
ToldJoined(s, p) ==
  \/ holds' = [holds EXCEPT ![DeviceOf[s]] = p] /\ UNCHANGED sock
  \/ sock' = [sock EXCEPT ![s] = "dead"] /\ UNCHANGED holds

\* call.ended to the sockets of participants P that have one.
ToldEnded(P) ==
  holds' = [d \in Devices |->
              IF \E p \in P : p = holds[d] /\ conn[p] # Nobody /\ DeviceOf[conn[p]] = d
              THEN 0 ELSE holds[d]]

Live(p) == p \in Parts /\ callOf[p] \in byId /\ p \in roster[callOf[p]]

-----------------------------------------------------------------------------
(* Sockets and the devices behind them.                                    *)

\* Mutant of Disconnect: the timer is forgotten.
DisconnectSilently(s) ==
  /\ sock[s] # "closed" /\ pc[s] = "idle"
  /\ sock' = [sock EXCEPT ![s] = "closed"]
  /\ conn' = [p \in Parts |-> IF Live(p) /\ conn[p] = s THEN Nobody ELSE conn[p]]
  /\ UNCHANGED <<memberVars, pc, target, holds, callVars, parts, callOf, deviceOf, grace, removal, lock, kept, losses>>

\* on_disconnect, of the calls there are.
Disconnect(s) ==
  /\ sock[s] # "closed" /\ pc[s] = "idle"
  /\ sock' = [sock EXCEPT ![s] = "closed"]
  /\ conn' = [p \in Parts |-> IF Live(p) /\ conn[p] = s THEN Nobody ELSE conn[p]]
  /\ grace' = grace \cup {p \in Parts : Live(p) /\ conn[p] = s}
  /\ UNCHANGED <<memberVars, pc, target, holds, callVars, parts, callOf, deviceOf, removal, lock, kept, losses>>

-----------------------------------------------------------------------------
(* join                                                                    *)

\* The membership is read before the lock is waited for.
CheckMember(s) ==
  /\ sock[s] = "open" /\ pc[s] = "idle" /\ holds[DeviceOf[s]] = 0
  /\ DeviceOf[s] \in member /\ parts < MaxParts
  /\ Goto(s, "checked")
  /\ UNCHANGED <<memberVars, sock, target, holds, callVars, partVars, removal, lock, kept, losses>>

\* A join or a resume that finds the lock taken.
WaitForLock(s) ==
  /\ pc[s] \in {"checked", "resume"} /\ Waits(Command(s))
  /\ UNCHANGED <<memberVars, socketVars, callVars, partVars, removal, kept, losses>>

InCall(s) == \E p \in roster[byChannel] : conn[p] = s

\* The participant's own session, then its publisher handle.
EnterCall(s, c, sessions) ==
  Goto(s, "feed") /\ Aim(s, c) /\ kept' = sessions \cup {NewPartSession(s)}

JoinCall(s) ==
  /\ pc[s] = "checked" /\ Takes(Command(s))
  /\ byChannel # 0 /\ ~InCall(s) /\ Cardinality(roster[byChannel]) < MaxInCall
  /\ EnterCall(s, byChannel, kept)
  /\ UNCHANGED <<memberVars, sock, holds, callVars, partVars, removal, losses>>

\* "call_full", or "bad_state" for a socket that is in the call.
CantJoin(s) ==
  /\ pc[s] = "checked" /\ PassesWith(Command(s))
  /\ byChannel # 0 /\ (InCall(s) \/ Cardinality(roster[byChannel]) >= MaxInCall)
  /\ Answered(s)
  /\ UNCHANGED <<memberVars, sock, holds, callVars, partVars, removal, kept, losses>>

\* _create_call: a session of the SFU, a handle, a room.
CreateCall(s) ==
  /\ pc[s] = "checked" /\ Takes(Command(s)) /\ byChannel = 0
  /\ kept' = kept \cup {NewCallSession(s)} /\ Goto(s, "room")
  /\ UNCHANGED <<memberVars, sock, target, holds, callVars, partVars, removal, losses>>

RoomMade(s) ==
  /\ pc[s] = "room" /\ calls < MaxCalls
  /\ calls' = calls + 1 /\ byChannel' = calls + 1 /\ byId' = byId \cup {calls + 1}
  /\ EnterCall(s, calls + 1, (kept \ {NewCallSession(s)}) \cup {CallSession(calls + 1)})
  /\ UNCHANGED <<memberVars, sock, holds, roster, partVars, removal, lock, losses>>

\* Refused, no answer in time, or the SFU lost: the session goes again.
NoRoom(s) ==
  /\ pc[s] \in {"room", "refused"}
  /\ kept' = kept \ {NewCallSession(s)}
  /\ Answered(s) /\ Release
  /\ UNCHANGED <<memberVars, sock, holds, callVars, partVars, removal, losses>>

Joined(s) ==
  LET p == parts + 1
      c == target[s]
  IN
  /\ pc[s] = "feed" /\ parts < MaxParts
  /\ parts' = p /\ callOf' = [callOf EXCEPT ![p] = c]
  /\ deviceOf' = [deviceOf EXCEPT ![p] = DeviceOf[s]] /\ conn' = [conn EXCEPT ![p] = s]
  /\ roster' = [roster EXCEPT ![c] = @ \cup {p}]
  /\ kept' = (kept \ {NewPartSession(s)}) \cup {PartSession(p)}
  /\ ToldJoined(s, p) /\ Answered(s) /\ Release
  /\ UNCHANGED <<memberVars, byChannel, byId, calls, grace, removal, losses>>

\* _destroy_call: whatever call the channel has is taken off it.
DestroyCall(c, closed) ==
  /\ byChannel' = 0 /\ byId' = byId \ {c} /\ kept' = kept \ {CallSession(c), closed}

KeepCall(closed) == kept' = kept \ {closed} /\ UNCHANGED <<byChannel, byId>>

\* Mutant of NotJoined: a call nobody got into stays.
NotJoinedKeepsCall(s) ==
  /\ pc[s] \in {"feed", "undo"}
  /\ KeepCall(NewPartSession(s))
  /\ Answered(s) /\ Release
  /\ UNCHANGED <<memberVars, sock, holds, calls, roster, partVars, removal, losses>>

\* The participant's session goes again, and with it a call nobody is in.
NotJoined(s) ==
  /\ pc[s] \in {"feed", "undo"}
  /\ IF roster[target[s]] = {} THEN DestroyCall(target[s], NewPartSession(s))
                               ELSE KeepCall(NewPartSession(s))
  /\ Answered(s) /\ Release
  /\ UNCHANGED <<memberVars, sock, holds, calls, roster, partVars, removal, losses>>

-----------------------------------------------------------------------------
(* resume                                                                  *)

\* The call is looked up before the lock is waited for.
AskResume(s) ==
  LET p == holds[DeviceOf[s]] IN
  /\ sock[s] = "open" /\ pc[s] = "idle" /\ p # 0 /\ conn[p] # s
  /\ callOf[p] \in byId
  /\ Goto(s, "resume") /\ Aim(s, p)
  /\ UNCHANGED <<memberVars, sock, holds, callVars, partVars, removal, lock, kept, losses>>

\* "not_in_call": the device's call is over.
NoResume(s) ==
  LET p == holds[DeviceOf[s]] IN
  /\ sock[s] = "open" /\ pc[s] = "idle" /\ p # 0 /\ callOf[p] \notin byId
  /\ holds' = [holds EXCEPT ![DeviceOf[s]] = 0]
  /\ UNCHANGED <<memberVars, sock, pc, target, callVars, partVars, removal, lock, kept, losses>>

Resume(s) ==
  LET p == target[s] IN
  /\ pc[s] = "resume" /\ PassesWith(Command(s))
  /\ \/ /\ p \in roster[callOf[p]]
        /\ grace' = grace \ {p} /\ conn' = [conn EXCEPT ![p] = s] /\ ToldJoined(s, p)
     \/ /\ p \notin roster[callOf[p]]
        /\ holds' = [holds EXCEPT ![DeviceOf[s]] = 0] /\ UNCHANGED <<sock, grace, conn>>
  /\ Answered(s)
  /\ UNCHANGED <<memberVars, callVars, parts, callOf, deviceOf, removal, kept, losses>>

-----------------------------------------------------------------------------
(* remove                                                                  *)

\* One removal of a kind for a participant: a second would find it gone.
Ask(p, k) == removal' = [removal EXCEPT ![p][k] = IF @ = "no" THEN "waiting" ELSE @]

\* call.leave: the device is done at once, the removal is spawned.
Leave(s) ==
  LET p == holds[DeviceOf[s]] IN
  /\ sock[s] = "open" /\ pc[s] = "idle" /\ p # 0 /\ conn[p] = s
  /\ holds' = [holds EXCEPT ![DeviceOf[s]] = 0]
  /\ IF Live(p) THEN Ask(p, "asked") ELSE UNCHANGED removal
  /\ UNCHANGED <<memberVars, sock, pc, target, callVars, partVars, lock, kept, losses>>

\* _grace_expiry
GraceEnds(p) ==
  /\ p \in grace /\ grace' = grace \ {p}
  /\ Ask(p, "grace")
  /\ UNCHANGED <<memberVars, socketVars, callVars, parts, callOf, deviceOf, conn, lock, kept, losses>>

Step(p, k, l) == removal' = [removal EXCEPT ![p][k] = l]

\* Mutant of Resumed: a resume isn't looked for.
ResumedUnseen(p, k) == k = "grace" /\ conn[p] # conn[p]

\* Resumed since the timer fired.
Resumed(p, k) == k = "grace" /\ conn[p] # Nobody

RemoveWaits(p, k) ==
  /\ removal[p][k] = "waiting" /\ Waits(Removal(p, k))
  /\ UNCHANGED <<memberVars, socketVars, callVars, partVars, removal, kept, losses>>

RemoveNothing(p, k) ==
  /\ removal[p][k] = "waiting" /\ PassesWith(Removal(p, k))
  /\ Resumed(p, k) \/ p \notin roster[callOf[p]]
  /\ Step(p, k, "no")
  /\ UNCHANGED <<memberVars, socketVars, callVars, partVars, kept, losses>>

RemoveFromRoster(p, k) ==
  LET c == callOf[p] IN
  /\ removal[p][k] = "waiting" /\ Takes(Removal(p, k))
  /\ ~Resumed(p, k) /\ p \in roster[c]
  /\ roster' = [roster EXCEPT ![c] = @ \ {p}] /\ grace' = grace \ {p}
  /\ Step(p, k, "closing")
  /\ UNCHANGED <<memberVars, socketVars, byChannel, byId, calls, parts, callOf, deviceOf, conn, kept, losses>>

\* Its session goes, and the call if it was the last.
EndRemoval(p, k) ==
  LET c == callOf[p] IN
  /\ removal[p][k] = "closing"
  /\ IF roster[c] = {} THEN DestroyCall(c, PartSession(p)) ELSE KeepCall(PartSession(p))
  /\ Step(p, k, "no") /\ Release
  /\ UNCHANGED <<memberVars, socketVars, calls, roster, partVars, losses>>

-----------------------------------------------------------------------------
(* What ends a call from outside.                                          *)

\* remove_member, or delete_channel for everybody: the database first, then a
\* task for the call.
LoseMembership(D) ==
  /\ D \subseteq member /\ member' = member \ D /\ revoked' = revoked \cup {D}
  /\ UNCHANGED <<socketVars, callVars, partVars, removal, lock, kept, losses>>

\* end_for_user, end_channel: the call's participants as they are now, each told
\* and removed.
EndFor(D) ==
  LET out == {p \in Parts : byChannel # 0 /\ p \in roster[byChannel] /\ deviceOf[p] \in D} IN
  /\ D \in revoked /\ revoked' = revoked \ {D}
  /\ ToldEnded(out)
  /\ removal' = [p \in Parts |-> IF p \in out /\ removal[p]["asked"] = "no"
                                 THEN [removal[p] EXCEPT !["asked"] = "waiting"] ELSE removal[p]]
  /\ UNCHANGED <<member, sock, pc, target, callVars, partVars, lock, kept, losses>>

\* _on_janus_lost, after every request that waits for the SFU has failed.
JanusLost ==
  /\ losses < MaxLosses /\ losses' = losses + 1
  /\ byChannel' = 0 /\ byId' = {} /\ kept' = {}
  /\ grace' = grace \ {p \in Parts : Live(p)} /\ ToldEnded({p \in Parts : Live(p)})
  /\ pc' = [s \in Sockets |-> CASE pc[s] = "room" -> "refused"
                                [] pc[s] = "feed" -> "undo"
                                [] OTHER          -> pc[s]]
  /\ UNCHANGED <<memberVars, sock, target, calls, roster, parts, callOf, deviceOf, conn, removal, lock>>

-----------------------------------------------------------------------------
RunCommand(s) ==
  \/ WaitForLock(s) \/ JoinCall(s) \/ CantJoin(s) \/ CreateCall(s) \/ RoomMade(s)
  \/ NoRoom(s) \/ Joined(s) \/ NotJoined(s)
  \/ Resume(s)

Remove(p, k) ==
  RemoveWaits(p, k) \/ RemoveNothing(p, k) \/ RemoveFromRoster(p, k) \/ EndRemoval(p, k)

Next ==
  \/ \E s \in Sockets :
       \/ Disconnect(s) \/ CheckMember(s) \/ AskResume(s) \/ NoResume(s) \/ Leave(s)
       \/ RunCommand(s)
  \/ \E p \in Parts : GraceEnds(p) \/ \E k \in Kinds : Remove(p, k)
  \/ \E D \in Revocations : LoseMembership(D) \/ EndFor(D)
  \/ JanusLost

\* Tasks run, and the SFU's requests are answered or time out (REQUEST_TIMEOUT_S).
Fairness ==
  /\ \A s \in Sockets : WF_vars(RunCommand(s))
  /\ \A p \in Parts : WF_vars(GraceEnds(p))
  /\ \A p \in Parts, k \in Kinds : WF_vars(Remove(p, k))
  /\ \A D \in Revocations : WF_vars(EndFor(D))

Spec == Init /\ [][Next]_vars /\ Fairness

-----------------------------------------------------------------------------
(* Properties.                                                             *)

Removing(p) == \E k \in Kinds : removal[p][k] # "no"

\* Nobody is left in a call they can neither use nor time out of: a participant
\* of a live call has an open socket, or a grace timer that runs, or a removal on
\* its way (on_disconnect, resume and _grace_expiry, whatever waits for the lock).
NoGhost ==
  \A p \in Parts : Live(p) =>
    \/ conn[p] # Nobody /\ sock[conn[p]] # "closed"
    \/ p \in grace
    \/ Removing(p)

\* Nothing is kept alive at the SFU that nobody will end: a call's session is of a
\* call that can still be found or is being ended, a participant's of one in the
\* call or being removed, and one being made is of a join that is making it.
SessionsOwned ==
  /\ \A c \in Calls : CallSession(c) \in kept => c \in byId
  /\ \A p \in Parts : PartSession(p) \in kept => Live(p) \/ Removing(p)
  /\ \A s \in Sockets : NewCallSession(s) \in kept => pc[s] = "room"
  /\ \A s \in Sockets : NewPartSession(s) \in kept => pc[s] = "feed"

\* A call without participants is being joined by who made it, or is being ended,
\* by whoever has the lock: the next join never finds one abandoned.
EmptyCallEnds ==
  \A c \in byId : roster[c] = {} =>
    \/ \E s \in Sockets : pc[s] \in {"feed", "undo"} /\ target[s] = c /\ HasLock(Command(s))
    \/ \E p \in Parts, k \in Kinds :
         callOf[p] = c /\ removal[p][k] = "closing" /\ HasLock(Removal(p, k))

RosterInv == TypeOK /\ NoGhost /\ SessionsOwned /\ EmptyCallEnds

\* Who was resumed while the removal by grace waited for the lock stays: grace
\* removes nobody that has a socket.
ResumedStays ==
  [][\A p \in Parts : Live(p) /\ conn[p] # Nobody /\ p \notin roster'[callOf[p]]
       => removal[p]["asked"] # "no"]_vars

\* Whoever lost their socket is resumed or out of the call in the end, and the
\* lock never stays with a task that waits for another.
DetachedEnds ==
  \A p \in Parts : (Live(p) /\ conn[p] = Nobody) ~> (~Live(p) \/ conn[p] # Nobody)

\* "One call per channel" (calls.py:6): a call that can be found by its id is the
\* one that joins of its channel find.
OneCallPerChannel == \A c \in byId : byChannel = c

\* Losing membership ends the call explicitly (calls.py:212): once that has run,
\* no participant of a live call is without membership.
StrangersOut ==
  \A p \in Parts :
    Live(p) /\ deviceOf[p] \notin member => Removing(p) \/ revoked # {}
=============================================================================
