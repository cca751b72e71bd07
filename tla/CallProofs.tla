------------------------------ MODULE CallProofs ------------------------------
(***************************************************************************)
(* The proofs about CallRoster: nobody stays in a call whom nothing will   *)
(* remove, nothing is kept alive at the SFU that nobody will end, a call   *)
(* without participants is being ended, and grace removes nobody who came  *)
(* back.                                                                   *)
(*                                                                         *)
(* The argument: whoever changes a call's roster has the channel's lock    *)
(* (LockInv), so a call without participants is the business of one task,  *)
(* and a task that gets the lock finds none; participants and calls are    *)
(* numbered in the order they were made (RostersAre), so a new one was     *)
(* never in a roster; and a participant of a live call with a socket has   *)
(* one the api has not seen close (Connected), since a socket's end and a  *)
(* resume of the same participant are steps of one process.                *)
(*                                                                         *)
(* And about CallMedia: the offer that is due to a participant is the one  *)
(* the SFU waits for an answer to.  What carries it: the lock's holder     *)
(* works while nothing is due (LockIsIdle), and an offer the SFU made by   *)
(* itself is of the handle in use, and the only one out (NoticesFit).      *)
(***************************************************************************)
EXTENDS CallRoster, CallMedia, TLAPS

\* The lock is held by a join at the SFU and by a removal that closes.
AtSfu == {"room", "refused", "feed", "undo"}
LockInv ==
  /\ \A s \in Sockets : pc[s] \in AtSfu => HasLock(Command(s))
  /\ \A p \in Parts, k \in Kinds : removal[p][k] = "closing" => HasLock(Removal(p, k))

RostersAre ==
  /\ \A c \in Calls : \A p \in roster[c] : p <= parts /\ callOf[p] = c /\ c <= calls
  /\ \A p \in Parts : p <= parts => callOf[p] \in 1..calls
  /\ byId \subseteq 1..calls /\ (byChannel # 0 => byChannel \in byId)

\* What a join works on, and what a removal is of.
TargetsAre ==
  /\ \A s \in Sockets : pc[s] \in {"feed", "undo"} => target[s] \in 1..calls
  /\ \A s \in Sockets : pc[s] = "feed" => target[s] \in byId
  /\ \A p \in Parts : p \in grace \/ Removing(p) => p <= parts
  /\ \A p \in Parts, k \in Kinds : removal[p][k] = "closing" => p \notin roster[callOf[p]]
  /\ \A s \in Sockets : pc[s] = "resume" => target[s] \in 1..parts
  /\ \A d \in Devices : holds[d] <= parts

Connected ==
  /\ \A s \in Sockets : pc[s] # "idle" => sock[s] # "closed"
  /\ \A p \in Parts : Live(p) /\ conn[p] # Nobody => sock[conn[p]] # "closed"

KeptInv ==
  /\ \A c \in Calls : CallSession(c) \in kept => c \in byId
  /\ \A p \in Parts : PartSession(p) \in kept => Live(p) \/ \E k \in Kinds : removal[p][k] = "closing"
  /\ \A s \in Sockets : NewCallSession(s) \in kept => pc[s] = "room"
  /\ \A s \in Sockets : NewPartSession(s) \in kept => pc[s] = "feed"

IInv == TypeOK /\ LockInv /\ RostersAre /\ TargetsAre /\ Connected /\ NoGhost /\ KeptInv /\ EmptyCallEnds

-----------------------------------------------------------------------------
(* Tasks, sessions and the lock.                                           *)

\* Tasks are told apart.
LEMMA TasksDiffer ==
  /\ \A s, r : Command(s) = Command(r) => s = r
  /\ \A p, q, k, j : Removal(p, k) = Removal(q, j) => p = q /\ k = j
  /\ \A s, p, k : Command(s) # Removal(p, k)
  BY DEF Command, Removal

\* The SFU's sessions are told apart.
LEMMA SessionsDiffer ==
  /\ \A c, d : CallSession(c) = CallSession(d) => c = d
  /\ \A p, q : PartSession(p) = PartSession(q) => p = q
  /\ \A s, r : NewCallSession(s) = NewCallSession(r) => s = r
  /\ \A s, r : NewPartSession(s) = NewPartSession(r) => s = r
  /\ \A x, y : /\ CallSession(x) # PartSession(y) /\ CallSession(x) # NewCallSession(y)
               /\ CallSession(x) # NewPartSession(y) /\ PartSession(x) # NewCallSession(y)
               /\ PartSession(x) # NewPartSession(y) /\ NewCallSession(x) # NewPartSession(y)
  BY DEF CallSession, PartSession, NewCallSession, NewPartSession

\* What is a session.
LEMMA SessionsAre ==
  /\ \A c \in Calls : CallSession(c) \in Sessions
  /\ \A p \in Parts : PartSession(p) \in Sessions
  /\ \A s \in Sockets : NewCallSession(s) \in Sessions /\ NewPartSession(s) \in Sessions
  BY DEF Sessions

\* What is a task.
LEMMA TasksAre ==
  /\ \A s \in Sockets : Command(s) \in Tasks
  /\ \A p \in Parts, k \in Kinds : Removal(p, k) \in Tasks
  BY DEF Tasks

\* The lock in the next state.
HadLock(t) == lock' # <<>> /\ Head(lock') = t

\* Whoever takes the lock is the only one to have it.
LEMMA Taking ==
  ASSUME lock \in Seq(Tasks), NEW t \in Tasks, Takes(t)
  PROVE  /\ lock' \in Seq(Tasks) /\ HadLock(t)
         /\ \A u : HasLock(u) => u = t
         /\ \A u : HadLock(u) => u = t
  <1>1. CASE lock = <<>> /\ lock' = <<t>>
    <2>1. lock' \in Seq(Tasks) /\ lock' # <<>> /\ Head(lock') = t
      BY <1>1
    <2> QED
      BY <1>1, <2>1 DEF HasLock, HadLock
  <1>2. CASE HasLock(t) /\ UNCHANGED lock
    BY <1>2 DEF HasLock, HadLock
  <1> QED
    BY <1>1, <1>2 DEF Takes

\* Who passes had the lock, or nobody had.
LEMMA Passing ==
  ASSUME lock \in Seq(Tasks), NEW t \in Tasks, PassesWith(t)
  PROVE  /\ lock' \in Seq(Tasks)
         /\ \A u : HasLock(u) => u = t
  BY DEF PassesWith, HasLock, Release

\* Who releases the lock had it alone.
LEMMA Releasing ==
  ASSUME lock \in Seq(Tasks), NEW t \in Tasks, HasLock(t), Release
  PROVE  /\ lock' \in Seq(Tasks)
         /\ \A u : HasLock(u) => u = t
  BY DEF HasLock, Release

\* Who waits takes the lock from nobody.
LEMMA Waiting ==
  ASSUME lock \in Seq(Tasks), NEW t \in Tasks, Waits(t)
  PROVE  /\ lock' \in Seq(Tasks)
         /\ \A u : HasLock(u) => HadLock(u)
  BY DEF HasLock, HadLock, Waits

-----------------------------------------------------------------------------
(* Types.                                                                  *)

\* The constants.
LEMMA Bounds ==
  /\ MaxCalls \in Nat /\ MaxParts \in Nat /\ MaxLosses \in Nat /\ MaxInCall \in Nat
  /\ Revocations \subseteq SUBSET Devices /\ DeviceOf \in [Sockets -> Devices] /\ Nobody \notin Sockets
  /\ Devices # {}
  BY BoundsAssumption, SocketsAssumption

\* What a step writes, in the types' terms.
Places == {"idle", "checked", "room", "refused", "feed", "undo", "resume"}

\* A command's next place.
LEMMA GotoIs ==
  ASSUME pc \in [Sockets -> Places], NEW s \in Sockets, NEW l \in Places, Goto(s, l)
  PROVE  /\ pc' \in [Sockets -> Places] /\ pc'[s] = l
         /\ \A r \in Sockets : r # s => pc'[r] = pc[r]
  BY DEF Goto

\* A command's target.
LEMMA AimIs ==
  ASSUME target \in [Sockets -> Nat], NEW s \in Sockets, NEW x \in Nat, Aim(s, x)
  PROVE  /\ target' \in [Sockets -> Nat] /\ target'[s] = x
         /\ \A r \in Sockets : r # s => target'[r] = target[r]
  BY DEF Aim

\* Who is told, or is not: a socket dies at most.
LEMMA ToldIs ==
  ASSUME holds \in [Devices -> 0..MaxParts], sock \in [Sockets -> {"open", "dead", "closed"}],
         NEW s \in Sockets, NEW p \in 0..MaxParts, ToldJoined(s, p)
  PROVE  /\ holds' \in [Devices -> 0..MaxParts] /\ sock' \in [Sockets -> {"open", "dead", "closed"}]
         /\ \A r \in Sockets : sock'[r] = sock[r] \/ sock'[r] = "dead"
         /\ \A d \in Devices : holds'[d] \in {holds[d], p}
  <1>1. DeviceOf[s] \in Devices
    BY Bounds
  <1> QED
    BY <1>1 DEF ToldJoined

\* Who is told that a call ended is in none.
LEMMA ToldEndedIs ==
  ASSUME holds \in [Devices -> 0..MaxParts], NEW P, ToldEnded(P)
  PROVE  /\ holds' \in [Devices -> 0..MaxParts] /\ \A d \in Devices : holds'[d] \in {holds[d], 0}
  BY Bounds DEF ToldEnded

Removals == [Parts -> [Kinds -> {"no", "waiting", "closing"}]]

\* One removal goes on.
LEMMA StepIs ==
  ASSUME removal \in Removals, NEW p \in Parts, NEW k \in Kinds, NEW l \in {"no", "waiting", "closing"},
         Step(p, k, l)
  PROVE  /\ removal' \in Removals /\ removal'[p][k] = l
         /\ \A q \in Parts, j \in Kinds : q # p \/ j # k => removal'[q][j] = removal[q][j]
  <1>1. removal[p] \in [Kinds -> {"no", "waiting", "closing"}]
    BY DEF Removals
  <1> DEFINE its == [removal[p] EXCEPT ![k] = l]
  <1>2. its \in [Kinds -> {"no", "waiting", "closing"}] /\ its[k] = l /\ \A j \in Kinds : j # k => its[j] = removal[p][j]
    BY <1>1
  <1>3. removal' = [removal EXCEPT ![p] = its]
    BY DEF Step
  <1> HIDE DEF its
  <1> QED
    BY <1>2, <1>3 DEF Removals

\* One removal is asked for, if it is not already.
LEMMA AskIs ==
  ASSUME removal \in Removals, NEW p \in Parts, NEW k \in Kinds, Ask(p, k)
  PROVE  /\ removal' \in Removals /\ removal'[p][k] # "no"
         /\ removal'[p][k] = "closing" => removal[p][k] = "closing"
         /\ removal[p][k] = "closing" => removal'[p][k] = "closing"
         /\ \A q \in Parts, j \in Kinds : q # p \/ j # k => removal'[q][j] = removal[q][j]
  <1>1. removal[p] \in [Kinds -> {"no", "waiting", "closing"}]
    BY DEF Removals
  <1> DEFINE l == IF removal[p][k] = "no" THEN "waiting" ELSE removal[p][k]
             its == [removal[p] EXCEPT ![k] = l]
  <1>2. l \in {"no", "waiting", "closing"} /\ l # "no" /\ (l = "closing" <=> removal[p][k] = "closing")
    BY <1>1
  <1>3. removal' = [removal EXCEPT ![p] = its]
    BY DEF Ask
  <1> HIDE DEF l
  <1>4. its \in [Kinds -> {"no", "waiting", "closing"}] /\ its[k] = l /\ \A j \in Kinds : j # k => its[j] = removal[p][j]
    BY <1>1, <1>2
  <1> HIDE DEF its
  <1> QED
    BY <1>2, <1>3, <1>4 DEF Removals

-----------------------------------------------------------------------------
(* Steps that leave the calls and who is in them alone.                    *)

CallsStill == UNCHANGED <<byChannel, byId, calls, roster, parts, callOf>>

\* The types, in the terms of the lemmas.
LEMMA TypesAre ==
  TypeOK <=>
    /\ member \in SUBSET Devices /\ revoked \in SUBSET Revocations
    /\ sock \in [Sockets -> {"open", "dead", "closed"}] /\ pc \in [Sockets -> Places]
    /\ target \in [Sockets -> Nat] /\ holds \in [Devices -> 0..MaxParts]
    /\ byChannel \in 0..MaxCalls /\ byId \in SUBSET Calls /\ calls \in 0..MaxCalls
    /\ roster \in [Calls -> SUBSET Parts]
    /\ parts \in 0..MaxParts /\ callOf \in [Parts -> 0..MaxCalls] /\ deviceOf \in [Parts -> Devices]
    /\ conn \in [Parts -> Sockets \cup {Nobody}] /\ grace \in SUBSET Parts
    /\ removal \in Removals
    /\ lock \in Seq(Tasks) /\ kept \in SUBSET Sessions /\ losses \in 0..MaxLosses
  BY DEF TypeOK, Places, Removals

\* The types of the next state.
LEMMA TypesFollow ==
  ASSUME member' \in SUBSET Devices, revoked' \in SUBSET Revocations,
         sock' \in [Sockets -> {"open", "dead", "closed"}], pc' \in [Sockets -> Places],
         target' \in [Sockets -> Nat], holds' \in [Devices -> 0..MaxParts],
         byChannel' \in 0..MaxCalls, byId' \in SUBSET Calls, calls' \in 0..MaxCalls,
         roster' \in [Calls -> SUBSET Parts],
         parts' \in 0..MaxParts, callOf' \in [Parts -> 0..MaxCalls], deviceOf' \in [Parts -> Devices],
         conn' \in [Parts -> Sockets \cup {Nobody}], grace' \in SUBSET Parts,
         removal' \in Removals,
         lock' \in Seq(Tasks), kept' \in SUBSET Sessions, losses' \in 0..MaxLosses
  PROVE  TypeOK'
  BY DEF TypeOK, Places, Removals

\* The calls and participants are who they were, and so is who is live.
LEMMA RostersStay ==
  ASSUME RostersAre, CallsStill
  PROVE  RostersAre' /\ \A p : Live(p)' <=> Live(p)
  BY DEF RostersAre, CallsStill, Live

\* A task that has the lock works on no empty call, unless it is the one that empties it.
LEMMA NoneEmpty ==
  ASSUME EmptyCallEnds, NEW t, \A u : HasLock(u) => u = t,
         \A s \in Sockets : pc[s] \in {"feed", "undo"} => Command(s) # t,
         \A p \in Parts, k \in Kinds : removal[p][k] = "closing" => Removal(p, k) # t
  PROVE  \A c \in byId : roster[c] # {}
  BY DEF EmptyCallEnds

\* No call is empty and none becomes so.
LEMMA NoneEmptied ==
  ASSUME \A c \in byId : roster[c] # {}, byId' \subseteq byId, roster' = roster
  PROVE  EmptyCallEnds'
  BY DEF EmptyCallEnds

\* Whoever has the lock is alone at the SFU.
LEMMA Alone ==
  ASSUME LockInv, NEW t, \A u : HasLock(u) => u = t
  PROVE  /\ \A s \in Sockets : pc[s] \in AtSfu => Command(s) = t
         /\ \A p \in Parts, k \in Kinds : removal[p][k] = "closing" => Removal(p, k) = t
  BY DEF LockInv

\* What joins, resumes and removals are of, when nothing but their places changes.
LEMMA TargetsStay ==
  ASSUME TargetsAre, CallsStill, UNCHANGED removal, grace' \subseteq grace,
         \A r \in Sockets : pc'[r] \in {"feed", "undo", "resume"} => pc'[r] = pc[r] /\ target'[r] = target[r],
         \A d \in Devices : holds'[d] <= parts
  PROVE  TargetsAre'
  BY DEF TargetsAre, CallsStill, Removing

\* A socket ends: the timer runs for whoever had it.
LEMMA DisconnectKeeps ==
  ASSUME IInv, NEW s \in Sockets, Disconnect(s)
  PROVE  IInv'
  <1>1. TypeOK /\ LockInv /\ RostersAre /\ TargetsAre /\ Connected /\ NoGhost /\ KeptInv /\ EmptyCallEnds
    BY DEF IInv
  <1>2. CallsStill /\ UNCHANGED <<memberVars, pc, target, holds, callVars, deviceOf, removal, lock, kept, losses>>
    BY DEF Disconnect, CallsStill, callVars
  <1>3. RostersAre' /\ \A p : Live(p)' <=> Live(p)
    BY <1>1, <1>2, RostersStay
  <1>4. /\ sock[s] # "closed" /\ pc[s] = "idle" /\ sock' = [sock EXCEPT ![s] = "closed"]
        /\ conn' = [p \in Parts |-> IF Live(p) /\ conn[p] = s THEN Nobody ELSE conn[p]]
        /\ grace' = grace \cup {p \in Parts : Live(p) /\ conn[p] = s}
    BY DEF Disconnect
  <1>5. /\ sock' \in [Sockets -> {"open", "dead", "closed"}] /\ sock'[s] = "closed"
        /\ \A r \in Sockets : r # s => sock'[r] = sock[r]
        /\ conn' \in [Parts -> Sockets \cup {Nobody}] /\ grace' \in SUBSET Parts
    BY <1>1, <1>4 DEF TypeOK
  <1>6. TypeOK'
    BY <1>1, <1>2, <1>5 DEF TypeOK, memberVars, callVars, CallsStill
  <1>7. LockInv'
    BY <1>1, <1>2 DEF LockInv, HasLock
  <1>8. TargetsAre'
    BY <1>1, <1>2, <1>4 DEF TargetsAre, CallsStill, Removing, Live, RostersAre, TypeOK
  <1>9. Connected'
    BY <1>1, <1>2, <1>3, <1>4, <1>5 DEF Connected
  <1>10. NoGhost'
    BY <1>1, <1>2, <1>3, <1>4, <1>5 DEF NoGhost, Removing, TypeOK
  <1>11. KeptInv'
    BY <1>1, <1>2, <1>3 DEF KeptInv, CallsStill
  <1>12. EmptyCallEnds'
    BY <1>1, <1>2 DEF EmptyCallEnds, CallsStill, HasLock
  <1> QED
    BY <1>3, <1>6, <1>7, <1>8, <1>9, <1>10, <1>11, <1>12 DEF IInv

\* What a step keeps of an invariant that names the calls, of a socket that goes elsewhere.
LEMMA CheckMemberKeeps ==
  ASSUME IInv, NEW s \in Sockets, CheckMember(s)
  PROVE  IInv'
  <1>1. TypeOK /\ LockInv /\ RostersAre /\ TargetsAre /\ Connected /\ NoGhost /\ KeptInv /\ EmptyCallEnds
    BY DEF IInv
  <1>2. CallsStill /\ UNCHANGED <<memberVars, sock, target, holds, deviceOf, conn, grace, removal, lock, kept, losses>>
    BY DEF CheckMember, CallsStill, callVars, partVars
  <1>3. RostersAre' /\ \A p : Live(p)' <=> Live(p)
    BY <1>1, <1>2, RostersStay
  <1>4. sock[s] = "open" /\ pc[s] = "idle" /\ Goto(s, "checked")
    BY DEF CheckMember
  <1>5. pc' \in [Sockets -> Places] /\ pc'[s] = "checked" /\ \A r \in Sockets : r # s => pc'[r] = pc[r]
    BY <1>1, <1>4, GotoIs, TypesAre DEF Places
  <1>6. TypeOK'
    BY <1>1, <1>2, <1>5, TypesAre, TypesFollow DEF memberVars, CallsStill
  <1>7. LockInv'
    BY <1>1, <1>2, <1>5 DEF LockInv, HasLock, AtSfu
  <1>8. TargetsAre'
    BY <1>1, <1>2, <1>5 DEF TargetsAre, CallsStill, Removing
  <1>9. Connected'
    BY <1>1, <1>2, <1>3, <1>4, <1>5 DEF Connected
  <1>10. NoGhost'
    BY <1>1, <1>2, <1>3 DEF NoGhost, Removing
  <1>11. KeptInv'
    BY <1>1, <1>2, <1>3, <1>4, <1>5 DEF KeptInv, CallsStill
  <1>12. EmptyCallEnds'
    BY <1>1, <1>2, <1>4, <1>5 DEF EmptyCallEnds, CallsStill, HasLock
  <1> QED
    BY <1>3, <1>6, <1>7, <1>8, <1>9, <1>10, <1>11, <1>12 DEF IInv

\* Who waits for the lock: who has it keeps it.
LEMMA WaitingKeeps ==
  ASSUME IInv, NEW t \in Tasks, Waits(t),
         UNCHANGED <<memberVars, socketVars, callVars, partVars, removal, kept, losses>>
  PROVE  IInv'
  <1>1. TypeOK /\ LockInv /\ RostersAre /\ TargetsAre /\ Connected /\ NoGhost /\ KeptInv /\ EmptyCallEnds
    BY DEF IInv
  <1>2. CallsStill /\ UNCHANGED <<memberVars, sock, pc, target, holds, deviceOf, conn, grace, removal, kept, losses>>
    BY DEF CallsStill, callVars, partVars, socketVars
  <1>3. RostersAre' /\ \A p : Live(p)' <=> Live(p)
    BY <1>1, <1>2, RostersStay
  <1>4. lock' \in Seq(Tasks) /\ \A u : HasLock(u) => HadLock(u)
    BY <1>1, TypesAre, Waiting
  <1>5. \A u : HadLock(u) => HasLock(u)'
    BY DEF HadLock, HasLock
  <1>6. TypeOK'
    BY <1>1, <1>2, <1>4, TypesAre, TypesFollow DEF memberVars, CallsStill
  <1>7. LockInv'
    BY <1>1, <1>2, <1>4, <1>5 DEF LockInv
  <1>8. TargetsAre' /\ Connected' /\ KeptInv'
    BY <1>1, <1>2, <1>3 DEF TargetsAre, CallsStill, Removing, Connected, KeptInv
  <1>9. NoGhost'
    BY <1>1, <1>2, <1>3 DEF NoGhost, Removing
  <1>10. EmptyCallEnds'
    BY <1>1, <1>2, <1>4, <1>5 DEF EmptyCallEnds, CallsStill
  <1> QED
    BY <1>3, <1>6, <1>7, <1>8, <1>9, <1>10 DEF IInv

\* A join that gets the lock: into the call there is, or to make one.
LEMMA JoinBegins ==
  ASSUME IInv, NEW s \in Sockets, JoinCall(s) \/ CreateCall(s)
  PROVE  IInv'
  <1>1. TypeOK /\ LockInv /\ RostersAre /\ TargetsAre /\ Connected /\ NoGhost /\ KeptInv /\ EmptyCallEnds
    BY DEF IInv
  <1>2. CallsStill /\ UNCHANGED <<memberVars, sock, holds, deviceOf, conn, grace, removal, losses>>
    BY DEF JoinCall, CreateCall, CallsStill, callVars, partVars
  <1>3. RostersAre' /\ \A p : Live(p)' <=> Live(p)
    BY <1>1, <1>2, RostersStay
  <1>4. pc[s] = "checked" /\ Takes(Command(s))
    BY DEF JoinCall, CreateCall
  <1>5. /\ lock' \in Seq(Tasks) /\ HadLock(Command(s))
        /\ \A u : HasLock(u) => u = Command(s)
    BY <1>1, <1>4, TypesAre, TasksAre, Taking
  <1>6. HasLock(Command(s))'
    BY <1>5 DEF HadLock, HasLock
  <1>7. /\ \A r \in Sockets : pc[r] \notin AtSfu
        /\ \A p \in Parts, k \in Kinds : removal[p][k] # "closing"
    BY <1>1, <1>4, <1>5, Alone, TasksDiffer DEF AtSfu
  <1>8. \A c \in byId : roster[c] # {}
    BY <1>1, <1>5, <1>7, NoneEmpty DEF AtSfu
  <1>9. /\ pc' \in [Sockets -> Places] /\ \A r \in Sockets : r # s => pc'[r] = pc[r] /\ target'[r] = target[r]
        /\ target' \in [Sockets -> Nat] /\ kept' \in SUBSET Sessions
        /\ \/ pc'[s] = "feed" /\ target'[s] = byChannel /\ byChannel # 0 /\ kept' = kept \cup {NewPartSession(s)}
           \/ pc'[s] = "room" /\ kept' = kept \cup {NewCallSession(s)}
    <2>1. CASE JoinCall(s)
      <3>1. Goto(s, "feed") /\ Aim(s, byChannel) /\ kept' = kept \cup {NewPartSession(s)} /\ byChannel # 0
        BY <2>1 DEF JoinCall, EnterCall
      <3>2. byChannel \in Nat
        BY <1>1, Bounds DEF TypeOK
      <3>3. kept' \in SUBSET Sessions
        BY <1>1, <3>1, SessionsAre DEF TypeOK
      <3>4. pc' \in [Sockets -> Places] /\ pc'[s] = "feed" /\ \A r \in Sockets : r # s => pc'[r] = pc[r]
        BY <1>1, <3>1, TypesAre, GotoIs DEF Places
      <3>5. target' \in [Sockets -> Nat] /\ target'[s] = byChannel
            /\ \A r \in Sockets : r # s => target'[r] = target[r]
        BY <1>1, <3>1, <3>2, TypesAre, AimIs
      <3> QED
        BY <3>1, <3>3, <3>4, <3>5
    <2>2. CASE CreateCall(s)
      <3>1. Goto(s, "room") /\ UNCHANGED target /\ kept' = kept \cup {NewCallSession(s)}
        BY <2>2 DEF CreateCall
      <3>2. kept' \in SUBSET Sessions
        BY <1>1, <3>1, SessionsAre DEF TypeOK
      <3>3. pc' \in [Sockets -> Places] /\ pc'[s] = "room" /\ \A r \in Sockets : r # s => pc'[r] = pc[r]
        BY <1>1, <3>1, TypesAre, GotoIs DEF Places
      <3> QED
        BY <1>1, <3>1, <3>2, <3>3 DEF TypeOK
    <2> QED
      BY <2>1, <2>2
  <1>10. TypeOK'
    BY <1>1, <1>2, <1>5, <1>9, TypesAre, TypesFollow DEF memberVars, CallsStill
  <1>11. LockInv'
    BY <1>2, <1>6, <1>7, <1>9 DEF LockInv
  <1>12. TargetsAre'
    BY <1>1, <1>2, <1>9 DEF TargetsAre, RostersAre, CallsStill, Removing
  <1>13. Connected'
    BY <1>1, <1>2, <1>3, <1>4, <1>9 DEF Connected
  <1>14. NoGhost'
    BY <1>1, <1>2, <1>3 DEF NoGhost, Removing
  <1>15. KeptInv'
    BY <1>1, <1>2, <1>3, <1>4, <1>9, SessionsDiffer DEF KeptInv, CallsStill
  <1>16. EmptyCallEnds'
    BY <1>2, <1>8, NoneEmptied DEF CallsStill
  <1> QED
    BY <1>3, <1>10, <1>11, <1>12, <1>13, <1>14, <1>15, <1>16 DEF IInv

\* A command that is answered with the lock, or finds it free.
LEMMA AnsweredKeeps ==
  ASSUME IInv, NEW s \in Sockets, CantJoin(s) \/ NoRoom(s) \/ Resume(s)
  PROVE  IInv'
  <1>1. TypeOK /\ LockInv /\ RostersAre /\ TargetsAre /\ Connected /\ NoGhost /\ KeptInv /\ EmptyCallEnds
    BY DEF IInv
  <1>2. CallsStill /\ UNCHANGED <<memberVars, deviceOf, removal, losses>> /\ Answered(s)
        /\ pc[s] \in {"checked", "room", "refused", "resume"}
    BY DEF CantJoin, NoRoom, Resume, CallsStill, callVars, partVars
  <1>3. RostersAre' /\ \A p : Live(p)' <=> Live(p)
    BY <1>1, <1>2, RostersStay
  <1>4. /\ pc' \in [Sockets -> Places] /\ pc'[s] = "idle" /\ \A r \in Sockets : r # s => pc'[r] = pc[r]
        /\ target' \in [Sockets -> Nat] /\ \A r \in Sockets : r # s => target'[r] = target[r]
    BY <1>1, <1>2, TypesAre, GotoIs, AimIs DEF Answered, Places
  <1>5. lock' \in Seq(Tasks) /\ \A u : HasLock(u) => u = Command(s)
    <2>1. CASE NoRoom(s)
      <3>1. HasLock(Command(s)) /\ Release
        BY <1>1, <2>1 DEF NoRoom, LockInv, AtSfu
      <3> QED
        BY <1>1, <3>1, TypesAre, TasksAre, Releasing
    <2>2. CASE CantJoin(s) \/ Resume(s)
      <3>1. PassesWith(Command(s))
        BY <2>2 DEF CantJoin, Resume
      <3> QED
        BY <1>1, <3>1, TypesAre, TasksAre, Passing
    <2> QED
      BY <2>1, <2>2
  <1>6. /\ \A r \in Sockets : r # s => pc[r] \notin AtSfu
        /\ \A p \in Parts, k \in Kinds : removal[p][k] # "closing"
    BY <1>1, <1>5, Alone, TasksDiffer
  <1>7. \A c \in byId : roster[c] # {}
    BY <1>1, <1>2, <1>5, <1>6, NoneEmpty DEF AtSfu
  <1>8. LockInv'
    BY <1>2, <1>4, <1>6 DEF LockInv, AtSfu
  <1>9. EmptyCallEnds'
    BY <1>2, <1>7, NoneEmptied DEF CallsStill
  <1>10. CASE CantJoin(s) \/ NoRoom(s)
    <2>1. UNCHANGED <<sock, holds, conn, grace>> /\ (kept' = kept \/ kept' = kept \ {NewCallSession(s)})
          /\ (pc[s] = "room" => kept' = kept \ {NewCallSession(s)})
      BY <1>10 DEF CantJoin, NoRoom, partVars
    <2>2. TypeOK'
      BY <1>1, <1>2, <1>4, <1>5, <2>1, TypesAre, TypesFollow DEF memberVars, CallsStill
    <2>3. TargetsAre' /\ Connected'
      BY <1>1, <1>2, <1>3, <1>4, <2>1 DEF TargetsAre, Connected, CallsStill, Removing
    <2>4. NoGhost'
      BY <1>1, <1>2, <1>3, <2>1 DEF NoGhost, Removing
    <2>5. KeptInv'
      BY <1>1, <1>2, <1>3, <1>4, <2>1, SessionsDiffer DEF KeptInv, CallsStill
    <2> QED
      BY <1>3, <1>8, <1>9, <2>2, <2>3, <2>4, <2>5 DEF IInv
  <1>11. CASE Resume(s)
    <2> DEFINE p == target[s]
    <2>1. p \in 1..parts /\ p \in Parts /\ pc[s] = "resume" /\ kept' = kept
      <3>1. pc[s] = "resume" /\ kept' = kept
        BY <1>11 DEF Resume
      <3>2. p \in 1..parts /\ parts \in 0..MaxParts
        BY <1>1, <3>1, TypesAre DEF TargetsAre
      <3> HIDE DEF p
      <3>3. p \in Parts
        BY <3>2, Bounds DEF Parts
      <3> QED
        BY <3>1, <3>2, <3>3
    <2>2. sock[s] # "closed"
      BY <1>1, <2>1 DEF Connected
    <2>3. CASE p \in roster[callOf[p]]
      <3>1. grace' = grace \ {p} /\ conn' = [conn EXCEPT ![p] = s] /\ ToldJoined(s, p)
        BY <1>11, <2>3 DEF Resume
      <3>2. /\ holds' \in [Devices -> 0..MaxParts] /\ sock' \in [Sockets -> {"open", "dead", "closed"}]
            /\ \A r \in Sockets : sock'[r] = sock[r] \/ sock'[r] = "dead"
            /\ \A d \in Devices : holds'[d] \in {holds[d], p}
        <4>1. p \in 0..MaxParts
          BY <1>1, <2>1 DEF Parts
        <4> HIDE DEF p
        <4> QED
          BY <1>1, <3>1, <4>1, TypesAre, ToldIs
      <3>3. /\ conn' \in [Parts -> Sockets \cup {Nobody}] /\ conn'[p] = s
            /\ \A q \in Parts : q # p => conn'[q] = conn[q]
        BY <1>1, <2>1, <3>1 DEF TypeOK
      <3> HIDE DEF p
      <3>4. TypeOK'
        BY <1>1, <1>2, <1>4, <1>5, <2>1, <3>1, <3>2, <3>3, TypesAre, TypesFollow DEF memberVars, CallsStill
      <3>5. TargetsAre'
        <4>1. \A d \in Devices : holds'[d] <= parts
          <5>1. \A d \in Devices : holds[d] <= parts
            BY <1>1 DEF TargetsAre
          <5>2. p <= parts
            BY <1>1, <2>1, TypesAre, Bounds
          <5> QED
            BY <3>2, <5>1, <5>2
        <4> QED
          BY <1>1, <1>2, <1>4, <3>1, <4>1, TargetsStay
      <3>6. Connected'
        BY <1>1, <1>2, <1>3, <1>4, <2>2, <3>2, <3>3 DEF Connected
      <3>7. NoGhost'
        BY <1>1, <1>2, <1>3, <2>2, <3>1, <3>2, <3>3, Bounds DEF NoGhost, Removing
      <3>8. KeptInv'
        BY <1>1, <1>2, <1>3, <1>4, <2>1 DEF KeptInv, CallsStill
      <3> QED
        BY <1>3, <1>8, <1>9, <3>4, <3>5, <3>6, <3>7, <3>8 DEF IInv
    <2>4. CASE p \notin roster[callOf[p]]
      <3>1. holds' = [holds EXCEPT ![DeviceOf[s]] = 0] /\ UNCHANGED <<sock, grace, conn>>
        BY <1>11, <2>4 DEF Resume
      <3>2. holds' \in [Devices -> 0..MaxParts] /\ \A d \in Devices : holds'[d] \in {holds[d], 0}
        BY <1>1, <3>1, Bounds DEF TypeOK
      <3>3. TypeOK'
        BY <1>1, <1>2, <1>4, <1>5, <2>1, <3>1, <3>2, TypesAre, TypesFollow DEF memberVars, CallsStill
      <3>4. TargetsAre'
        <4>1. \A d \in Devices : holds'[d] <= parts
          <5>1. \A d \in Devices : holds[d] <= parts
            BY <1>1 DEF TargetsAre
          <5>2. 0 <= parts
            BY <1>1, TypesAre, Bounds
          <5> QED
            BY <3>2, <5>1, <5>2
        <4> QED
          BY <1>1, <1>2, <1>4, <3>1, <4>1, TargetsStay
      <3>5. Connected'
        BY <1>1, <1>2, <1>3, <1>4, <3>1 DEF Connected
      <3>6. NoGhost'
        BY <1>1, <1>2, <1>3, <3>1 DEF NoGhost, Removing
      <3>7. KeptInv'
        BY <1>1, <1>2, <1>3, <1>4, <2>1 DEF KeptInv, CallsStill
      <3> QED
        BY <1>3, <1>8, <1>9, <3>3, <3>4, <3>5, <3>6, <3>7 DEF IInv
    <2> QED
      BY <2>3, <2>4
  <1> QED
    BY <1>10, <1>11

-----------------------------------------------------------------------------
(* Steps that make or end a call, or put somebody in.                      *)

\* The call is made: it is new, and whoever makes it goes in.
LEMMA RoomMadeKeeps ==
  ASSUME IInv, NEW s \in Sockets, RoomMade(s)
  PROVE  IInv'
  <1>1. TypeOK /\ LockInv /\ RostersAre /\ TargetsAre /\ Connected /\ NoGhost /\ KeptInv /\ EmptyCallEnds
    BY DEF IInv
  <1> DEFINE c == calls + 1
  <1>2. /\ pc[s] = "room" /\ calls < MaxCalls /\ calls' = c /\ byChannel' = c /\ byId' = byId \cup {c}
        /\ Goto(s, "feed") /\ Aim(s, c)
        /\ kept' = (kept \ {NewCallSession(s)}) \cup {CallSession(c)} \cup {NewPartSession(s)}
        /\ UNCHANGED <<memberVars, sock, holds, roster, parts, callOf, deviceOf, conn, grace, removal, lock, losses>>
    BY DEF RoomMade, EnterCall, partVars
  <1>3. c \in Calls /\ c \in Nat /\ calls \in Nat /\ c \in 1..c /\ c # 0
    BY <1>1, <1>2, TypesAre, Bounds DEF Calls
  <1> HIDE DEF c
  <1>4. /\ pc' \in [Sockets -> Places] /\ pc'[s] = "feed" /\ \A r \in Sockets : r # s => pc'[r] = pc[r]
        /\ target' \in [Sockets -> Nat] /\ target'[s] = c
        /\ \A r \in Sockets : r # s => target'[r] = target[r]
    BY <1>1, <1>2, <1>3, TypesAre, GotoIs, AimIs DEF Places
  <1>5. HasLock(Command(s)) /\ \A u : HasLock(u) => u = Command(s)
    BY <1>1, <1>2 DEF LockInv, AtSfu, HasLock
  <1>6. /\ \A r \in Sockets : r # s => pc[r] \notin AtSfu
        /\ \A p \in Parts, k \in Kinds : removal[p][k] # "closing"
    BY <1>1, <1>5, Alone, TasksDiffer
  <1>7. \A d \in byId : roster[d] # {}
    BY <1>1, <1>2, <1>5, <1>6, NoneEmpty DEF AtSfu
  <1>8. roster[c] = {} /\ c \notin byId /\ c = calls + 1 /\ \A x \in 1..calls : x \in 1..c
    BY <1>1, <1>3, TypesAre DEF RostersAre, c
  <1>9. \A p \in Parts : p <= parts => callOf[p] \in 1..c
    BY <1>1, <1>8 DEF RostersAre
  <1>10. \A p \in Parts : Live(p)' <=> Live(p)
    BY <1>2, <1>8 DEF Live
  <1>11. TypeOK'
    <2>1. kept' \in SUBSET Sessions
      BY <1>1, <1>2, <1>3, SessionsAre, TypesAre
    <2>2. byId' \in SUBSET Calls /\ byChannel' \in 0..MaxCalls /\ calls' \in 0..MaxCalls
      BY <1>1, <1>2, <1>3, TypesAre, Bounds DEF Calls
    <2> QED
      BY <1>1, <1>2, <1>4, <2>1, <2>2, TypesAre, TypesFollow DEF memberVars
  <1>12. LockInv'
    BY <1>1, <1>2, <1>4 DEF LockInv, HasLock, AtSfu
  <1>13. RostersAre'
    <2>1. \A d \in Calls : \A p \in roster[d] : p <= parts /\ callOf[p] = d /\ d <= c
      BY <1>1, <1>3, <1>8 DEF RostersAre, Calls
    <2>2. byId' \subseteq 1..calls' /\ byChannel' \in byId'
      BY <1>1, <1>2, <1>3, <1>8 DEF RostersAre
    <2> QED
      BY <1>2, <1>9, <2>1, <2>2 DEF RostersAre
  <1>14. TargetsAre'
    <2>1. /\ \A r \in Sockets : pc'[r] \in {"feed", "undo"} => r = s
          /\ target'[s] \in 1..calls' /\ target'[s] \in byId'
      BY <1>2, <1>3, <1>4, <1>6 DEF AtSfu
    <2>2. \A r \in Sockets : pc'[r] = "resume" => target'[r] \in 1..parts
      BY <1>1, <1>4 DEF TargetsAre
    <2> QED
      BY <1>1, <1>2, <2>1, <2>2 DEF TargetsAre, Removing
  <1>15. Connected'
    BY <1>1, <1>2, <1>4, <1>10 DEF Connected
  <1>16. NoGhost'
    BY <1>1, <1>2, <1>10 DEF NoGhost, Removing
  <1>17. KeptInv'
    BY <1>1, <1>2, <1>4, <1>10, SessionsDiffer DEF KeptInv
  <1>18. EmptyCallEnds'
    <2>1. \A d \in byId' : roster'[d] = {} => d = c
      BY <1>2, <1>7
    <2>2. HasLock(Command(s))'
      BY <1>2, <1>5 DEF HasLock
    <2> QED
      BY <1>4, <2>1, <2>2 DEF EmptyCallEnds
  <1> QED
    BY <1>11, <1>12, <1>13, <1>14, <1>15, <1>16, <1>17, <1>18 DEF IInv

\* Somebody is in: a new participant, with a socket, in a call that is there.
LEMMA JoinedKeeps ==
  ASSUME IInv, NEW s \in Sockets, Joined(s)
  PROVE  IInv'
  <1>1. TypeOK /\ LockInv /\ RostersAre /\ TargetsAre /\ Connected /\ NoGhost /\ KeptInv /\ EmptyCallEnds
    BY DEF IInv
  <1> DEFINE p == parts + 1
             c == target[s]
  <1>2. /\ pc[s] = "feed" /\ parts < MaxParts /\ parts' = p /\ callOf' = [callOf EXCEPT ![p] = c]
        /\ deviceOf' = [deviceOf EXCEPT ![p] = DeviceOf[s]] /\ conn' = [conn EXCEPT ![p] = s]
        /\ roster' = [roster EXCEPT ![c] = roster[c] \cup {p}]
        /\ kept' = (kept \ {NewPartSession(s)}) \cup {PartSession(p)}
        /\ ToldJoined(s, p) /\ Answered(s) /\ Release
        /\ UNCHANGED <<memberVars, byChannel, byId, calls, grace, removal, losses>>
    BY DEF Joined
  <1>3. p \in Parts /\ p \in Nat /\ parts \in Nat /\ p > parts /\ p \in 0..MaxParts
    BY <1>1, <1>2, TypesAre, Bounds DEF Parts
  <1>4. c \in 1..calls /\ c \in byId /\ c \in Calls /\ c \in 0..MaxCalls
    BY <1>1, <1>2, TypesAre, Bounds DEF TargetsAre, Calls
  <1>5. \A q \in Parts : q # p /\ q <= p => q <= parts
    BY <1>3 DEF Parts
  <1> HIDE DEF p, c
  <1>6. /\ pc' \in [Sockets -> Places] /\ pc'[s] = "idle" /\ \A r \in Sockets : r # s => pc'[r] = pc[r]
        /\ target' \in [Sockets -> Nat] /\ \A r \in Sockets : r # s => target'[r] = target[r]
    BY <1>1, <1>2, TypesAre, GotoIs, AimIs DEF Answered, Places
  <1>7. /\ holds' \in [Devices -> 0..MaxParts] /\ sock' \in [Sockets -> {"open", "dead", "closed"}]
        /\ \A r \in Sockets : sock'[r] = sock[r] \/ sock'[r] = "dead"
        /\ \A d \in Devices : holds'[d] \in {holds[d], p}
    BY <1>1, <1>2, <1>3, TypesAre, ToldIs
  <1>8. lock' \in Seq(Tasks) /\ \A u : HasLock(u) => u = Command(s)
    <2>1. HasLock(Command(s))
      BY <1>1, <1>2 DEF LockInv, AtSfu
    <2> QED
      BY <1>1, <1>2, <2>1, TypesAre, TasksAre, Releasing
  <1>9. /\ \A r \in Sockets : r # s => pc[r] \notin AtSfu
        /\ \A q \in Parts, k \in Kinds : removal[q][k] # "closing"
    <2>1. \A u : HasLock(u) => u = Command(s)
      BY <1>8
    <2>2. /\ \A r \in Sockets : pc[r] \in AtSfu => Command(r) = Command(s)
          /\ \A q \in Parts, k \in Kinds : removal[q][k] = "closing" => Removal(q, k) = Command(s)
      BY <1>1, <2>1, Alone
    <2> QED
      BY <2>2, TasksDiffer
  <1>10. /\ callOf' \in [Parts -> 0..MaxCalls] /\ callOf'[p] = c
         /\ \A q \in Parts : q # p => callOf'[q] = callOf[q] /\ conn'[q] = conn[q]
         /\ conn' \in [Parts -> Sockets \cup {Nobody}] /\ conn'[p] = s
         /\ deviceOf' \in [Parts -> Devices]
         /\ roster' \in [Calls -> SUBSET Parts] /\ roster'[c] = roster[c] \cup {p}
         /\ \A d \in Calls : d # c => roster'[d] = roster[d]
    BY <1>1, <1>2, <1>3, <1>4, Bounds, TypesAre
  <1>11. \A d \in Calls : p \notin roster[d]
    BY <1>1, <1>3 DEF RostersAre
  <1>12. \A q \in Parts : q # p => (Live(q)' <=> Live(q))
    <2>1. byId \subseteq Calls
      BY <1>1, TypesAre
    <2> QED
      BY <1>2, <1>10, <2>1 DEF Live
  <1>13. TypeOK'
    <2>1. kept' \in SUBSET Sessions
      BY <1>1, <1>2, <1>3, SessionsAre, TypesAre
    <2> QED
      BY <1>1, <1>2, <1>3, <1>6, <1>7, <1>8, <1>10, <2>1, TypesAre, TypesFollow DEF memberVars
  <1>14. LockInv'
    BY <1>2, <1>6, <1>9 DEF LockInv, AtSfu
  <1>15. RostersAre'
    <2>1. \A d \in Calls : \A q \in roster'[d] : q <= parts' /\ callOf'[q] = d /\ d <= calls'
      <3> SUFFICES ASSUME NEW d \in Calls, NEW q \in roster'[d]
                   PROVE  q <= parts' /\ callOf'[q] = d /\ d <= calls'
        OBVIOUS
      <3>1. CASE q = p
        <4>1. d = c
          BY <1>10, <1>11, <3>1
        <4> QED
          BY <1>2, <1>3, <1>4, <1>10, <3>1, <4>1
      <3>2. CASE q # p
        <4>1. q \in roster[d] /\ q \in Parts
          <5>1. CASE d = c
            BY <1>1, <1>10, <3>2, <5>1, TypesAre
          <5>2. CASE d # c
            BY <1>1, <1>10, <5>2, TypesAre
          <5> QED
            BY <5>1, <5>2
        <4>2. q <= parts /\ callOf[q] = d /\ d <= calls
          BY <1>1, <4>1 DEF RostersAre
        <4>3. q <= p
          BY <1>3, <4>1, <4>2 DEF Parts
        <4> QED
          BY <1>2, <1>10, <3>2, <4>1, <4>2, <4>3
      <3> QED
        BY <3>1, <3>2
    <2>2. \A q \in Parts : q <= parts' => callOf'[q] \in 1..calls'
      BY <1>1, <1>2, <1>4, <1>5, <1>10 DEF RostersAre
    <2> QED
      BY <1>1, <1>2, <2>1, <2>2 DEF RostersAre
  <1>16. TargetsAre'
    <2>1. \A q \in Int : q <= parts => q <= p
      BY <1>3
    <2>2. \A d \in Devices : holds'[d] <= p
      <3>1. \A d \in Devices : holds[d] <= parts /\ holds[d] \in Int
        BY <1>1, TypesAre DEF TargetsAre
      <3> QED
        BY <1>3, <1>7, <2>1, <3>1
    <2>3. \A r \in Sockets : pc'[r] = "resume" => target'[r] \in 1..p
      <3>1. \A x \in 1..parts : x \in 1..p
        BY <1>3
      <3> QED
        BY <1>1, <1>6, <3>1 DEF TargetsAre
    <2>4. \A q \in Parts : q \in grace \/ Removing(q) => q <= p
      BY <1>1, <2>1 DEF TargetsAre, Parts
    <2>5. \A r \in Sockets : pc'[r] \notin {"feed", "undo"}
      BY <1>6, <1>9 DEF AtSfu
    <2> QED
      BY <1>2, <1>9, <2>2, <2>3, <2>4, <2>5 DEF TargetsAre, Removing
  <1>17. sock[s] # "closed"
    BY <1>1, <1>2 DEF Connected
  <1>18. Connected'
    BY <1>1, <1>6, <1>7, <1>10, <1>12, <1>17 DEF Connected
  <1>19. NoGhost'
    BY <1>1, <1>2, <1>7, <1>10, <1>12, <1>17, Bounds DEF NoGhost, Removing
  <1>20. KeptInv'
    <2>1. p \in Parts /\ callOf'[p] \in byId' /\ p \in roster'[callOf'[p]]
      BY <1>2, <1>3, <1>4, <1>10
    <2>2. \A q \in Parts : q = p => Live(q)'
      BY <2>1 DEF Live
    <2>3. \A d \in Calls : CallSession(d) \in kept' => d \in byId'
      BY <1>1, <1>2, SessionsDiffer DEF KeptInv
    <2>4. \A q \in Parts : PartSession(q) \in kept' => Live(q)' \/ \E k \in Kinds : removal'[q][k] = "closing"
      <3>1. \A q \in Parts : q # p /\ PartSession(q) \in kept' => PartSession(q) \in kept
        BY <1>2, SessionsDiffer
      <3>2. \A q \in Parts : PartSession(q) \in kept => Live(q)
        BY <1>1, <1>9 DEF KeptInv
      <3> SUFFICES ASSUME NEW q \in Parts, PartSession(q) \in kept' PROVE Live(q)'
        OBVIOUS
      <3> QED
        BY <1>12, <2>2, <3>1, <3>2
    <2>5. /\ \A r \in Sockets : NewCallSession(r) \in kept' => pc'[r] = "room"
          /\ \A r \in Sockets : NewPartSession(r) \in kept' => pc'[r] = "feed"
      <3>1. /\ \A r \in Sockets : NewCallSession(r) \in kept' => NewCallSession(r) \in kept /\ r # s
            /\ \A r \in Sockets : NewPartSession(r) \in kept' => NewPartSession(r) \in kept /\ r # s
        BY <1>1, <1>2, SessionsDiffer DEF KeptInv
      <3> QED
        BY <1>1, <1>6, <3>1 DEF KeptInv
    <2> QED
      BY <2>3, <2>4, <2>5 DEF KeptInv
  <1>21. EmptyCallEnds'
    <2>1. \A d \in byId : d \in Calls /\ (roster[d] = {} => d = c)
      <3>1. \A d \in byId : roster[d] = {} => \E r \in Sockets : pc[r] \in {"feed", "undo"} /\ target[r] = d
        BY <1>1, <1>9 DEF EmptyCallEnds
      <3> QED
        BY <1>1, <1>9, <3>1, TypesAre DEF AtSfu, c
    <2> QED
      BY <1>2, <1>10, <2>1 DEF EmptyCallEnds
  <1> QED
    BY <1>13, <1>14, <1>15, <1>16, <1>18, <1>19, <1>20, <1>21 DEF IInv

\* The steps of a resume before the lock: the call is there, or it is over.
LEMMA ResumeAskedKeeps ==
  ASSUME IInv, NEW s \in Sockets, AskResume(s) \/ NoResume(s)
  PROVE  IInv'
  <1>1. TypeOK /\ LockInv /\ RostersAre /\ TargetsAre /\ Connected /\ NoGhost /\ KeptInv /\ EmptyCallEnds
    BY DEF IInv
  <1>2. /\ CallsStill /\ UNCHANGED <<memberVars, sock, deviceOf, conn, grace, removal, lock, kept, losses>>
        /\ sock[s] = "open" /\ pc[s] = "idle"
    BY DEF AskResume, NoResume, CallsStill, callVars, partVars
  <1>3. RostersAre' /\ \A p : Live(p)' <=> Live(p)
    BY <1>1, <1>2, RostersStay
  <1>4. /\ pc' \in [Sockets -> Places] /\ target' \in [Sockets -> Nat] /\ holds' \in [Devices -> 0..MaxParts]
        /\ \A r \in Sockets : pc'[r] = pc[r] \/ (r = s /\ pc[r] = "idle" /\ pc'[r] = "resume")
        /\ \A r \in Sockets : r # s => target'[r] = target[r]
        /\ \A d \in Devices : holds'[d] \in {holds[d], 0}
        /\ pc'[s] = "resume" => target'[s] \in 1..parts
    <2>1. CASE AskResume(s)
      <3> DEFINE p == holds[DeviceOf[s]]
      <3>1. p # 0 /\ Goto(s, "resume") /\ Aim(s, p) /\ UNCHANGED holds
        BY <2>1 DEF AskResume
      <3>2. p \in Nat /\ p <= parts /\ parts \in Nat
        BY <1>1, Bounds, TypesAre DEF TargetsAre
      <3> HIDE DEF p
      <3>3. pc' \in [Sockets -> Places] /\ pc'[s] = "resume" /\ \A r \in Sockets : r # s => pc'[r] = pc[r]
        BY <1>1, <3>1, TypesAre, GotoIs DEF Places
      <3>4. target' \in [Sockets -> Nat] /\ target'[s] = p /\ \A r \in Sockets : r # s => target'[r] = target[r]
        BY <1>1, <3>1, <3>2, TypesAre, AimIs
      <3>5. p \in 1..parts
        BY <3>1, <3>2
      <3> QED
        BY <1>1, <1>2, <3>1, <3>3, <3>4, <3>5, TypesAre
    <2>2. CASE NoResume(s)
      <3>1. holds' = [holds EXCEPT ![DeviceOf[s]] = 0] /\ UNCHANGED <<pc, target>>
        BY <2>2 DEF NoResume
      <3>2. holds' \in [Devices -> 0..MaxParts] /\ \A d \in Devices : holds'[d] \in {holds[d], 0}
        BY <1>1, <3>1, Bounds DEF TypeOK
      <3> QED
        BY <1>1, <1>2, <3>1, <3>2, TypesAre
    <2> QED
      BY <2>1, <2>2
  <1>5. TypeOK'
    BY <1>1, <1>2, <1>4, TypesAre, TypesFollow DEF memberVars, CallsStill
  <1>6. LockInv'
    BY <1>1, <1>2, <1>4 DEF LockInv, HasLock, AtSfu
  <1>7. TargetsAre'
    <2>1. \A d \in Devices : holds'[d] <= parts
      <3>1. \A d \in Devices : holds[d] <= parts
        BY <1>1 DEF TargetsAre
      <3>2. 0 <= parts
        BY <1>1, TypesAre, Bounds
      <3> QED
        BY <1>4, <3>1, <3>2
    <2>2. \A r \in Sockets : pc'[r] = "resume" => target'[r] \in 1..parts
      BY <1>1, <1>4 DEF TargetsAre
    <2>3. \A r \in Sockets : pc'[r] \in {"feed", "undo"} => pc'[r] = pc[r] /\ target'[r] = target[r]
      BY <1>2, <1>4
    <2> QED
      BY <1>1, <1>2, <2>1, <2>2, <2>3 DEF TargetsAre, CallsStill, Removing
  <1>8. Connected'
    BY <1>1, <1>2, <1>3, <1>4 DEF Connected
  <1>9. NoGhost'
    BY <1>1, <1>2, <1>3 DEF NoGhost, Removing
  <1>10. KeptInv'
    BY <1>1, <1>2, <1>3, <1>4 DEF KeptInv, CallsStill
  <1>11. EmptyCallEnds'
    BY <1>1, <1>2, <1>4 DEF EmptyCallEnds, CallsStill, HasLock
  <1> QED
    BY <1>3, <1>5, <1>6, <1>7, <1>8, <1>9, <1>10, <1>11 DEF IInv

-----------------------------------------------------------------------------
(* Removals: asked for, by who leaves, by grace, by who ends them.         *)

\* More removals are asked for, and none begins to close.
LEMMA AskingKeeps ==
  ASSUME IInv, CallsStill, UNCHANGED <<sock, pc, target, deviceOf, conn, lock, kept, losses, member>>,
         removal' \in Removals, holds' \in [Devices -> 0..MaxParts], grace' \subseteq grace,
         revoked' \in SUBSET Revocations,
         \A d \in Devices : holds'[d] \in {holds[d], 0},
         \A p \in Parts, k \in Kinds : removal[p][k] # "no" => removal'[p][k] # "no",
         \A p \in Parts, k \in Kinds : removal'[p][k] = "closing" <=> removal[p][k] = "closing",
         \A p \in Parts : Removing(p)' => Removing(p) \/ p <= parts,
         \A p \in Parts : p \in grace => p \in grace' \/ Removing(p)'
  PROVE  IInv'
  <1>1. TypeOK /\ LockInv /\ RostersAre /\ TargetsAre /\ Connected /\ NoGhost /\ KeptInv /\ EmptyCallEnds
    BY DEF IInv
  <1>2. RostersAre' /\ \A p : Live(p)' <=> Live(p)
    BY <1>1, RostersStay
  <1>3. TypeOK'
    <2>1. member' \in SUBSET Devices /\ grace' \in SUBSET Parts
      BY <1>1, TypesAre
    <2> QED
      BY <1>1, <2>1, TypesAre, TypesFollow DEF CallsStill
  <1>4. LockInv'
    BY <1>1 DEF LockInv, HasLock
  <1>5. TargetsAre'
    <2>1. \A d \in Devices : holds'[d] <= parts
      <3>1. \A d \in Devices : holds[d] <= parts
        BY <1>1 DEF TargetsAre
      <3>2. 0 <= parts
        BY <1>1, TypesAre, Bounds
      <3> QED
        BY <3>1, <3>2
    <2>2. \A p \in Parts : p \in grace' \/ Removing(p)' => p <= parts
      BY <1>1 DEF TargetsAre
    <2>3. \A p \in Parts, k \in Kinds : removal'[p][k] = "closing" => p \notin roster[callOf[p]]
      BY <1>1 DEF TargetsAre
    <2> QED
      BY <1>1, <2>1, <2>2, <2>3 DEF TargetsAre, CallsStill
  <1>6. Connected'
    BY <1>1, <1>2 DEF Connected
  <1>7. NoGhost'
    <2>1. \A p \in Parts : Removing(p) => Removing(p)'
      BY DEF Removing
    <2> QED
      BY <1>1, <1>2, <2>1 DEF NoGhost
  <1>8. KeptInv'
    BY <1>1, <1>2 DEF KeptInv, CallsStill
  <1>9. EmptyCallEnds'
    BY <1>1 DEF EmptyCallEnds, CallsStill, HasLock
  <1> QED
    BY <1>2, <1>3, <1>4, <1>5, <1>6, <1>7, <1>8, <1>9 DEF IInv

\* One removal that is asked for: of a participant there is.
LEMMA AskAlone ==
  ASSUME removal \in Removals, NEW p \in Parts, NEW k \in Kinds, Ask(p, k), p <= parts
  PROVE  /\ removal' \in Removals /\ Removing(p)'
         /\ \A q \in Parts, j \in Kinds : removal[q][j] # "no" => removal'[q][j] # "no"
         /\ \A q \in Parts, j \in Kinds : removal'[q][j] = "closing" <=> removal[q][j] = "closing"
         /\ \A q \in Parts : Removing(q)' => Removing(q) \/ q <= parts
  <1>1. /\ removal' \in Removals /\ removal'[p][k] # "no"
        /\ (removal'[p][k] = "closing" <=> removal[p][k] = "closing")
        /\ \A q \in Parts, j \in Kinds : q # p \/ j # k => removal'[q][j] = removal[q][j]
    BY AskIs
  <1>2. Removing(p)'
    BY <1>1 DEF Removing
  <1>3. \A q \in Parts, j \in Kinds : removal[q][j] # "no" => removal'[q][j] # "no"
    BY <1>1
  <1>4. \A q \in Parts, j \in Kinds : removal'[q][j] = "closing" <=> removal[q][j] = "closing"
    BY <1>1
  <1>5. \A q \in Parts : Removing(q)' => Removing(q) \/ q <= parts
    BY <1>1 DEF Removing
  <1> QED
    BY <1>1, <1>2, <1>3, <1>4, <1>5

\* Leaving: whoever leaves is in the call, so is a participant that was made.
LEMMA LeaveKeeps ==
  ASSUME IInv, NEW s \in Sockets, Leave(s)
  PROVE  IInv'
  <1>1. TypeOK /\ RostersAre /\ TargetsAre
    BY DEF IInv
  <1> DEFINE p == holds[DeviceOf[s]]
  <1>2. /\ CallsStill
        /\ UNCHANGED <<member, revoked, sock, pc, target, deviceOf, conn, grace, lock, kept, losses>>
        /\ holds' = [holds EXCEPT ![DeviceOf[s]] = 0]
        /\ IF Live(p) THEN Ask(p, "asked") ELSE UNCHANGED removal
    BY DEF Leave, CallsStill, callVars, partVars, memberVars
  <1> HIDE DEF p
  <1>3. holds' \in [Devices -> 0..MaxParts] /\ \A d \in Devices : holds'[d] \in {holds[d], 0}
    BY <1>1, <1>2, Bounds DEF TypeOK
  <1>4. revoked' \in SUBSET Revocations /\ grace' \subseteq grace
    BY <1>1, <1>2, TypesAre
  <1>5. CASE Live(p)
    <2>1. p \in Parts /\ p <= parts /\ removal \in Removals /\ "asked" \in Kinds
      BY <1>1, <1>5, TypesAre DEF Live, RostersAre, Kinds
    <2>2. Ask(p, "asked")
      BY <1>2, <1>5
    <2>3. /\ removal' \in Removals
          /\ \A q \in Parts, j \in Kinds : removal[q][j] # "no" => removal'[q][j] # "no"
          /\ \A q \in Parts, j \in Kinds : removal'[q][j] = "closing" <=> removal[q][j] = "closing"
          /\ \A q \in Parts : Removing(q)' => Removing(q) \/ q <= parts
      BY <2>1, <2>2, AskAlone
    <2> QED
      BY <1>2, <1>3, <1>4, <2>3, AskingKeeps
  <1>6. CASE ~Live(p)
    <2>1. UNCHANGED removal
      BY <1>2, <1>6
    <2>2. \A q \in Parts : Removing(q)' => Removing(q)
      BY <2>1 DEF Removing
    <2>3. removal \in Removals
      BY <1>1, TypesAre
    <2> QED
      BY <1>2, <1>3, <1>4, <2>1, <2>2, <2>3, AskingKeeps
  <1> QED
    BY <1>5, <1>6

\* The timer ends: a removal by grace is on its way.
LEMMA GraceEndsKeeps ==
  ASSUME IInv, NEW p \in Parts, GraceEnds(p)
  PROVE  IInv'
  <1>1. TypeOK /\ TargetsAre
    BY DEF IInv
  <1>2. /\ CallsStill
        /\ UNCHANGED <<member, revoked, sock, pc, target, deviceOf, conn, lock, kept, losses, holds>>
        /\ p \in grace /\ grace' = grace \ {p} /\ Ask(p, "grace")
    BY DEF GraceEnds, CallsStill, callVars, memberVars, socketVars
  <1>3. p <= parts /\ removal \in Removals /\ "grace" \in Kinds
    BY <1>1, <1>2, TypesAre DEF TargetsAre, Kinds
  <1>4. /\ removal' \in Removals /\ Removing(p)'
        /\ \A q \in Parts, j \in Kinds : removal[q][j] # "no" => removal'[q][j] # "no"
        /\ \A q \in Parts, j \in Kinds : removal'[q][j] = "closing" <=> removal[q][j] = "closing"
        /\ \A q \in Parts : Removing(q)' => Removing(q) \/ q <= parts
    BY <1>2, <1>3, AskAlone
  <1>5. \A q \in Parts : q \in grace => q \in grace' \/ Removing(q)'
    BY <1>2, <1>4
  <1>6. revoked' \in SUBSET Revocations /\ holds' \in [Devices -> 0..MaxParts] /\ grace' \subseteq grace
    BY <1>1, <1>2, TypesAre
  <1>7. \A d \in Devices : holds'[d] \in {holds[d], 0}
    BY <1>2
  <1> QED
    BY <1>2, <1>4, <1>5, <1>6, <1>7, AskingKeeps

\* end_for_user, end_channel: everybody of them in the call is to be removed.
LEMMA EndForKeeps ==
  ASSUME IInv, NEW D \in Revocations, EndFor(D)
  PROVE  IInv'
  <1>1. TypeOK /\ RostersAre
    BY DEF IInv
  <1> DEFINE out == {p \in Parts : byChannel # 0 /\ p \in roster[byChannel] /\ deviceOf[p] \in D}
             more(p) == IF p \in out /\ removal[p]["asked"] = "no"
                        THEN [removal[p] EXCEPT !["asked"] = "waiting"] ELSE removal[p]
  <1>2. /\ CallsStill /\ UNCHANGED <<member, sock, pc, target, deviceOf, conn, grace, lock, kept, losses>>
        /\ revoked' = revoked \ {D} /\ ToldEnded(out)
        /\ removal' = [p \in Parts |-> more(p)]
    BY DEF EndFor, CallsStill, callVars, partVars
  <1>3. \A p \in out : p <= parts
    BY <1>1, TypesAre DEF RostersAre
  <1> HIDE DEF out
  <1>4. \A p \in Parts : /\ more(p) \in [Kinds -> {"no", "waiting", "closing"}]
                         /\ \A k \in Kinds : removal[p][k] # "no" => more(p)[k] # "no"
                         /\ \A k \in Kinds : more(p)[k] = "closing" <=> removal[p][k] = "closing"
                         /\ \A k \in Kinds : more(p)[k] # removal[p][k] => p \in out
    <2> SUFFICES ASSUME NEW p \in Parts
                 PROVE  /\ more(p) \in [Kinds -> {"no", "waiting", "closing"}]
                        /\ \A k \in Kinds : removal[p][k] # "no" => more(p)[k] # "no"
                        /\ \A k \in Kinds : more(p)[k] = "closing" <=> removal[p][k] = "closing"
                        /\ \A k \in Kinds : more(p)[k] # removal[p][k] => p \in out
      OBVIOUS
    <2>1. removal[p] \in [Kinds -> {"no", "waiting", "closing"}]
      BY <1>1, TypesAre DEF Removals
    <2> QED
      BY <2>1
  <1> HIDE DEF more
  <1>5. removal' \in Removals
    BY <1>2, <1>4 DEF Removals
  <1>6. /\ \A q \in Parts, j \in Kinds : removal[q][j] # "no" => removal'[q][j] # "no"
        /\ \A q \in Parts, j \in Kinds : removal'[q][j] = "closing" <=> removal[q][j] = "closing"
    BY <1>2, <1>4
  <1>7. \A q \in Parts : Removing(q)' => Removing(q) \/ q <= parts
    BY <1>2, <1>3, <1>4 DEF Removing
  <1>8. holds' \in [Devices -> 0..MaxParts] /\ \A d \in Devices : holds'[d] \in {holds[d], 0}
    BY <1>1, <1>2, ToldEndedIs, TypesAre
  <1>9. revoked' \in SUBSET Revocations /\ grace' \subseteq grace
    BY <1>1, <1>2, TypesAre
  <1> QED
    BY <1>2, <1>5, <1>6, <1>7, <1>8, <1>9, AskingKeeps

\* The database forgets members before the call does.
LEMMA LoseMembershipKeeps ==
  ASSUME IInv, NEW D \in Revocations, LoseMembership(D)
  PROVE  IInv'
  <1>1. TypeOK /\ LockInv /\ RostersAre /\ TargetsAre /\ Connected /\ NoGhost /\ KeptInv /\ EmptyCallEnds
    BY DEF IInv
  <1>2. /\ CallsStill
        /\ UNCHANGED <<sock, pc, target, holds, deviceOf, conn, grace, removal, lock, kept, losses>>
        /\ member' = member \ D /\ revoked' = revoked \cup {D}
    BY DEF LoseMembership, CallsStill, callVars, partVars, socketVars
  <1>3. RostersAre' /\ \A p : Live(p)' <=> Live(p)
    BY <1>1, <1>2, RostersStay
  <1>4. TypeOK'
    BY <1>1, <1>2, TypesAre, TypesFollow DEF CallsStill
  <1>5. LockInv' /\ TargetsAre' /\ Connected' /\ KeptInv'
    BY <1>1, <1>2, <1>3 DEF LockInv, HasLock, TargetsAre, CallsStill, Removing, Connected, KeptInv
  <1>6. NoGhost' /\ EmptyCallEnds'
    BY <1>1, <1>2, <1>3 DEF NoGhost, Removing, EmptyCallEnds, CallsStill, HasLock
  <1> QED
    BY <1>3, <1>4, <1>5, <1>6 DEF IInv

\* A removal that finds nothing to do: the participant is out, or back with a socket.
LEMMA RemoveNothingKeeps ==
  ASSUME IInv, NEW p \in Parts, NEW k \in Kinds, RemoveNothing(p, k)
  PROVE  IInv'
  <1>1. TypeOK /\ LockInv /\ RostersAre /\ TargetsAre /\ Connected /\ NoGhost /\ KeptInv /\ EmptyCallEnds
    BY DEF IInv
  <1>2. /\ CallsStill
        /\ UNCHANGED <<memberVars, sock, pc, target, holds, deviceOf, conn, grace, kept, losses>>
        /\ removal[p][k] = "waiting" /\ PassesWith(Removal(p, k)) /\ Step(p, k, "no")
        /\ (Resumed(p, k) \/ p \notin roster[callOf[p]])
    BY DEF RemoveNothing, CallsStill, callVars, partVars, socketVars
  <1>3. RostersAre' /\ \A q : Live(q)' <=> Live(q)
    BY <1>1, <1>2, RostersStay
  <1>4. /\ removal' \in Removals /\ removal'[p][k] = "no"
        /\ \A q \in Parts, j \in Kinds : q # p \/ j # k => removal'[q][j] = removal[q][j]
    BY <1>1, <1>2, TypesAre, StepIs
  <1>5. lock' \in Seq(Tasks) /\ \A u : HasLock(u) => u = Removal(p, k)
    BY <1>1, <1>2, TypesAre, TasksAre, Passing
  <1>6. /\ \A r \in Sockets : pc[r] \notin AtSfu
        /\ \A q \in Parts, j \in Kinds : removal[q][j] # "closing"
    <2>1. \A u : HasLock(u) => u = Removal(p, k)
      BY <1>5
    <2>2. /\ \A r \in Sockets : pc[r] \in AtSfu => Command(r) = Removal(p, k)
          /\ \A q \in Parts, j \in Kinds : removal[q][j] = "closing" => Removal(q, j) = Removal(p, k)
      BY <1>1, <2>1, Alone
    <2> QED
      BY <1>2, <2>2, TasksDiffer
  <1>7. \A c \in byId : roster[c] # {}
    BY <1>1, <1>5, <1>6, NoneEmpty DEF AtSfu
  <1>8. \A q \in Parts, j \in Kinds : removal'[q][j] # "closing"
    BY <1>4, <1>6
  <1>9. TypeOK'
    BY <1>1, <1>2, <1>4, <1>5, TypesAre, TypesFollow DEF memberVars, CallsStill
  <1>10. LockInv'
    BY <1>2, <1>6, <1>8 DEF LockInv
  <1>11. TargetsAre'
    <2>1. \A q \in Parts : Removing(q)' => Removing(q)
      BY <1>2, <1>4 DEF Removing
    <2> QED
      BY <1>1, <1>2, <1>8, <2>1 DEF TargetsAre, CallsStill
  <1>12. Connected'
    BY <1>1, <1>2, <1>3 DEF Connected
  <1>13. NoGhost'
    <2> SUFFICES ASSUME NEW q \in Parts, Live(q)
                 PROVE  (conn[q] # Nobody /\ sock[conn[q]] # "closed") \/ q \in grace \/ Removing(q)'
      BY <1>2, <1>3 DEF NoGhost
    <2>1. CASE q = p
      <3>1. conn[p] # Nobody
        BY <1>2, <2>1 DEF Resumed, Live
      <3> QED
        BY <1>1, <2>1, <3>1 DEF Connected
    <2>2. CASE q # p
      BY <1>1, <1>4, <2>2 DEF NoGhost, Removing
    <2> QED
      BY <2>1, <2>2
  <1>14. KeptInv'
    BY <1>1, <1>2, <1>3, <1>6 DEF KeptInv, CallsStill
  <1>15. EmptyCallEnds'
    BY <1>2, <1>7, NoneEmptied DEF CallsStill
  <1> QED
    BY <1>3, <1>9, <1>10, <1>11, <1>12, <1>13, <1>14, <1>15 DEF IInv

\* Out of the roster: whoever is removed has the lock until their session is gone.
LEMMA RemoveFromRosterKeeps ==
  ASSUME IInv, NEW p \in Parts, NEW k \in Kinds, RemoveFromRoster(p, k)
  PROVE  IInv'
  <1>1. TypeOK /\ LockInv /\ RostersAre /\ TargetsAre /\ Connected /\ NoGhost /\ KeptInv /\ EmptyCallEnds
    BY DEF IInv
  <1>2. /\ removal[p][k] = "waiting" /\ Takes(Removal(p, k)) /\ Step(p, k, "closing")
        /\ roster' = [roster EXCEPT ![callOf[p]] = roster[callOf[p]] \ {p}] /\ grace' = grace \ {p}
        /\ UNCHANGED <<memberVars, sock, pc, target, holds, byChannel, byId, calls, parts, callOf, deviceOf, conn, kept, losses>>
    BY DEF RemoveFromRoster, socketVars
  <1>3. p <= parts /\ callOf[p] \in Calls
    <2>1. p <= parts
      BY <1>1, <1>2 DEF TargetsAre, Removing
    <2>2. callOf[p] \in 1..calls
      BY <1>1, <2>1 DEF RostersAre
    <2> QED
      BY <1>1, <2>1, <2>2, TypesAre, Bounds DEF Calls
  <1>4. /\ removal' \in Removals /\ removal'[p][k] = "closing"
        /\ \A q \in Parts, j \in Kinds : q # p \/ j # k => removal'[q][j] = removal[q][j]
    BY <1>1, <1>2, TypesAre, StepIs
  <1>5. /\ lock' \in Seq(Tasks) /\ HadLock(Removal(p, k))
        /\ \A u : HasLock(u) => u = Removal(p, k)
    BY <1>1, <1>2, TypesAre, TasksAre, Taking
  <1>6. HasLock(Removal(p, k))'
    BY <1>5 DEF HadLock, HasLock
  <1>7. /\ \A r \in Sockets : pc[r] \notin AtSfu
        /\ \A q \in Parts, j \in Kinds : removal[q][j] # "closing"
    <2>1. \A u : HasLock(u) => u = Removal(p, k)
      BY <1>5
    <2>2. /\ \A r \in Sockets : pc[r] \in AtSfu => Command(r) = Removal(p, k)
          /\ \A q \in Parts, j \in Kinds : removal[q][j] = "closing" => Removal(q, j) = Removal(p, k)
      BY <1>1, <2>1, Alone
    <2> QED
      BY <1>2, <2>2, TasksDiffer
  <1>8. \A c \in byId : roster[c] # {}
    BY <1>1, <1>5, <1>7, NoneEmpty DEF AtSfu
  <1>9. /\ roster' \in [Calls -> SUBSET Parts] /\ roster'[callOf[p]] = roster[callOf[p]] \ {p}
        /\ \A d \in Calls : d # callOf[p] => roster'[d] = roster[d]
    BY <1>1, <1>2, <1>3, TypesAre
  <1>10. /\ \A d \in Calls : roster'[d] \subseteq roster[d]
         /\ p \notin roster'[callOf[p]]
    BY <1>9
  <1>11. /\ \A q \in Parts : Live(q)' => Live(q) /\ q # p
         /\ \A q \in Parts : Live(q) /\ q # p => Live(q)'
    <2>1. byId \subseteq Calls
      BY <1>1, TypesAre
    <2> QED
      BY <1>2, <1>9, <1>10, <2>1 DEF Live
  <1>12. TypeOK'
    <2>1. grace' \in SUBSET Parts
      BY <1>1, <1>2, TypesAre
    <2> QED
      BY <1>1, <1>2, <1>4, <1>5, <1>9, <2>1, TypesAre, TypesFollow DEF memberVars
  <1>13. \A q \in Parts, j \in Kinds : removal'[q][j] = "closing" => q = p /\ j = k
    BY <1>4, <1>7
  <1>14. LockInv'
    BY <1>2, <1>6, <1>7, <1>13 DEF LockInv
  <1>15. RostersAre'
    <2>1. \A d \in Calls : \A q \in roster'[d] : q <= parts' /\ callOf'[q] = d /\ d <= calls'
      BY <1>1, <1>2, <1>10 DEF RostersAre
    <2> QED
      BY <1>1, <1>2, <2>1 DEF RostersAre
  <1>16. TargetsAre'
    <2>1. \A q \in Parts : Removing(q)' => Removing(q) \/ q = p
      BY <1>4 DEF Removing
    <2>2. \A q \in Parts, j \in Kinds : removal'[q][j] = "closing" => q \notin roster'[callOf'[q]]
      BY <1>2, <1>10, <1>13
    <2> QED
      BY <1>1, <1>2, <1>3, <2>1, <2>2 DEF TargetsAre
  <1>17. Connected'
    BY <1>1, <1>2, <1>11 DEF Connected
  <1>18. NoGhost'
    <2>1. \A q \in Parts : q # p /\ Removing(q) => Removing(q)'
      BY <1>4 DEF Removing
    <2> QED
      BY <1>1, <1>2, <1>11, <2>1 DEF NoGhost
  <1>19. KeptInv'
    <2>1. \A q \in Parts : PartSession(q) \in kept' => Live(q)' \/ \E j \in Kinds : removal'[q][j] = "closing"
      <3> SUFFICES ASSUME NEW q \in Parts, PartSession(q) \in kept, q # p PROVE Live(q)'
        BY <1>2, <1>4
      <3> QED
        BY <1>1, <1>7, <1>11 DEF KeptInv
    <2> QED
      BY <1>1, <1>2, <2>1 DEF KeptInv
  <1>20. EmptyCallEnds'
    <2>1. \A d \in byId' : roster'[d] = {} => d = callOf'[p]
      <3>1. byId \subseteq Calls
        BY <1>1, TypesAre
      <3> QED
        BY <1>2, <1>8, <1>9, <3>1
    <2> QED
      BY <1>4, <1>6, <2>1 DEF EmptyCallEnds
  <1> QED
    BY <1>12, <1>14, <1>15, <1>16, <1>17, <1>18, <1>19, <1>20 DEF IInv

\* A call that is empty goes, one that isn't stays: none is left empty, and nobody
\* in a call notices.
LEMMA CallEnds ==
  ASSUME TypeOK, RostersAre, NEW c, NEW x, UNCHANGED <<calls, roster, parts, callOf>>,
         \A d \in byId : roster[d] = {} => d = c,
         IF roster[c] = {} THEN DestroyCall(c, x) ELSE KeepCall(x)
  PROVE  /\ RostersAre' /\ EmptyCallEnds'
         /\ byChannel' \in 0..MaxCalls /\ byId' \in SUBSET Calls /\ kept' \in SUBSET Sessions
         /\ \A p \in Parts : Live(p)' <=> Live(p)
         /\ x \notin kept' /\ kept' \subseteq kept
         /\ \A d \in byId : roster[d] # {} => d \in byId'
         /\ \A d \in byId : CallSession(d) \in kept' => d \in byId'
  <1>1. CASE roster[c] = {}
    <2>1. byChannel' = 0 /\ byId' = byId \ {c} /\ kept' = kept \ {CallSession(c), x}
      BY <1>1 DEF DestroyCall
    <2>2. RostersAre'
      BY <2>1 DEF RostersAre
    <2>3. EmptyCallEnds'
      BY <2>1 DEF EmptyCallEnds
    <2>4. \A p \in Parts : Live(p)' <=> Live(p)
      BY <1>1, <2>1 DEF Live
    <2>5. byChannel' \in 0..MaxCalls
      BY <2>1, Bounds
    <2> QED
      BY <1>1, <2>1, <2>2, <2>3, <2>4, <2>5, TypesAre, SessionsDiffer
  <1>2. CASE roster[c] # {}
    <2>1. UNCHANGED <<byChannel, byId>> /\ kept' = kept \ {x}
      BY <1>2 DEF KeepCall
    <2>2. RostersAre'
      BY <2>1 DEF RostersAre
    <2>3. EmptyCallEnds'
      BY <1>2, <2>1 DEF EmptyCallEnds
    <2>4. \A p \in Parts : Live(p)' <=> Live(p)
      BY <2>1 DEF Live
    <2> QED
      BY <2>1, <2>2, <2>3, <2>4, TypesAre
  <1> QED
    BY <1>1, <1>2

\* The removal is over: the session is gone, and the call if nobody is in it.
LEMMA EndRemovalKeeps ==
  ASSUME IInv, NEW p \in Parts, NEW k \in Kinds, EndRemoval(p, k)
  PROVE  IInv'
  <1>1. TypeOK /\ LockInv /\ RostersAre /\ TargetsAre /\ Connected /\ NoGhost /\ KeptInv /\ EmptyCallEnds
    BY DEF IInv
  <1>2. /\ removal[p][k] = "closing" /\ Step(p, k, "no") /\ Release
        /\ (IF roster[callOf[p]] = {} THEN DestroyCall(callOf[p], PartSession(p)) ELSE KeepCall(PartSession(p)))
        /\ UNCHANGED <<memberVars, sock, pc, target, holds, calls, roster, parts, callOf, deviceOf, conn, grace, losses>>
    BY DEF EndRemoval, socketVars, partVars
  <1>3. /\ removal' \in Removals /\ removal'[p][k] = "no"
        /\ \A q \in Parts, j \in Kinds : q # p \/ j # k => removal'[q][j] = removal[q][j]
    BY <1>1, <1>2, TypesAre, StepIs
  <1>4. lock' \in Seq(Tasks) /\ \A u : HasLock(u) => u = Removal(p, k)
    <2>1. HasLock(Removal(p, k))
      BY <1>1, <1>2 DEF LockInv
    <2> QED
      BY <1>1, <1>2, <2>1, TypesAre, TasksAre, Releasing
  <1>5. /\ \A r \in Sockets : pc[r] \notin AtSfu
        /\ \A q \in Parts, j \in Kinds : removal[q][j] = "closing" => q = p /\ j = k
    <2>1. \A u : HasLock(u) => u = Removal(p, k)
      BY <1>4
    <2>2. /\ \A r \in Sockets : pc[r] \in AtSfu => Command(r) = Removal(p, k)
          /\ \A q \in Parts, j \in Kinds : removal[q][j] = "closing" => Removal(q, j) = Removal(p, k)
      BY <1>1, <2>1, Alone
    <2> QED
      BY <2>2, TasksDiffer
  <1>6. \A d \in byId : roster[d] = {} => d = callOf[p]
    BY <1>1, <1>5 DEF EmptyCallEnds, AtSfu
  <1>7. /\ RostersAre' /\ EmptyCallEnds'
        /\ byChannel' \in 0..MaxCalls /\ byId' \in SUBSET Calls /\ kept' \in SUBSET Sessions
        /\ \A q \in Parts : Live(q)' <=> Live(q)
        /\ PartSession(p) \notin kept' /\ kept' \subseteq kept
        /\ \A d \in byId : CallSession(d) \in kept' => d \in byId'
    BY <1>1, <1>2, <1>6, CallEnds
  <1>8. \A q \in Parts, j \in Kinds : removal'[q][j] # "closing"
    BY <1>3, <1>5
  <1>9. TypeOK'
    BY <1>1, <1>2, <1>3, <1>4, <1>7, TypesAre, TypesFollow DEF memberVars
  <1>10. LockInv'
    BY <1>2, <1>5, <1>8 DEF LockInv
  <1>11. TargetsAre'
    <2>1. \A q \in Parts : Removing(q)' => Removing(q)
      BY <1>2, <1>3 DEF Removing
    <2>2. \A r \in Sockets : pc'[r] \notin {"feed", "undo"}
      BY <1>2, <1>5 DEF AtSfu
    <2> QED
      BY <1>1, <1>2, <1>8, <2>1, <2>2 DEF TargetsAre
  <1>12. Connected'
    BY <1>1, <1>2, <1>7 DEF Connected
  <1>13. NoGhost'
    <2>1. ~Live(p)
      BY <1>1, <1>2 DEF Live, TargetsAre
    <2>2. \A q \in Parts : q # p /\ Removing(q) => Removing(q)'
      BY <1>3 DEF Removing
    <2> QED
      BY <1>1, <1>2, <1>7, <2>1, <2>2 DEF NoGhost
  <1>14. KeptInv'
    <2>1. \A d \in Calls : CallSession(d) \in kept' => d \in byId'
      BY <1>1, <1>7 DEF KeptInv
    <2>2. \A q \in Parts : PartSession(q) \in kept' => Live(q)'
      <3> SUFFICES ASSUME NEW q \in Parts, PartSession(q) \in kept' PROVE Live(q)
        BY <1>7
      <3>1. q # p /\ PartSession(q) \in kept
        BY <1>7
      <3> QED
        BY <1>1, <1>5, <3>1 DEF KeptInv
    <2> QED
      BY <1>1, <1>2, <1>7, <2>1, <2>2 DEF KeptInv
  <1> QED
    BY <1>7, <1>9, <1>10, <1>11, <1>12, <1>13, <1>14 DEF IInv

\* A join that came to nothing: what it made at the SFU goes, and a call nobody is in.
LEMMA NotJoinedKeeps ==
  ASSUME IInv, NEW s \in Sockets, NotJoined(s)
  PROVE  IInv'
  <1>1. TypeOK /\ LockInv /\ RostersAre /\ TargetsAre /\ Connected /\ NoGhost /\ KeptInv /\ EmptyCallEnds
    BY DEF IInv
  <1>2. /\ pc[s] \in {"feed", "undo"} /\ Answered(s) /\ Release
        /\ (IF roster[target[s]] = {} THEN DestroyCall(target[s], NewPartSession(s)) ELSE KeepCall(NewPartSession(s)))
        /\ UNCHANGED <<memberVars, sock, holds, calls, roster, parts, callOf, deviceOf, conn, grace, removal, losses>>
    BY DEF NotJoined, partVars
  <1>3. /\ pc' \in [Sockets -> Places] /\ pc'[s] = "idle" /\ \A r \in Sockets : r # s => pc'[r] = pc[r]
        /\ target' \in [Sockets -> Nat] /\ \A r \in Sockets : r # s => target'[r] = target[r]
    BY <1>1, <1>2, TypesAre, GotoIs, AimIs DEF Answered, Places
  <1>4. lock' \in Seq(Tasks) /\ \A u : HasLock(u) => u = Command(s)
    <2>1. HasLock(Command(s))
      BY <1>1, <1>2 DEF LockInv, AtSfu
    <2> QED
      BY <1>1, <1>2, <2>1, TypesAre, TasksAre, Releasing
  <1>5. /\ \A r \in Sockets : r # s => pc[r] \notin AtSfu
        /\ \A q \in Parts, j \in Kinds : removal[q][j] # "closing"
    <2>1. \A u : HasLock(u) => u = Command(s)
      BY <1>4
    <2>2. /\ \A r \in Sockets : pc[r] \in AtSfu => Command(r) = Command(s)
          /\ \A q \in Parts, j \in Kinds : removal[q][j] = "closing" => Removal(q, j) = Command(s)
      BY <1>1, <2>1, Alone
    <2> QED
      BY <2>2, TasksDiffer
  <1>6. \A d \in byId : roster[d] = {} => d = target[s]
    BY <1>1, <1>5 DEF EmptyCallEnds, AtSfu
  <1>7. /\ RostersAre' /\ EmptyCallEnds'
        /\ byChannel' \in 0..MaxCalls /\ byId' \in SUBSET Calls /\ kept' \in SUBSET Sessions
        /\ \A q \in Parts : Live(q)' <=> Live(q)
        /\ NewPartSession(s) \notin kept' /\ kept' \subseteq kept
        /\ \A d \in byId : CallSession(d) \in kept' => d \in byId'
    BY <1>1, <1>2, <1>6, CallEnds
  <1>8. \A r \in Sockets : pc'[r] \notin AtSfu
    BY <1>3, <1>5 DEF AtSfu
  <1>9. TypeOK'
    BY <1>1, <1>2, <1>3, <1>4, <1>7, TypesAre, TypesFollow DEF memberVars
  <1>10. LockInv'
    BY <1>2, <1>5, <1>8 DEF LockInv
  <1>11. TargetsAre'
    <2>1. \A r \in Sockets : pc'[r] \notin {"feed", "undo"}
      BY <1>8 DEF AtSfu
    <2>2. \A r \in Sockets : pc'[r] = "resume" => target'[r] \in 1..parts
      BY <1>1, <1>3 DEF TargetsAre
    <2> QED
      BY <1>1, <1>2, <1>5, <2>1, <2>2 DEF TargetsAre, Removing
  <1>12. Connected'
    BY <1>1, <1>2, <1>3, <1>7 DEF Connected
  <1>13. NoGhost'
    BY <1>1, <1>2, <1>7 DEF NoGhost, Removing
  <1>14. KeptInv'
    <2>1. \A d \in Calls : CallSession(d) \in kept' => d \in byId'
      BY <1>1, <1>7 DEF KeptInv
    <2>2. \A q \in Parts : PartSession(q) \in kept' => Live(q)'
      BY <1>1, <1>5, <1>7 DEF KeptInv
    <2>3. \A r \in Sockets : NewCallSession(r) \in kept' => pc'[r] = "room"
      <3>1. \A r \in Sockets : NewCallSession(r) \in kept' => pc[r] = "room"
        BY <1>1, <1>7 DEF KeptInv
      <3> QED
        BY <1>2, <1>3, <3>1
    <2>4. \A r \in Sockets : NewPartSession(r) \in kept' => pc'[r] = "feed"
      <3>1. \A r \in Sockets : NewPartSession(r) \in kept' => pc[r] = "feed" /\ r # s
        BY <1>1, <1>7 DEF KeptInv
      <3> QED
        BY <1>3, <3>1
    <2> QED
      BY <2>1, <2>2, <2>3, <2>4 DEF KeptInv
  <1> QED
    BY <1>7, <1>9, <1>10, <1>11, <1>12, <1>13, <1>14 DEF IInv

\* The SFU is lost: no call is left, and nothing is kept alive.
LEMMA JanusLostKeeps ==
  ASSUME IInv, JanusLost
  PROVE  IInv'
  <1>1. TypeOK /\ LockInv /\ RostersAre /\ TargetsAre /\ Connected /\ NoGhost /\ KeptInv /\ EmptyCallEnds
    BY DEF IInv
  <1>2. /\ losses < MaxLosses /\ losses' = losses + 1 /\ byChannel' = 0 /\ byId' = {} /\ kept' = {}
        /\ grace' \subseteq grace /\ ToldEnded({p \in Parts : Live(p)})
        /\ UNCHANGED <<memberVars, sock, target, calls, roster, parts, callOf, deviceOf, conn, removal, lock>>
    BY DEF JanusLost
  <1>3. /\ pc' \in [Sockets -> Places]
        /\ \A r \in Sockets : /\ pc'[r] \in AtSfu => pc[r] \in AtSfu
                              /\ pc'[r] \in {"feed", "undo"} => pc'[r] = "undo" /\ pc[r] \in {"feed", "undo"}
                              /\ pc'[r] = "resume" => pc[r] = "resume"
                              /\ pc'[r] # "idle" => pc[r] # "idle"
    <2> DEFINE after(r) == CASE pc[r] = "room" -> "refused" [] pc[r] = "feed" -> "undo" [] OTHER -> pc[r]
    <2>1. pc' = [s \in Sockets |-> after(s)]
      BY DEF JanusLost
    <2>2. \A r \in Sockets : /\ after(r) \in Places /\ (after(r) \in AtSfu => pc[r] \in AtSfu)
                             /\ (after(r) \in {"feed", "undo"} => after(r) = "undo" /\ pc[r] \in {"feed", "undo"})
                             /\ (after(r) = "resume" => pc[r] = "resume")
                             /\ (after(r) # "idle" => pc[r] # "idle")
      <3> SUFFICES ASSUME NEW r \in Sockets
                   PROVE  /\ after(r) \in Places /\ (after(r) \in AtSfu => pc[r] \in AtSfu)
                          /\ (after(r) \in {"feed", "undo"} => after(r) = "undo" /\ pc[r] \in {"feed", "undo"})
                          /\ (after(r) = "resume" => pc[r] = "resume")
                          /\ (after(r) # "idle" => pc[r] # "idle")
        OBVIOUS
      <3>1. pc[r] \in Places
        BY <1>1, TypesAre
      <3> QED
        BY <3>1 DEF Places, AtSfu
    <2> HIDE DEF after
    <2> QED
      BY <2>1, <2>2
  <1>4. holds' \in [Devices -> 0..MaxParts] /\ \A d \in Devices : holds'[d] \in {holds[d], 0}
    BY <1>1, <1>2, ToldEndedIs, TypesAre
  <1>5. \A p : ~Live(p)'
    BY <1>2 DEF Live
  <1>6. TypeOK'
    <2>1. losses' \in 0..MaxLosses /\ byChannel' \in 0..MaxCalls
      BY <1>1, <1>2, TypesAre, Bounds
    <2>2. byId' \in SUBSET Calls /\ kept' \in SUBSET Sessions /\ grace' \in SUBSET Parts
      BY <1>1, <1>2, TypesAre
    <2> QED
      BY <1>1, <1>2, <1>3, <1>4, <2>1, <2>2, TypesAre, TypesFollow DEF memberVars
  <1>7. LockInv'
    BY <1>1, <1>2, <1>3 DEF LockInv, HasLock
  <1>8. RostersAre'
    BY <1>1, <1>2 DEF RostersAre
  <1>9. TargetsAre'
    <2>1. \A d \in Devices : holds'[d] <= parts
      <3>1. \A d \in Devices : holds[d] <= parts
        BY <1>1 DEF TargetsAre
      <3>2. 0 <= parts
        BY <1>1, TypesAre, Bounds
      <3> QED
        BY <1>4, <3>1, <3>2
    <2>2. \A r \in Sockets : pc'[r] # "feed"
      BY <1>3
    <2> QED
      BY <1>1, <1>2, <1>3, <2>1, <2>2 DEF TargetsAre, Removing
  <1>10. Connected'
    BY <1>1, <1>2, <1>3, <1>5 DEF Connected
  <1>11. NoGhost' /\ KeptInv' /\ EmptyCallEnds'
    BY <1>2, <1>5 DEF NoGhost, KeptInv, EmptyCallEnds
  <1> QED
    BY <1>6, <1>7, <1>8, <1>9, <1>10, <1>11 DEF IInv

-----------------------------------------------------------------------------
(* The invariant.                                                          *)

\* At first nobody is in a call.
THEOREM InitEstablishes == Init => IInv
  <1> SUFFICES ASSUME Init PROVE IInv
    OBVIOUS
  <1>1. /\ member = Devices /\ revoked = {} /\ sock = [s \in Sockets |-> "open"]
        /\ pc = [s \in Sockets |-> "idle"] /\ target = [s \in Sockets |-> 0] /\ holds = [d \in Devices |-> 0]
        /\ byChannel = 0 /\ byId = {} /\ calls = 0 /\ roster = [c \in Calls |-> {}]
        /\ parts = 0 /\ callOf = [p \in Parts |-> 0]
        /\ deviceOf = [p \in Parts |-> CHOOSE d \in Devices : TRUE]
        /\ conn = [p \in Parts |-> Nobody] /\ grace = {}
        /\ removal = [p \in Parts |-> [k \in Kinds |-> "no"]] /\ lock = <<>> /\ kept = {} /\ losses = 0
    BY DEF Init
  <1>2. (CHOOSE d \in Devices : TRUE) \in Devices
    BY Bounds
  <1>3. lock \in Seq(Tasks) /\ removal \in Removals
    BY <1>1 DEF Removals
  <1>4. TypeOK
    BY <1>1, <1>2, <1>3, TypesAre, Bounds DEF Places
  <1>5. \A p : ~Live(p)
    BY <1>1 DEF Live
  <1>6. LockInv /\ Connected /\ NoGhost /\ KeptInv /\ EmptyCallEnds
    BY <1>1, <1>5 DEF LockInv, AtSfu, Connected, NoGhost, KeptInv, EmptyCallEnds
  <1>7. RostersAre
    BY <1>1 DEF RostersAre, Parts
  <1>8. TargetsAre
    BY <1>1 DEF TargetsAre, Removing
  <1> QED
    BY <1>4, <1>6, <1>7, <1>8 DEF IInv

\* Every step keeps the invariant: a socket's, a removal's, those from outside.
THEOREM StepKeeps == IInv /\ [Next]_vars => IInv'
  <1> SUFFICES ASSUME IInv, [Next]_vars PROVE IInv'
    OBVIOUS
  <1>1. ASSUME NEW s \in Sockets,
               Disconnect(s) \/ CheckMember(s) \/ AskResume(s) \/ NoResume(s) \/ Leave(s) \/ RunCommand(s)
        PROVE  IInv'
    <2>1. CASE Disconnect(s) \/ CheckMember(s) \/ AskResume(s) \/ NoResume(s) \/ Leave(s)
      BY <2>1, DisconnectKeeps, CheckMemberKeeps, ResumeAskedKeeps, LeaveKeeps
    <2>2. CASE WaitForLock(s)
      <3>1. Waits(Command(s)) /\ Command(s) \in Tasks
            /\ UNCHANGED <<memberVars, socketVars, callVars, partVars, removal, kept, losses>>
        BY <2>2, TasksAre DEF WaitForLock
      <3> QED
        BY <3>1, WaitingKeeps
    <2>3. CASE JoinCall(s) \/ CreateCall(s)
      BY <2>3, JoinBegins
    <2>4. CASE CantJoin(s) \/ NoRoom(s) \/ Resume(s)
      BY <2>4, AnsweredKeeps
    <2>5. CASE RoomMade(s) \/ Joined(s) \/ NotJoined(s)
      BY <2>5, RoomMadeKeeps, JoinedKeeps, NotJoinedKeeps
    <2> QED
      BY <1>1, <2>1, <2>2, <2>3, <2>4, <2>5 DEF RunCommand
  <1>2. ASSUME NEW p \in Parts, NEW k \in Kinds, Remove(p, k)
        PROVE  IInv'
    <2>1. CASE RemoveWaits(p, k)
      <3>1. Waits(Removal(p, k)) /\ Removal(p, k) \in Tasks
            /\ UNCHANGED <<memberVars, socketVars, callVars, partVars, removal, kept, losses>>
        BY <2>1, TasksAre DEF RemoveWaits
      <3> QED
        BY <3>1, WaitingKeeps
    <2>2. CASE RemoveNothing(p, k) \/ RemoveFromRoster(p, k) \/ EndRemoval(p, k)
      BY <2>2, RemoveNothingKeeps, RemoveFromRosterKeeps, EndRemovalKeeps
    <2> QED
      BY <1>2, <2>1, <2>2 DEF Remove
  <1>3. ASSUME NEW D \in Revocations, LoseMembership(D) \/ EndFor(D)
        PROVE  IInv'
    BY <1>3, LoseMembershipKeeps, EndForKeeps
  <1>4. CASE UNCHANGED vars
    <2>1. UNCHANGED <<member, revoked, sock, pc, target, holds, byChannel, byId, calls, roster, parts,
                      callOf, deviceOf, conn, grace, removal, lock, kept, losses>>
      BY <1>4 DEF vars, memberVars, socketVars, callVars, partVars
    <2>2. TypeOK /\ LockInv /\ RostersAre /\ TargetsAre /\ Connected /\ NoGhost /\ KeptInv /\ EmptyCallEnds
      BY DEF IInv
    <2>3. TypeOK' /\ LockInv' /\ RostersAre' /\ TargetsAre'
      BY <2>1, <2>2 DEF TypeOK, LockInv, RostersAre, TargetsAre, HasLock, Removing
    <2>4. Connected' /\ NoGhost' /\ KeptInv' /\ EmptyCallEnds'
      BY <2>1, <2>2 DEF Connected, NoGhost, KeptInv, EmptyCallEnds, HasLock, Live, Removing
    <2> QED
      BY <2>3, <2>4 DEF IInv
  <1> QED
    BY <1>1, <1>2, <1>3, <1>4, GraceEndsKeeps, JanusLostKeeps DEF Next

\* The invariant holds in every state the manager reaches, for any devices, sockets,
\* revocations and bounds.
THEOREM InvariantHolds == Spec => []IInv
  BY InitEstablishes, StepKeeps, PTL DEF Spec

\* What the invariant is for: nobody stays in a call whom nothing will remove, what is
\* kept at the SFU is somebody's to end, and a call without participants is being
\* joined or ended by whoever has the lock (join, resume, remove, _on_janus_lost).
THEOREM RosterHolds == Spec => []RosterInv
  <1>1. IInv => RosterInv
    <2> SUFFICES ASSUME IInv PROVE RosterInv
      OBVIOUS
    <2>1. TypeOK /\ NoGhost /\ KeptInv /\ EmptyCallEnds
      BY DEF IInv
    <2>2. \A p \in Parts, k \in Kinds : removal[p][k] = "closing" => removal[p][k] # "no"
      OBVIOUS
    <2>3. SessionsOwned
      BY <2>1, <2>2 DEF KeptInv, SessionsOwned, Removing
    <2> QED
      BY <2>1, <2>3 DEF RosterInv
  <1> QED
    BY <1>1, InvariantHolds, PTL

\* A step takes a participant with a socket out of a live call's roster only on a
\* removal that was asked for: one by grace looks for a socket after it has the lock
\* (_remove's reason == "grace").
LEMMA StepLetsStay ==
  ASSUME IInv, [Next]_vars
  PROVE  \A p \in Parts : Live(p) /\ conn[p] # Nobody /\ p \notin roster'[callOf[p]]
                            => removal[p]["asked"] # "no"
  <1> SUFFICES ASSUME NEW p \in Parts, Live(p), conn[p] # Nobody, p \notin roster'[callOf[p]]
               PROVE  removal[p]["asked"] # "no"
    OBVIOUS
  <1>1. TypeOK /\ p \in roster[callOf[p]] /\ callOf[p] \in Calls
    BY TypesAre DEF IInv, Live
  <1>2. roster' # roster
    BY <1>1
  <1>3. ASSUME NEW s \in Sockets,
               Disconnect(s) \/ CheckMember(s) \/ AskResume(s) \/ NoResume(s) \/ Leave(s) \/ RunCommand(s)
        PROVE  FALSE
    <2>1. CASE Joined(s)
      <3>1. roster' = [roster EXCEPT ![target[s]] = roster[target[s]] \cup {parts + 1}]
        BY <2>1 DEF Joined
      <3> QED
        BY <1>1, <3>1, TypesAre
    <2>2. CASE ~Joined(s)
      BY <1>2, <1>3, <2>2 DEF Disconnect, CheckMember, AskResume, NoResume, Leave, RunCommand, WaitForLock,
        JoinCall, CantJoin, CreateCall, RoomMade, NoRoom, NotJoined, Resume, callVars
    <2> QED
      BY <2>1, <2>2
  <1>4. ASSUME NEW q \in Parts, NEW k \in Kinds, Remove(q, k)
        PROVE  removal[p]["asked"] # "no"
    <2>1. RemoveFromRoster(q, k)
      BY <1>2, <1>4 DEF Remove, RemoveWaits, RemoveNothing, EndRemoval, callVars
    <2>2. /\ roster' = [roster EXCEPT ![callOf[q]] = roster[callOf[q]] \ {q}]
          /\ removal[q][k] = "waiting" /\ ~Resumed(q, k)
      BY <2>1 DEF RemoveFromRoster
    <2>3. q = p
      BY <1>1, <2>2, TypesAre
    <2>4. k # "grace"
      BY <2>2, <2>3 DEF Resumed
    <2> QED
      BY <2>2, <2>3, <2>4 DEF Kinds
  <1>5. ASSUME (\E q \in Parts : GraceEnds(q)) \/ (\E D \in Revocations : LoseMembership(D) \/ EndFor(D))
               \/ JanusLost \/ UNCHANGED vars
        PROVE  FALSE
    BY <1>2, <1>5 DEF GraceEnds, LoseMembership, EndFor, JanusLost, vars, callVars
  <1> QED
    BY <1>3, <1>4, <1>5 DEF Next

\* Who came back while a removal by grace waited for the lock stays in the call.
THEOREM ResumedStaysHolds == Spec => ResumedStays
  <1>1. IInv /\ [Next]_vars
          => [\A p \in Parts : Live(p) /\ conn[p] # Nobody /\ p \notin roster'[callOf[p]]
                 => removal[p]["asked"] # "no"]_vars
    BY StepLetsStay
  <1> QED
    BY <1>1, InvariantHolds, PTL DEF Spec, ResumedStays

-----------------------------------------------------------------------------
(* CallMedia: what everything is.                                          *)

\* What the participant's records hold: frames to the api, outcomes, the client's and the api's state.
Asked  == {"resume", "publish", "media", "answer"}
Frame  == [ask: Asked, n: Nat, offer: Offer]
Result == [ask: Asked, n: Nat, res: {"ok", "unknown", "timeout", "stale", "refused"}]
Subscribing == [latest: Offer, applying: Offer, retained: Offer, acked: Nat, applied: Offer]
Publishing  == [state: {"idle", "offering", "awaiting", "applying", "stable", "restart"},
                seq: Nat, again: BOOLEAN, unsent: BOOLEAN]
Muting     == [has: Nat, flight: Nat, queued: Nat, dirty: BOOLEAN, reannounce: BOOLEAN]
Subscriber == [handle: Nat, streams: SUBSET Streams, version: Nat, pending: Offer, dirty: BOOLEAN]
Reconciling == [ask: {"no", "join", "update"}, streams: SUBSET Streams]
Handles    == [handle: Nat, streams: SUBSET Streams, offer: SUBSET Streams, answered: BOOLEAN, putOff: BOOLEAN]

\* MediaTypeOK part by part, with what is on its way.
WireTyped ==
  /\ gen \in Nat /\ gen # 0 /\ up \in BOOLEAN /\ ready \in BOOLEAN /\ waiting \subseteq Asked \ {"answer"}
  /\ inbox \in Seq(Seq(Frame)) /\ Len(inbox) = gen
AnswersTyped == answering \in Seq(Offer) /\ Len(answering) = gen
InputTyped == events \in Seq(Offer) /\ replies \subseteq Result /\ changed \in BOOLEAN
ClientTyped ==
  /\ link \in [gen: Nat, connected: BOOLEAN, resuming: BOOLEAN] /\ sub \in Subscribing /\ media \in Muting
  /\ pub \in Publishing /\ offered \in Nat /\ engine \in Nat /\ ended \in {"no", "refused", "timeout", "replaced"}
ApiTyped ==
  /\ mediaConn \in 0..gen /\ wanted \in BOOLEAN /\ desired \subseteq Streams /\ published \in Nat /\ intent \in Nat
  /\ task \in Reconciling /\ srv \in Subscriber
SfuTyped == sfu \in Handles /\ noticed \subseteq Offer /\ gaveUp \in BOOLEAN
BudgetTyped == budget \in [Outside -> Nat]
Typed == BudgetTyped /\ WireTyped /\ AnswersTyped /\ InputTyped /\ ClientTyped /\ ApiTyped /\ SfuTyped

\* The handle in use is the SFU's; while the lock's holder works nothing is due, and it joins exactly
\* when there is no handle; an offer noticed is of the handle in use, unanswered, and nothing is due.
HandleIsSfus == srv.handle # 0 => srv.handle = sfu.handle
LockIsIdle == task.ask # "no" => srv.pending = None /\ (task.ask = "join" <=> srv.handle = 0)
NoticesFit == \A o \in noticed :
  /\ srv.handle # 0 /\ o.handle = srv.handle /\ srv.pending = None
  /\ ~sfu.answered /\ sfu.offer = o.streams /\ o.version = 0
OfferInv == HandleIsSfus /\ LockIsIdle /\ NoticesFit /\ PendingFits

-----------------------------------------------------------------------------
(* What is written, replied and sent.                                      *)

\* The parts together are the type invariant.
LEMMA TypedIs == Typed => MediaTypeOK
<1> SUFFICES ASSUME Typed PROVE MediaTypeOK
  OBVIOUS
<1>1. DOMAIN inbox = DOMAIN answering
  BY DEF Typed, WireTyped, AnswersTyped
<1> QED BY <1>1 DEF Typed, BudgetTyped, WireTyped, InputTyped, ClientTyped, ApiTyped, SfuTyped, MediaTypeOK, Asked,
              Subscribing, Publishing, Muting, Subscriber, Reconciling, Handles

\* No offer has the form of one.
LEMMA NoneIsOffer == None \in Offer
  BY DEF None, Offer

\* It holds when the participant has joined.
LEMMA InitTyped == MediaInit => Typed
<1> SUFFICES ASSUME MediaInit PROVE Typed
  OBVIOUS
<1>1. WireTyped
  <2>1. <<>> \in Seq(Frame)
    OBVIOUS
  <2>2. <<<<>>>> \in Seq(Seq(Frame)) /\ Len(<<<<>>>>) = 1
    BY <2>1
  <2> QED BY <2>2 DEF MediaInit, WireTyped
<1>5. AnswersTyped
  BY NoneIsOffer DEF MediaInit, AnswersTyped
<1>2. ClientTyped
  BY NoneIsOffer DEF MediaInit, ClientTyped, Subscribing, Muting, Publishing
<1>3. ApiTyped
  <2>0. mediaConn = 1 /\ gen = 1 /\ wanted = FALSE /\ desired = {} /\ published = 0 /\ intent = 0
    BY DEF MediaInit
  <2>1. /\ task = [ask |-> "no", streams |-> {}]
        /\ srv = [handle |-> 0, streams |-> {}, version |-> 0, pending |-> None, dirty |-> FALSE]
    BY DEF MediaInit
  <2>2. task \in Reconciling /\ srv \in Subscriber
    BY <2>1, NoneIsOffer DEF Subscriber, Reconciling
  <2>3. mediaConn \in 0..gen
    BY <2>0
  <2>4. wanted \in BOOLEAN /\ desired \subseteq Streams
    BY <2>0
  <2>5. published \in Nat /\ intent \in Nat
    BY <2>0
  <2> QED BY <2>2, <2>3, <2>4, <2>5 DEF ApiTyped
<1>6. SfuTyped
  BY DEF MediaInit, SfuTyped, Handles
<1>7. InputTyped
  <2>1. events = <<>> /\ replies = {} /\ changed = FALSE
    BY DEF MediaInit
  <2>2. <<>> \in Seq(Offer)
    OBVIOUS
  <2> QED BY <2>1, <2>2 DEF InputTyped
<1>4. BudgetTyped
  BY BudgetsAssumption DEF MediaInit, BudgetTyped
<1> QED BY <1>1, <1>2, <1>3, <1>4, <1>5, <1>6, <1>7 DEF Typed

\* What stays has its type still.
LEMMA TypesStay ==
  ASSUME Typed
  PROVE  /\ UNCHANGED budget => BudgetTyped'
         /\ UNCHANGED wireVars => WireTyped'
         /\ UNCHANGED <<gen, answering>> => AnswersTyped'
         /\ UNCHANGED inputVars => InputTyped'
         /\ UNCHANGED clientVars => ClientTyped'
         /\ UNCHANGED <<gen, mediaConn, wanted, desired, task, srv, published, intent>> => ApiTyped'
         /\ UNCHANGED sfuVars => SfuTyped'
  BY DEF Typed, BudgetTyped, WireTyped, AnswersTyped, InputTyped, ClientTyped, ApiTyped, SfuTyped,
         wireVars, inputVars, clientVars, sfuVars

\* A budget that is spent stays a budget.
LEMMA SpendTypes ==
  ASSUME BudgetTyped, NEW w \in Outside, Spend(w)
  PROVE  BudgetTyped'
  BY DEF Spend, BudgetTyped

\* What is written are frames.
LEMMA FramesAre ==
  ASSUME NEW n \in Nat, NEW s \in Nat, NEW o \in Offer
  PROVE  /\ PublishOf(n, s) \in Frame /\ MediaOf(n) \in Frame /\ AnswerTo(o) \in Frame
         /\ PublishOf(n, s).ask = "publish" /\ MediaOf(n).ask = "media" /\ AnswerTo(o).ask = "answer"
  BY NoneIsOffer DEF PublishOf, MediaOf, AnswerTo, Asks, Frame, Asked, Offer

\* So is a resume.
LEMMA ResumeIsFrame == gen \in Nat => ResumeCall \in Frame
  BY NoneIsOffer DEF ResumeCall, Asks, Frame, Asked

\* Frames go behind those of the last socket.
LEMMA WritesCarries ==
  ASSUME WireTyped, NEW frames \in Seq(Frame), Writes(frames), UNCHANGED <<gen, up, ready>>
  PROVE  WireTyped'
<1>1. gen \in 1..Len(inbox) /\ inbox \in Seq(Seq(Frame)) /\ Len(inbox) = gen
  BY DEF WireTyped
<1>2. inbox[gen] \in Seq(Frame)
  BY <1>1
<1>3. inbox[gen] \o frames \in Seq(Frame)
  BY <1>2
<1>4. inbox' \in Seq(Seq(Frame)) /\ Len(inbox') = gen
  BY <1>1, <1>3 DEF Writes
<1>5. waiting' \subseteq Asked \ {"answer"}
  <2>1. \A i \in DOMAIN frames : frames[i] \in Frame
    OBVIOUS
  <2>2. \A i \in DOMAIN frames : frames[i].ask \in Asked
    BY <2>1 DEF Frame
  <2>3. waiting \subseteq Asked \ {"answer"}
    BY DEF WireTyped
  <2> QED BY <2>2, <2>3 DEF Writes
<1> QED BY <1>4, <1>5 DEF WireTyped

\* What can't be written changes nothing.
LEMMA WritesNothingCarries ==
  ASSUME WireTyped, WritesNothing, UNCHANGED <<gen, up, ready>>
  PROVE  WireTyped'
  BY DEF WireTyped, WritesNothing

\* An answer to an offer is written, or waits for the resume.
LEMMA AnswersCarry ==
  ASSUME WireTyped, NEW o \in Offer, Answers(o), UNCHANGED <<gen, up, ready>>
  PROVE  WireTyped'
<1>1. <<AnswerTo(o)>> \in Seq(Frame)
  <2>1. AnswerTo(o) \in Frame
    BY FramesAre
  <2> QED BY <2>1
<1> QED BY <1>1, WritesCarries, WritesNothingCarries DEF Answers

\* The api takes the first frame of a socket.
LEMMA TakenCarries ==
  ASSUME WireTyped, NEW g \in 1..gen, Next1(g), Taken(g)
  PROVE  /\ inbox' \in Seq(Seq(Frame)) /\ Len(inbox') = gen
         /\ Head(inbox[g]) \in Frame
<1>1. g \in 1..Len(inbox) /\ inbox \in Seq(Seq(Frame)) /\ Len(inbox) = gen
  BY DEF WireTyped
<1>2. inbox[g] \in Seq(Frame) /\ inbox[g] # <<>>
  BY <1>1 DEF Next1
<1>3. Head(inbox[g]) \in Frame /\ Tail(inbox[g]) \in Seq(Frame)
  BY <1>2
<1> QED BY <1>1, <1>3 DEF Taken

\* A reply is an outcome, and one request waits no more.
LEMMA ReplyCarries ==
  ASSUME WireTyped, InputTyped, NEW g, NEW r \in Result, Reply(g, r)
  PROVE  replies' \subseteq Result /\ waiting' \subseteq Asked \ {"answer"}
<1>1. replies \subseteq Result /\ waiting \subseteq Asked \ {"answer"}
  BY DEF WireTyped, InputTyped
<1> QED BY <1>1 DEF Reply

\* What the api sends to the participant is an offer.
LEMMA SentCarries ==
  ASSUME events \in Seq(Offer), NEW g, NEW o \in Offer, SentOn(g, o)
  PROVE  events' \in Seq(Offer)
  BY DEF SentOn

\* Outcomes are outcomes.
LEMMA OutcomesAre ==
  ASSUME NEW a \in Asked, NEW n \in Nat, NEW res \in {"ok", "unknown", "timeout", "stale", "refused"}
  PROVE  Outcome(a, n, res) \in Result
  BY DEF Outcome, Result

\* The engine is given the latest offer.
LEMMA ApplyNextTypes ==
  ASSUME NEW s \in Subscribing
  PROVE  ApplyNext(s) \in Subscribing
  BY NoneIsOffer DEF ApplyNext, Subscribing

\* The states of a publish.
LEMMA PubTypes ==
  ASSUME NEW p \in Publishing, NEW b \in BOOLEAN,
         NEW st \in {"idle", "offering", "awaiting", "applying", "stable", "restart"}
  PROVE  /\ [p EXCEPT !.state = st] \in Publishing /\ [p EXCEPT !.again = TRUE] \in Publishing
         /\ [p EXCEPT !.state = st, !.seq = @ + 1] \in Publishing
         /\ [p EXCEPT !.state = st, !.unsent = b] \in Publishing
         /\ [state |-> st, seq |-> p.seq + 1, again |-> FALSE, unsent |-> FALSE] \in Publishing
<1> DEFINE States == {"idle", "offering", "awaiting", "applying", "stable", "restart"}
<1>1. st \in States /\ Publishing = [state: States, seq: Nat, again: BOOLEAN, unsent: BOOLEAN]
  BY DEF Publishing
<1> HIDE DEF States
<1>2. [p EXCEPT !.state = st] \in Publishing /\ [p EXCEPT !.again = TRUE] \in Publishing
  BY <1>1
<1>3. [p EXCEPT !.state = st, !.seq = @ + 1] \in Publishing
  <2>1. p.seq + 1 \in Nat
    BY <1>1
  <2>2. [p EXCEPT !.state = st, !.seq = p.seq + 1] \in Publishing
    BY <1>1, <2>1
  <2> QED BY <2>2
<1>4. [p EXCEPT !.state = st, !.unsent = b] \in Publishing
  BY <1>1
<1>5. [state |-> st, seq |-> p.seq + 1, again |-> FALSE, unsent |-> FALSE] \in Publishing
  <2>1. p.seq + 1 \in Nat
    BY <1>1
  <2> QED BY <1>1, <2>1
<1> QED BY <1>2, <1>3, <1>4, <1>5

\* The states of a mute.
LEMMA MediaTypes ==
  ASSUME NEW m \in Muting, NEW i \in Nat, NEW connected \in BOOLEAN, NEW can \in BOOLEAN
  PROVE  SendMedia(m, i, can) \in Muting /\ Flushed(m, connected, can) \in Muting
  BY DEF SendMedia, Flushed, Muting

\* At most one call.media goes out.
LEMMA MediaFramesAre ==
  ASSUME NEW was \in Muting, NEW m \in Muting
  PROVE  MediaFrames(was, m) \in Seq(Frame)
<1>1. MediaOf(m.flight) \in Frame
  BY FramesAre, NoneIsOffer, 0 \in Nat DEF Muting
<1> QED BY <1>1 DEF MediaFrames

\* Whether the client may write is a question of the link.
LEMMA CanSendIs == Typed => CanSend \in BOOLEAN /\ link.connected \in BOOLEAN
  BY DEF Typed, WireTyped, ClientTyped, CanSend

-----------------------------------------------------------------------------
(* Types: one lemma for each group of actions.                             *)

\* A socket is cut, noticed as cut, made anew, or a request times out.
LEMMA SocketSteps ==
  ASSUME Typed, CutLink \/ NoticeCut \/ Reconnect \/ (\E a \in waiting : TimeOut(a))
  PROVE  Typed'
<1> USE TypesStay
<1>1. CASE CutLink
  <2>1. WireTyped'
    BY <1>1 DEF CutLink, Typed, WireTyped
  <2> QED BY <1>1, <2>1, SpendTypes DEF CutLink, Outside, Typed, serverVars
<1>2. CASE NoticeCut
  <2>1. \A a \in waiting : Outcome(a, IF a = "resume" THEN gen ELSE pub.seq, "unknown") \in Result
    BY OutcomesAre DEF Typed, WireTyped, ClientTyped, Publishing
  <2>2. InputTyped'
    BY <1>2, <2>1 DEF NoticeCut, Typed, InputTyped
  <2>3. WireTyped'
    BY <1>2 DEF NoticeCut, Typed, WireTyped
  <2> QED BY <1>2, <2>2, <2>3 DEF NoticeCut, Typed, serverVars
<1>3. CASE Reconnect
  <2>1. gen' = gen + 1 /\ gen \in Nat
    BY <1>3 DEF Reconnect, NewSocket, Typed, WireTyped
  <2>2. inbox' \in Seq(Seq(Frame)) /\ Len(inbox') = gen'
    BY <1>3, <2>1, <<>> \in Seq(Frame) DEF Reconnect, NewSocket, Typed, WireTyped
  <2>3. AnswersTyped'
    BY <1>3, <2>1, NoneIsOffer DEF Reconnect, NewSocket, Typed, AnswersTyped
  <2>4. WireTyped'
    BY <1>3, <2>1, <2>2 DEF Reconnect, NewSocket, Typed, WireTyped
  <2>5. ApiTyped'
    BY <1>3, <2>1 DEF Reconnect, Typed, ApiTyped
  <2>6. InputTyped'
    BY <1>3 DEF Reconnect, NewSocket, Typed, InputTyped
  <2> QED BY <1>3, <2>3, <2>4, <2>5, <2>6 DEF Reconnect, Typed
<1>4. ASSUME NEW a \in waiting, TimeOut(a) PROVE Typed'
  <2>1. Outcome(a, IF a = "resume" THEN gen ELSE pub.seq, "timeout") \in Result
    BY OutcomesAre DEF Typed, WireTyped, ClientTyped, Publishing
  <2>2. InputTyped'
    BY <1>4, <2>1 DEF TimeOut, Typed, InputTyped
  <2>3. WireTyped'
    BY <1>4 DEF TimeOut, Typed, WireTyped
  <2> QED BY <1>4, <2>2, <2>3 DEF TimeOut, Typed, serverVars
<1> QED BY <1>1, <1>2, <1>3, <1>4

\* An offer comes, is applied, is answered.
LEMMA OfferSteps ==
  ASSUME Typed, OnOffer \/ SubscribeApplied \/ (\E r \in replies : SubscribeAck(r))
  PROVE  Typed'
<1> USE TypesStay
<1>0. sub \in Subscribing /\ WireTyped
  BY DEF Typed, ClientTyped
<1>1. CASE OnOffer
  <2>1. Head(events) \in Offer /\ Tail(events) \in Seq(Offer)
    BY <1>1 DEF OnOffer, Typed, InputTyped
  <2>2. sub' \in Subscribing
    <3>1. [sub EXCEPT !.latest = Head(events)] \in Subscribing
      BY <1>0, <2>1 DEF Subscribing
    <3> QED BY <1>0, <1>1, <3>1, ApplyNextTypes DEF OnOffer
  <2>3. WireTyped'
    <3>1. sub.retained \in Offer
      BY <1>0 DEF Subscribing
    <3> QED BY <1>0, <1>1, <3>1, AnswersCarry, WritesNothingCarries DEF OnOffer
  <2>4. ClientTyped'
    BY <1>1, <2>2 DEF OnOffer, Typed, ClientTyped
  <2>5. InputTyped'
    BY <1>1, <2>1 DEF OnOffer, Typed, InputTyped
  <2> QED BY <1>1, <2>3, <2>4, <2>5 DEF OnOffer, Typed, serverVars
<1>2. CASE SubscribeApplied
  <2> DEFINE s == [sub EXCEPT !.applied = sub.applying, !.applying = None]
  <2>1. s \in Subscribing
    BY <1>0, NoneIsOffer DEF Subscribing
  <2>2. sub' \in Subscribing
    <3>1. [s EXCEPT !.retained = s.applied] \in Subscribing
      BY <2>1 DEF Subscribing
    <3> QED BY <1>2, <2>1, <3>1, ApplyNextTypes DEF SubscribeApplied
  <2>3. WireTyped'
    <3>1. s.applied \in Offer
      BY <2>1 DEF Subscribing
    <3> QED BY <1>0, <1>2, <3>1, AnswersCarry, WritesNothingCarries DEF SubscribeApplied
  <2>4. ClientTyped'
    BY <1>2, <2>2 DEF SubscribeApplied, Typed, ClientTyped
  <2> QED BY <1>2, <2>3, <2>4 DEF SubscribeApplied, Typed, serverVars
<1>3. ASSUME NEW r \in replies, SubscribeAck(r) PROVE Typed'
  <2>1. r.n \in Nat
    BY DEF Typed, InputTyped, Result
  <2>2. sub' \in Subscribing
    <3>1. Larger(sub.acked, r.n) \in Nat
      BY <1>0, <2>1 DEF Larger, Subscribing
    <3>2. \A n \in Nat, o \in Offer : [sub EXCEPT !.acked = n, !.retained = o] \in Subscribing
                                      /\ [sub EXCEPT !.retained = o] \in Subscribing
      BY <1>0 DEF Subscribing
    <3>3. sub.retained \in Offer
      BY <1>0 DEF Subscribing
    <3> QED BY <1>0, <1>3, <3>1, <3>2, <3>3, NoneIsOffer DEF SubscribeAck
  <2>3. ended' \in {"no", "refused", "timeout", "replaced"}
    BY <1>3 DEF SubscribeAck, Typed, ClientTyped
  <2>4. InputTyped'
    BY <1>3 DEF SubscribeAck, Typed, InputTyped
  <2>5. ClientTyped'
    BY <1>3, <2>2, <2>3 DEF SubscribeAck, Typed, ClientTyped
  <2> QED BY <1>3, <2>4, <2>5 DEF SubscribeAck, Typed, serverVars, wireVars
<1> QED BY <1>1, <1>2, <1>3

\* A publish is sent, answered, applied, begun anew.
LEMMA PublishSteps ==
  ASSUME Typed, SendPublish \/ PublishApplied \/ Republish \/ (\E r \in replies : PublishReply(r))
  PROVE  Typed'
<1> USE TypesStay
<1>0. pub \in Publishing /\ media \in Muting /\ WireTyped /\ offered \in Nat /\ engine \in Nat /\ pub.seq \in Nat
  BY DEF Typed, ClientTyped, Publishing
<1>1. CASE SendPublish
  <2>1. <<PublishOf(offered, pub.seq)>> \in Seq(Frame)
    <3>1. PublishOf(offered, pub.seq) \in Frame
      BY <1>0, FramesAre, NoneIsOffer
    <3> QED BY <3>1
  <2>2. WireTyped'
    BY <1>0, <1>1, <2>1, WritesCarries, WritesNothingCarries DEF SendPublish
  <2>3. pub' \in Publishing
    BY <1>0, <1>1 DEF SendPublish, Publishing
  <2>4. ClientTyped'
    BY <1>1, <2>3 DEF SendPublish, Typed, ClientTyped
  <2> QED BY <1>1, <2>2, <2>4 DEF SendPublish, Typed, serverVars
<1>2. CASE PublishApplied
  <2> DEFINE m == Flushed([media EXCEPT !.reannounce = @ \/ media.has # 0], link.connected, CanSend)
  <2>1. m \in Muting
    <3>1. [media EXCEPT !.reannounce = @ \/ media.has # 0] \in Muting
      BY <1>0 DEF Muting
    <3> QED BY <3>1, MediaTypes, CanSendIs, 0 \in Nat
  <2>2. WireTyped'
    <3>1. MediaFrames(media, m) \in Seq(Frame)
      BY <1>0, <2>1, MediaFramesAre
    <3> HIDE DEF m
    <3> QED BY <1>0, <1>2, <3>1, WritesCarries DEF PublishApplied, m
  <2>3. pub' \in Publishing /\ offered' \in Nat
    BY <1>0, <1>2, PubTypes DEF PublishApplied, NewOffer
  <2>4. ClientTyped'
    <3>1. media' \in Muting
      BY <1>2, <2>1 DEF PublishApplied
    <3> QED BY <1>2, <2>3, <3>1 DEF PublishApplied, Typed, ClientTyped
  <2> QED BY <1>2, <2>2, <2>4 DEF PublishApplied, Typed, serverVars
<1>3. CASE Republish
  <2>1. pub' \in Publishing /\ offered' \in Nat /\ engine' \in Nat
    <3>1. [pub EXCEPT !.state = "offering", !.seq = @ + 1] \in Publishing /\ [pub EXCEPT !.again = TRUE] \in Publishing
      BY <1>0, PubTypes
    <3>2. engine' = engine + 1 /\ (offered' = engine + 1 \/ offered' = offered)
      BY <1>3 DEF Republish
    <3>3. pub' \in Publishing
      BY <1>3, <3>1 DEF Republish
    <3> QED BY <1>0, <3>2, <3>3
  <2>2. ClientTyped'
    BY <1>3, <2>1 DEF Republish, Typed, ClientTyped
  <2>3. BudgetTyped'
    BY <1>3, SpendTypes DEF Republish, Outside, Typed
  <2> QED BY <1>3, <2>2, <2>3 DEF Republish, Typed, serverVars, wireVars
<1>4. ASSUME NEW r \in replies, PublishReply(r) PROVE Typed'
  <2>1. pub' \in Publishing
    BY <1>0, <1>4 DEF PublishReply, Publishing
  <2>2. ended' \in {"no", "refused", "timeout", "replaced"}
    BY <1>4 DEF PublishReply, Typed, ClientTyped
  <2>3. InputTyped'
    BY <1>4 DEF PublishReply, Typed, InputTyped
  <2>4. ClientTyped'
    BY <1>4, <2>1, <2>2 DEF PublishReply, Typed, ClientTyped
  <2> QED BY <1>4, <2>3, <2>4 DEF PublishReply, Typed, serverVars, wireVars
<1> QED BY <1>1, <1>2, <1>3, <1>4

\* A mute is asked for, and acknowledged.
LEMMA MuteSteps ==
  ASSUME Typed, SetMedia \/ (\E r \in replies : MediaAck(r))
  PROVE  Typed'
<1> USE TypesStay
<1>0. media \in Muting /\ WireTyped
  BY DEF Typed, ClientTyped
<1>1. CASE SetMedia
  <2> DEFINE i == 1 + Larger(media.has, media.queued)
             m == SendMedia(media, i, CanSend)
  <2>1. i \in Nat
    BY <1>0 DEF Larger, Muting
  <2>2. m \in Muting /\ [media EXCEPT !.queued = i] \in Muting
    <3>1. [media EXCEPT !.queued = i] \in Muting
      BY <1>0, <2>1 DEF Muting
    <3> HIDE DEF i
    <3> QED BY <1>0, <2>1, <3>1, MediaTypes, CanSendIs
  <2>3. WireTyped'
    <3>1. MediaFrames(media, m) \in Seq(Frame)
      BY <1>0, <2>2, MediaFramesAre
    <3> QED BY <1>0, <1>1, <3>1, WritesCarries, WritesNothingCarries DEF SetMedia
  <2>4. ClientTyped'
    <3>1. media' \in Muting
      BY <1>1, <2>2 DEF SetMedia
    <3> QED BY <1>1, <3>1 DEF SetMedia, Typed, ClientTyped
  <2>5. BudgetTyped'
    BY <1>1, SpendTypes DEF SetMedia, Outside, Typed
  <2> QED BY <1>1, <2>3, <2>4, <2>5 DEF SetMedia, Typed, serverVars
<1>2. ASSUME NEW r \in replies, MediaAck(r) PROVE Typed'
  <2> DEFINE q == [media EXCEPT !.flight = 0, !.queued = 0, !.dirty = @ \/ r.res # "ok"]
             t == IF media.queued # 0 THEN SendMedia(q, media.queued, CanSend) ELSE q
             m == Flushed(t, link.connected, CanSend)
  <2>1. q \in Muting /\ media.queued \in Nat
    BY <1>0 DEF Muting
  <2>2. t \in Muting
    BY <2>1, MediaTypes, CanSendIs
  <2>3. m \in Muting
    <3> HIDE DEF t
    <3> QED BY <2>2, MediaTypes, CanSendIs, 0 \in Nat
  <2>4. WireTyped'
    <3>1. MediaFrames(q, m) \in Seq(Frame)
      <4> HIDE DEF q, m
      <4> QED BY <2>1, <2>3, MediaFramesAre
    <3>2. Writes(MediaFrames(q, m)) /\ UNCHANGED <<gen, up, ready>>
      BY <1>2 DEF MediaAck
    <3> HIDE DEF q, m
    <3> QED BY <1>0, <3>1, <3>2, WritesCarries
  <2>5. media' = m
    BY <1>2 DEF MediaAck
  <2>6. ClientTyped'
    <3> HIDE DEF m
    <3> QED BY <1>2, <2>3, <2>5 DEF MediaAck, Typed, ClientTyped
  <2>7. InputTyped'
    BY <1>2 DEF MediaAck, Typed, InputTyped
  <2> QED BY <1>2, <2>4, <2>6, <2>7 DEF MediaAck, Typed, serverVars
<1> QED BY <1>1, <1>2

\* The client looks at its connection.
LEMMA SeeingTypes ==
  ASSUME Typed, NEW l \in [gen: Nat, connected: BOOLEAN, resuming: BOOLEAN], SeeConnection(l),
         UNCHANGED <<gen, up, ready>>
  PROVE  WireTyped' /\ link' \in [gen: Nat, connected: BOOLEAN, resuming: BOOLEAN]
<1>1. WireTyped /\ gen \in Nat /\ ready \in BOOLEAN
  BY DEF Typed, WireTyped
<1>2. <<ResumeCall>> \in Seq(Frame)
  <2>1. ResumeCall \in Frame
    BY <1>1, ResumeIsFrame
  <2> QED BY <2>1
<1>3. WireTyped'
  BY <1>1, <1>2, WritesCarries, WritesNothingCarries DEF SeeConnection
<1> QED BY <1>1, <1>3 DEF SeeConnection, Seen

\* The connection changes, a resume is lost or done.
LEMMA ResumeSteps ==
  ASSUME Typed, OnConn \/ (\E r \in replies : ResumeLost(r) \/ AfterResume(r))
  PROVE  Typed'
<1> USE TypesStay
<1>0. /\ media \in Muting /\ WireTyped /\ pub \in Publishing /\ sub \in Subscribing /\ offered \in Nat /\ engine \in Nat
      /\ link \in [gen: Nat, connected: BOOLEAN, resuming: BOOLEAN]
  BY DEF Typed, ClientTyped
<1>1. CASE OnConn
  <2>1. WireTyped' /\ link' \in [gen: Nat, connected: BOOLEAN, resuming: BOOLEAN]
    BY <1>0, <1>1, SeeingTypes DEF OnConn
  <2>2. ClientTyped'
    BY <1>1, <2>1 DEF OnConn, Typed, ClientTyped
  <2>3. InputTyped'
    BY <1>1 DEF OnConn, Typed, InputTyped
  <2> QED BY <1>1, <2>1, <2>2, <2>3 DEF OnConn, Typed, serverVars
<1>2. ASSUME NEW r \in replies, ResumeLost(r) PROVE Typed'
  <2>1. WireTyped' /\ link' \in [gen: Nat, connected: BOOLEAN, resuming: BOOLEAN]
    <3>1. [link EXCEPT !.resuming = FALSE] \in [gen: Nat, connected: BOOLEAN, resuming: BOOLEAN]
      BY <1>0
    <3> QED BY <3>1, <1>2, SeeingTypes DEF ResumeLost
  <2>2. ClientTyped'
    BY <1>2, <2>1 DEF ResumeLost, Typed, ClientTyped
  <2>3. InputTyped'
    BY <1>2 DEF ResumeLost, Typed, InputTyped
  <2> QED BY <1>2, <2>1, <2>2, <2>3 DEF ResumeLost, Typed, serverVars
<1>3. ASSUME NEW r \in replies, AfterResume(r) PROVE Typed'
  <2> DEFINE can == ready /\ r.n = gen
             m1 == IF media.dirty /\ media.flight = 0
                   THEN IF media.has = 0 THEN [media EXCEPT !.dirty = FALSE]
                        ELSE SendMedia([media EXCEPT !.dirty = FALSE], media.has, can)
                   ELSE media
             m == Flushed(m1, TRUE, can)
             sends == pub.state = "offering" /\ pub.unsent
             frames == (IF sends THEN <<PublishOf(offered, pub.seq)>> ELSE <<>>)
                        \o (IF sub.retained # None THEN <<AnswerTo(sub.retained)>> ELSE <<>>)
                        \o MediaFrames(media, m)
  <2>1. can \in BOOLEAN /\ r.n \in Nat
    BY <1>0 DEF WireTyped, Typed, InputTyped, Result
  <2>2. m \in Muting
    <3>1. [media EXCEPT !.dirty = FALSE] \in Muting /\ media.has \in Nat
      BY <1>0 DEF Muting
    <3>2. m1 \in Muting
      <4> HIDE DEF can
      <4> QED BY <1>0, <2>1, <3>1, MediaTypes
    <3> HIDE DEF m1, can
    <3> QED BY <2>1, <3>2, MediaTypes, 0 \in Nat
  <2>3. media' = m
    BY <1>3 DEF AfterResume
  <2>4. WireTyped'
    <3>1. PublishOf(offered, pub.seq) \in Frame /\ AnswerTo(sub.retained) \in Frame
      <4>1. pub.seq \in Nat /\ sub.retained \in Offer
        BY <1>0 DEF Publishing, Subscribing
      <4> QED BY <1>0, <4>1, FramesAre
    <3>2. MediaFrames(media, m) \in Seq(Frame)
      <4> HIDE DEF m
      <4> QED BY <1>0, <2>2, MediaFramesAre
    <3>3. frames \in Seq(Frame)
      <4> DEFINE a == IF sends THEN <<PublishOf(offered, pub.seq)>> ELSE <<>>
                 b == IF sub.retained # None THEN <<AnswerTo(sub.retained)>> ELSE <<>>
                 f == MediaFrames(media, m)
      <4>1. a \in Seq(Frame) /\ b \in Seq(Frame)
        BY <3>1
      <4>2. f \in Seq(Frame)
        BY <3>2
      <4>3. frames = a \o b \o f
        OBVIOUS
      <4> HIDE DEF a, b, f, frames
      <4> QED BY <4>1, <4>2, <4>3
    <3>4. (can /\ Writes(frames)) \/ WritesNothing
      BY <1>3 DEF AfterResume
    <3>5. UNCHANGED <<gen, up, ready>>
      BY <1>3 DEF AfterResume
    <3> HIDE DEF frames, can
    <3> QED BY <1>0, <3>3, <3>4, <3>5, WritesCarries, WritesNothingCarries
  <2>5. pub' \in Publishing /\ offered' \in Nat
    <3>1. \/ NewOffer
          \/ pub' = [pub EXCEPT !.state = IF can THEN "awaiting" ELSE @, !.unsent = ~can] /\ UNCHANGED offered
          \/ UNCHANGED <<pub, offered>>
      BY <1>3 DEF AfterResume
    <3>2. pub.state \in {"idle", "offering", "awaiting", "applying", "stable", "restart"}
      BY <1>0 DEF Publishing
    <3> HIDE DEF can
    <3>3. /\ \A b \in BOOLEAN : [pub EXCEPT !.state = "awaiting", !.unsent = b] \in Publishing
          /\ [pub EXCEPT !.unsent = TRUE] \in Publishing
          /\ [state |-> "offering", seq |-> pub.seq + 1, again |-> FALSE, unsent |-> FALSE] \in Publishing
      <4>1. [pub EXCEPT !.unsent = TRUE] \in Publishing
        BY <1>0 DEF Publishing
      <4> QED BY <1>0, <4>1, PubTypes
    <3>4. [pub EXCEPT !.state = IF can THEN "awaiting" ELSE @, !.unsent = ~can] \in Publishing
      <4>1. CASE can
        BY <2>1, <3>3, <4>1
      <4>2. CASE ~can
        <5>1. [pub EXCEPT !.state = IF can THEN "awaiting" ELSE @, !.unsent = ~can] = [pub EXCEPT !.unsent = TRUE]
          BY <1>0, <4>2 DEF Publishing
        <5> QED BY <5>1, <3>3
      <4> QED BY <4>1, <4>2
    <3> QED BY <1>0, <3>1, <3>3, <3>4 DEF NewOffer
  <2>6. link' \in [gen: Nat, connected: BOOLEAN, resuming: BOOLEAN]
    BY <1>3, <2>1 DEF AfterResume
  <2>7. ClientTyped'
    <3>1. UNCHANGED <<sub, engine, ended>>
      BY <1>3 DEF AfterResume
    <3> HIDE DEF m
    <3> QED BY <2>2, <2>3, <2>5, <2>6, <3>1 DEF Typed, ClientTyped
  <2>8. InputTyped'
    BY <1>3 DEF AfterResume, Typed, InputTyped
  <2>9. UNCHANGED <<budget, gen, serverVars, sfuVars>>
    BY <1>3 DEF AfterResume
  <2> QED BY <2>4, <2>7, <2>8, <2>9 DEF Typed, serverVars
<1> QED BY <1>1, <1>2, <1>3

-----------------------------------------------------------------------------
(* The api's steps.                                                        *)

\* A command of socket g is taken and replied to.
LEMMA TakenTypes ==
  ASSUME Typed, NEW g \in 1..gen, Next1(g), Taken(g), NEW r \in Result, Reply(g, r), UNCHANGED <<gen, up, ready>>
  PROVE  WireTyped' /\ replies' \subseteq Result
  BY TakenCarries, ReplyCarries DEF Typed, WireTyped

\* The api handles a socket's command.
LEMMA CommandSteps ==
  ASSUME Typed, NEW g \in 1..gen,
         HandleResume(g) \/ HandleStranger(g) \/ HandlePublish(g) \/ HandleMedia(g) \/ HandleAnswer(g)
  PROVE  Typed'
<1> USE TypesStay
<1> DEFINE f == Head(inbox[g])
<1>0. g \in Nat /\ gen \in Nat /\ WireTyped /\ srv.pending \in Offer /\ events \in Seq(Offer)
  BY DEF Typed, WireTyped, ApiTyped, Subscriber, InputTyped
<1>f. /\ f \in Frame /\ f.n \in Nat /\ f.offer \in Offer /\ f.ask \in Asked /\ f.offer.version \in Nat
      /\ Next1(g) /\ Taken(g)
  <2>1. Next1(g) /\ Taken(g)
    BY DEF HandleResume, HandleStranger, HandlePublish, HandleMedia, HandleAnswer
  <2>2. f \in Frame
    BY <1>0, <2>1, TakenCarries
  <2> QED BY <2>1, <2>2 DEF Frame, Offer
<1>1. CASE HandleResume(g)
  <2>1. Outcome("resume", g, "ok") \in Result
    BY <1>0, OutcomesAre DEF Asked
  <2>2. WireTyped' /\ replies' \subseteq Result
    BY <1>1, <1>f, <2>1, TakenTypes DEF HandleResume
  <2>3. events' \in Seq(Offer)
    BY <1>0, <1>1, SentCarries DEF HandleResume
  <2>4. InputTyped'
    BY <1>1, <2>2, <2>3 DEF HandleResume, Typed, InputTyped
  <2>5. ClientTyped'
    BY <1>1 DEF HandleResume, Typed, ClientTyped
  <2>6. ApiTyped'
    BY <1>1 DEF HandleResume, Typed, ApiTyped
  <2> QED BY <1>1, <2>2, <2>4, <2>5, <2>6 DEF HandleResume, Typed
<1>2. CASE HandleStranger(g)
  <2>1. Outcome(f.ask, f.offer.version, "refused") \in Result
    BY <1>f, OutcomesAre
  <2>2. WireTyped' /\ replies' \subseteq Result
    BY <1>2, <1>f, <2>1, TakenTypes DEF HandleStranger
  <2>3. InputTyped'
    BY <1>2, <2>2 DEF HandleStranger, Typed, InputTyped
  <2> QED BY <1>2, <2>2, <2>3 DEF HandleStranger, Typed, serverVars
<1>3. CASE HandlePublish(g)
  <2>1. Outcome("publish", f.offer.version, "ok") \in Result /\ Outcome("publish", f.offer.version, "refused") \in Result
    BY <1>f, OutcomesAre DEF Asked
  <2>2. WireTyped' /\ replies' \subseteq Result
    BY <1>3, <1>f, <2>1, TakenTypes DEF HandlePublish
  <2>3. InputTyped'
    BY <1>3, <2>2 DEF HandlePublish, Typed, InputTyped
  <2>4. published' \in Nat
    BY <1>3, <1>f DEF HandlePublish, Typed, ApiTyped
  <2>5. ApiTyped'
    BY <1>3, <2>4 DEF HandlePublish, Typed, ApiTyped
  <2>6. BudgetTyped'
    BY <1>3, SpendTypes DEF HandlePublish, Outside, Typed
  <2> QED BY <1>3, <2>2, <2>3, <2>5, <2>6 DEF HandlePublish, Typed
<1>4. CASE HandleMedia(g)
  <2>1. Outcome("media", f.n, "ok") \in Result
    BY <1>f, OutcomesAre DEF Asked
  <2>2. WireTyped' /\ replies' \subseteq Result
    BY <1>4, <1>f, <2>1, TakenTypes DEF HandleMedia
  <2>3. InputTyped'
    BY <1>4, <2>2 DEF HandleMedia, Typed, InputTyped
  <2>4. ApiTyped'
    BY <1>4, <1>f DEF HandleMedia, Typed, ApiTyped
  <2> QED BY <1>4, <2>2, <2>3, <2>4 DEF HandleMedia, Typed
<1>5. CASE HandleAnswer(g)
  <2>1. WireTyped'
    <3>1. inbox' \in Seq(Seq(Frame)) /\ Len(inbox') = gen
      BY <1>0, <1>f, TakenCarries
    <3> QED BY <1>5, <3>1 DEF HandleAnswer, Typed, WireTyped
  <2>2. AnswersTyped'
    BY <1>5, <1>f, <1>0 DEF HandleAnswer, Typed, AnswersTyped
  <2>3. ApiTyped'
    BY <1>5 DEF HandleAnswer, Typed, ApiTyped
  <2> QED BY <1>5, <2>1, <2>2, <2>3 DEF HandleAnswer, Typed
<1> QED BY <1>1, <1>2, <1>3, <1>4, <1>5

\* The api passes an answer on.
LEMMA AnswerStep ==
  ASSUME Typed, NEW g \in 1..gen, AnswerRuns(g)
  PROVE  Typed'
<1> USE TypesStay
<1> DEFINE o == answering[g]
<1>0. o \in Offer /\ o.version \in Nat /\ WireTyped /\ InputTyped /\ g \in 1..Len(answering) /\ srv \in Subscriber
      /\ sfu \in Handles
  <2>1. answering \in Seq(Offer) /\ g \in 1..Len(answering)
    BY DEF Typed, WireTyped, AnswersTyped
  <2>2. o \in Offer
    BY <2>1
  <2> QED BY <2>1, <2>2 DEF Typed, ApiTyped, SfuTyped, Offer
<1>1. \A res \in {"ok", "stale", "refused"} : Outcome("answer", o.version, res) \in Result
  BY <1>0, OutcomesAre DEF Asked
<1>2. replies' \subseteq Result /\ waiting' \subseteq Asked \ {"answer"}
  <2>1. \E res \in {"ok", "stale", "refused"} : Reply(g, Outcome("answer", o.version, res))
    BY DEF AnswerRuns
  <2> QED BY <1>0, <1>1, <2>1, ReplyCarries
<1>3. WireTyped' /\ InputTyped'
  BY <1>2 DEF AnswerRuns, Typed, WireTyped, InputTyped
<1>4. AnswersTyped'
  BY <1>0, NoneIsOffer DEF AnswerRuns, Typed, AnswersTyped
<1>5. srv' \in Subscriber /\ wanted' \in BOOLEAN
  <2>1. StartOver(srv) \in Subscriber /\ [srv EXCEPT !.pending = None, !.dirty = FALSE] \in Subscriber
    BY <1>0, NoneIsOffer DEF StartOver, Subscriber
  <2>2. wanted \in BOOLEAN /\ srv.dirty \in BOOLEAN
    BY <1>0 DEF Typed, ApiTyped, Subscriber
  <2> QED BY <1>0, <2>1, <2>2 DEF AnswerRuns
<1>6. SfuTyped'
  <2>1. AnswerTaken(sfu) \in Handles
    BY <1>0 DEF AnswerTaken, Handles
  <2>2. PutOffOffer \subseteq Offer
    BY <1>0 DEF PutOffOffer, Handles, Offer
  <2> QED BY <1>0, <2>1, <2>2 DEF AnswerRuns, Typed, SfuTyped, sfuVars
<1>7. ApiTyped'
  BY <1>5 DEF AnswerRuns, Typed, ApiTyped
<1>8. BudgetTyped'
  BY SpendTypes DEF AnswerRuns, Outside, Typed
<1> QED BY <1>3, <1>4, <1>6, <1>7, <1>8 DEF AnswerRuns, Typed

\* _offer makes an offer of the next version.
LEMMA OfferedTypes ==
  ASSUME NEW s \in Subscriber, NEW o \in Offer
  PROVE  Offered(s, o) \in Subscriber /\ Offered(s, o).pending \in Offer
<1>1. s.version + 1 \in Nat
  BY DEF Subscriber
<1>2. [o EXCEPT !.version = s.version + 1] \in Offer
  BY <1>1 DEF Offer
<1> QED BY <1>1, <1>2 DEF Offered, Subscriber

\* The api reconciles, joins, updates, forwards; the others' media changes.
LEMMA SubscriptionSteps ==
  ASSUME Typed,
         SocketEnds \/ Change \/ Reconcile \/ Join \/ Update \/ (\E x \in Streams : FeedGone(x))
           \/ (\E o \in noticed : Forward(o))
  PROVE  Typed'
<1> USE TypesStay
<1>0. /\ srv \in Subscriber /\ sfu \in Handles /\ task \in Reconciling /\ desired \subseteq Streams
      /\ task.streams \subseteq Streams /\ sfu.handle \in Nat /\ sfu.streams \subseteq Streams
      /\ noticed \subseteq Offer /\ events \in Seq(Offer)
  BY DEF Typed, ApiTyped, SfuTyped, InputTyped, Reconciling, Handles
<1>d. [ask |-> "no", streams |-> {}] \in Reconciling
  BY DEF Reconciling
<1>1. CASE SocketEnds
  <2>1. ApiTyped'
    BY <1>1 DEF SocketEnds, Typed, ApiTyped, WireTyped, wireVars
  <2> QED BY <1>1, <2>1 DEF SocketEnds, Typed, wireVars
<1>2. CASE Change
  <2>1. ApiTyped'
    BY <1>2 DEF Change, Typed, ApiTyped, wireVars
  <2> QED BY <1>2, <2>1, SpendTypes DEF Change, Outside, Typed, wireVars
<1>3. CASE Reconcile
  <2>1. srv' \in Subscriber
    BY <1>0, <1>3 DEF Reconcile, Subscriber
  <2>2. task' \in Reconciling
    BY <1>0, <1>3 DEF Reconcile, Reconciling
  <2>3. ApiTyped'
    BY <1>3, <2>1, <2>2 DEF Reconcile, Typed, ApiTyped, wireVars
  <2>4. SfuTyped'
    BY <1>3 DEF Reconcile, Typed, SfuTyped
  <2> QED BY <1>3, <2>3, <2>4 DEF Reconcile, Typed, wireVars
<1>4. CASE Join
  <2> DEFINE h == sfu.handle + 1
             o == [version |-> 0, handle |-> h, streams |-> task.streams]
             s == [srv EXCEPT !.handle = h, !.streams = task.streams]
  <2>1. o \in Offer /\ s \in Subscriber
    <3>1. h \in Nat
      BY <1>0
    <3> HIDE DEF h
    <3>2. o \in Offer
      BY <1>0, <3>1 DEF Offer
    <3>3. s \in Subscriber
      BY <1>0, <3>1 DEF Subscriber
    <3> QED BY <3>2, <3>3
  <2>2. Offered(s, o) \in Subscriber /\ Offered(s, o).pending \in Offer
    BY <2>1, OfferedTypes
  <2>3. srv' \in Subscriber /\ events' \in Seq(Offer)
    <3>1. \/ srv' = Offered(s, o) /\ SentOn(mediaConn, srv'.pending)
          \/ UNCHANGED <<srv, events>>
      BY <1>4 DEF Join, Sent
    <3> HIDE DEF s, o
    <3> QED BY <1>0, <2>2, <3>1, SentCarries
  <2>4. SfuTyped'
    <3>1. [handle |-> h, streams |-> task.streams, offer |-> task.streams, answered |-> FALSE, putOff |-> FALSE] \in Handles
      BY <1>0 DEF Handles
    <3> QED BY <1>4, <3>1 DEF Join, Typed, SfuTyped
  <2>5. ApiTyped'
    BY <1>4, <1>d, <2>3 DEF Join, TaskDone, Typed, ApiTyped, wireVars
  <2>6. InputTyped'
    BY <1>4, <2>3 DEF Join, Typed, InputTyped
  <2>7. BudgetTyped'
    BY <1>4, SpendTypes DEF Join, Outside, Typed
  <2> QED BY <1>4, <2>4, <2>5, <2>6, <2>7 DEF Join, Typed, wireVars
<1>5. CASE Update
  <2> DEFINE o == [version |-> 0, handle |-> sfu.handle, streams |-> task.streams]
             s == [srv EXCEPT !.streams = task.streams]
  <2>1. o \in Offer /\ s \in Subscriber
    BY <1>0 DEF Offer, Subscriber
  <2>2. Offered(s, o) \in Subscriber /\ Offered(s, o).pending \in Offer
    BY <2>1, OfferedTypes
  <2>3. srv' \in Subscriber /\ events' \in Seq(Offer)
    <3>1. \/ srv' = Offered(s, o) /\ SentOn(mediaConn, srv'.pending)
          \/ srv' = s /\ UNCHANGED events
          \/ srv' = [srv EXCEPT !.handle = 0, !.streams = {}] /\ UNCHANGED events
      BY <1>5 DEF Update, Sent
    <3>2. [srv EXCEPT !.handle = 0, !.streams = {}] \in Subscriber
      BY <1>0 DEF Subscriber
    <3> HIDE DEF s, o
    <3> QED BY <1>0, <2>1, <2>2, <3>1, <3>2, SentCarries
  <2>4. SfuTyped'
    <3>1. /\ [sfu EXCEPT !.streams = task.streams, !.offer = task.streams, !.answered = FALSE] \in Handles
          /\ [sfu EXCEPT !.streams = task.streams, !.putOff = TRUE] \in Handles
      BY <1>0 DEF Handles
    <3> QED BY <1>0, <1>5, <3>1 DEF Update, Typed, SfuTyped
  <2>5. ApiTyped'
    <3>1. wanted' \in BOOLEAN
      BY <1>5 DEF Update, Typed, ApiTyped
    <3> QED BY <1>5, <1>d, <2>3, <3>1 DEF Update, TaskDone, Typed, ApiTyped, wireVars
  <2>6. InputTyped'
    BY <1>5, <2>3 DEF Update, Typed, InputTyped
  <2>7. BudgetTyped'
    BY <1>5, SpendTypes DEF Update, Outside, Typed
  <2> QED BY <1>5, <2>4, <2>5, <2>6, <2>7 DEF Update, Typed, wireVars
<1>6. ASSUME NEW x \in Streams, FeedGone(x) PROVE Typed'
  <2> DEFINE left == sfu.streams \ {x}
  <2>1. SfuTyped'
    <3>1. /\ [sfu EXCEPT !.streams = left, !.offer = left, !.answered = FALSE] \in Handles
          /\ [sfu EXCEPT !.streams = left, !.putOff = TRUE] \in Handles
      BY <1>0 DEF Handles
    <3>2. [version |-> 0, handle |-> sfu.handle, streams |-> left] \in Offer
      BY <1>0 DEF Offer
    <3> QED BY <1>0, <1>6, <3>1, <3>2 DEF FeedGone, Typed, SfuTyped
  <2>2. ApiTyped'
    BY <1>6 DEF FeedGone, Typed, ApiTyped, wireVars
  <2>3. BudgetTyped'
    BY <1>6, SpendTypes DEF FeedGone, Outside, Typed
  <2> QED BY <1>6, <2>1, <2>2, <2>3 DEF FeedGone, Typed, wireVars
<1>7. ASSUME NEW o \in noticed, Forward(o) PROVE Typed'
  <2>1. Offered(srv, o) \in Subscriber /\ Offered(srv, o).pending \in Offer
    BY <1>0, OfferedTypes
  <2>2. srv' \in Subscriber /\ events' \in Seq(Offer)
    BY <1>0, <1>7, <2>1, SentCarries DEF Forward, Sent
  <2>3. ApiTyped'
    BY <1>7, <2>2 DEF Forward, Typed, ApiTyped, wireVars
  <2>4. InputTyped'
    BY <1>7, <2>2 DEF Forward, Typed, InputTyped
  <2>5. SfuTyped'
    BY <1>7 DEF Forward, Typed, SfuTyped
  <2> QED BY <1>7, <2>3, <2>4, <2>5 DEF Forward, Typed, wireVars
<1> QED BY <1>1, <1>2, <1>3, <1>4, <1>5, <1>6, <1>7

\* Every step keeps the types.
LEMMA TypedStep == Typed /\ [MediaNext]_mediaVars => Typed'
<1> SUFFICES ASSUME Typed, [MediaNext]_mediaVars PROVE Typed'
  OBVIOUS
<1>1. CASE UNCHANGED mediaVars
  BY <1>1, TypesStay DEF mediaVars, Typed, serverVars, wireVars
<1>2. CASE MediaNext
  BY <1>2, SocketSteps, OfferSteps, PublishSteps, MuteSteps, ResumeSteps, CommandSteps, AnswerStep, SubscriptionSteps
     DEF MediaNext, Environment, Client, Subscriptions, Handle
<1> QED BY <1>1, <1>2

-----------------------------------------------------------------------------
(* The offer that is due.                                                  *)

\* The api gives a handle up while an offer the SFU made on it by itself is still with the listener.
GivesUpEarly == srv.handle # 0 /\ srv'.handle = 0 /\ noticed # {}

\* Steps that leave the reconcile, the subscription and the SFU alone.
LEMMA OfferStays == ASSUME OfferInv, UNCHANGED <<task, srv, sfu, noticed>> PROVE OfferInv'
  BY DEF OfferInv, HandleIsSfus, LockIsIdle, NoticesFit, PendingFits

\* What _offer makes is due, of the handle and streams it was given.
LEMMA OfferedIs ==
  ASSUME NEW s \in Subscriber, NEW o \in Offer
  PROVE  /\ Offered(s, o).handle = s.handle /\ Offered(s, o).pending # None
         /\ Offered(s, o).pending.handle = o.handle /\ Offered(s, o).pending.streams = o.streams
<1>1. s.version + 1 \in Nat /\ s.version + 1 # 0
  BY DEF Subscriber
<1>2. [o EXCEPT !.version = s.version + 1] # None
  BY <1>1 DEF Offer, None
<1> QED BY <1>1, <1>2 DEF Offered, Subscriber, Offer

\* The SFU's answer is taken: the offer it put off is the only one noticed.
LEMMA AnswerFits ==
  ASSUME Typed, OfferInv, NEW g \in 1..gen, AnswerRuns(g)
  PROVE  OfferInv'
<1> DEFINE o == answering[g]
<1>0. srv \in Subscriber /\ sfu \in Handles /\ UNCHANGED task /\ task.ask = "no"
  BY DEF Typed, ApiTyped, SfuTyped, AnswerRuns, Unlocked
<1>1. CASE UNCHANGED <<srv, sfuVars>>
  BY <1>0, <1>1, OfferStays DEF sfuVars
<1>2. CASE /\ ~Stale(o) /\ srv.handle # 0
           /\ sfu' = AnswerTaken(sfu) /\ noticed' = noticed \cup PutOffOffer
           /\ srv' = [srv EXCEPT !.pending = None, !.dirty = FALSE]
  <2>1. srv.pending # None /\ srv'.pending = None /\ srv'.handle = srv.handle /\ sfu.handle = srv.handle /\ ~sfu.answered
    BY <1>0, <1>2 DEF Stale, OfferInv, PendingFits, Subscriber
  <2>2. noticed = {}
    BY <2>1 DEF OfferInv, NoticesFit
  <2>3. sfu'.handle = sfu.handle
    BY <1>0, <1>2 DEF AnswerTaken, Handles
  <2>4. NoticesFit'
    <3>1. CASE sfu.putOff
      <4>1. noticed' = {[version |-> 0, handle |-> sfu.handle, streams |-> sfu.streams]}
        BY <1>2, <2>2, <3>1 DEF PutOffOffer
      <4>2. ~sfu'.answered /\ sfu'.offer = sfu.streams
        BY <1>0, <1>2, <2>1, <3>1 DEF AnswerTaken, Handles
      <4> QED BY <1>2, <2>1, <4>1, <4>2 DEF NoticesFit
    <3>2. CASE ~sfu.putOff
      <4>1. noticed' = {}
        BY <1>2, <2>2, <3>2 DEF PutOffOffer
      <4> QED BY <4>1 DEF NoticesFit
    <3> QED BY <3>1, <3>2
  <2> QED BY <1>0, <2>1, <2>3, <2>4 DEF OfferInv, HandleIsSfus, LockIsIdle, PendingFits
<1>3. CASE ~Stale(o) /\ srv.handle # 0 /\ srv' = StartOver(srv) /\ UNCHANGED sfuVars
  <2>1. srv.pending # None /\ srv'.pending = None /\ srv'.handle = 0
    BY <1>0, <1>3 DEF Stale, StartOver, Subscriber
  <2>2. noticed' = {}
    BY <1>3, <2>1 DEF OfferInv, NoticesFit, sfuVars
  <2> QED BY <1>0, <2>1, <2>2 DEF OfferInv, HandleIsSfus, LockIsIdle, NoticesFit, PendingFits
<1> QED BY <1>1, <1>2, <1>3 DEF AnswerRuns

\* A reconcile begins work only when nothing is due.
LEMMA ReconcileFits == ASSUME Typed, OfferInv, Reconcile PROVE OfferInv'
<1>0. srv \in Subscriber /\ task \in Reconciling /\ task.ask = "no" /\ UNCHANGED <<sfu, noticed>>
  BY DEF Typed, ApiTyped, Reconcile, Unlocked
<1>1. srv'.handle = srv.handle /\ srv'.pending = srv.pending
  BY <1>0 DEF Reconcile, Subscriber
<1>2. LockIsIdle'
  <2>1. CASE srv.pending # None \/ desired = srv.streams
    BY <1>0, <2>1 DEF Reconcile, LockIsIdle
  <2>2. CASE ~(srv.pending # None \/ desired = srv.streams)
    <3>1. task'.ask = (IF srv.handle = 0 THEN "join" ELSE "update")
      BY <2>2 DEF Reconcile
    <3> QED BY <1>1, <2>2, <3>1 DEF LockIsIdle
  <2> QED BY <2>1, <2>2
<1> QED BY <1>0, <1>1, <1>2 DEF OfferInv, HandleIsSfus, NoticesFit, PendingFits

\* A join replaces the handle; nothing is out for the one before.
LEMMA JoinFits == ASSUME Typed, OfferInv, Join PROVE OfferInv'
<1> DEFINE h == sfu.handle + 1
           o == [version |-> 0, handle |-> h, streams |-> task.streams]
           s == [srv EXCEPT !.handle = h, !.streams = task.streams]
<1>0. /\ srv \in Subscriber /\ task \in Reconciling /\ h \in Nat /\ h # 0 /\ task.streams \subseteq Streams
      /\ UNCHANGED noticed
  BY DEF Typed, ApiTyped, SfuTyped, Handles, Reconciling, Join
<1>1. srv.handle = 0 /\ srv.pending = None /\ noticed = {}
  BY DEF Join, OfferInv, LockIsIdle, NoticesFit
<1>2. task'.ask = "no"
  BY DEF Join, TaskDone
<1>3. CASE UNCHANGED <<srv, sfu>>
  BY <1>0, <1>1, <1>2, <1>3 DEF OfferInv, HandleIsSfus, LockIsIdle, NoticesFit, PendingFits
<1>4. CASE /\ sfu' = [handle |-> h, streams |-> task.streams, offer |-> task.streams,
                      answered |-> FALSE, putOff |-> FALSE]
           /\ srv' = Offered(s, o)
  <2>1. o \in Offer /\ s \in Subscriber /\ s.handle = h /\ o.handle = h /\ o.streams = task.streams
    <3> HIDE DEF h
    <3>1. o \in Offer /\ o.handle = h /\ o.streams = task.streams
      BY <1>0 DEF Offer
    <3>2. s \in Subscriber /\ s.handle = h
      BY <1>0 DEF Subscriber
    <3> QED BY <3>1, <3>2
  <2>2. srv'.handle = h /\ srv'.pending # None /\ srv'.pending.handle = h /\ srv'.pending.streams = task.streams
    <3> HIDE DEF s, o, h
    <3> QED BY <1>4, <2>1, OfferedIs
  <2>3. sfu'.handle = h /\ ~sfu'.answered /\ sfu'.offer = task.streams
    BY <1>4
  <2> HIDE DEF h
  <2> QED BY <1>0, <1>1, <1>2, <2>2, <2>3 DEF OfferInv, HandleIsSfus, LockIsIdle, NoticesFit, PendingFits
<1> QED BY <1>3, <1>4 DEF Join

\* An update offers, is put off, or gives the handle up with nothing out.
LEMMA UpdateFits == ASSUME Typed, OfferInv, Update, ~GivesUpEarly PROVE OfferInv'
<1> DEFINE o == [version |-> 0, handle |-> sfu.handle, streams |-> task.streams]
           s == [srv EXCEPT !.streams = task.streams]
<1>0. /\ srv \in Subscriber /\ sfu \in Handles /\ task \in Reconciling /\ sfu.handle \in Nat
      /\ task.streams \subseteq Streams /\ UNCHANGED noticed
  BY DEF Typed, ApiTyped, SfuTyped, Handles, Reconciling, Update
<1>1. srv.handle # 0 /\ srv.pending = None /\ srv.handle = sfu.handle
  BY DEF Update, OfferInv, LockIsIdle, HandleIsSfus
<1>2. task'.ask = "no"
  BY DEF Update, TaskDone
<1>s. o \in Offer /\ s \in Subscriber /\ s.handle = srv.handle /\ s.pending = srv.pending
      /\ o.handle = sfu.handle /\ o.streams = task.streams
  <2>1. o \in Offer /\ o.handle = sfu.handle /\ o.streams = task.streams
    BY <1>0 DEF Offer
  <2>2. s \in Subscriber /\ s.handle = srv.handle /\ s.pending = srv.pending
    BY <1>0 DEF Subscriber
  <2> QED BY <2>1, <2>2
<1>3. CASE /\ sfu.answered /\ srv' = Offered(s, o)
           /\ sfu' = [sfu EXCEPT !.streams = task.streams, !.offer = task.streams, !.answered = FALSE]
  <2>1. /\ srv'.handle = srv.handle /\ srv'.pending # None
        /\ srv'.pending.handle = sfu.handle /\ srv'.pending.streams = task.streams
    <3> HIDE DEF s, o
    <3> QED BY <1>3, <1>s, OfferedIs
  <2>2. sfu'.handle = sfu.handle /\ ~sfu'.answered /\ sfu'.offer = task.streams
    BY <1>0, <1>3 DEF Handles
  <2>3. noticed = {}
    BY <1>3 DEF OfferInv, NoticesFit
  <2> QED BY <1>0, <1>1, <1>2, <2>1, <2>2, <2>3 DEF OfferInv, HandleIsSfus, LockIsIdle, NoticesFit, PendingFits
<1>4. CASE ~sfu.answered /\ srv' = s /\ sfu' = [sfu EXCEPT !.streams = task.streams, !.putOff = TRUE]
  <2>1. sfu'.handle = sfu.handle /\ sfu'.answered = sfu.answered /\ sfu'.offer = sfu.offer
    BY <1>0, <1>4 DEF Handles
  <2> HIDE DEF s
  <2> QED BY <1>0, <1>1, <1>2, <1>4, <1>s, <2>1 DEF OfferInv, HandleIsSfus, LockIsIdle, NoticesFit, PendingFits
<1>5. CASE srv' = [srv EXCEPT !.handle = 0, !.streams = {}] /\ UNCHANGED sfu
  <2>1. srv'.handle = 0 /\ srv'.pending = None
    BY <1>0, <1>1, <1>5 DEF Subscriber
  <2>2. noticed = {}
    BY <1>1, <2>1 DEF GivesUpEarly
  <2> QED BY <1>0, <1>2, <2>1, <2>2 DEF OfferInv, HandleIsSfus, LockIsIdle, NoticesFit, PendingFits
<1> QED BY <1>3, <1>4, <1>5 DEF Update

\* The SFU makes an offer by itself only when the last one is answered.
LEMMA FeedFits == ASSUME Typed, OfferInv, NEW x \in Streams, FeedGone(x) PROVE OfferInv'
<1> DEFINE left == sfu.streams \ {x}
<1>0. sfu \in Handles /\ UNCHANGED <<srv, task>> /\ srv.handle # 0 /\ srv.handle = sfu.handle
  BY DEF Typed, SfuTyped, FeedGone, OfferInv, HandleIsSfus
<1>1. CASE sfu.answered
  <2>1. noticed = {} /\ srv.pending = None
    BY <1>1 DEF OfferInv, NoticesFit, PendingFits
  <2>2. sfu'.handle = sfu.handle /\ ~sfu'.answered /\ sfu'.offer = left
    BY <1>0, <1>1 DEF FeedGone, Handles
  <2>3. noticed' = {[version |-> 0, handle |-> sfu.handle, streams |-> left]}
    BY <1>1, <2>1 DEF FeedGone
  <2> QED BY <1>0, <2>1, <2>2, <2>3 DEF OfferInv, HandleIsSfus, LockIsIdle, NoticesFit, PendingFits
<1>2. CASE ~sfu.answered
  <2>1. sfu'.handle = sfu.handle /\ sfu'.answered = sfu.answered /\ sfu'.offer = sfu.offer /\ UNCHANGED noticed
    BY <1>0, <1>2 DEF FeedGone, Handles
  <2> QED BY <1>0, <2>1 DEF OfferInv, HandleIsSfus, LockIsIdle, NoticesFit, PendingFits
<1> QED BY <1>1, <1>2

\* The one offer that is out becomes the one that is due.
LEMMA ForwardFits == ASSUME Typed, OfferInv, NEW o \in noticed, Forward(o) PROVE OfferInv'
<1>0. srv \in Subscriber /\ o \in Offer /\ UNCHANGED <<sfu, task>> /\ task.ask = "no"
  BY DEF Typed, ApiTyped, SfuTyped, Forward, Unlocked
<1>1. srv'.handle = srv.handle /\ srv'.pending # None /\ srv'.pending.handle = o.handle /\ srv'.pending.streams = o.streams
  BY <1>0, OfferedIs DEF Forward
<1>2. /\ srv.handle # 0 /\ o.handle = srv.handle /\ srv.pending = None
      /\ ~sfu.answered /\ sfu.offer = o.streams /\ srv.handle = sfu.handle
  BY DEF OfferInv, NoticesFit, HandleIsSfus
<1>3. noticed' = {}
  <2>1. ASSUME NEW p \in noticed PROVE p = o
    <3>1. p.handle = o.handle /\ p.streams = o.streams
      BY <1>2 DEF OfferInv, NoticesFit
    <3>2. p.version = o.version
      BY DEF OfferInv, NoticesFit
    <3> QED BY <1>0, <3>1, <3>2 DEF Typed, SfuTyped, Offer
  <2> QED BY <2>1 DEF Forward
<1> QED BY <1>0, <1>1, <1>2, <1>3 DEF OfferInv, HandleIsSfus, LockIsIdle, NoticesFit, PendingFits

\* Every step keeps the offer that is due.
LEMMA OfferStep == Typed /\ OfferInv /\ [MediaNext]_mediaVars /\ ~GivesUpEarly => OfferInv'
<1> SUFFICES ASSUME Typed, OfferInv, [MediaNext]_mediaVars, ~GivesUpEarly PROVE OfferInv'
  OBVIOUS
<1>1. CASE UNCHANGED mediaVars
  BY <1>1, OfferStays DEF mediaVars, serverVars, sfuVars
<1>2. CASE CutLink \/ Republish \/ SetMedia \/ NoticeCut \/ (\E a \in waiting : TimeOut(a))
  BY <1>2, OfferStays DEF CutLink, Republish, SetMedia, NoticeCut, TimeOut, serverVars, sfuVars
<1>3. CASE Reconnect \/ SocketEnds \/ Change
  BY <1>3, OfferStays DEF Reconnect, SocketEnds, Change, serverVars, sfuVars
<1>4. CASE Client
  BY <1>4, OfferStays DEF Client, OnConn, OnOffer, SubscribeApplied, SendPublish, PublishApplied, SubscribeAck,
                          PublishReply, MediaAck, ResumeLost, AfterResume, serverVars, sfuVars
<1>5. ASSUME NEW g \in 1..gen,
             HandleResume(g) \/ HandleStranger(g) \/ HandlePublish(g) \/ HandleMedia(g) \/ HandleAnswer(g)
      PROVE  OfferInv'
  BY <1>5, OfferStays DEF HandleResume, HandleStranger, HandlePublish, HandleMedia, HandleAnswer, serverVars, sfuVars
<1>6. ASSUME NEW g \in 1..gen, AnswerRuns(g) PROVE OfferInv'
  BY <1>6, AnswerFits
<1>7. CASE Subscriptions
  BY <1>7, ReconcileFits, JoinFits, UpdateFits, ForwardFits DEF Subscriptions
<1>8. ASSUME NEW x \in Streams, FeedGone(x) PROVE OfferInv'
  BY <1>8, FeedFits
<1> QED BY <1>1, <1>2, <1>3, <1>4, <1>5, <1>6, <1>7, <1>8 DEF MediaNext, Environment, Handle

\* The participant's state keeps its types, whatever is cut, refused or comes late.
THEOREM MediaTyping == MediaSpec => []MediaTypeOK
<1>1. Typed => MediaTypeOK
  BY TypedIs
<1> QED BY <1>1, InitTyped, TypedStep, PTL DEF MediaSpec

\* The offer that is due is the one the SFU waits for an answer to (calls.py, _offer and
\* subscribe_answer), unless a handle is given up whose own offer is still with the listener.
THEOREM OfferDueFits == MediaSpec /\ [][~GivesUpEarly]_mediaVars => []MediaInv
<1>1. MediaInit => OfferInv
  BY DEF MediaInit, OfferInv, HandleIsSfus, LockIsIdle, NoticesFit, PendingFits
<1>2. Typed /\ OfferInv => MediaInv
  BY TypedIs DEF OfferInv, MediaInv
<1>3. Typed /\ OfferInv /\ [MediaNext]_mediaVars /\ [~GivesUpEarly]_mediaVars => OfferInv'
  <2>1. CASE UNCHANGED mediaVars
    BY <2>1, OfferStays DEF mediaVars, serverVars, sfuVars
  <2>2. CASE ~UNCHANGED mediaVars
    BY <2>2, OfferStep
  <2> QED BY <2>1, <2>2
<1> QED BY <1>1, <1>2, <1>3, InitTyped, TypedStep, PTL DEF MediaSpec
=============================================================================
