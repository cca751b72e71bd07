------------------------------- MODULE Sessions -------------------------------
(***************************************************************************)
(* One user's sign-ins on one device, and the server's refresh tokens.     *)
(*                                                                         *)
(* On the device: the clients of one process, one after another, which     *)
(* share the stored login (core/src/session_store.rs, persist.rs, and the  *)
(* sign-in, restore and refresh of client.rs; account.rs for the password). *)
(* The newest owns the stored copy.  On the server: rotation with its      *)
(* grace, sign-out, the password, and the sockets a sign-out everywhere    *)
(* closes (services/api/app/routers/auth.py, ws.py); and the second factor *)
(* (routers/totp.py), from enrolment to a sign-in in two halves.           *)
(*                                                                         *)
(* A token is a number, in the order of issue, and stands for its pair: so *)
(* an access token is older than a cut-off when its number is.  A login's  *)
(* family is the number of its first token.  The pending token between the *)
(* halves of a sign-in is a number too.  A request runs in one step (every *)
(* route holds the user's row; get_current_user looks at the session       *)
(* before) and may run after its client gave up.                           *)
(***************************************************************************)
EXTENDS Integers, Sequences, FiniteSets

CONSTANTS
  MaxClients, \* bound: how many clients the app makes
  Budgets    \* bound: how often what comes from outside happens, see Spend

Outside == {"client", "refresh", "login", "logout", "quit", "crash", "lose",
            "password", "everywhere", "others", "keychain", "socket",
            "code", "back", "enroll", "activate", "manage", "reset", "step", "restart"}

\* The second factor is on from before.
Before == "factor"

ASSUME ClientsAssumption == MaxClients \in Nat
ASSUME BudgetsAssumption == Budgets \subseteq [Outside \cup {Before} -> Nat]

Clients == 1..MaxClients

VARIABLES
  budget,    \* what is left of it
  (* the server *)
  tokens,    \* refresh_tokens: family, state, next (replaced_by_id); history: the pending
             \* token it is from, and whether the login was with a code
  cut,       \* sessions_valid_after: pairs up to this one are no longer valid
  closing,   \* a revoke_sessions that is to run, with its cut-off
  cutoffs,   \* _cutoffs
  sockets,   \* pair and stage of each: its token checked, or in _live
  factor,    \* the totp row and its recovery codes, see NoFactor
  used,      \* _used_jti
  changed,   \* password_changed_at: pending tokens up to this one are no longer valid
  step,      \* the time, in steps of codes
  passed,    \* history: codes accepted
  raced,     \* history: a request ran under a session that had ended since it was looked at
  wire,      \* requests on their way
  (* the device *)
  slot,      \* the refresh token stored, or 0
  fenced,    \* the fence over it
  (* the process *)
  started,   \* clients made so far
  owner,     \* OWNERS
  stored,    \* FAMILIES: the generation of the login stored
  slotLock,  \* SLOT_LOCKS: who holds it
  (* its clients *)
  cl,        \* state, session, persisted, and the challenge that is open
  marks,     \* slot_tokens: tokens of the stored login, with their generation
  attempt,   \* a login or restore that waits for the refresh lock
  task,      \* who has the refresh lock, and where it stands
  (* history *)
  lost,      \* answers that may not reach what is stored
  over,      \* logins ended on this device by who owned the stored one
  overtaken  \* logins of which something came between a request and its answer, or a pair was not stored

factorVars == <<factor, used, changed, step, passed, raced>>
serverVars == <<tokens, cut, closing, cutoffs, sockets, factorVars>>
deviceVars == <<slot, fenced>>
processVars == <<started, owner, stored, slotLock>>
clientVars == <<cl, marks, attempt, task>>
historyVars == <<lost, over, overtaken>>
vars == <<budget, serverVars, wire, deviceVars, processVars, clientVars, historyVars>>

Token == 1..Len(tokens)
NoTask == [kind |-> "none", at |-> "", sent |-> 0, fresh |-> FALSE, family |-> 0, answer |-> 0]
Changes == {"password", "everywhere", "activate"}
Kinds == {"restore", "login", "refresh", "code"} \cup Changes
NoAttempt == [kind |-> "none", fresh |-> FALSE]

TokenRecord == [family: Nat, state: {"live", "rotated", "retired", "revoked", "pending"}, next: Nat,
                from: Nat, proved: BOOLEAN]
FactorRecord == [on: {"off", "pending", "on"}, since: Nat, last: Nat, secret: Nat, batch: Nat, unused: BOOLEAN,
                 made: Nat]

ServerTypeOK ==
  /\ tokens \in Seq(TokenRecord) /\ factor \in FactorRecord
  /\ used \subseteq Token /\ changed \in Nat /\ step \in Nat \ {0} /\ passed \in Seq(Nat \X Nat) /\ raced \in BOOLEAN
  /\ cut \in Nat /\ closing \in Nat /\ cutoffs \in Nat
  /\ sockets \subseteq [token: Token, at: {"checked", "open"}]

ClientRecord == [st: {"new", "up", "closed", "dead"}, session: {0} \cup Token, persisted: BOOLEAN,
                 challenge: {0} \cup Token]
AttemptRecord == [kind: {"none", "restore", "login"}, fresh: BOOLEAN]
TaskRecord == [kind: Kinds \cup {"none"},
               at: {"", "slot", "asking", "answered", "refused", "challenged", "wrong", "expired"},
               sent: {0} \cup Token, fresh: BOOLEAN, family: Nat, answer: {0} \cup Token]
Request == [by: Clients, ask: {"refresh", "login", "logout", "code"} \cup Changes,
            token: {0} \cup Token, awaited: BOOLEAN, tag: Nat, code: Nat \X Nat, checked: BOOLEAN]

TypeOK ==
  /\ budget \in [Outside \cup {Before} -> Nat]
  /\ ServerTypeOK
  /\ cl \in [Clients -> ClientRecord] /\ marks \in [Clients -> SUBSET (Token \X Nat)]
  /\ attempt \in [Clients -> AttemptRecord] /\ task \in [Clients -> TaskRecord]
  /\ wire \subseteq Request
  /\ slot \in {0} \cup Token /\ fenced \in BOOLEAN
  /\ started \in {0} \cup Clients /\ owner \in {0} \cup Clients /\ stored \in Nat
  /\ slotLock \in {0} \cup Clients
  /\ lost \in Nat /\ over \subseteq Token /\ overtaken \subseteq Token \X {"quit", "sign-in", "sign-out", "write", "late"}

\* The codes: <<secret, step>>, or <<batch, 0>> for a recovery code; secrets and batches
\* are numbered as they are made.
NoCode == <<0, 0>>
NoFactor == [on |-> "off", since |-> 0, last |-> 0, secret |-> 0, batch |-> 0, unused |-> FALSE, made |-> 0]

Init ==
  /\ budget \in Budgets
  /\ tokens = <<>> /\ cut = 0 /\ closing = 0 /\ cutoffs = 0 /\ sockets = {} /\ wire = {}
  /\ factor = IF budget[Before] = 0 THEN NoFactor
              ELSE [NoFactor EXCEPT !.on = "on", !.secret = 1, !.batch = 2, !.unused = TRUE, !.made = 2]
  /\ used = {} /\ changed = 0 /\ step = 1 /\ passed = <<>> /\ raced = FALSE
  /\ slot = 0 /\ fenced = FALSE
  /\ started = 0 /\ owner = 0 /\ stored = 0 /\ slotLock = 0
  /\ cl = [c \in Clients |-> [st |-> "new", session |-> 0, persisted |-> FALSE, challenge |-> 0]]
  /\ marks = [c \in Clients |-> {}]
  /\ attempt = [c \in Clients |-> NoAttempt] /\ task = [c \in Clients |-> NoTask]
  /\ lost = 0 /\ over = {} /\ overtaken = {}

Spend(what) == budget[what] > 0 /\ budget' = [budget EXCEPT ![what] = @ - 1]

-----------------------------------------------------------------------------
(* The stored copy.  An operation on it is the owner's, or does nothing.   *)

Owns(c) == owner = c

\* Persistence::clear: gone, or fenced when it can't be deleted.
ClearSlot(c) ==
  \/ ~Owns(c) /\ UNCHANGED <<slot, fenced, budget>>
  \/ Owns(c) /\ slot' = 0 /\ UNCHANGED <<fenced, budget>>
  \/ Owns(c) /\ slot # 0 /\ Spend("keychain") /\ fenced' = TRUE /\ UNCHANGED slot

\* Persistence::write by the owner, as `landed` says.
WriteSlot(t, landed) ==
  /\ slot' = IF landed THEN t ELSE slot
  /\ fenced' = ~landed
  /\ IF landed THEN UNCHANGED budget ELSE Spend("keychain")

Marked(c, t) == {m[2] : m \in {m \in marks[c] : m[1] = t}}
Without(M, t) == {m \in M : m[1] # t}

\* mark_new_login, and `sent` is marked no more.
NewLogin(c, sent, t) ==
  /\ stored' = stored + 1
  /\ marks' = [marks EXCEPT ![c] = Without(@, sent) \cup {<<t, stored + 1>>}]

\* Mutant: a client that quit does not follow a rotation.
FollowsNever(c, sent) == FALSE

\* Mutant: quit or not, what is stored follows a rotation without a look at it.
FollowsBlindly(c, sent) == Owns(c)

\* follow_rotation's condition, for a client that quit with its copy stored.
Follows(c, sent) == cl[c].persisted /\ Owns(c) /\ slot = sent

-----------------------------------------------------------------------------
(* Requests.                                                               *)

Asks(c, ask, t) ==
  [by |-> c, ask |-> ask, token |-> t, awaited |-> TRUE, tag |-> 0, code |-> NoCode, checked |-> FALSE]
Detached(c, t) == [Asks(c, "logout", t) EXCEPT !.awaited = FALSE]

\* Mutant: a superseded client ends whatever login it had.
RevokesAll(c, t, marked) ==
  IF t = 0 THEN {} ELSE {Detached(c, t)}

\* revoke_detached of a token marked with these generations: unless it is of the
\* stored login, and that is another client's.
Revokes(c, t, marked) ==
  IF t = 0 \/ (~Owns(c) /\ marked = {stored}) THEN {}
  ELSE {Detached(c, t)}

FamilyOf(t) == tokens[t].family

\* The keychain did not take this pair.
Unwritten(t) == overtaken' = overtaken \cup {<<FamilyOf(t), "write">>}

\* Refreshes that may run although nobody waits for them.
Late(M) == {<<FamilyOf(m.token), "late">> : m \in {m \in M : m.ask = "refresh"}}

-----------------------------------------------------------------------------
(* Clients come and go.                                                    *)

\* A client with persistence: it owns the stored copy from now on.
Start ==
  LET c == started + 1 IN
  /\ c \in Clients
  /\ IF owner = 0 THEN UNCHANGED budget ELSE Spend("client")
  /\ started' = c /\ owner' = c /\ cl' = [cl EXCEPT ![c].st = "up"]
  /\ attempt' = [attempt EXCEPT ![c] = [kind |-> "restore", fresh |-> TRUE]]
  /\ lost' = IF slotLock = 0 THEN lost ELSE lost + 1
  /\ UNCHANGED <<serverVars, wire, deviceVars, stored, slotLock, marks, task, over, overtaken>>

\* Whatever login_gen was counts no more.
Stale(c) ==
  /\ attempt' = [attempt EXCEPT ![c].fresh = FALSE]
  /\ task' = [task EXCEPT ![c].fresh = FALSE]

\* login: reserve_login, whatever is under way.  A login that waits for the lock is
\* stale then, and does nothing when it has it; a restore has it before.
AskLogin(c) ==
  /\ cl[c].st = "up" /\ attempt[c].kind # "restore" /\ Spend("login")
  /\ attempt' = [attempt EXCEPT ![c] = [kind |-> "login", fresh |-> TRUE]]
  /\ task' = [task EXCEPT ![c].fresh = FALSE]
  /\ cl' = [cl EXCEPT ![c].challenge = 0] /\ over' = over \cup ({cl[c].challenge} \ {0})
  /\ UNCHANGED <<serverVars, wire, deviceVars, processVars, marks, lost, overtaken>>

\* cancel_totp: Back from the code.
Back(c) ==
  /\ cl[c].st = "up" /\ cl[c].challenge # 0 /\ Spend("back")
  /\ cl' = [cl EXCEPT ![c].challenge = 0] /\ over' = over \cup {cl[c].challenge}
  /\ UNCHANGED <<serverVars, wire, deviceVars, processVars, marks, attempt, task, lost, overtaken>>

\* What the user ends by signing out: the session, what is stored, if it is this
\* client's, and the challenge.
SignedOut(c) ==
  (IF Owns(c) THEN {FamilyOf(t) : t \in ({cl[c].session} \cup (IF fenced THEN {} ELSE {slot})) \ {0}} ELSE {})
    \cup ({cl[c].challenge} \ {0})

\* logout, whatever is under way: a session ends here at once, and is asked to end at
\* the server; without one, what is stored goes, and no attempt is current any more.
Logout(c) ==
  LET t == cl[c].session
      b == budget["logout"] IN
  /\ cl[c].st = "up" /\ b > 0
  /\ \E kept \in BOOLEAN :
       /\ kept => Owns(c) /\ slot # 0 /\ budget["keychain"] > 0
       /\ slot' = IF Owns(c) /\ ~kept THEN 0 ELSE slot
       /\ fenced' = (fenced \/ kept)
       /\ budget' = [budget EXCEPT !["logout"] = b - 1, !["keychain"] = IF kept THEN @ - 1 ELSE @]
  /\ Stale(c)
  /\ cl' = [cl EXCEPT ![c].session = 0, ![c].persisted = FALSE, ![c].challenge = 0]
  /\ wire' = wire \cup Revokes(c, t, Marked(c, t))
  /\ marks' = [marks EXCEPT ![c] = Without(@, t)]
  /\ over' = over \cup SignedOut(c)
  /\ overtaken' = IF t # 0 /\ ~Owns(c) /\ slotLock = c THEN overtaken \cup {<<FamilyOf(t), "sign-out">>} ELSE overtaken
  /\ UNCHANGED <<serverVars, processVars, lost>>

\* The client is dropped: nothing is installed in it any more, and what is
\* stored stays.
Quit(c) ==
  /\ cl[c].st = "up" /\ Spend("quit")
  /\ cl' = [cl EXCEPT ![c].st = "closed", ![c].session = 0, ![c].challenge = 0]
  /\ Stale(c)
  /\ UNCHANGED <<serverVars, wire, deviceVars, processVars, marks, historyVars>>

\* The process ends; requests on their way may still run.
Crash ==
  /\ \E c \in Clients : cl[c].st # "new" /\ cl[c].st # "dead"
  /\ Spend("crash")
  /\ cl' = [c \in Clients |-> IF cl[c].st = "new" THEN cl[c] ELSE [cl[c] EXCEPT !.st = "dead", !.session = 0, !.challenge = 0]]
  /\ marks' = [c \in Clients |-> {}] /\ attempt' = [c \in Clients |-> NoAttempt]
  /\ task' = [c \in Clients |-> NoTask]
  /\ owner' = 0 /\ stored' = 0 /\ slotLock' = 0
  /\ \E S \in SUBSET wire :
       wire' = {[m EXCEPT !.awaited = FALSE] : m \in S} /\ overtaken' = overtaken \cup Late(S)
  /\ lost' = lost + Cardinality({c \in Clients : task[c].at \in {"asking", "answered", "refused"}})
  /\ UNCHANGED <<serverVars, deviceVars, started, over>>

-----------------------------------------------------------------------------
(* Tasks under the refresh lock.                                           *)

Free(c) == cl[c].st \in {"up", "closed"} /\ task[c].kind = "none"

\* A login has the refresh lock: the session before it goes first.
BeginLogin(c) ==
  LET t == cl[c].session IN
  /\ Free(c) /\ attempt[c].kind = "login"
  /\ attempt' = [attempt EXCEPT ![c] = NoAttempt]
  /\ \/ /\ ~attempt[c].fresh
        /\ UNCHANGED <<budget, wire, deviceVars, cl, marks, task, over>>
     \/ /\ attempt[c].fresh
        /\ IF t # 0 THEN ClearSlot(c) ELSE UNCHANGED <<slot, fenced, budget>>
        /\ cl' = [cl EXCEPT ![c].session = 0, ![c].persisted = (t = 0 /\ @)]
        /\ wire' = wire \cup Revokes(c, t, Marked(c, t)) \cup {Asks(c, "login", 0)}
        /\ marks' = [marks EXCEPT ![c] = Without(@, t)]
        /\ over' = over \cup (IF t # 0 /\ Owns(c) THEN {FamilyOf(t)} ELSE {})
        /\ task' = [task EXCEPT ![c] = [NoTask EXCEPT !.kind = "login", !.at = "asking", !.fresh = TRUE]]
  /\ UNCHANGED <<serverVars, processVars, lost, overtaken>>

\* The others take the slot's lock after it (flight).
Begin(c) ==
  /\ Free(c)
  /\ \/ /\ attempt[c].kind = "restore"
        /\ attempt' = [attempt EXCEPT ![c] = NoAttempt]
        /\ task' = [task EXCEPT ![c] = [NoTask EXCEPT !.kind = "restore", !.at = "slot", !.fresh = attempt[c].fresh]]
        /\ UNCHANGED budget
     \/ \E k \in {"refresh"} \cup Changes :
          /\ cl[c].st = "up" /\ attempt[c].kind = "none" /\ cl[c].session # 0 /\ Spend(k)
          /\ task' = [task EXCEPT ![c] = [NoTask EXCEPT !.kind = k, !.at = "slot", !.sent = cl[c].session]]
          /\ UNCHANGED attempt
  /\ UNCHANGED <<serverVars, wire, deviceVars, processVars, cl, marks, historyVars>>

\* The code the authenticator shows, or showed just now, or a recovery code.
AtHand == {<<factor.secret, k>> : k \in {step, step - 1} \ {0}} \cup {<<factor.batch, 0>>}

\* complete_challenge, for the challenge that is open.
EnterCode(c) ==
  /\ Free(c) /\ cl[c].challenge # 0 /\ attempt[c].kind = "none" /\ Spend("code")
  /\ \E code \in AtHand : wire' = wire \cup {[Asks(c, "code", cl[c].challenge) EXCEPT !.code = code]}
  /\ task' = [task EXCEPT ![c] = [NoTask EXCEPT !.kind = "code", !.at = "asking", !.sent = cl[c].challenge,
                                               !.fresh = TRUE]]
  /\ UNCHANGED <<serverVars, deviceVars, processVars, cl, marks, attempt, historyVars>>

\* It is over, and so are the locks.
Ends(c) ==
  /\ task' = [task EXCEPT ![c] = NoTask]
  /\ slotLock' = IF slotLock = c THEN 0 ELSE slotLock

\* restore, with the slot's lock: reads the slot as its owner.
RestoreReads(c) ==
  /\ task[c].kind = "restore" /\ task[c].at = "slot" /\ slotLock = 0
  /\ IF Owns(c) /\ slot # 0 /\ ~fenced
     THEN /\ slotLock' = c /\ wire' = wire \cup {Asks(c, "refresh", slot)}
          /\ task' = [task EXCEPT ![c].at = "asking", ![c].sent = slot, ![c].family = stored]
          /\ UNCHANGED slot
     ELSE /\ Ends(c) /\ UNCHANGED wire
          /\ slot' = IF Owns(c) /\ fenced THEN 0 ELSE slot
  /\ UNCHANGED <<budget, serverVars, fenced, started, owner, stored, cl, marks, attempt, historyVars>>

\* refresh_once: a client another has replaced sends nothing, and ends its session
\* (sign_out).
RefreshOnce(c) ==
  LET t == cl[c].session IN
  IF t = 0 THEN Ends(c) /\ UNCHANGED <<wire, cl, marks, attempt>>
  ELSE IF Owns(c)
  THEN /\ task' = [task EXCEPT ![c] = [NoTask EXCEPT !.kind = "refresh", !.at = "asking", !.sent = t]]
       /\ slotLock' = c /\ wire' = wire \cup {Asks(c, "refresh", t)}
       /\ UNCHANGED <<cl, marks, attempt>>
  ELSE /\ Ends(c) /\ attempt' = [attempt EXCEPT ![c].fresh = FALSE]
       /\ cl' = [cl EXCEPT ![c].session = 0, ![c].persisted = FALSE]
       /\ wire' = wire \cup Revokes(c, t, Marked(c, t))
       /\ marks' = [marks EXCEPT ![c] = Without(@, t)]

\* Refresher::refresh, with both locks: unless the session moved on meanwhile; and
\* what a password change refused for its access token does next.
RefreshBegins(c) ==
  /\ \/ task[c].kind = "refresh" /\ task[c].at = "slot" /\ slotLock = 0
     \/ task[c].kind \in Changes /\ task[c].at = "refused"
  /\ IF cl[c].session = task[c].sent THEN RefreshOnce(c) ELSE Ends(c) /\ UNCHANGED <<wire, cl, marks, attempt>>
  /\ UNCHANGED <<budget, serverVars, deviceVars, started, owner, stored, historyVars>>

\* totp_activate goes with a code.
GoesWith(kind) == IF kind = "activate" THEN AtHand ELSE {NoCode}

\* change_password, totp_activate, with both locks: sent if the session is still the one.
PasswordBegins(c) ==
  /\ task[c].kind \in Changes /\ task[c].at = "slot" /\ slotLock = 0
  /\ IF cl[c].session # 0
     THEN /\ task' = [task EXCEPT ![c].at = "asking", ![c].sent = cl[c].session]
          /\ slotLock' = c
          /\ \E code \in GoesWith(task[c].kind) :
               wire' = wire \cup {[Asks(c, task[c].kind, cl[c].session) EXCEPT !.code = code]}
     ELSE Ends(c) /\ UNCHANGED wire
  /\ UNCHANGED <<budget, serverVars, deviceVars, started, owner, stored, cl, marks, attempt, historyVars>>

\* No answer will come: the request ran or not, or runs later.
Lose(c) ==
  /\ task[c].at \in {"asking", "answered", "refused"} /\ Spend("lose")
  /\ LET M == {m \in wire : m.by = c /\ m.awaited} IN
     \/ wire' = wire \ M /\ UNCHANGED overtaken
     \/ /\ M # {} /\ wire' = (wire \ M) \cup {[m EXCEPT !.awaited = FALSE, !.tag = lost + 1] : m \in M}
        /\ overtaken' = overtaken \cup Late(M)
  /\ lost' = lost + 1 /\ Ends(c)
  /\ UNCHANGED <<serverVars, deviceVars, started, owner, stored, cl, marks, attempt, over>>

-----------------------------------------------------------------------------
(* Answers.                                                                *)

\* commit_refresh: the pair replaces the one that was sent, which had these marks
\* and leaves these; `rotation` continues the login.
Committed(c) ==
  LET t == task[c].answer  sent == task[c].sent
      rotation == task[c].kind = "refresh"
      of == Marked(c, sent)
      kept == Without(marks[c], sent)
      carried == kept \cup (IF rotation THEN {<<t, g>> : g \in of} ELSE {})
      Marks(M) == marks' = [marks EXCEPT ![c] = M]
  IN
  /\ task[c].kind \in {"refresh"} \cup Changes /\ task[c].at = "answered"
  /\ Ends(c)
  /\ \/ \* Quit meanwhile: what is stored follows, or the pair goes.
        /\ cl[c].st = "closed"
        /\ \/ /\ Follows(c, sent) /\ slot' = t /\ Marks(carried) /\ UNCHANGED <<budget, wire, overtaken>>
           \/ /\ IF Follows(c, sent) THEN Spend("keychain") ELSE UNCHANGED budget
              /\ wire' = wire \cup Revokes(c, t, IF rotation THEN of ELSE {})
              /\ overtaken' = IF Follows(c, sent) THEN overtaken \cup {<<FamilyOf(t), "quit">>} ELSE overtaken
              /\ Marks(kept) /\ UNCHANGED slot
        /\ UNCHANGED <<fenced, cl, stored>>
     \/ \* Signed out, or in again.
        /\ cl[c].st = "up" /\ cl[c].session # sent
        /\ wire' = wire \cup Revokes(c, t, IF rotation THEN of ELSE {})
        /\ Marks(kept) /\ UNCHANGED <<budget, deviceVars, cl, stored, overtaken>>
     \/ \* Replaced by another client: as it is here, not stored.
        /\ cl[c].st = "up" /\ cl[c].session = sent /\ ~Owns(c)
        /\ cl' = [cl EXCEPT ![c].session = t] /\ Marks(carried)
        /\ UNCHANGED <<budget, deviceVars, wire, stored, overtaken>>
     \/ \* Here, and stored or fenced.
        /\ cl[c].st = "up" /\ cl[c].session = sent /\ Owns(c)
        /\ cl' = [cl EXCEPT ![c].session = t] /\ UNCHANGED wire
        /\ \/ WriteSlot(t, TRUE) /\ rotation /\ Marks(carried) /\ UNCHANGED <<stored, overtaken>>
           \/ WriteSlot(t, TRUE) /\ ~rotation /\ NewLogin(c, sent, t) /\ UNCHANGED overtaken
           \/ WriteSlot(t, FALSE) /\ Marks(kept) /\ Unwritten(t) /\ UNCHANGED stored
  /\ UNCHANGED <<serverVars, started, owner, attempt, lost, over>>

\* Mutant: an attempt is current as long as its client is up.
CurrentIfUp(c) == cl[c].st = "up"

\* The attempt is the last one, and its challenge is open.
Current(c) ==
  cl[c].st = "up" /\ task[c].fresh /\ (task[c].kind = "code" => cl[c].challenge = task[c].sent)

\* The login it begins, when the user signed out, in again or quit since it was asked.
Left(c) == IF task[c].fresh THEN {} ELSE {task[c].answer} \ {0}

\* install_for_login of a restore or a login, install_for_challenge.  A restored pair
\* another client's login goes on with is left alone.
Installed(c) ==
  LET t == task[c].answer
      restored == task[c].kind = "restore"
      current == Current(c)
      gone == Revokes(c, t, IF restored THEN {task[c].family} ELSE {})
  IN
  /\ task[c].kind \in {"restore", "login", "code"} /\ task[c].at = "answered"
  /\ Ends(c)
  /\ \/ /\ ~current \/ ~Owns(c)
        /\ wire' = IF restored /\ current THEN wire ELSE wire \cup gone
        /\ overtaken' = IF restored /\ ~current /\ gone # {}
                        THEN overtaken \cup {<<FamilyOf(t), IF cl[c].st = "closed" THEN "quit" ELSE "sign-in">>}
                        ELSE overtaken
        /\ UNCHANGED <<budget, deviceVars, cl, marks, stored>>
     \/ /\ current /\ Owns(c)
        /\ cl' = [cl EXCEPT ![c].session = t, ![c].persisted = TRUE, ![c].challenge = 0]
        /\ \/ /\ WriteSlot(t, TRUE) /\ restored
              /\ marks' = [marks EXCEPT ![c] = @ \cup {<<t, task[c].family>>}] /\ UNCHANGED <<stored, overtaken>>
           \/ WriteSlot(t, TRUE) /\ ~restored /\ NewLogin(c, t, t) /\ UNCHANGED overtaken
           \/ WriteSlot(t, FALSE) /\ Unwritten(t) /\ UNCHANGED <<marks, stored>>
        /\ UNCHANGED wire
  /\ over' = IF restored THEN over ELSE over \cup Left(c)
  /\ UNCHANGED <<serverVars, started, owner, attempt, lost>>

\* Refused: the session ends if it still holds that token, the stored copy too
\* (clear_if_holds, clear_persisted_if_holds).
Refused(c) ==
  LET sent == task[c].sent
      restore == task[c].kind = "restore"
      holds == IF restore THEN task[c].fresh /\ slot = sent ELSE cl[c].session = sent
  IN
  /\ task[c].kind \in {"restore", "refresh"} /\ task[c].at = "refused"
  /\ Ends(c)
  /\ IF holds THEN ClearSlot(c) ELSE UNCHANGED <<budget, deviceVars>>
  /\ cl' = IF holds /\ ~restore THEN [cl EXCEPT ![c].session = 0, ![c].persisted = FALSE] ELSE cl
  /\ UNCHANGED <<serverVars, wire, started, owner, stored, marks, attempt, historyVars>>

\* open_challenge: the password alone yields no session.
Challenged(c) ==
  /\ task[c].at = "challenged" /\ Ends(c)
  /\ cl' = IF Current(c) THEN [cl EXCEPT ![c].challenge = task[c].answer] ELSE cl
  /\ over' = over \cup Left(c)
  /\ UNCHANGED <<budget, serverVars, wire, deviceVars, started, owner, stored, marks, attempt, lost, overtaken>>

\* A wrong code or password changes nothing; an expired challenge is over (end_challenge).
TurnedDown(c) ==
  /\ task[c].at \in {"wrong", "expired"} /\ Ends(c)
  /\ cl' = IF task[c].at = "expired" /\ Current(c) THEN [cl EXCEPT ![c].challenge = 0] ELSE cl
  /\ UNCHANGED <<budget, serverVars, wire, deviceVars, started, owner, stored, marks, attempt, historyVars>>

-----------------------------------------------------------------------------
(* The server.                                                             *)

\* The client that waits for it gets the answer, with a token or none (0).
Answers(m, at, t) ==
  /\ wire' = wire \ {m}
  /\ task' = IF ~m.awaited THEN task ELSE [task EXCEPT ![m.by].at = at, ![m.by].answer = t]
  /\ UNCHANGED <<budget, deviceVars, processVars, cl, marks, attempt, historyVars>>

New == Len(tokens) + 1
Pair(f, proved) == [family |-> f, state |-> "live", next |-> 0, from |-> 0, proved |-> proved]
RevokeAll(T, families) ==
  [i \in DOMAIN T |-> IF T[i].state = "live" /\ T[i].family \in families THEN [T[i] EXCEPT !.state = "revoked"] ELSE T[i]]
EndFamily(T, f) == RevokeAll(T, {f})
EndAll(T) == RevokeAll(T, {T[i].family : i \in DOMAIN T})

\* Mutant: the grace leaves the successor live.
RetireFirst(T, i, next) == IF next = 0 THEN T ELSE [T EXCEPT ![i].state = "rotated", ![i].next = next]

\* _cas_rotate
Retire(T, i, next) == [T EXCEPT ![i].state = IF next = 0 THEN "retired" ELSE "rotated", ![i].next = next]

Graceful(t) ==
  tokens[t].state = "rotated" /\ tokens[tokens[t].next].state = "live"

\* _rotate: the live token; or the one before it, once, for a client that never
\* got the answer; any other is reuse, and ends the login.
Rotate(m) ==
  LET t == m.token  f == FamilyOf(t) IN
  /\ m \in wire /\ m.ask = "refresh"
  /\ \/ /\ tokens[t].state = "live"
        /\ tokens' = Append(Retire(tokens, t, New), Pair(f, tokens[t].proved)) /\ Answers(m, "answered", New)
     \/ /\ Graceful(t)
        /\ tokens' = Append(Retire(tokens, tokens[t].next, 0), Pair(f, tokens[t].proved))
        /\ Answers(m, "answered", New)
     \/ /\ tokens[t].state = "revoked"
        /\ Answers(m, "refused", 0) /\ UNCHANGED tokens
     \/ /\ tokens[t].state \in {"rotated", "retired"} /\ ~Graceful(t)
        /\ tokens' = EndFamily(tokens, f) /\ Answers(m, "refused", 0)
  /\ UNCHANGED <<cut, closing, cutoffs, sockets, factorVars>>

\* logout, of the whole family.
EndLogin(m) ==
  /\ m \in wire /\ m.ask = "logout"
  /\ tokens' = EndFamily(tokens, FamilyOf(m.token)) /\ Answers(m, "refused", 0)
  /\ UNCHANGED <<cut, closing, cutoffs, sockets, factorVars>>

\* login: a family of its own, or a pending token for the second half.
LogIn(m) ==
  /\ m \in wire /\ m.ask = "login"
  /\ \/ factor.on # "on" /\ tokens' = Append(tokens, Pair(New, FALSE)) /\ Answers(m, "answered", New)
     \/ /\ factor.on = "on"
        /\ tokens' = Append(tokens, [Pair(New, FALSE) EXCEPT !.state = "pending"])
        /\ Answers(m, "challenged", New)
  /\ UNCHANGED <<cut, closing, cutoffs, sockets, factorVars>>

\* Mutant: a code is good as long as it is shown.
PassesShown(code) ==
  \/ code[2] > 0 /\ code[1] = factor.secret /\ code[2] \in step - 1 .. step + 1
  \/ code[2] = 0 /\ code[1] = factor.batch /\ factor.unused

\* verify_second_factor: a step of the window after the last one used, or an unused
\* recovery code.
Passes(code) ==
  \/ code[2] > 0 /\ code[1] = factor.secret /\ code[2] \in step - 1 .. step + 1 /\ code[2] > factor.last
  \/ code[2] = 0 /\ code[1] = factor.batch /\ factor.unused

\* What it leaves.
Spent(code) == IF code[2] = 0 THEN [factor EXCEPT !.unused = FALSE] ELSE [factor EXCEPT !.last = code[2]]
Accepts(code) == Passes(code) /\ passed' = Append(passed, code)

\* Ten fresh recovery codes.
Fresh(f) == [f EXCEPT !.batch = factor.made + 1, !.unused = TRUE, !.made = @ + 1]

\* totp_login: a code finishes what a password began, unless that was used already, or
\* the password, the sessions or the factor changed since.
CompleteLogin(m) ==
  LET t == m.token
      expired == t <= cut \/ t <= changed \/ t \in used \/ factor.on # "on" \/ t <= factor.since IN
  /\ m \in wire /\ m.ask = "code"
  /\ \/ expired /\ Answers(m, "expired", 0) /\ UNCHANGED <<tokens, factor, used, passed>>
     \/ ~expired /\ ~Passes(m.code) /\ Answers(m, "wrong", 0) /\ UNCHANGED <<tokens, factor, used, passed>>
     \/ /\ ~expired /\ Accepts(m.code) /\ factor' = Spent(m.code) /\ used' = used \cup {t}
        /\ tokens' = Append(tokens, [Pair(New, TRUE) EXCEPT !.from = t]) /\ Answers(m, "answered", New)
  /\ UNCHANGED <<cut, closing, cutoffs, sockets, changed, step, raced>>

\* get_current_user, before the user's row is locked.
CheckSession(m) ==
  /\ m \in wire /\ m.ask \in Changes /\ ~m.checked
  /\ IF m.token <= cut THEN Answers(m, "refused", 0)
     ELSE /\ wire' = (wire \ {m}) \cup {[m EXCEPT !.checked = TRUE]}
          /\ UNCHANGED <<budget, deviceVars, processVars, cl, marks, attempt, task, historyVars>>
  /\ UNCHANGED serverVars

\* sign_out_everywhere, and a pair for who asked.
AllButOne(proved) ==
  /\ tokens' = Append(EndAll(tokens), Pair(New, proved)) /\ cut' = Len(tokens) /\ closing' = Len(tokens)

\* change_password, with or without sign_out_other_devices.
ChangePassword(m) ==
  LET proved == tokens[m.token].proved IN
  /\ m \in wire /\ m.ask \in {"password", "everywhere"} /\ m.checked
  /\ \/ Answers(m, "wrong", 0) /\ UNCHANGED <<tokens, cut, closing, changed, raced>>
     \/ /\ Answers(m, "answered", New) /\ changed' = Len(tokens) /\ raced' = (raced \/ m.token <= cut)
        /\ IF m.ask = "everywhere" THEN AllButOne(proved)
           ELSE tokens' = Append(tokens, Pair(New, proved)) /\ UNCHANGED <<cut, closing>>
  /\ UNCHANGED <<cutoffs, sockets, factor, used, step, passed>>

\* enroll: a new secret; one that was never activated goes.
Enroll ==
  /\ factor.on # "on" /\ Len(tokens) > cut /\ Spend("enroll")
  /\ factor' = [NoFactor EXCEPT !.on = "pending", !.secret = factor.made + 1, !.made = factor.made + 1]
  /\ UNCHANGED <<tokens, cut, closing, cutoffs, sockets, used, changed, step, passed, raced, wire, deviceVars,
                 processVars, clientVars, historyVars>>

\* Mutant: the other sessions stay.
ActivateKeeps(m) ==
  /\ m \in wire /\ m.ask = "activate" /\ m.checked
  /\ factor.on = "pending" /\ Accepts(m.code) /\ Answers(m, "answered", New)
  /\ factor' = Fresh([Spent(m.code) EXCEPT !.on = "on", !.since = Len(tokens)])
  /\ tokens' = Append(tokens, Pair(New, TRUE))
  /\ UNCHANGED <<cut, closing, cutoffs, sockets, used, changed, step, raced>>

\* activate: every other session ends.
Activate(m) ==
  /\ m \in wire /\ m.ask = "activate" /\ m.checked
  /\ \/ Answers(m, "wrong", 0) /\ UNCHANGED <<tokens, cut, closing, factor, passed, raced>>
     \/ /\ factor.on = "pending" /\ m.code[2] > 0 /\ Accepts(m.code) /\ Answers(m, "answered", New)
        /\ factor' = Fresh([Spent(m.code) EXCEPT !.on = "on", !.since = Len(tokens)])
        /\ AllButOne(TRUE) /\ raced' = (raced \/ m.token <= cut)
  /\ UNCHANGED <<cutoffs, sockets, used, changed, step>>

\* disable, regenerate_recovery_codes, from any device, with a code.
Manage ==
  /\ factor.on = "on" /\ Len(tokens) > cut /\ Spend("manage")
  /\ \E code \in AtHand :
       /\ Accepts(code)
       /\ factor' \in {[NoFactor EXCEPT !.made = factor.made], Fresh(Spent(code))}
  /\ UNCHANGED <<tokens, cut, closing, cutoffs, sockets, used, changed, step, raced, wire, deviceVars, processVars,
                 clientVars, historyVars>>

\* reset_totp, by an admin: the factor goes, and every session.
ResetFactor ==
  /\ Spend("reset") /\ factor' = [NoFactor EXCEPT !.made = factor.made]
  /\ tokens' = EndAll(tokens) /\ cut' = Len(tokens) /\ closing' = Len(tokens)
  /\ UNCHANGED <<cutoffs, sockets, used, changed, step, passed, raced, wire, deviceVars, processVars, clientVars,
                 historyVars>>

\* The next step of codes.
StepPasses ==
  /\ Spend("step") /\ step' = step + 1
  /\ UNCHANGED <<tokens, cut, closing, cutoffs, sockets, factor, used, changed, passed, raced, wire, deviceVars,
                 processVars, clientVars, historyVars>>

\* The api restarts: what it kept in memory is gone.
Restart ==
  /\ Spend("restart") /\ used' = {} /\ closing' = 0 /\ cutoffs' = 0 /\ sockets' = {}
  /\ UNCHANGED <<tokens, cut, factor, changed, step, passed, raced, wire, deviceVars, processVars, clientVars,
                 historyVars>>

\* change_password, on another device, that signs out all others.
OtherDevice ==
  /\ Len(tokens) > cut /\ Spend("others")
  /\ tokens' = EndAll(tokens) /\ cut' = Len(tokens) /\ closing' = Len(tokens)
  /\ changed' = Len(tokens)
  /\ UNCHANGED <<cutoffs, sockets, factor, used, step, passed, raced, wire, deviceVars, processVars, clientVars, historyVars>>

\* ws_endpoint, the token checked against what has committed.
Connect(t) ==
  /\ t > cut /\ tokens[t].state # "pending" /\ Spend("socket") /\ sockets' = sockets \cup {[token |-> t, at |-> "checked"]}
  /\ UNCHANGED <<tokens, cut, closing, cutoffs, factorVars, wire, deviceVars, processVars, clientVars, historyVars>>

\* Mutant: the token is not looked at again after the socket is registered.
RegisterOnce(s) ==
  /\ s \in sockets /\ s.at = "checked" /\ sockets' = (sockets \ {s}) \cup {[s EXCEPT !.at = "open"]}
  /\ UNCHANGED <<budget, tokens, cut, closing, cutoffs, factorVars, wire, deviceVars, processVars, clientVars,
                 historyVars>>

\* Registered in _live, and looked at again.
Register(s) ==
  /\ s \in sockets /\ s.at = "checked"
  /\ sockets' = (sockets \ {s}) \cup (IF s.token <= cutoffs THEN {} ELSE {[s EXCEPT !.at = "open"]})
  /\ UNCHANGED <<budget, tokens, cut, closing, cutoffs, factorVars, wire, deviceVars, processVars, clientVars,
                 historyVars>>

\* revoke_sessions
RevokeSessions ==
  /\ closing # 0 /\ closing' = 0 /\ cutoffs' = closing
  /\ sockets' = {s \in sockets : s.at = "open" => s.token > closing}
  /\ UNCHANGED <<budget, tokens, cut, factorVars, wire, deviceVars, processVars, clientVars, historyVars>>

-----------------------------------------------------------------------------
Serve ==
  \E m \in wire : Rotate(m) \/ EndLogin(m) \/ LogIn(m) \/ CompleteLogin(m)
                  \/ CheckSession(m) \/ ChangePassword(m) \/ Activate(m)

Factor == Enroll \/ Manage \/ ResetFactor \/ StepPasses \/ Restart

Sockets == RevokeSessions \/ (\E t \in Token : Connect(t)) \/ (\E s \in sockets : Register(s))

Client(c) ==
  \/ AskLogin(c) \/ Back(c) \/ EnterCode(c) \/ Logout(c) \/ Quit(c)
  \/ BeginLogin(c) \/ Begin(c) \/ RestoreReads(c) \/ RefreshBegins(c) \/ PasswordBegins(c)
  \/ Lose(c) \/ Committed(c) \/ Installed(c) \/ Refused(c)
  \/ Challenged(c) \/ TurnedDown(c)

Next == Start \/ Crash \/ OtherDevice \/ Factor \/ Serve \/ Sockets \/ \E c \in Clients : Client(c)

Spec == Init /\ [][Next]_vars

-----------------------------------------------------------------------------
(* Properties.                                                             *)

Accepted(t) == tokens[t].state = "live" \/ Graceful(t)

\* A login has one live token at most, whatever races and replays there were
\* (auth.py, _rotate).
OneLive == \A i, j \in Token :
  i # j /\ tokens[i].state = "live" /\ tokens[j].state = "live" => FamilyOf(i) # FamilyOf(j)

\* No socket of a session that was signed out everywhere stays, whenever it was
\* registered (ws.py, revoke_sessions).
SocketsRevoked ==
  closing = 0 => \A s \in sockets : s.at = "open" => s.token > cut

\* A code is accepted once, wherever it is presented and whatever restarted meanwhile
\* (verify_second_factor, _used_jti).
CodesOnce == \A i, j \in DOMAIN passed : passed[i] = passed[j] => i = j

\* While the second factor is on, no session goes on that wasn't begun with it
\* (activate), unless its request was looked at before the others were signed out.
FactorHolds == factor.on = "on" /\ ~raced => \A i \in Token : tokens[i].state = "live" => tokens[i].proved

\* The same, also then.
FactorHoldsAnyway == factor.on = "on" => \A i \in Token : tokens[i].state = "live" => tokens[i].proved

ServerInv == TypeOK /\ OneLive /\ SocketsRevoked /\ CodesOnce /\ FactorHolds

\* A login the user ended here, left at its code, or left before it was answered, is not
\* what is stored, although a refresh, a restore, the login or the code was under way.
EndedNotStored ==
  slot # 0 /\ ~fenced => FamilyOf(slot) \notin over /\ tokens[FamilyOf(slot)].from \notin over

\* Nothing overtook an answer of this login, but for these reasons.
Undisturbed(f, why) == \A o \in overtaken : o[1] = f => o[2] \notin why

\* A client that another has replaced never asks the server to end the login
\* that one goes on with (session_store.rs, revoke_detached).
SupersededSpares(why) == \A m \in wire :
  m.ask = "logout" /\ m.by # owner /\ owner # 0 /\ cl[owner].session # 0 /\ Undisturbed(FamilyOf(m.token), why)
    => FamilyOf(m.token) # FamilyOf(cl[owner].session)
OwnersLoginStays == SupersededSpares({"sign-out", "quit", "sign-in", "write"})

\* The same, although the keychain did not take a pair of that login.
OwnersLoginStaysUnwritten == SupersededSpares({"sign-out", "quit", "sign-in"})

\* The same, although its user signed out in the one that was replaced while that one
\* waited for a refresh.
OwnersLoginStaysAnyway == SupersededSpares({})

\* What is stored is good for the next launch.
StoredGood(why) ==
  lost < 2 /\ slot > cut /\ ~fenced /\ slotLock = 0 /\ Undisturbed(FamilyOf(slot), why)
    => Accepted(slot)

\* Unless two answers were lost, the signed-in client's token, and the stored one, are
\* good for the next refresh, unless the user signed out everywhere since.
Refreshable ==
  /\ StoredGood({"quit", "sign-in", "sign-out", "write", "late"})
  /\ \A c \in Clients :
       LET t == cl[c].session IN
       lost < 2 /\ t > cut /\ Owns(c) /\ task[c].kind = "none" /\ Undisturbed(FamilyOf(t), {"quit", "sign-in", "sign-out", "write", "late"})
         => Accepted(t)

\* Quitting, too, leaves what is stored good.
QuitKeepsLogin == StoredGood({"sign-in", "sign-out", "late"})

=============================================================================
