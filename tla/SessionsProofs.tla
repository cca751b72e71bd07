--------------------------- MODULE SessionsProofs ---------------------------
(***************************************************************************)
(* The proofs about Sessions: for any number of clients and of anything    *)
(* that happens, a login has one live token, a sign-out everywhere closes  *)
(* every socket, a code is accepted once, and while the second factor is   *)
(* on no session goes on without it.                                       *)
(*                                                                         *)
(* The argument about the server (ServerPart): a rotated token's successor *)
(* is of its login and as proved as it (Successors), so neither rotation   *)
(* nor its grace makes a second live token or one that is less proved; no  *)
(* live token is older than the last sign-out everywhere (LiveIsAfter),    *)
(* which is the cut-off that sockets go by (CutOffs); with the factor on,  *)
(* whatever is younger is proved (ProvedSince); and what was accepted of   *)
(* the secret there is, is at or before the last step used (CodesBehind).  *)
(* The clients (LocalPart) only ask with tokens that were answered.        *)
(*                                                                         *)
(* And a login that was ended on the device is not what is stored there:   *)
(* see What is stored, the second part of this module.  Nor does a client  *)
(* that was replaced have the login ended that another goes on with: see   *)
(* The login another client goes on with, the third part.                  *)
(* And what is stored stays good for the next refresh: see The token that  *)
(* is stored, the last part.                                               *)
(***************************************************************************)
EXTENDS Sessions, FiniteSetTheorems, TLAPS

\* A token of a session, not of a sign-in's first half.
Genuine(t) == t \in Token /\ tokens[t].state # "pending"

Families == \A t \in Token : tokens[t].family \in Token

Successors == \A t \in Token : tokens[t].state = "rotated" =>
  /\ tokens[t].next \in Token
  /\ tokens[tokens[t].next].family = tokens[t].family
  /\ tokens[tokens[t].next].proved = tokens[t].proved

LiveIsAfter == cut <= Len(tokens) /\ \A t \in Token : tokens[t].state = "live" => t > cut

ProvedSince == factor.on = "on" /\ ~raced => \A t \in Token : Genuine(t) /\ t > cut => tokens[t].proved

\* What is to be closed goes by the last cut-off, and so does what is registered late.
CutOffs ==
  /\ closing # 0 => closing = cut
  /\ closing = 0 => cutoffs = cut \/ \A s \in sockets : s.token > cut

\* What was accepted of a factor's secret, and of its recovery codes, is used.
Behind(f, P) ==
  /\ f.secret <= f.made /\ f.batch <= f.made
  /\ f.on # "off" => f.secret > 0
  /\ f.unused => f.batch > 0
  /\ \A i \in DOMAIN P :
       /\ 0 < P[i][1] /\ P[i][1] <= f.made
       /\ P[i][1] = f.secret /\ P[i][2] > 0 => P[i][2] <= f.last
       /\ P[i][1] = f.batch /\ P[i][2] = 0 => ~f.unused

CodesBehind == Behind(factor, passed)

\* The parts of the clients' state: a session, an answer that brings one and a request to
\* change the account are of a genuine token, and whatever else is asked is of some token.
BudgetPart == budget \in [Outside \cup {Before} -> Nat]
ClientPart == cl \in [Clients -> ClientRecord] /\ \A c \in Clients : cl[c].session # 0 => Genuine(cl[c].session)
TaskPart == task \in [Clients -> TaskRecord] /\ \A c \in Clients : task[c].at = "answered" => Genuine(task[c].answer)
Sound(m) ==
  m \in Request /\ (m.ask # "login" => m.token # 0) /\ (m.ask \in Changes => Genuine(m.token))
WirePart == \A m \in wire : Sound(m)
MarksPart == marks \in [Clients -> SUBSET (Token \X Nat)]
AttemptPart == attempt \in [Clients -> AttemptRecord]
SlotPart == slot \in {0} \cup Token /\ fenced \in BOOLEAN
ProcessPart ==
  started \in {0} \cup Clients /\ owner \in {0} \cup Clients /\ stored \in Nat /\ slotLock \in {0} \cup Clients
HistoryPart == lost \in Nat /\ over \subseteq Token /\ overtaken \subseteq Token \X {"quit", "sign-in", "sign-out", "write", "late"}

LocalPart ==
  /\ BudgetPart /\ ClientPart /\ TaskPart /\ WirePart /\ MarksPart /\ AttemptPart /\ SlotPart /\ ProcessPart
  /\ HistoryPart

TokensInv == Families /\ Successors /\ OneLive /\ LiveIsAfter /\ ProvedSince
ServerPart == ServerTypeOK /\ TokensInv /\ SocketsRevoked /\ CutOffs /\ CodesOnce /\ CodesBehind
IInv == ServerPart /\ LocalPart

-----------------------------------------------------------------------------
(* Token sequences.                                                        *)

\* Ending logins changes no token but for its state, and that only from "live".
LEMMA RevokeAllKeeps ==
  ASSUME NEW T \in Seq(TokenRecord), NEW F
  PROVE  /\ RevokeAll(T, F) \in Seq(TokenRecord)
         /\ Len(RevokeAll(T, F)) = Len(T)
         /\ \A i \in 1..Len(T) :
              RevokeAll(T, F)[i] = IF T[i].state = "live" /\ T[i].family \in F
                                   THEN [T[i] EXCEPT !.state = "revoked"] ELSE T[i]
<1> DEFINE R == RevokeAll(T, F)
<1>1. /\ DOMAIN R = 1..Len(T)
      /\ \A i \in 1..Len(T) : R[i] = IF T[i].state = "live" /\ T[i].family \in F
                                     THEN [T[i] EXCEPT !.state = "revoked"] ELSE T[i]
  BY DEF RevokeAll
<1>2. ASSUME NEW i \in 1..Len(T) PROVE R[i] \in TokenRecord
  <2>1. T[i] \in TokenRecord
    OBVIOUS
  <2>2. [T[i] EXCEPT !.state = "revoked"] \in TokenRecord
    BY <2>1 DEF TokenRecord
  <2> QED
    BY <1>1, <2>1, <2>2
<1>3. R = [i \in 1..Len(T) |-> R[i]]
  BY <1>1 DEF RevokeAll
<1>4. R \in [1..Len(T) -> TokenRecord]
  BY <1>2, <1>3
<1>5. R \in Seq(TokenRecord) /\ Len(R) = Len(T)
  BY <1>4
<1> QED
  BY <1>1, <1>5

\* Ending all of them leaves none live.
LEMMA EndAllKeeps ==
  ASSUME NEW T \in Seq(TokenRecord)
  PROVE  /\ EndAll(T) \in Seq(TokenRecord)
         /\ Len(EndAll(T)) = Len(T)
         /\ \A i \in 1..Len(T) :
              EndAll(T)[i] = IF T[i].state = "live" THEN [T[i] EXCEPT !.state = "revoked"] ELSE T[i]
<1> DEFINE F == {T[i].family : i \in DOMAIN T}
<1>1. EndAll(T) = RevokeAll(T, F)
  BY DEF EndAll
<1>2. \A i \in 1..Len(T) : T[i].family \in F
  OBVIOUS
<1> QED
  BY <1>1, <1>2, RevokeAllKeeps

\* Rotating one changes its state and its successor.
LEMMA RetireKeeps ==
  ASSUME NEW T \in Seq(TokenRecord), NEW i \in 1..Len(T), NEW next \in Nat
  PROVE  /\ Retire(T, i, next) \in Seq(TokenRecord)
         /\ Len(Retire(T, i, next)) = Len(T)
         /\ Retire(T, i, next)[i].state = IF next = 0 THEN "retired" ELSE "rotated"
         /\ Retire(T, i, next)[i].next = next
         /\ Retire(T, i, next)[i].family = T[i].family /\ Retire(T, i, next)[i].from = T[i].from
         /\ Retire(T, i, next)[i].proved = T[i].proved
         /\ \A j \in 1..Len(T) \ {i} : Retire(T, i, next)[j] = T[j]
<1> DEFINE st == IF next = 0 THEN "retired" ELSE "rotated"
           r == [T[i] EXCEPT !.state = st, !.next = next]
<1>1. T[i] \in TokenRecord /\ st \in {"retired", "rotated"}
  OBVIOUS
<1>2. r \in TokenRecord
  <2> HIDE DEF st
  <2> QED
    BY <1>1 DEF TokenRecord
<1>3. Retire(T, i, next) = [T EXCEPT ![i] = r]
  BY DEF Retire
<1> HIDE DEF r
<1>4. /\ Retire(T, i, next) \in Seq(TokenRecord)
      /\ Len(Retire(T, i, next)) = Len(T)
      /\ Retire(T, i, next)[i] = r
      /\ \A j \in 1..Len(T) \ {i} : Retire(T, i, next)[j] = T[j]
  BY <1>2, <1>3
<1>5. r.state = st /\ r.next = next /\ r.family = T[i].family /\ r.from = T[i].from /\ r.proved = T[i].proved
  <2> HIDE DEF st
  <2> QED
    BY <1>1 DEF TokenRecord, r
<1> QED
  BY <1>4, <1>5

\* What is appended is the last.
LEMMA AppendsOne ==
  ASSUME NEW T \in Seq(TokenRecord), NEW r \in TokenRecord
  PROVE  /\ Append(T, r) \in Seq(TokenRecord) /\ Len(Append(T, r)) = Len(T) + 1
         /\ Append(T, r)[Len(T) + 1] = r
         /\ \A i \in 1..Len(T) : Append(T, r)[i] = T[i]
OBVIOUS

-----------------------------------------------------------------------------
(* Tokens: what a step of the server adds and ends.                        *)

\* Tokens are added, and keep what they are.
Grown ==
  /\ tokens' \in Seq(TokenRecord) /\ Len(tokens) <= Len(tokens')
  /\ \A i \in Token :
       /\ tokens'[i].family = tokens[i].family /\ tokens'[i].from = tokens[i].from
       /\ tokens'[i].proved = tokens[i].proved
       /\ tokens'[i].state = "pending" <=> tokens[i].state = "pending"

\* The new token is of a session, in this login and from this pending token.
Issues(family, pending) ==
  Token' = Token \cup {New} /\ tokens'[New].state # "pending" /\ tokens'[New].family = family /\ tokens'[New].from = pending

\* A step that only concerns tokens leaves sockets, cut-offs and codes alone.
LEMMA TokensAlone ==
  ASSUME ServerPart, Grown, TokensInv', UNCHANGED <<cut, closing, cutoffs, sockets, factorVars>>
  PROVE  ServerPart'
<1> USE DEF ServerPart, Grown, factorVars
<1>1. Token \subseteq Token'
  BY DEF Token, ServerTypeOK
<1>2. ServerTypeOK'
  BY <1>1 DEF ServerTypeOK
<1>3. SocketsRevoked' /\ CutOffs'
  BY DEF SocketsRevoked, CutOffs
<1>4. CodesOnce' /\ CodesBehind'
  BY DEF CodesOnce, CodesBehind
<1> QED
  BY <1>2, <1>3, <1>4

\* A live token rotates: its successor takes its place.
LEMMA LiveRotates ==
  ASSUME ServerPart, NEW t \in Token, tokens[t].state = "live",
         tokens' = Append(Retire(tokens, t, New), Pair(FamilyOf(t), tokens[t].proved)),
         UNCHANGED <<cut, closing, cutoffs, sockets, factorVars>>
  PROVE  ServerPart' /\ Grown /\ Issues(FamilyOf(t), 0)
<1> USE DEF Token
<1> DEFINE T == Retire(tokens, t, New)
           p == Pair(FamilyOf(t), tokens[t].proved)
           o == T[t]
<1>1. tokens \in Seq(TokenRecord) /\ New \in Nat /\ New = Len(tokens) + 1 /\ New # 0
  BY DEF ServerPart, ServerTypeOK, New
<1>2. /\ T \in Seq(TokenRecord) /\ Len(T) = Len(tokens)
      /\ \A j \in Token \ {t} : T[j] = tokens[j]
  BY <1>1, RetireKeeps
<1>3. tokens[t] \in TokenRecord
  BY <1>1
<1>4. /\ p \in TokenRecord /\ p.family = tokens[t].family /\ p.proved = tokens[t].proved
      /\ p.state = "live"
  BY <1>3 DEF Pair, FamilyOf, TokenRecord
<1>5. o.family = tokens[t].family /\ o.proved = tokens[t].proved /\ o.state = "rotated" /\ o.next = New
  BY <1>1, RetireKeeps
<1> HIDE DEF T, p, o
<1>6. /\ tokens' \in Seq(TokenRecord) /\ Len(tokens') = New /\ tokens'[t] = o /\ tokens'[New] = p
      /\ \A j \in Token \ {t} : tokens'[j] = tokens[j]
  <2>1. tokens' = Append(T, p)
    BY DEF T, p
  <2> QED
    BY <2>1, <1>1, <1>2, <1>4 DEF o
<1>7. p.from = 0 /\ o.from = tokens[t].from
  BY <1>1, <1>3, RetireKeeps DEF T, p, o, Pair
<1>8. Grown
  BY <1>1, <1>3, <1>5, <1>6, <1>7 DEF Grown
<1>9. TokensInv'
  <2> USE <1>1, <1>4, <1>5, <1>6 DEF ServerPart, TokensInv
  <2>1. Families'
    BY DEF Families
  <2>2. Successors'
    BY DEF Successors
  <2>3. OneLive'
    BY DEF OneLive, FamilyOf
  <2>4. LiveIsAfter'
    BY DEF LiveIsAfter, ServerTypeOK
  <2>5. ProvedSince'
    BY DEF ProvedSince, Genuine, LiveIsAfter, factorVars
  <2> QED
    BY <2>1, <2>2, <2>3, <2>4, <2>5
<1> QED
  BY <1>1, <1>4, <1>6, <1>7, <1>8, <1>9, TokensAlone DEF Issues, FamilyOf

\* A rotated token is presented once more: its successor retires, and a new one
\* takes that one's place.
LEMMA GraceRotates ==
  ASSUME ServerPart, NEW t \in Token, Graceful(t),
         tokens' = Append(Retire(tokens, tokens[t].next, 0), Pair(FamilyOf(t), tokens[t].proved)),
         UNCHANGED <<cut, closing, cutoffs, sockets, factorVars>>
  PROVE  ServerPart' /\ Grown /\ Issues(FamilyOf(t), 0)
<1> USE DEF Token
<1> DEFINE n == tokens[t].next
           T == Retire(tokens, n, 0)
           p == Pair(FamilyOf(t), tokens[t].proved)
           o == T[n]
<1>1. tokens \in Seq(TokenRecord) /\ New \in Nat /\ New = Len(tokens) + 1 /\ New # 0
  BY DEF ServerPart, ServerTypeOK, New
<1>2. /\ n \in Token /\ tokens[t].state = "rotated" /\ tokens[n].state = "live"
      /\ tokens[n].family = tokens[t].family /\ tokens[n].proved = tokens[t].proved
  BY DEF ServerPart, TokensInv, Successors, Graceful
<1>3. tokens[t] \in TokenRecord /\ tokens[n] \in TokenRecord
  BY <1>1, <1>2
<1>4. /\ p \in TokenRecord /\ p.family = tokens[t].family /\ p.proved = tokens[t].proved
      /\ p.state = "live"
  BY <1>3 DEF Pair, FamilyOf, TokenRecord
<1> HIDE DEF n
<1>5. /\ T \in Seq(TokenRecord) /\ Len(T) = Len(tokens)
      /\ \A j \in Token \ {n} : T[j] = tokens[j]
      /\ o.family = tokens[n].family /\ o.proved = tokens[n].proved /\ o.state = "retired"
  BY <1>1, <1>2, RetireKeeps
<1> HIDE DEF T, p, o
<1>6. /\ tokens' \in Seq(TokenRecord) /\ Len(tokens') = New /\ tokens'[n] = o /\ tokens'[New] = p
      /\ \A j \in Token \ {n} : tokens'[j] = tokens[j]
  <2>1. tokens' = Append(T, p)
    BY DEF T, p, n
  <2>2. /\ Append(T, p) \in Seq(TokenRecord) /\ Len(Append(T, p)) = Len(T) + 1
        /\ Append(T, p)[Len(T) + 1] = p
        /\ \A j \in 1..Len(T) : Append(T, p)[j] = T[j]
    BY <1>4, <1>5, AppendsOne
  <2> QED
    BY <2>1, <2>2, <1>1, <1>2, <1>5 DEF o
<1>7. p.from = 0 /\ o.from = tokens[n].from
  BY <1>1, <1>2, <1>3, RetireKeeps DEF T, p, o, Pair
<1>8. Grown
  BY <1>1, <1>2, <1>3, <1>5, <1>6, <1>7 DEF Grown
<1>9. TokensInv'
  <2> USE <1>1, <1>2, <1>4, <1>5, <1>6 DEF ServerPart, TokensInv
  <2>1. Families'
    BY DEF Families
  <2>2. Successors'
    <3> SUFFICES ASSUME NEW i \in Token', tokens'[i].state = "rotated"
                 PROVE  /\ tokens'[i].next \in Token'
                        /\ tokens'[tokens'[i].next].family = tokens'[i].family
                        /\ tokens'[tokens'[i].next].proved = tokens'[i].proved
      BY DEF Successors
    <3>1. i \in Token \ {n} /\ tokens'[i] = tokens[i] /\ tokens[i].state = "rotated"
      OBVIOUS
    <3> DEFINE k == tokens[i].next
    <3>2. k \in Token /\ tokens[k].family = tokens[i].family /\ tokens[k].proved = tokens[i].proved
      BY <3>1 DEF Successors
    <3> HIDE DEF k
    <3>3. k \in Token' /\ tokens'[k].family = tokens[k].family /\ tokens'[k].proved = tokens[k].proved
      BY <3>2
    <3>4. tokens'[i].next = k
      BY <3>1 DEF k
    <3> QED
      BY <3>1, <3>2, <3>3, <3>4
  <2>3. OneLive'
    BY DEF OneLive, FamilyOf
  <2>4. LiveIsAfter'
    BY DEF LiveIsAfter, ServerTypeOK
  <2>5. ProvedSince'
    BY DEF ProvedSince, Genuine, LiveIsAfter, factorVars
  <2> QED
    BY <2>1, <2>2, <2>3, <2>4, <2>5
<1> QED
  BY <1>1, <1>4, <1>6, <1>7, <1>8, <1>9, TokensAlone DEF Issues, FamilyOf

\* The logins of these families end.
LEMMA FamiliesEnd ==
  ASSUME ServerPart, NEW F, tokens' = RevokeAll(tokens, F),
         UNCHANGED <<cut, closing, cutoffs, sockets, factorVars>>
  PROVE  ServerPart' /\ Grown /\ Token' = Token
<1> USE DEF Token
<1>1. tokens \in Seq(TokenRecord)
  BY DEF ServerPart, ServerTypeOK
<1>2. /\ tokens' \in Seq(TokenRecord) /\ Len(tokens') = Len(tokens)
      /\ \A i \in Token : tokens'[i] = IF tokens[i].state = "live" /\ tokens[i].family \in F
                                      THEN [tokens[i] EXCEPT !.state = "revoked"] ELSE tokens[i]
  BY <1>1, RevokeAllKeeps
<1>3. ASSUME NEW i \in Token
      PROVE  /\ tokens'[i].family = tokens[i].family /\ tokens'[i].from = tokens[i].from
             /\ tokens'[i].proved = tokens[i].proved
             /\ tokens'[i].next = tokens[i].next
             /\ tokens'[i].state = tokens[i].state \/ (tokens[i].state = "live" /\ tokens'[i].state = "revoked")
  <2>1. tokens[i] \in TokenRecord
    BY <1>1
  <2> QED
    BY <1>2, <2>1 DEF TokenRecord
<1>4. Grown
  BY <1>1, <1>2, <1>3 DEF Grown
<1>5. TokensInv'
  <2> USE <1>1, <1>2, <1>3 DEF ServerPart, TokensInv
  <2>1. Families'
    BY DEF Families
  <2>2. Successors'
    BY DEF Successors
  <2>3. OneLive'
    BY DEF OneLive, FamilyOf
  <2>4. LiveIsAfter'
    BY DEF LiveIsAfter
  <2>5. ProvedSince'
    BY DEF ProvedSince, Genuine, factorVars
  <2> QED
    BY <2>1, <2>2, <2>3, <2>4, <2>5
<1>6. Token' = Token
  BY <1>2
<1>7. ServerPart'
  BY <1>4, <1>5, TokensAlone
<1> QED
  BY <1>4, <1>6, <1>7

\* A token of a login of its own, pending, or proved as what is on asks for.
LEMMA OneAdded ==
  ASSUME ServerPart, NEW r \in TokenRecord, tokens' = Append(tokens, r),
         r.family = New, r.state \in {"live", "pending"},
         factor.on = "on" /\ ~raced' => r.state = "pending" \/ r.proved,
         raced => raced', raced' \in BOOLEAN, factor'.on = factor.on, UNCHANGED cut
  PROVE  TokensInv' /\ Grown /\ Token' = Token \cup {New} /\ tokens'[New] = r
<1> USE DEF Token
<1>1. tokens \in Seq(TokenRecord) /\ New \in Nat /\ New = Len(tokens) + 1 /\ New # 0
  BY DEF ServerPart, ServerTypeOK, New
<1>2. /\ tokens' \in Seq(TokenRecord) /\ Len(tokens') = New /\ tokens'[New] = r
      /\ \A j \in Token : tokens'[j] = tokens[j]
  BY <1>1
<1>3. Grown
  BY <1>1, <1>2 DEF Grown
<1>4. TokensInv'
  <2> USE <1>1, <1>2 DEF ServerPart, TokensInv
  <2>1. Families'
    BY DEF Families
  <2>2. Successors'
    BY DEF Successors
  <2>3. OneLive'
    BY DEF OneLive, FamilyOf, Families
  <2>4. LiveIsAfter'
    BY DEF LiveIsAfter, ServerTypeOK
  <2>5. ProvedSince'
    BY DEF ProvedSince, Genuine
  <2> QED
    BY <2>1, <2>2, <2>3, <2>4, <2>5
<1> QED
  BY <1>1, <1>2, <1>3, <1>4

\* Every session ends but, perhaps, one that is new.
LEMMA AllEnd ==
  ASSUME ServerPart, NEW proved \in BOOLEAN,
         tokens' = EndAll(tokens) \/ tokens' = Append(EndAll(tokens), Pair(New, proved)),
         cut' = Len(tokens), closing' = Len(tokens), UNCHANGED <<cutoffs, sockets>>,
         tokens' # EndAll(tokens) /\ factor'.on = "on" /\ ~raced' => proved
  PROVE  /\ TokensInv' /\ Grown /\ SocketsRevoked' /\ CutOffs'
         /\ tokens' # EndAll(tokens) => Issues(New, 0)
<1> USE DEF Token
<1> DEFINE E == EndAll(tokens)
           p == Pair(New, proved)
<1>1. tokens \in Seq(TokenRecord) /\ New \in Nat /\ New = Len(tokens) + 1 /\ New # 0 /\ cut \in Nat
  BY DEF ServerPart, ServerTypeOK, New
<1>2. /\ E \in Seq(TokenRecord) /\ Len(E) = Len(tokens)
      /\ \A i \in Token : E[i] = IF tokens[i].state = "live" THEN [tokens[i] EXCEPT !.state = "revoked"] ELSE tokens[i]
  BY <1>1, EndAllKeeps
<1>3. /\ p \in TokenRecord /\ p.family = New /\ p.proved = proved /\ p.state = "live" /\ p.from = 0
  BY <1>1 DEF Pair, TokenRecord
<1>4. /\ Append(E, p) \in Seq(TokenRecord) /\ Len(Append(E, p)) = Len(tokens) + 1
      /\ Append(E, p)[New] = p
      /\ \A i \in Token : Append(E, p)[i] = E[i]
  BY <1>1, <1>2, <1>3, AppendsOne
<1> HIDE DEF E, p
<1>5. ASSUME NEW i \in Token
      PROVE  /\ E[i].family = tokens[i].family /\ E[i].from = tokens[i].from /\ E[i].proved = tokens[i].proved
             /\ E[i].next = tokens[i].next /\ E[i].state # "live"
             /\ E[i].state = tokens[i].state \/ (tokens[i].state = "live" /\ E[i].state = "revoked")
  <2>1. tokens[i] \in TokenRecord
    BY <1>1
  <2> QED
    BY <1>2, <2>1 DEF TokenRecord
<1>6. /\ tokens' \in Seq(TokenRecord) /\ \A i \in Token : tokens'[i] = E[i]
      /\ \/ tokens' = E /\ Token' = Token
         \/ tokens' # E /\ Token' = Token \cup {New} /\ tokens'[New] = p
  BY <1>1, <1>2, <1>4 DEF E, p
<1>7. Grown
  BY <1>1, <1>2, <1>4, <1>5, <1>6 DEF Grown, E, p
<1>8. TokensInv'
  <2> USE <1>1, <1>3, <1>5, <1>6 DEF ServerPart, TokensInv
  <2>1. Families'
    BY DEF Families
  <2>2. Successors'
    BY DEF Successors
  <2>3. OneLive'
    BY DEF OneLive, FamilyOf
  <2>4. LiveIsAfter'
    BY DEF LiveIsAfter
  <2>5. ProvedSince'
    BY DEF ProvedSince, Genuine, E
  <2> QED
    BY <2>1, <2>2, <2>3, <2>4, <2>5
<1>9. SocketsRevoked' /\ CutOffs'
  <2>1. sockets \subseteq [token: Token, at: {"checked", "open"}]
    BY DEF ServerPart, ServerTypeOK
  <2>2. closing' = 0 => Token = {}
    BY <1>1
  <2>3. closing' = 0 => sockets = {}
    BY <2>1, <2>2
  <2> QED
    BY <2>3 DEF SocketsRevoked, CutOffs
<1> QED
  BY <1>1, <1>3, <1>6, <1>7, <1>8, <1>9 DEF E, Issues

-----------------------------------------------------------------------------
(* Codes.                                                                  *)

Codes == Nat \X Nat

\* A code that passes wasn't accepted before, and is used from now on.
LEMMA SpentBehind ==
  ASSUME factor \in FactorRecord, factor.on # "off", passed \in Seq(Codes), NEW code \in Codes,
         CodesOnce, CodesBehind, Accepts(code)
  PROVE  /\ passed' \in Seq(Codes) /\ CodesOnce' /\ Behind(Spent(code), passed')
         /\ Spent(code) \in FactorRecord
         /\ Spent(code).on = factor.on /\ Spent(code).made = factor.made /\ Spent(code).secret = factor.secret
<1> DEFINE n == Len(passed) + 1
           f == Spent(code)
<1>1. /\ passed' \in Seq(Codes) /\ Len(passed') = n /\ DOMAIN passed' = 1..n /\ passed'[n] = code
      /\ \A i \in 1..Len(passed) : passed'[i] = passed[i]
      /\ DOMAIN passed = 1..Len(passed) /\ n \in Nat
  BY DEF Accepts
<1>2. /\ f \in FactorRecord /\ f.on = factor.on /\ f.made = factor.made
      /\ f.secret = factor.secret /\ f.batch = factor.batch
      /\ f.last = IF code[2] = 0 THEN factor.last ELSE code[2]
      /\ f.unused => factor.unused /\ code[2] # 0
  <2>1. CASE code[2] = 0
    BY <2>1 DEF Spent, FactorRecord
  <2>2. CASE code[2] # 0
    BY <2>2 DEF Spent, FactorRecord, Codes
  <2> QED
    BY <2>1, <2>2
<1>3. /\ code[1] \in Nat /\ code[2] \in Nat
      /\ \/ code[2] > 0 /\ code[1] = factor.secret /\ code[2] > factor.last
         \/ code[2] = 0 /\ code[1] = factor.batch /\ factor.unused
  BY DEF Accepts, Passes, Codes
<1>4. \A i \in 1..Len(passed) : passed[i] \in Codes /\ passed[i][1] \in Nat /\ passed[i][2] \in Nat
  BY DEF Codes
<1>5. factor.secret \in Nat /\ factor.batch \in Nat /\ factor.made \in Nat /\ factor.last \in Nat
  BY DEF FactorRecord
<1> HIDE DEF f, n
<1>6. \A i \in 1..Len(passed) : passed[i] # code
  <2> SUFFICES ASSUME NEW i \in 1..Len(passed), passed[i] = code PROVE FALSE
    OBVIOUS
  <2>1. /\ code[1] = factor.secret /\ code[2] > 0 => code[2] <= factor.last
        /\ code[1] = factor.batch /\ code[2] = 0 => ~factor.unused
    BY <1>1 DEF CodesBehind, Behind
  <2> QED
    BY <1>3, <1>5, <2>1
<1>7. CodesOnce'
  BY <1>1, <1>6 DEF CodesOnce, n
<1>8. Behind(f, passed')
  <2>1. f.secret <= f.made /\ f.batch <= f.made /\ f.secret > 0 /\ (f.unused => f.batch > 0)
    BY <1>2, <1>5 DEF CodesBehind, Behind
  <2>2. ASSUME NEW i \in 1..Len(passed)
        PROVE  /\ 0 < passed'[i][1] /\ passed'[i][1] <= f.made
               /\ passed'[i][1] = f.secret /\ passed'[i][2] > 0 => passed'[i][2] <= f.last
               /\ passed'[i][1] = f.batch /\ passed'[i][2] = 0 => ~f.unused
    <3> DEFINE x == passed[i][1]
               y == passed[i][2]
    <3>1. /\ 0 < x /\ x <= factor.made
          /\ x = factor.secret /\ y > 0 => y <= factor.last
          /\ x = factor.batch /\ y = 0 => ~factor.unused
      BY <1>1 DEF CodesBehind, Behind
    <3>2. x \in Nat /\ y \in Nat /\ passed'[i][1] = x /\ passed'[i][2] = y
      BY <1>1, <1>4
    <3> HIDE DEF x, y
    <3> QED
      BY <1>2, <1>3, <1>5, <3>1, <3>2
  <2>3. /\ 0 < code[1] /\ code[1] <= f.made
        /\ code[1] = f.secret /\ code[2] > 0 => code[2] <= f.last
        /\ code[1] = f.batch /\ code[2] = 0 => ~f.unused
    BY <1>2, <1>3, <1>5 DEF CodesBehind, Behind
  <2> QED
    BY <1>1, <2>1, <2>2, <2>3 DEF Behind, n
<1> QED
  BY <1>1, <1>2, <1>7, <1>8 DEF f

\* So with fresh recovery codes, in a factor that is turned on, is gone, or is new.
LEMMA FreshBehind ==
  ASSUME factor \in FactorRecord, NEW P \in Seq(Codes), NEW f \in FactorRecord, Behind(f, P),
         f.made = factor.made
  PROVE  Fresh(f) \in FactorRecord /\ Behind(Fresh(f), P)
<1> DEFINE g == Fresh(f)
<1>1. \A i \in DOMAIN P : P[i][1] \in Nat
  BY DEF Codes
<1>2. g \in FactorRecord
  <2> DEFINE k == f.made + 1
  <2>1. k \in Nat /\ g = [f EXCEPT !.batch = k, !.unused = TRUE, !.made = k]
    BY DEF FactorRecord, Fresh
  <2> HIDE DEF k, g
  <2> QED
    BY <2>1 DEF FactorRecord
<1>3. /\ g.on = f.on /\ g.last = f.last /\ g.secret = f.secret
      /\ g.batch = f.made + 1 /\ g.unused = TRUE /\ g.made = f.made + 1
  BY DEF FactorRecord, Fresh
<1>4. f.secret \in Nat /\ f.made \in Nat
  BY DEF FactorRecord
<1> HIDE DEF g
<1>5. Behind(g, P)
  BY <1>1, <1>3, <1>4 DEF Behind
<1> QED
  BY <1>2, <1>5 DEF g

\* A factor that is switched on has accepted nothing more.
LEMMA OnBehind ==
  ASSUME NEW P, NEW f \in FactorRecord, Behind(f, P), f.on # "off", NEW since \in Nat
  PROVE  /\ [f EXCEPT !.on = "on", !.since = since] \in FactorRecord
         /\ Behind([f EXCEPT !.on = "on", !.since = since], P)
         /\ [f EXCEPT !.on = "on", !.since = since].made = f.made
BY DEF FactorRecord, Behind

\* A factor that is switched off leaves its count of secrets, so the next is a new one.
LEMMA GoneBehind ==
  ASSUME NEW P, factor \in FactorRecord, Behind(factor, P)
  PROVE  /\ [NoFactor EXCEPT !.made = factor.made] \in FactorRecord
         /\ Behind([NoFactor EXCEPT !.made = factor.made], P)
         /\ [NoFactor EXCEPT !.made = factor.made].on = "off"
<1> DEFINE g == [NoFactor EXCEPT !.made = factor.made]
<1>1. factor.made \in Nat
  BY DEF FactorRecord
<1>2. g \in FactorRecord
  <2>1. NoFactor \in FactorRecord
    BY DEF FactorRecord, NoFactor
  <2> QED
    BY <1>1, <2>1 DEF FactorRecord
<1>3. g.on = "off" /\ g.secret = 0 /\ g.batch = 0 /\ g.unused = FALSE /\ g.made = factor.made
  BY DEF NoFactor
<1> HIDE DEF g
<1>4. Behind(g, P)
  BY <1>1, <1>3 DEF Behind
<1> QED
  BY <1>2, <1>3, <1>4 DEF g

\* A factor's new secret is one no code was accepted of.
LEMMA NewBehind ==
  ASSUME NEW P \in Seq(Codes), factor \in FactorRecord, Behind(factor, P)
  PROVE  LET f == [NoFactor EXCEPT !.on = "pending", !.secret = factor.made + 1, !.made = factor.made + 1] IN
         f \in FactorRecord /\ Behind(f, P) /\ f.on = "pending"
<1> DEFINE g == [NoFactor EXCEPT !.on = "pending", !.secret = factor.made + 1, !.made = factor.made + 1]
<1>1. factor.made \in Nat /\ \A i \in DOMAIN P : P[i][1] \in Nat
  BY DEF Codes, FactorRecord
<1>2. g \in FactorRecord
  <2> DEFINE k == factor.made + 1
  <2>1. k \in Nat
    BY <1>1
  <2>2. NoFactor \in FactorRecord
    BY DEF FactorRecord, NoFactor
  <2> HIDE DEF k
  <2>3. [NoFactor EXCEPT !.on = "pending", !.secret = k, !.made = k] \in FactorRecord
    BY <2>1, <2>2 DEF FactorRecord
  <2> QED
    BY <2>3 DEF k
<1>3. /\ g.on = "pending" /\ g.secret = factor.made + 1 /\ g.batch = 0 /\ g.unused = FALSE
      /\ g.made = factor.made + 1
  BY DEF NoFactor
<1> HIDE DEF g
<1>4. Behind(g, P)
  BY <1>1, <1>3 DEF Behind
<1> QED
  BY <1>2, <1>3, <1>4 DEF g

-----------------------------------------------------------------------------
(* The server's steps.                                                     *)

\* Nothing of the server's changes.
LEMMA ServerStays ==
  ASSUME ServerPart, UNCHANGED serverVars
  PROVE  ServerPart' /\ Grown
<1> USE DEF serverVars, factorVars, ServerPart, Token
<1>1. ServerTypeOK'
  BY DEF ServerTypeOK
<1>2. TokensInv'
  BY DEF TokensInv, Families, Successors, OneLive, FamilyOf, LiveIsAfter, ProvedSince, Genuine
<1>3. SocketsRevoked' /\ CutOffs' /\ CodesOnce' /\ CodesBehind'
  BY DEF SocketsRevoked, CutOffs, CodesOnce, CodesBehind
<1>4. Grown
  BY DEF Grown, ServerTypeOK
<1> QED
  BY <1>1, <1>2, <1>3, <1>4

\* Refresh: a rotation, its repetition in the grace, or a refusal that ends the login.
LEMMA RotateKeeps ==
  ASSUME ServerPart, NEW m, Rotate(m), m.token \in Token
  PROVE  /\ ServerPart' /\ Grown
         /\ \/ Answers(m, "answered", New) /\ Issues(FamilyOf(m.token), 0)
            \/ Answers(m, "refused", 0) /\ Token' = Token
<1> DEFINE t == m.token
           a == Append(Retire(tokens, t, New), Pair(FamilyOf(t), tokens[t].proved))
           b == Append(Retire(tokens, tokens[t].next, 0), Pair(FamilyOf(t), tokens[t].proved))
<1> USE DEF Rotate
<1>1. CASE tokens[t].state = "live" /\ tokens' = a /\ Answers(m, "answered", New)
  <2>1. ServerPart' /\ Grown /\ Issues(FamilyOf(t), 0)
    BY <1>1, LiveRotates
  <2> QED
    BY <1>1, <2>1
<1>2. CASE Graceful(t) /\ tokens' = b /\ Answers(m, "answered", New)
  <2>1. ServerPart' /\ Grown /\ Issues(FamilyOf(t), 0)
    BY <1>2, GraceRotates
  <2> QED
    BY <1>2, <2>1
<1>3. CASE UNCHANGED tokens /\ Answers(m, "refused", 0)
  BY <1>3, ServerStays DEF serverVars, Token
<1>4. CASE tokens' = EndFamily(tokens, FamilyOf(t)) /\ Answers(m, "refused", 0)
  BY <1>4, FamiliesEnd DEF EndFamily
<1> QED
  BY <1>1, <1>2, <1>3, <1>4

\* Logout ends the login and answers nothing.
LEMMA EndLoginKeeps ==
  ASSUME ServerPart, NEW m, EndLogin(m)
  PROVE  ServerPart' /\ Grown /\ Answers(m, "refused", 0) /\ Token' = Token
BY FamiliesEnd DEF EndLogin, EndFamily

\* A pair is one of a login's tokens, and of the one it is the first of.
LEMMA PairIs ==
  ASSUME ServerPart, NEW proved \in BOOLEAN
  PROVE  /\ Pair(New, proved) \in TokenRecord /\ Pair(New, proved).family = New
         /\ Pair(New, proved).state = "live" /\ Pair(New, proved).proved = proved /\ Pair(New, proved).from = 0
<1>1. New \in Nat
  BY DEF ServerPart, ServerTypeOK, New
<1> QED
  BY <1>1 DEF Pair, TokenRecord

\* A sign-in answers a pair, or a pending token when the factor is on.
LEMMA LogInKeeps ==
  ASSUME ServerPart, NEW m, LogIn(m)
  PROVE  /\ ServerPart' /\ Grown /\ Token' = Token \cup {New}
         /\ tokens'[New].family = New /\ tokens'[New].from = 0
         /\ \/ Answers(m, "answered", New) /\ Issues(New, 0)
            \/ Answers(m, "challenged", New) /\ tokens'[New].state = "pending"
<1> DEFINE q == Pair(New, FALSE)
           r == [q EXCEPT !.state = "pending"]
<1>1. q \in TokenRecord /\ q.family = New /\ q.state = "live" /\ q.from = 0
  BY PairIs
<1> HIDE DEF q
<1>2. r \in TokenRecord /\ r.family = New /\ r.state = "pending" /\ r.from = 0
  BY <1>1 DEF TokenRecord
<1> HIDE DEF r
<1>3. raced \in BOOLEAN /\ raced' = raced /\ factor' = factor /\ cut' = cut
  BY DEF LogIn, factorVars, ServerPart, ServerTypeOK
<1>4. CASE factor.on # "on" /\ tokens' = Append(tokens, q) /\ Answers(m, "answered", New)
  <2>1. TokensInv' /\ Grown /\ Token' = Token \cup {New} /\ tokens'[New] = q
    BY <1>1, <1>3, <1>4, OneAdded
  <2>2. ServerPart'
    BY <2>1, TokensAlone DEF LogIn
  <2> QED
    BY <1>1, <1>4, <2>1, <2>2 DEF Issues
<1>5. CASE tokens' = Append(tokens, r) /\ Answers(m, "challenged", New)
  <2>1. TokensInv' /\ Grown /\ Token' = Token \cup {New} /\ tokens'[New] = r
    BY <1>2, <1>3, <1>5, OneAdded
  <2>2. ServerPart'
    BY <2>1, TokensAlone DEF LogIn
  <2> QED
    BY <1>2, <1>5, <2>1, <2>2
<1> QED
  BY <1>4, <1>5 DEF LogIn, q, r

\* The parts put together.
LEMMA Together ==
  ASSUME ServerPart, Grown, TokensInv', SocketsRevoked', CutOffs', CodesOnce', CodesBehind',
         factor' \in FactorRecord, passed' \in Seq(Codes), raced' \in BOOLEAN,
         used' \subseteq Token', changed' \in Nat, step' \in Nat \ {0}, cut' \in Nat, closing' \in Nat, cutoffs' \in Nat,
         sockets' \subseteq [token: Token, at: {"checked", "open"}]
  PROVE  ServerPart'
<1>1. Token \subseteq Token' /\ tokens' \in Seq(TokenRecord)
  BY DEF Token, Grown, ServerPart, ServerTypeOK
<1>2. sockets' \subseteq [token: Token', at: {"checked", "open"}]
  BY <1>1
<1> QED
  BY <1>1, <1>2 DEF ServerPart, ServerTypeOK, Codes

\* The second half of a sign-in: a code that was not accepted before, and a pair that
\* is proved.
LEMMA CompleteLoginKeeps ==
  ASSUME ServerPart, NEW m, CompleteLogin(m), m.token \in Token, m.code \in Codes
  PROVE  /\ ServerPart' /\ Grown
         /\ \/ Answers(m, "answered", New) /\ Issues(New, m.token)
            \/ (Answers(m, "expired", 0) \/ Answers(m, "wrong", 0)) /\ Token' = Token
<1> DEFINE q == Pair(New, TRUE)
           r == [q EXCEPT !.from = m.token]
<1>1. q \in TokenRecord /\ q.family = New /\ q.state = "live" /\ q.proved = TRUE
  BY PairIs
<1> HIDE DEF q
<1>2. r \in TokenRecord /\ r.family = New /\ r.state = "live" /\ r.proved = TRUE /\ r.from = m.token
  <2>1. m.token \in Nat
    BY DEF Token
  <2> QED
    BY <1>1, <2>1 DEF TokenRecord
<1> HIDE DEF r
<1>3. CASE UNCHANGED <<tokens, factor, used, passed>> /\ (Answers(m, "expired", 0) \/ Answers(m, "wrong", 0))
  <2>1. UNCHANGED serverVars
    BY <1>3 DEF CompleteLogin, serverVars, factorVars
  <2> QED
    BY <1>3, <2>1, ServerStays DEF Token
<1>4. CASE /\ factor.on = "on" /\ Accepts(m.code) /\ factor' = Spent(m.code) /\ used' = used \cup {m.token}
           /\ tokens' = Append(tokens, r) /\ Answers(m, "answered", New)
  <2>1. /\ passed' \in Seq(Codes) /\ CodesOnce' /\ CodesBehind'
        /\ factor' \in FactorRecord /\ factor'.on = factor.on
    BY <1>4, SpentBehind DEF ServerPart, ServerTypeOK, CodesBehind, Codes
  <2>2. raced' = raced /\ raced \in BOOLEAN /\ UNCHANGED <<cut, closing, cutoffs, sockets, changed, step>>
    BY DEF CompleteLogin, ServerPart, ServerTypeOK
  <2>3. TokensInv' /\ Grown /\ Token' = Token \cup {New} /\ tokens'[New] = r
    BY <1>2, <1>4, <2>1, <2>2, OneAdded
  <2>4. SocketsRevoked' /\ CutOffs'
    BY <2>2 DEF ServerPart, SocketsRevoked, CutOffs
  <2>5. /\ used' \subseteq Token' /\ changed' \in Nat /\ step' \in Nat \ {0} /\ cut' \in Nat /\ closing' \in Nat
        /\ cutoffs' \in Nat /\ sockets' \subseteq [token: Token, at: {"checked", "open"}]
    <3>1. used \subseteq Token /\ Token \subseteq Token' /\ m.token \in Token'
      BY <2>3 DEF Grown, Token, ServerPart, ServerTypeOK
    <3> QED
      BY <1>4, <2>2, <3>1 DEF ServerPart, ServerTypeOK
  <2>6. ServerPart'
    BY <2>1, <2>2, <2>3, <2>4, <2>5, Together
  <2> QED
    BY <1>2, <1>4, <2>3, <2>6 DEF Issues
<1> QED
  BY <1>3, <1>4 DEF CompleteLogin, q, r

\* A new password ends every session and answers a pair as proved as the one that asked.
LEMMA ChangePasswordKeeps ==
  ASSUME ServerPart, NEW m, ChangePassword(m), Genuine(m.token)
  PROVE  /\ ServerPart' /\ Grown
         /\ \/ Answers(m, "answered", New) /\ Issues(New, 0)
            \/ Answers(m, "wrong", 0) /\ Token' = Token
<1> DEFINE proved == tokens[m.token].proved
           q == Pair(New, proved)
<1>1. UNCHANGED <<cutoffs, sockets, factor, used, step, passed>>
  BY DEF ChangePassword
<1>2. CASE Answers(m, "wrong", 0) /\ UNCHANGED <<tokens, cut, closing, changed, raced>>
  <2>1. UNCHANGED serverVars
    BY <1>1, <1>2 DEF serverVars, factorVars
  <2> QED
    BY <1>2, <2>1, ServerStays DEF Token
<1>3. CASE /\ Answers(m, "answered", New) /\ changed' = Len(tokens) /\ raced' = (raced \/ m.token <= cut)
           /\ IF m.ask = "everywhere" THEN AllButOne(proved)
              ELSE tokens' = Append(tokens, q) /\ UNCHANGED <<cut, closing>>
  <2>1. m.token \in Token /\ proved \in BOOLEAN
    <3>1. m.token \in Token /\ tokens[m.token] \in TokenRecord
      BY DEF Genuine, ServerPart, ServerTypeOK, Token
    <3> QED
      BY <3>1 DEF TokenRecord
  <2>2. q \in TokenRecord /\ q.family = New /\ q.state = "live" /\ q.proved = proved /\ q.from = 0
    BY <2>1, PairIs
  <2>3. raced' \in BOOLEAN /\ (raced => raced') /\ (~raced' => ~raced /\ ~(m.token <= cut))
    BY <1>3
  <2>4. factor.on = "on" /\ ~raced' => proved
    <3> SUFFICES ASSUME factor.on = "on", ~raced' PROVE proved
      OBVIOUS
    <3>1. m.token \in Nat /\ cut \in Nat
      BY <2>1 DEF Token, ServerPart, ServerTypeOK
    <3>2. m.token > cut
      BY <2>3, <3>1
    <3> QED
      BY <2>1, <2>3, <3>2 DEF ServerPart, TokensInv, ProvedSince
  <2> HIDE DEF q, proved
  <2>5. ASSUME tokens' = Append(tokens, q), UNCHANGED <<cut, closing>>
        PROVE  /\ TokensInv' /\ Grown /\ SocketsRevoked' /\ CutOffs' /\ cut' \in Nat /\ closing' \in Nat
               /\ Issues(New, 0)
    <3>1. TokensInv' /\ Grown /\ Token' = Token \cup {New} /\ tokens'[New] = q
      BY <1>1, <2>2, <2>3, <2>4, <2>5, OneAdded
    <3>2. SocketsRevoked' /\ CutOffs'
      BY <1>1, <2>5 DEF ServerPart, SocketsRevoked, CutOffs
    <3>3. cut' \in Nat /\ closing' \in Nat
      BY <2>5 DEF ServerPart, ServerTypeOK
    <3> QED
      BY <2>2, <3>1, <3>2, <3>3 DEF Issues
  <2>6. ASSUME AllButOne(proved)
        PROVE  /\ TokensInv' /\ Grown /\ SocketsRevoked' /\ CutOffs' /\ cut' \in Nat /\ closing' \in Nat
               /\ Issues(New, 0)
    <3>1. tokens' = Append(EndAll(tokens), q)
      BY <2>6 DEF AllButOne, q
    <3>2. tokens' # EndAll(tokens)
      <4>1. EndAll(tokens) \in Seq(TokenRecord)
        BY EndAllKeeps DEF ServerPart, ServerTypeOK
      <4> QED
        BY <2>2, <3>1, <4>1, AppendsOne
    <3>3. /\ TokensInv' /\ Grown /\ SocketsRevoked' /\ CutOffs'
          /\ Issues(New, 0)
      BY <1>1, <2>1, <2>4, <2>6, <3>2, AllEnd DEF AllButOne
    <3>4. cut' \in Nat /\ closing' \in Nat
      BY <2>6 DEF AllButOne, ServerPart, ServerTypeOK
    <3> QED
      BY <3>3, <3>4
  <2>7. /\ TokensInv' /\ Grown /\ SocketsRevoked' /\ CutOffs' /\ cut' \in Nat /\ closing' \in Nat
        /\ Issues(New, 0)
    BY <1>3, <2>5, <2>6 DEF q, proved
  <2>8. CodesOnce' /\ CodesBehind' /\ factor' \in FactorRecord /\ passed' \in Seq(Codes)
    BY <1>1 DEF ServerPart, ServerTypeOK, CodesOnce, CodesBehind, Codes
  <2>9. /\ used' \subseteq Token' /\ changed' \in Nat /\ step' \in Nat \ {0}
        /\ cutoffs' \in Nat /\ sockets' \subseteq [token: Token, at: {"checked", "open"}]
    BY <1>1, <1>3, <2>7 DEF ServerPart, ServerTypeOK, Token, Grown, Issues
  <2> QED
    BY <1>3, <2>3, <2>7, <2>8, <2>9, Together
<1> QED
  BY <1>2, <1>3 DEF ChangePassword, q, proved

\* Switching the factor on ends every session and answers a pair that is proved.
LEMMA ActivateIsKept ==
  ASSUME ServerPart, NEW m, Activate(m), m.code \in Codes, m.token \in Token
  PROVE  /\ ServerPart' /\ Grown
         /\ \/ Answers(m, "answered", New) /\ Issues(New, 0)
            \/ Answers(m, "wrong", 0) /\ Token' = Token
<1> DEFINE q == Pair(New, TRUE)
<1>1. UNCHANGED <<cutoffs, sockets, used, changed, step>>
  BY DEF Activate
<1>2. CASE Answers(m, "wrong", 0) /\ UNCHANGED <<tokens, cut, closing, factor, passed, raced>>
  <2>1. UNCHANGED serverVars
    BY <1>1, <1>2 DEF serverVars, factorVars
  <2> QED
    BY <1>2, <2>1, ServerStays DEF Token
<1>3. CASE /\ factor.on = "pending" /\ Accepts(m.code) /\ Answers(m, "answered", New)
           /\ factor' = Fresh([Spent(m.code) EXCEPT !.on = "on", !.since = Len(tokens)])
           /\ AllButOne(TRUE) /\ raced' = (raced \/ m.token <= cut)
  <2>1. raced' \in BOOLEAN
    BY <1>3
  <2> DEFINE f == Spent(m.code)
             g == [f EXCEPT !.on = "on", !.since = Len(tokens)]
  <2>2. /\ passed' \in Seq(Codes) /\ CodesOnce' /\ Behind(f, passed') /\ f \in FactorRecord
        /\ f.on = "pending" /\ f.made = factor.made
    BY <1>3, SpentBehind DEF ServerPart, ServerTypeOK, Codes
  <2>3. Len(tokens) \in Nat
    BY DEF ServerPart, ServerTypeOK
  <2> HIDE DEF f
  <2>4. g \in FactorRecord /\ Behind(g, passed') /\ g.made = factor.made
    BY <2>2, <2>3, OnBehind
  <2>5. factor' = Fresh(g)
    BY <1>3 DEF f
  <2> HIDE DEF g
  <2>6. factor' \in FactorRecord /\ CodesBehind'
    BY <2>2, <2>4, <2>5, FreshBehind DEF CodesBehind, ServerPart, ServerTypeOK
  <2>7. q \in TokenRecord
    BY PairIs
  <2>8. tokens' # EndAll(tokens)
    <3>1. EndAll(tokens) \in Seq(TokenRecord)
      BY EndAllKeeps DEF ServerPart, ServerTypeOK
    <3>2. tokens' = Append(EndAll(tokens), q)
      BY <1>3 DEF AllButOne
    <3> HIDE DEF q
    <3> QED
      BY <2>7, <3>1, <3>2, AppendsOne
  <2>9. /\ TokensInv' /\ Grown /\ SocketsRevoked' /\ CutOffs'
        /\ Issues(New, 0)
    BY <1>1, <1>3, <2>8, AllEnd DEF AllButOne
  <2>10. /\ used' \subseteq Token' /\ changed' \in Nat /\ step' \in Nat \ {0} /\ cut' \in Nat /\ closing' \in Nat
         /\ cutoffs' \in Nat /\ sockets' \subseteq [token: Token, at: {"checked", "open"}]
    BY <1>1, <1>3, <2>3, <2>9 DEF AllButOne, ServerPart, ServerTypeOK, Token, Grown
  <2> QED
    BY <1>3, <2>1, <2>2, <2>6, <2>9, <2>10, Together
<1> QED
  BY <1>2, <1>3 DEF Activate

\* Codes at hand are codes.
LEMMA HandedCodes ==
  ASSUME factor \in FactorRecord, step \in Nat \ {0}
  PROVE  AtHand \subseteq Codes
<1>1. factor.secret \in Nat /\ factor.batch \in Nat
  BY DEF FactorRecord
<1>2. {step, step - 1} \ {0} \subseteq Nat
  OBVIOUS
<1> QED
  BY <1>1, <1>2 DEF AtHand, Codes

\* Enrolling, managing and resetting the factor; the api restarts, time passes.
LEMMA FactorKeeps ==
  ASSUME ServerPart, Factor
  PROVE  ServerPart' /\ Grown
<1>1. CASE Enroll
  <2>1. /\ factor' = [NoFactor EXCEPT !.on = "pending", !.secret = factor.made + 1, !.made = factor.made + 1]
        /\ UNCHANGED <<tokens, cut, closing, cutoffs, sockets, used, changed, step, passed, raced>>
    BY <1>1 DEF Enroll
  <2>2. factor' \in FactorRecord /\ CodesBehind' /\ factor'.on = "pending"
    BY <2>1, NewBehind DEF ServerPart, ServerTypeOK, CodesBehind, Codes
  <2>3. CodesOnce' /\ SocketsRevoked' /\ CutOffs' /\ passed' \in Seq(Codes)
    BY <2>1 DEF ServerPart, ServerTypeOK, CodesOnce, SocketsRevoked, CutOffs, Codes
  <2>4. TokensInv' /\ Grown
    BY <2>1, <2>2 DEF ServerPart, ServerTypeOK, TokensInv, Families, Successors, OneLive, FamilyOf, LiveIsAfter,
                      ProvedSince, Token, Grown
  <2> QED
    BY <2>1, <2>2, <2>3, <2>4 DEF ServerPart, ServerTypeOK, Token, Codes
<1>2. CASE Manage
  <2>1. PICK code \in AtHand :
          /\ Accepts(code)
          /\ factor' \in {[NoFactor EXCEPT !.made = factor.made], Fresh(Spent(code))}
    BY <1>2 DEF Manage
  <2>2. factor.on = "on" /\ UNCHANGED <<tokens, cut, closing, cutoffs, sockets, used, changed, step, raced>>
    BY <1>2 DEF Manage
  <2>3. code \in Codes
    BY HandedCodes DEF ServerPart, ServerTypeOK
  <2>4. /\ passed' \in Seq(Codes) /\ CodesOnce' /\ Behind(Spent(code), passed') /\ Spent(code) \in FactorRecord
        /\ Spent(code).on = "on" /\ Spent(code).made = factor.made
    BY <2>1, <2>2, <2>3, SpentBehind DEF ServerPart, ServerTypeOK, Codes
  <2>5. ASSUME factor' = [NoFactor EXCEPT !.made = factor.made]
        PROVE  factor' \in FactorRecord /\ CodesBehind'
    <3>1. \A i \in DOMAIN passed' : passed'[i][1] \in Nat /\ 0 < passed'[i][1] /\ passed'[i][1] <= factor.made
      BY <2>4 DEF Behind, Codes
    <3>2. factor.made \in Nat
      BY DEF ServerPart, ServerTypeOK, FactorRecord
    <3>3. factor' \in FactorRecord
      BY <2>5, GoneBehind DEF ServerPart, ServerTypeOK, CodesBehind
    <3>4. factor'.on = "off" /\ factor'.secret = 0 /\ factor'.batch = 0 /\ factor'.unused = FALSE /\ factor'.made = factor.made
      BY <2>5 DEF NoFactor
    <3> QED
      BY <3>1, <3>2, <3>3, <3>4 DEF CodesBehind, Behind
  <2>6. ASSUME factor' = Fresh(Spent(code))
        PROVE  factor' \in FactorRecord /\ CodesBehind'
    BY <2>4, <2>6, FreshBehind DEF ServerPart, ServerTypeOK, CodesBehind
  <2>7. factor' \in FactorRecord /\ CodesBehind'
    BY <2>1, <2>5, <2>6
  <2>8. SocketsRevoked' /\ CutOffs'
    BY <2>2 DEF ServerPart, ServerTypeOK, SocketsRevoked, CutOffs
  <2>9. TokensInv' /\ Grown
    <3>1. Grown
      BY <2>2 DEF ServerPart, ServerTypeOK, Grown
    <3> QED
      BY <2>2, <3>1 DEF ServerPart, ServerTypeOK, TokensInv, Families, Successors, OneLive, FamilyOf, LiveIsAfter,
                        ProvedSince, Token, Genuine
  <2> QED
    BY <2>2, <2>4, <2>7, <2>8, <2>9 DEF ServerPart, ServerTypeOK, Token, Codes
<1>3. CASE ResetFactor
  <2>1. /\ factor' = [NoFactor EXCEPT !.made = factor.made]
        /\ tokens' = EndAll(tokens) /\ cut' = Len(tokens) /\ closing' = Len(tokens)
        /\ UNCHANGED <<cutoffs, sockets, used, changed, step, passed, raced>>
    BY <1>3 DEF ResetFactor
  <2>2. factor' \in FactorRecord /\ CodesBehind' /\ CodesOnce'
    BY <2>1, GoneBehind DEF ServerPart, ServerTypeOK, CodesBehind, CodesOnce
  <2>3. TokensInv' /\ Grown /\ SocketsRevoked' /\ CutOffs'
    BY <2>1, AllEnd
  <2>4. /\ passed' \in Seq(Codes) /\ raced' \in BOOLEAN /\ Len(tokens) \in Nat /\ cut' \in Nat /\ closing' \in Nat
        /\ used' \subseteq Token' /\ changed' \in Nat /\ step' \in Nat \ {0}
        /\ cutoffs' \in Nat /\ sockets' \subseteq [token: Token, at: {"checked", "open"}]
    BY <2>1, <2>3 DEF ServerPart, ServerTypeOK, Token, Grown, Codes
  <2> QED
    BY <2>2, <2>3, <2>4, Together
<1>4. CASE StepPasses
  <2>1. step' = step + 1 /\ UNCHANGED <<tokens, cut, closing, cutoffs, sockets, factor, used, changed, passed, raced>>
    BY <1>4 DEF StepPasses
  <2>2. Grown
    BY <2>1 DEF ServerPart, ServerTypeOK, Grown
  <2>3. ServerTypeOK'
    BY <2>1 DEF ServerPart, ServerTypeOK, Token
  <2>4. TokensInv'
    BY <2>1 DEF ServerPart, TokensInv, Families, Successors, OneLive, FamilyOf, LiveIsAfter, ProvedSince, Genuine, Token
  <2>5. SocketsRevoked' /\ CutOffs' /\ CodesOnce' /\ CodesBehind'
    BY <2>1 DEF ServerPart, SocketsRevoked, CutOffs, CodesOnce, CodesBehind
  <2> QED
    BY <2>2, <2>3, <2>4, <2>5 DEF ServerPart
<1>5. CASE Restart
  <2>1. /\ used' = {} /\ closing' = 0 /\ cutoffs' = 0 /\ sockets' = {}
        /\ UNCHANGED <<tokens, cut, factor, changed, step, passed, raced>>
    BY <1>5 DEF Restart
  <2> QED
    BY <2>1 DEF ServerPart, ServerTypeOK, TokensInv, Families, Successors, OneLive, FamilyOf, LiveIsAfter,
                ProvedSince, Genuine, Token, Grown, SocketsRevoked, CutOffs, CodesOnce, CodesBehind
<1> QED
  BY <1>1, <1>2, <1>3, <1>4, <1>5 DEF Factor

\* Another device signs out everywhere.
LEMMA OtherDeviceKeeps ==
  ASSUME ServerPart, OtherDevice
  PROVE  ServerPart' /\ Grown
<1>1. /\ tokens' = EndAll(tokens) /\ cut' = Len(tokens) /\ closing' = Len(tokens) /\ changed' = Len(tokens)
      /\ UNCHANGED <<cutoffs, sockets, factor, used, step, passed, raced>>
  BY DEF OtherDevice
<1>2. TokensInv' /\ Grown /\ SocketsRevoked' /\ CutOffs'
  BY <1>1, AllEnd
<1>3. factor' \in FactorRecord /\ CodesBehind' /\ CodesOnce'
  BY <1>1 DEF ServerPart, ServerTypeOK, CodesBehind, CodesOnce
<1>4. /\ passed' \in Seq(Codes) /\ raced' \in BOOLEAN /\ Len(tokens) \in Nat /\ cut' \in Nat /\ closing' \in Nat
      /\ used' \subseteq Token' /\ changed' \in Nat /\ step' \in Nat \ {0}
      /\ cutoffs' \in Nat /\ sockets' \subseteq [token: Token, at: {"checked", "open"}]
  BY <1>1, <1>2 DEF ServerPart, ServerTypeOK, Token, Grown, Codes
<1> QED
  BY <1>2, <1>3, <1>4, Together

\* A socket is looked at before and after it is registered, and what is to be closed
\* is noted in between.
LEMMA SocketsKeep ==
  ASSUME ServerPart, Sockets
  PROVE  ServerPart' /\ Grown
<1>1. UNCHANGED <<tokens, cut, factorVars>>
  BY DEF Sockets, RevokeSessions, Connect, Register
<1>2. TokensInv' /\ CodesOnce' /\ CodesBehind' /\ Grown
  <2>1. TokensInv' /\ Grown
    BY <1>1 DEF ServerPart, ServerTypeOK, TokensInv, Families, Successors, OneLive, FamilyOf, LiveIsAfter,
                ProvedSince, Genuine, Token, Grown, factorVars
  <2>2. CodesOnce' /\ CodesBehind'
    BY <1>1 DEF ServerPart, CodesOnce, CodesBehind, factorVars
  <2> QED
    BY <2>1, <2>2
<1>3. /\ closing \in Nat /\ cutoffs \in Nat /\ cut \in Nat /\ SocketsRevoked /\ CutOffs
      /\ sockets \subseteq [token: Token, at: {"checked", "open"}]
      /\ \A t \in Token : t \in Nat
  BY DEF ServerPart, ServerTypeOK, Token
<1>4. /\ sockets' \subseteq [token: Token, at: {"checked", "open"}] /\ closing' \in Nat /\ cutoffs' \in Nat
      /\ SocketsRevoked' /\ CutOffs'
  <2>1. CASE RevokeSessions
    BY <1>1, <1>3, <2>1 DEF RevokeSessions, SocketsRevoked, CutOffs
  <2>2. ASSUME NEW t \in Token, Connect(t)
        PROVE  /\ sockets' \subseteq [token: Token, at: {"checked", "open"}] /\ UNCHANGED <<closing, cutoffs>>
               /\ SocketsRevoked' /\ CutOffs'
    BY <1>1, <1>3, <2>2 DEF Connect, SocketsRevoked, CutOffs
  <2>3. ASSUME NEW s \in sockets, Register(s)
        PROVE  /\ sockets' \subseteq [token: Token, at: {"checked", "open"}] /\ UNCHANGED <<closing, cutoffs>>
               /\ SocketsRevoked' /\ CutOffs'
    <3> DEFINE r == [s EXCEPT !.at = "open"]
    <3>1. s \in [token: Token, at: {"checked", "open"}] /\ r.token = s.token /\ r \in [token: Token, at: {"checked", "open"}]
      BY <1>3
    <3> HIDE DEF r
    <3>2. sockets' = (sockets \ {s}) \cup (IF s.token <= cutoffs THEN {} ELSE {r}) /\ UNCHANGED <<closing, cutoffs>>
      BY <2>3 DEF Register, r
    <3> QED
      BY <1>1, <1>3, <3>1, <3>2 DEF SocketsRevoked, CutOffs
  <2> QED
    BY <1>3, <2>1, <2>2, <2>3 DEF Sockets
<1> QED
  BY <1>1, <1>2, <1>4 DEF ServerPart, ServerTypeOK, factorVars, Token

-----------------------------------------------------------------------------
(* The clients.                                                            *)

\* Grown tokens: what was of a kind still is.
LEMMA PartsStay ==
  ASSUME ServerTypeOK, Grown, LocalPart
  PROVE  /\ Token \subseteq Token' /\ TaskRecord \subseteq TaskRecord' /\ \A t : Genuine(t) => Genuine(t)'
         /\ UNCHANGED budget => BudgetPart'
         /\ UNCHANGED cl => ClientPart'
         /\ UNCHANGED task => TaskPart'
         /\ (wire' \subseteq wire) => WirePart'
         /\ UNCHANGED marks => MarksPart'
         /\ UNCHANGED attempt => AttemptPart'
         /\ UNCHANGED deviceVars => SlotPart'
         /\ UNCHANGED processVars => ProcessPart'
         /\ UNCHANGED historyVars => HistoryPart'
<1>1. Token \subseteq Token' /\ \A t : Genuine(t) => Genuine(t)'
  BY DEF ServerTypeOK, Grown, Token, Genuine
<1>2. ClientRecord \subseteq ClientRecord' /\ TaskRecord \subseteq TaskRecord' /\ Request \subseteq Request'
  BY <1>1 DEF ClientRecord, TaskRecord, Request
<1>3. UNCHANGED budget => BudgetPart'
  BY DEF LocalPart, BudgetPart
<1>4. UNCHANGED cl => ClientPart'
  BY <1>1, <1>2 DEF LocalPart, ClientPart
<1>5. UNCHANGED task => TaskPart'
  BY <1>1, <1>2 DEF LocalPart, TaskPart
<1>6. (wire' \subseteq wire) => WirePart'
  BY <1>1, <1>2 DEF LocalPart, WirePart, Sound
<1>7. UNCHANGED marks => MarksPart'
  BY <1>1 DEF LocalPart, MarksPart
<1>8. UNCHANGED attempt => AttemptPart'
  BY DEF LocalPart, AttemptPart
<1>9. (UNCHANGED deviceVars => SlotPart') /\ (UNCHANGED processVars => ProcessPart')
  BY <1>1 DEF LocalPart, SlotPart, ProcessPart, deviceVars, processVars
<1>10. UNCHANGED historyVars => HistoryPart'
  BY <1>1 DEF LocalPart, HistoryPart, historyVars
<1> QED
  BY <1>1, <1>2, <1>3, <1>4, <1>5, <1>6, <1>7, <1>8, <1>9, <1>10

\* Something from outside happens, once less from now on.
LEMMA SpendKeeps ==
  ASSUME BudgetPart, NEW what \in Outside, Spend(what)
  PROVE  BudgetPart'
BY DEF BudgetPart, Spend

\* The answer of a request: a pair that is genuine, a pending token, or none.
LEMMA AnswersKeep ==
  ASSUME ServerTypeOK, Grown, LocalPart, NEW m \in wire,
         NEW at \in {"answered", "refused", "challenged", "wrong", "expired"}, NEW t \in {0} \cup Token',
         at = "answered" => Genuine(t)',
         Answers(m, at, t)
  PROVE  LocalPart'
<1>1. /\ BudgetPart' /\ ClientPart' /\ MarksPart' /\ AttemptPart' /\ SlotPart' /\ ProcessPart' /\ HistoryPart'
      /\ WirePart'
  BY PartsStay DEF Answers
<1>2. TaskPart'
  <2>1. CASE ~m.awaited
    BY <2>1, PartsStay DEF Answers
  <2>2. CASE m.awaited
    <3> DEFINE a == m.by
               r == [task[a] EXCEPT !.at = at, !.answer = t]
    <3>1. a \in Clients /\ task \in [Clients -> TaskRecord] /\ TaskRecord \subseteq TaskRecord'
      BY PartsStay DEF LocalPart, WirePart, Sound, Request, TaskPart
    <3>2. r \in TaskRecord' /\ r.at = at /\ r.answer = t
      <4>1. task[a] \in TaskRecord'
        BY <3>1
      <4> QED
        BY <4>1 DEF TaskRecord
    <3>3. task' = [task EXCEPT ![a] = r]
      BY <2>2, <3>1 DEF Answers
    <3> HIDE DEF r, a
    <3>4. task' \in [Clients -> TaskRecord']
      BY <3>1, <3>2, <3>3
    <3>5. ASSUME NEW c \in Clients, task'[c].at = "answered"
          PROVE  task'[c].answer \in Token' /\ tokens'[task'[c].answer].state # "pending"
      <4>1. CASE c = a
        BY <3>1, <3>2, <3>3, <3>5, <4>1 DEF Genuine
      <4>2. CASE c # a
        <5>1. task'[c] = task[c] /\ Genuine(task[c].answer)
          BY <3>1, <3>3, <3>5, <4>2 DEF LocalPart, TaskPart
        <5> QED
          BY <5>1, PartsStay DEF Genuine
      <4> QED
        BY <4>1, <4>2
    <3> QED
      BY <3>4, <3>5 DEF TaskPart, Genuine
  <2> QED
    BY <2>1, <2>2
<1> QED
  BY <1>1, <1>2 DEF LocalPart

\* Changes of a client, of its task and of its marks.
LEMMA ClientChanges ==
  ASSUME UNCHANGED tokens, ClientPart, NEW c \in Clients, NEW r \in ClientRecord,
         r.session # 0 => Genuine(r.session), cl' = [cl EXCEPT ![c] = r]
  PROVE  ClientPart'
<1>1. cl' \in [Clients -> ClientRecord] /\ \A d \in Clients : cl'[d] = IF d = c THEN r ELSE cl[d]
  BY DEF ClientPart
<1>2. ClientRecord' = ClientRecord /\ \A t : t \in Token' /\ tokens'[t].state # "pending" <=> Genuine(t)
  BY DEF ClientRecord, Token, Genuine
<1>3. ASSUME NEW d \in Clients, cl'[d].session # 0
      PROVE  cl'[d].session \in Token' /\ tokens'[cl'[d].session].state # "pending"
  BY <1>1, <1>2, <1>3 DEF ClientPart
<1> QED
  BY <1>1, <1>2, <1>3 DEF ClientPart, Genuine

\* A client's task goes on.
LEMMA TaskChanges ==
  ASSUME UNCHANGED tokens, TaskPart, NEW c \in Clients, NEW r \in TaskRecord,
         r.at = "answered" => Genuine(r.answer), task' = [task EXCEPT ![c] = r]
  PROVE  TaskPart'
<1>1. task' \in [Clients -> TaskRecord] /\ \A d \in Clients : task'[d] = IF d = c THEN r ELSE task[d]
  BY DEF TaskPart
<1>2. TaskRecord' = TaskRecord /\ \A t : t \in Token' /\ tokens'[t].state # "pending" <=> Genuine(t)
  BY DEF TaskRecord, Token, Genuine
<1>3. ASSUME NEW d \in Clients, task'[d].at = "answered"
      PROVE  task'[d].answer \in Token' /\ tokens'[task'[d].answer].state # "pending"
  BY <1>1, <1>2, <1>3 DEF TaskPart
<1> QED
  BY <1>1, <1>2, <1>3 DEF TaskPart, Genuine

\* No task is a task at no place.
LEMMA NoTaskIs == NoTask \in TaskRecord /\ NoTask.at = "" /\ NoTask.kind = "none"
BY DEF NoTask, TaskRecord

\* A client's task ends, and with it what it has of the slot's lock.
LEMMA TaskEnds ==
  ASSUME UNCHANGED <<tokens, started, owner>>, TaskPart, ProcessPart, NEW c \in Clients, Ends(c), stored' \in Nat
  PROVE  TaskPart' /\ ProcessPart'
<1>1. TaskPart'
  BY NoTaskIs, TaskChanges DEF Ends
<1>2. ProcessPart'
  BY DEF Ends, ProcessPart
<1> QED
  BY <1>1, <1>2

\* A client's marks change.
LEMMA MarksChange ==
  ASSUME UNCHANGED tokens, MarksPart, NEW c \in Clients, NEW M \in SUBSET (Token \X Nat),
         marks' = [marks EXCEPT ![c] = M]
  PROVE  MarksPart'
BY DEF MarksPart, Token

\* What marks are made of.
LEMMA MarksOf ==
  ASSUME MarksPart, NEW c \in Clients, NEW t
  PROVE  Without(marks[c], t) \in SUBSET (Token \X Nat) /\ Marked(c, t) \subseteq Nat
BY DEF MarksPart, Without, Marked

\* Requests.
LEMMA AskedIsSound ==
  ASSUME NEW c \in Clients, NEW ask \in {"refresh", "login", "code"} \cup Changes, NEW t \in {0} \cup Token,
         NEW code \in Codes, ask # "login" => t # 0, ask \in Changes => Genuine(t)
  PROVE  Sound(Asks(c, ask, t)) /\ Sound([Asks(c, ask, t) EXCEPT !.code = code])
<1> DEFINE a == Asks(c, ask, t)
           b == [a EXCEPT !.code = code]
<1>1. a \in Request /\ a.ask = ask /\ a.token = t
  BY DEF Asks, NoCode, Request
<1> HIDE DEF a
<1>2. b \in Request /\ b.ask = ask /\ b.token = t
  BY <1>1 DEF Request, Codes
<1> HIDE DEF b
<1>3. Sound(a) /\ Sound(b)
  BY <1>1, <1>2 DEF Sound
<1> QED
  BY <1>3 DEF a, b

\* A logout asks for a token.
LEMMA RevokesAreSound ==
  ASSUME NEW c \in Clients, NEW t \in {0} \cup Token, NEW M, NEW m \in Revokes(c, t, M)
  PROVE  Sound(m)
<1> DEFINE a == Asks(c, "logout", t)
<1>1. a \in Request /\ a.ask = "logout" /\ a.token = t
  BY DEF Asks, NoCode, Request
<1>2. t # 0 /\ m = [a EXCEPT !.awaited = FALSE]
  BY DEF Revokes, Detached
<1> HIDE DEF a
<1>3. m \in Request /\ m.ask = "logout" /\ m.token = t
  BY <1>1, <1>2 DEF Request
<1> QED
  BY <1>2, <1>3 DEF Sound, Changes

\* Requests that are sound are sent.
LEMMA WireAdds ==
  ASSUME UNCHANGED tokens, WirePart, NEW S, \A m \in S : Sound(m), wire' \subseteq wire \cup S
  PROVE  WirePart'
<1>1. \A m : Sound(m) => Sound(m)'
  BY DEF Sound, Request, Token, Genuine
<1> QED
  BY <1>1 DEF WirePart

\* A request that is sound is sent.
LEMMA WireAddsOne ==
  ASSUME UNCHANGED tokens, WirePart, NEW a, Sound(a), wire' = wire \cup {a}
  PROVE  WirePart'
<1> DEFINE S == {a}
<1>1. (\A m \in S : Sound(m)) /\ wire' \subseteq wire \cup S
  OBVIOUS
<1> HIDE DEF S
<1> QED
  BY <1>1, WireAdds

\* A client's step concerns its own state, what is stored and the wire.
LEMMA ServerLeft ==
  ASSUME ServerPart, LocalPart, UNCHANGED serverVars
  PROVE  /\ tokens' = tokens /\ Token' = Token
         /\ UNCHANGED budget => BudgetPart'
         /\ UNCHANGED cl => ClientPart'
         /\ UNCHANGED task => TaskPart'
         /\ UNCHANGED wire => WirePart'
         /\ UNCHANGED marks => MarksPart'
         /\ UNCHANGED attempt => AttemptPart'
         /\ UNCHANGED deviceVars => SlotPart'
         /\ UNCHANGED processVars => ProcessPart'
         /\ UNCHANGED historyVars => HistoryPart'
<1>1. tokens' = tokens /\ Token' = Token /\ Grown /\ ServerTypeOK
  BY ServerStays DEF serverVars, Token, ServerPart
<1> QED
  BY <1>1, PartsStay

\* The login of a token has a token.
LEMMA FamilyIs ==
  ASSUME ServerPart, NEW t \in Token
  PROVE  FamilyOf(t) \in Token
BY DEF ServerPart, TokensInv, Families, FamilyOf

\* A client starts.
LEMMA StartKeeps ==
  ASSUME ServerPart, LocalPart, Start
  PROVE  LocalPart'
<1> DEFINE c == started + 1
           r == [cl[c] EXCEPT !.st = "up"]
<1>1. c \in Clients /\ UNCHANGED serverVars
  BY DEF Start
<1>2. SlotPart' /\ WirePart' /\ MarksPart' /\ TaskPart' /\ tokens' = tokens /\ Token' = Token
  BY <1>1, ServerLeft DEF Start
<1>3. BudgetPart'
  BY SpendKeeps, <1>1, ServerLeft DEF Start, LocalPart, Outside
<1>4. cl[c] \in ClientRecord /\ (cl[c].session # 0 => Genuine(cl[c].session))
  BY <1>1 DEF LocalPart, ClientPart
<1>5. r \in ClientRecord /\ r.session = cl[c].session
  BY <1>4 DEF ClientRecord
<1>6. cl' = [cl EXCEPT ![c] = r]
  BY DEF Start
<1> HIDE DEF r, c
<1>7. ClientPart'
  BY <1>1, <1>2, <1>4, <1>5, <1>6, ClientChanges DEF LocalPart
<1>8. AttemptPart' /\ ProcessPart' /\ HistoryPart'
  <2>1. lost \in Nat /\ lost' \in {lost, lost + 1}
    BY DEF Start, LocalPart, HistoryPart
  <2>2. HistoryPart'
    BY <1>2, <2>1 DEF Start, LocalPart, HistoryPart
  <2>3. AttemptPart'
    BY <1>1 DEF Start, LocalPart, AttemptPart, AttemptRecord, c
  <2>4. ProcessPart'
    BY <1>1 DEF Start, LocalPart, ProcessPart, c
  <2> QED
    BY <2>2, <2>3, <2>4
<1> QED
  BY <1>2, <1>3, <1>7, <1>8 DEF LocalPart

\* A client's and its task's record, and what changes of them.
LEMMA RecordsOf ==
  ASSUME LocalPart, NEW c \in Clients
  PROVE  /\ cl[c] \in ClientRecord /\ task[c] \in TaskRecord /\ attempt[c] \in AttemptRecord
         /\ cl[c].session \in {0} \cup Token /\ cl[c].challenge \in {0} \cup Token
         /\ task[c].sent \in {0} \cup Token /\ task[c].answer \in {0} \cup Token /\ task[c].family \in Nat
         /\ cl[c].session # 0 => Genuine(cl[c].session)
         /\ task[c].at = "answered" => Genuine(task[c].answer)
         /\ task[c].fresh \in BOOLEAN /\ attempt[c].fresh \in BOOLEAN /\ cl[c].persisted \in BOOLEAN
<1>1. cl[c] \in ClientRecord /\ task[c] \in TaskRecord /\ attempt[c] \in AttemptRecord
  BY DEF LocalPart, ClientPart, TaskPart, AttemptPart
<1>2. /\ cl[c].session # 0 => Genuine(cl[c].session)
      /\ task[c].at = "answered" => Genuine(task[c].answer)
  BY DEF LocalPart, ClientPart, TaskPart
<1> QED
  BY <1>1, <1>2 DEF ClientRecord, TaskRecord, AttemptRecord

\* Email and password are asked for again, and the pending token is given up.
LEMMA AskLoginKeeps ==
  ASSUME ServerPart, LocalPart, NEW c \in Clients, AskLogin(c)
  PROVE  LocalPart'
<1> DEFINE r == [cl[c] EXCEPT !.challenge = 0]
           k == [task[c] EXCEPT !.fresh = FALSE]
<1>1. UNCHANGED <<serverVars, wire, deviceVars, processVars, marks, lost, overtaken>>
  BY DEF AskLogin
<1>2. SlotPart' /\ WirePart' /\ MarksPart' /\ ProcessPart' /\ tokens' = tokens /\ Token' = Token
  BY <1>1, ServerLeft
<1>3. BudgetPart' /\ AttemptPart'
  BY SpendKeeps DEF AskLogin, LocalPart, Outside, AttemptPart, AttemptRecord
<1>4. r \in ClientRecord /\ r.session = cl[c].session /\ cl' = [cl EXCEPT ![c] = r]
  BY RecordsOf DEF AskLogin, ClientRecord
<1>5. k \in TaskRecord /\ k.at = task[c].at /\ k.answer = task[c].answer /\ task' = [task EXCEPT ![c] = k]
  BY RecordsOf DEF AskLogin, TaskRecord
<1> HIDE DEF r, k
<1>6. ClientPart' /\ TaskPart'
  BY <1>2, <1>4, <1>5, RecordsOf, ClientChanges, TaskChanges DEF LocalPart
<1>7. HistoryPart'
  BY <1>1, <1>2, RecordsOf DEF AskLogin, LocalPart, HistoryPart
<1> QED
  BY <1>2, <1>3, <1>6, <1>7 DEF LocalPart

\* Going back from the code gives the pending token up.
LEMMA BackKeeps ==
  ASSUME ServerPart, LocalPart, NEW c \in Clients, Back(c)
  PROVE  LocalPart'
<1> DEFINE r == [cl[c] EXCEPT !.challenge = 0]
<1>1. UNCHANGED <<serverVars, wire, deviceVars, processVars, marks, attempt, task, lost, overtaken>>
  BY DEF Back
<1>2. /\ SlotPart' /\ WirePart' /\ MarksPart' /\ ProcessPart' /\ AttemptPart' /\ TaskPart'
      /\ tokens' = tokens /\ Token' = Token
  BY <1>1, ServerLeft
<1>3. BudgetPart'
  BY SpendKeeps DEF Back, LocalPart, Outside
<1>4. r \in ClientRecord /\ r.session = cl[c].session /\ cl' = [cl EXCEPT ![c] = r]
  BY RecordsOf DEF Back, ClientRecord
<1> HIDE DEF r
<1>5. ClientPart'
  BY <1>2, <1>4, RecordsOf, ClientChanges DEF LocalPart
<1>6. HistoryPart'
  BY <1>1, <1>2, RecordsOf DEF Back, LocalPart, HistoryPart
<1> QED
  BY <1>2, <1>3, <1>5, <1>6 DEF LocalPart

\* Whatever the login's generation was counts no more.
LEMMA StaleKeeps ==
  ASSUME UNCHANGED tokens, LocalPart, NEW c \in Clients, Stale(c)
  PROVE  TaskPart' /\ AttemptPart'
<1> DEFINE k == [task[c] EXCEPT !.fresh = FALSE]
           a == [attempt[c] EXCEPT !.fresh = FALSE]
<1>1. k \in TaskRecord /\ k.at = task[c].at /\ k.answer = task[c].answer /\ task' = [task EXCEPT ![c] = k]
  BY RecordsOf DEF Stale, TaskRecord
<1>2. a \in AttemptRecord /\ attempt' = [attempt EXCEPT ![c] = a]
  BY RecordsOf DEF Stale, AttemptRecord
<1> HIDE DEF k, a
<1> QED
  BY <1>1, <1>2, RecordsOf, TaskChanges DEF LocalPart, AttemptPart

\* Signing out: the session is gone at once, and its token revoked.
LEMMA LogoutKeeps ==
  ASSUME ServerPart, LocalPart, NEW c \in Clients, Logout(c)
  PROVE  LocalPart'
<1> DEFINE r == [cl[c] EXCEPT !.session = 0, !.persisted = FALSE, !.challenge = 0]
           t == cl[c].session
           M == Without(marks[c], t)
<1>1. UNCHANGED <<serverVars, processVars, lost>>
  BY DEF Logout
<1>2. ProcessPart' /\ tokens' = tokens /\ Token' = Token
  BY <1>1, ServerLeft
<1>3. t \in {0} \cup Token
  BY RecordsOf
<1>4. BudgetPart' /\ SlotPart'
  <2>1. PICK kept \in BOOLEAN :
          /\ kept => Owns(c) /\ slot # 0 /\ budget["keychain"] > 0
          /\ slot' = IF Owns(c) /\ ~kept THEN 0 ELSE slot
          /\ fenced' = (fenced \/ kept)
          /\ budget' = [budget EXCEPT !["logout"] = budget["logout"] - 1,
                                      !["keychain"] = IF kept THEN @ - 1 ELSE @]
    BY DEF Logout
  <2>2. SlotPart'
    <3>1. slot' \in {0} \cup Token'
      BY <1>2, <2>1 DEF LocalPart, SlotPart
    <3>2. fenced' \in BOOLEAN
      BY <2>1
    <3> QED
      BY <3>1, <3>2 DEF SlotPart
  <2>3. BudgetPart'
    <3> DEFINE D == Outside \cup {Before}
               n == budget["keychain"]
               l == budget["logout"] - 1
               k == IF kept THEN n - 1 ELSE n
    <3>1. budget \in [D -> Nat] /\ "logout" \in D /\ "keychain" \in D /\ n \in Nat /\ budget["logout"] > 0
      BY DEF Logout, LocalPart, BudgetPart, Outside
    <3>2. l \in Nat /\ k \in Nat
      BY <2>1, <3>1
    <3>3. budget' = [budget EXCEPT !["logout"] = l, !["keychain"] = k]
      BY <2>1, <3>1
    <3> HIDE DEF D, l, k
    <3> QED
      BY <3>1, <3>2, <3>3 DEF BudgetPart, D
  <2> QED
    BY <2>2, <2>3
<1>5. TaskPart' /\ AttemptPart'
  BY <1>2, StaleKeeps DEF Logout
<1>6. r \in ClientRecord /\ r.session = 0 /\ cl' = [cl EXCEPT ![c] = r]
  BY RecordsOf DEF Logout, ClientRecord
<1> HIDE DEF r
<1>7. ClientPart'
  BY <1>2, <1>6, ClientChanges DEF LocalPart
<1>8. WirePart'
  BY <1>2, <1>3, RevokesAreSound, WireAdds DEF Logout, LocalPart
<1>9. MarksPart'
  BY <1>2, MarksOf, MarksChange DEF Logout, LocalPart
<1>10. HistoryPart'
  <2>1. SignedOut(c) \subseteq Token
    <3>1. slot \in {0} \cup Token /\ cl[c].challenge \in {0} \cup Token
      BY RecordsOf DEF LocalPart, SlotPart
    <3>2. \A x \in {t, slot} \ {0} : FamilyOf(x) \in Token
      BY <1>3, <3>1, FamilyIs
    <3> QED
      BY <3>1, <3>2 DEF SignedOut
  <2>2. t # 0 => FamilyOf(t) \in Token
    BY <1>3, FamilyIs
  <2>3. overtaken' \subseteq Token \X {"quit", "sign-in", "sign-out", "write", "late"}
    BY <2>2 DEF Logout, LocalPart, HistoryPart
  <2> QED
    BY <1>1, <1>2, <2>1, <2>3 DEF Logout, LocalPart, HistoryPart
<1> QED
  BY <1>2, <1>4, <1>5, <1>7, <1>8, <1>9, <1>10 DEF LocalPart

\* A client quits.
LEMMA QuitKeeps ==
  ASSUME ServerPart, LocalPart, NEW c \in Clients, Quit(c)
  PROVE  LocalPart'
<1> DEFINE r == [cl[c] EXCEPT !.st = "closed", !.session = 0, !.challenge = 0]
<1>1. UNCHANGED <<serverVars, wire, deviceVars, processVars, marks, historyVars>>
  BY DEF Quit
<1>2. SlotPart' /\ WirePart' /\ MarksPart' /\ ProcessPart' /\ HistoryPart' /\ tokens' = tokens /\ Token' = Token
  BY <1>1, ServerLeft
<1>3. BudgetPart' /\ TaskPart' /\ AttemptPart'
  BY <1>2, SpendKeeps, StaleKeeps DEF Quit, LocalPart, Outside
<1>4. r \in ClientRecord /\ r.session = 0 /\ cl' = [cl EXCEPT ![c] = r]
  BY RecordsOf DEF Quit, ClientRecord
<1> HIDE DEF r
<1>5. ClientPart'
  BY <1>2, <1>4, ClientChanges DEF LocalPart
<1> QED
  BY <1>2, <1>3, <1>5 DEF LocalPart

\* Requests nobody waits for any more are as sound.
LEMMA UnawaitedIsSound ==
  ASSUME NEW m, Sound(m), NEW tag \in Nat
  PROVE  Sound([m EXCEPT !.awaited = FALSE]) /\ Sound([m EXCEPT !.awaited = FALSE, !.tag = tag])
<1> DEFINE a == [m EXCEPT !.awaited = FALSE]
           b == [m EXCEPT !.awaited = FALSE, !.tag = tag]
<1>1. a \in Request /\ a.ask = m.ask /\ a.token = m.token
  BY DEF Sound, Request
<1>2. b \in Request /\ b.ask = m.ask /\ b.token = m.token
  BY DEF Sound, Request
<1> HIDE DEF a, b
<1>3. Sound(a) /\ Sound(b)
  BY <1>1, <1>2 DEF Sound
<1> QED
  BY <1>3 DEF a, b

\* What overtakes a client is of a login.
LEMMA LateIs ==
  ASSUME ServerPart, NEW M, \A m \in M : Sound(m)
  PROVE  Late(M) \subseteq Token \X {"quit", "sign-in", "sign-out", "write", "late"}
<1>1. ASSUME NEW m \in M, m.ask = "refresh" PROVE FamilyOf(m.token) \in Token
  <2>1. m.token \in Token
    BY <1>1 DEF Sound, Request
  <2> QED
    BY <2>1, FamilyIs
<1> QED
  BY <1>1 DEF Late

\* A process dies with what its clients had in memory.
LEMMA CrashKeeps ==
  ASSUME ServerPart, LocalPart, Crash
  PROVE  LocalPart'
<1>1. UNCHANGED <<serverVars, deviceVars, started, over>>
  BY DEF Crash
<1>2. SlotPart' /\ tokens' = tokens /\ Token' = Token
  BY <1>1, ServerLeft
<1>3. BudgetPart'
  BY SpendKeeps DEF Crash, LocalPart, Outside
<1>4. ClientPart'
  <2>1. ASSUME NEW c \in Clients
        PROVE  /\ cl'[c] \in ClientRecord
               /\ cl'[c].session # 0 => cl'[c].session = cl[c].session
    <3> DEFINE r == [cl[c] EXCEPT !.st = "dead", !.session = 0, !.challenge = 0]
    <3>1. r \in ClientRecord /\ r.session = 0
      BY RecordsOf DEF ClientRecord
    <3>2. cl'[c] = IF cl[c].st = "new" THEN cl[c] ELSE r
      BY DEF Crash
    <3> HIDE DEF r
    <3> QED
      BY <3>1, <3>2, RecordsOf
  <2>2. cl' = [c \in Clients |-> cl'[c]]
    BY DEF Crash
  <2>3. cl' \in [Clients -> ClientRecord]
    BY <2>1, <2>2
  <2>4. ClientRecord' = ClientRecord
    BY <1>2 DEF ClientRecord
  <2>5. ASSUME NEW c \in Clients, cl'[c].session # 0
        PROVE  cl'[c].session \in Token' /\ tokens'[cl'[c].session].state # "pending"
    BY <1>2, <2>1, <2>5, RecordsOf DEF Genuine
  <2> QED
    BY <2>3, <2>4, <2>5 DEF ClientPart, Genuine
<1>5. MarksPart' /\ AttemptPart' /\ TaskPart'
  <2>1. MarksPart'
    BY DEF Crash, MarksPart
  <2>2. AttemptPart'
    BY DEF Crash, AttemptPart, AttemptRecord, NoAttempt
  <2>3. NoTask \in TaskRecord' /\ NoTask.at = ""
    BY NoTaskIs, <1>2 DEF TaskRecord
  <2>4. TaskPart'
    BY <2>3 DEF Crash, TaskPart
  <2> QED
    BY <2>1, <2>2, <2>4
<1>6. ProcessPart'
  BY <1>1 DEF Crash, LocalPart, ProcessPart
<1>7. PICK S \in SUBSET wire :
        wire' = {[m EXCEPT !.awaited = FALSE] : m \in S} /\ overtaken' = overtaken \cup Late(S)
  BY DEF Crash
<1>8. \A m \in S : Sound(m)
  BY <1>7 DEF LocalPart, WirePart
<1>9. WirePart'
  <2>1. \A m \in wire' : Sound(m)
    BY <1>7, <1>8, UnawaitedIsSound
  <2> QED
    BY <1>2, <2>1, WireAdds DEF LocalPart
<1>10. HistoryPart'
  <2> DEFINE D == {c \in Clients : task[c].at \in {"asking", "answered", "refused"}}
  <2>1. IsFiniteSet(Clients)
    BY ClientsAssumption, FS_Interval DEF Clients
  <2>2. IsFiniteSet(D)
    BY <2>1, FS_Subset
  <2>3. Cardinality(D) \in Nat
    BY <2>2, FS_CardinalityType
  <2>4. lost' \in Nat
    <3>1. lost \in Nat /\ lost' = lost + Cardinality(D)
      BY DEF Crash, LocalPart, HistoryPart
    <3> HIDE DEF D
    <3> QED
      BY <2>3, <3>1
  <2>5. Late(S) \subseteq Token \X {"quit", "sign-in", "sign-out", "write", "late"}
    BY <1>8, LateIs
  <2> QED
    BY <1>1, <1>2, <1>7, <2>4, <2>5 DEF LocalPart, HistoryPart
<1> QED
  BY <1>2, <1>3, <1>4, <1>5, <1>6, <1>9, <1>10 DEF LocalPart

\* The slot is cleared only of what is in it.
LEMMA ClearSlotKeeps ==
  ASSUME UNCHANGED tokens, LocalPart, NEW c \in Clients, ClearSlot(c)
  PROVE  SlotPart' /\ BudgetPart'
<1>1. SlotPart'
  BY DEF ClearSlot, LocalPart, SlotPart, Token
<1>2. CASE UNCHANGED budget
  BY <1>1, <1>2 DEF LocalPart, BudgetPart
<1>3. CASE Spend("keychain")
  BY <1>1, <1>3, SpendKeeps DEF LocalPart, Outside
<1> QED
  BY <1>2, <1>3 DEF ClearSlot

\* A sign-in begins: the session before it goes.
LEMMA BeginLoginKeeps ==
  ASSUME ServerPart, LocalPart, NEW c \in Clients, BeginLogin(c)
  PROVE  LocalPart'
<1> DEFINE t == cl[c].session
           r == [cl[c] EXCEPT !.session = 0, !.persisted = (t = 0 /\ @)]
           k == [NoTask EXCEPT !.kind = "login", !.at = "asking", !.fresh = TRUE]
<1>1. UNCHANGED <<serverVars, processVars, lost, overtaken>>
  BY DEF BeginLogin
<1>2. ProcessPart' /\ tokens' = tokens /\ Token' = Token
  BY <1>1, ServerLeft
<1>3. AttemptPart'
  BY DEF BeginLogin, LocalPart, AttemptPart, AttemptRecord, NoAttempt
<1>4. CASE UNCHANGED <<budget, wire, deviceVars, cl, marks, task, over>>
  <2>1. UNCHANGED historyVars
    BY <1>1, <1>4 DEF historyVars
  <2> QED
    BY <1>1, <1>2, <1>3, <1>4, <2>1, ServerLeft DEF LocalPart
<1>5. CASE
        /\ IF t # 0 THEN ClearSlot(c) ELSE UNCHANGED <<slot, fenced, budget>>
        /\ cl' = [cl EXCEPT ![c].session = 0, ![c].persisted = (t = 0 /\ @)]
        /\ wire' = wire \cup Revokes(c, t, Marked(c, t)) \cup {Asks(c, "login", 0)}
        /\ marks' = [marks EXCEPT ![c] = Without(@, t)]
        /\ over' = over \cup (IF t # 0 /\ Owns(c) THEN {FamilyOf(t)} ELSE {})
        /\ task' = [task EXCEPT ![c] = k]
  <2>1. SlotPart' /\ BudgetPart'
    BY <1>1, <1>2, <1>5, ClearSlotKeeps, ServerLeft DEF deviceVars
  <2>2. r \in ClientRecord /\ r.session = 0 /\ cl' = [cl EXCEPT ![c] = r]
    <3>1. (t = 0 /\ cl[c].persisted) \in BOOLEAN
      OBVIOUS
    <3> QED
      BY <1>5, <3>1, RecordsOf DEF ClientRecord
  <2>3. k \in TaskRecord /\ k.at = "asking"
    BY DEF NoTask, TaskRecord, Kinds
  <2>4. task' = [task EXCEPT ![c] = k]
    BY <1>5
  <2>5. t \in {0} \cup Token
    BY RecordsOf
  <2> HIDE DEF r, k
  <2>6. ClientPart' /\ TaskPart'
    BY <1>2, <2>2, <2>3, <2>4, ClientChanges, TaskChanges DEF LocalPart
  <2>7. Sound(Asks(c, "login", 0))
    <3>1. NoCode \in Codes /\ "login" \notin Changes
      BY DEF NoCode, Codes, Changes
    <3> QED
      BY <3>1, AskedIsSound
  <2>8. WirePart'
    <3> DEFINE S == Revokes(c, t, Marked(c, t)) \cup {Asks(c, "login", 0)}
    <3>1. \A m \in S : Sound(m)
      BY <2>5, <2>7, RevokesAreSound
    <3>2. wire' \subseteq wire \cup S
      BY <1>5
    <3> HIDE DEF S
    <3> QED
      BY <1>2, <3>1, <3>2, WireAdds DEF LocalPart
  <2>9. MarksPart'
    BY <1>2, <1>5, MarksOf, MarksChange DEF LocalPart
  <2>10. HistoryPart'
    BY <1>1, <1>2, <1>5, <2>5, FamilyIs DEF LocalPart, HistoryPart
  <2> QED
    BY <1>2, <1>3, <2>1, <2>6, <2>8, <2>9, <2>10 DEF LocalPart
<1> QED
  BY <1>4, <1>5 DEF BeginLogin

\* A restore, a refresh, a new password or a switch of the factor begins.
LEMMA BeginKeeps ==
  ASSUME ServerPart, LocalPart, NEW c \in Clients, Begin(c)
  PROVE  LocalPart'
<1>1. UNCHANGED <<serverVars, wire, deviceVars, processVars, cl, marks, historyVars>>
  BY DEF Begin
<1>2. /\ SlotPart' /\ WirePart' /\ MarksPart' /\ ProcessPart' /\ HistoryPart' /\ ClientPart'
      /\ tokens' = tokens /\ Token' = Token
  BY <1>1, ServerLeft
<1>3. AttemptPart' /\ BudgetPart' /\ TaskPart'
  <2>1. CASE /\ attempt' = [attempt EXCEPT ![c] = NoAttempt] /\ UNCHANGED budget
             /\ task' = [task EXCEPT ![c] = [NoTask EXCEPT !.kind = "restore", !.at = "slot",
                                                           !.fresh = attempt[c].fresh]]
    <3> DEFINE k == [NoTask EXCEPT !.kind = "restore", !.at = "slot", !.fresh = attempt[c].fresh]
    <3>1. k \in TaskRecord /\ k.at = "slot"
      BY RecordsOf DEF NoTask, TaskRecord, Kinds
    <3>2. task' = [task EXCEPT ![c] = k]
      BY <2>1
    <3> HIDE DEF k
    <3>3. TaskPart'
      BY <1>2, <3>1, <3>2, TaskChanges DEF LocalPart
    <3>4. AttemptPart' /\ BudgetPart'
      BY <2>1 DEF LocalPart, AttemptPart, AttemptRecord, NoAttempt, BudgetPart
    <3> QED
      BY <3>3, <3>4
  <2>2. ASSUME NEW kind \in {"refresh"} \cup Changes, Spend(kind), UNCHANGED attempt,
               task' = [task EXCEPT ![c] = [NoTask EXCEPT !.kind = kind, !.at = "slot", !.sent = cl[c].session]]
        PROVE  AttemptPart' /\ BudgetPart' /\ TaskPart'
    <3> DEFINE k == [NoTask EXCEPT !.kind = kind, !.at = "slot", !.sent = cl[c].session]
    <3>1. k \in TaskRecord /\ k.at = "slot"
      BY RecordsOf DEF NoTask, TaskRecord, Kinds
    <3>2. task' = [task EXCEPT ![c] = k]
      BY <2>2
    <3> HIDE DEF k
    <3>3. TaskPart'
      BY <1>2, <3>1, <3>2, TaskChanges DEF LocalPart
    <3>4. AttemptPart' /\ BudgetPart'
      BY <2>2, SpendKeeps DEF LocalPart, AttemptPart, Outside, Changes
    <3> QED
      BY <3>3, <3>4
  <2> QED
    BY <2>1, <2>2 DEF Begin
<1> QED
  BY <1>2, <1>3 DEF LocalPart

\* A code is entered for the pending token.
LEMMA EnterCodeKeeps ==
  ASSUME ServerPart, LocalPart, NEW c \in Clients, EnterCode(c)
  PROVE  LocalPart'
<1> DEFINE k == [NoTask EXCEPT !.kind = "code", !.at = "asking", !.sent = cl[c].challenge, !.fresh = TRUE]
<1>1. UNCHANGED <<serverVars, deviceVars, processVars, cl, marks, attempt, historyVars>>
  BY DEF EnterCode
<1>2. /\ SlotPart' /\ AttemptPart' /\ MarksPart' /\ ProcessPart' /\ HistoryPart' /\ ClientPart'
      /\ tokens' = tokens /\ Token' = Token
  BY <1>1, ServerLeft
<1>3. BudgetPart'
  BY SpendKeeps DEF EnterCode, LocalPart, Outside
<1>4. k \in TaskRecord /\ k.at = "asking" /\ task' = [task EXCEPT ![c] = k]
  BY RecordsOf DEF EnterCode, NoTask, TaskRecord, Kinds
<1> HIDE DEF k
<1>5. TaskPart'
  BY <1>2, <1>4, TaskChanges DEF LocalPart
<1>6. WirePart'
  <2>1. PICK code \in AtHand : wire' = wire \cup {[Asks(c, "code", cl[c].challenge) EXCEPT !.code = code]}
    BY DEF EnterCode
  <2>2. code \in Codes
    BY HandedCodes DEF ServerPart, ServerTypeOK
  <2> DEFINE a == [Asks(c, "code", cl[c].challenge) EXCEPT !.code = code]
  <2>3. Sound(a)
    BY <2>2, RecordsOf, AskedIsSound DEF EnterCode, Changes
  <2> HIDE DEF a
  <2>4. wire' = wire \cup {a} /\ WirePart
    BY <2>1 DEF a, LocalPart
  <2> QED
    BY <1>2, <2>3, <2>4, WireAddsOne
<1> QED
  BY <1>2, <1>3, <1>5, <1>6 DEF LocalPart

\* Restore reads the slot, and asks for what is in it.
LEMMA RestoreReadsKeeps ==
  ASSUME ServerPart, LocalPart, NEW c \in Clients, RestoreReads(c)
  PROVE  LocalPart'
<1>1. UNCHANGED <<budget, serverVars, fenced, started, owner, stored, cl, marks, attempt, historyVars>>
  BY DEF RestoreReads
<1>2. /\ BudgetPart' /\ AttemptPart' /\ MarksPart' /\ HistoryPart' /\ ClientPart'
      /\ tokens' = tokens /\ Token' = Token
  BY <1>1, ServerLeft
<1>3. /\ slot \in {0} \cup Token /\ fenced \in BOOLEAN /\ stored \in Nat /\ TaskPart /\ ProcessPart /\ WirePart
  BY DEF LocalPart, SlotPart, ProcessPart
<1>4. CASE /\ slot # 0 /\ slotLock' = c /\ wire' = wire \cup {Asks(c, "refresh", slot)}
           /\ task' = [task EXCEPT ![c].at = "asking", ![c].sent = slot, ![c].family = stored]
           /\ UNCHANGED slot
  <2> DEFINE k == [task[c] EXCEPT !.at = "asking", !.sent = slot, !.family = stored]
  <2>1. k \in TaskRecord /\ k.at = "asking" /\ task' = [task EXCEPT ![c] = k]
    BY <1>3, <1>4, RecordsOf DEF TaskRecord
  <2> HIDE DEF k
  <2>2. TaskPart'
    BY <1>2, <1>3, <2>1, TaskChanges
  <2>3. Sound(Asks(c, "refresh", slot))
    <3>1. NoCode \in Codes /\ "refresh" \notin Changes
      BY DEF NoCode, Codes, Changes
    <3> QED
      BY <1>3, <1>4, <3>1, AskedIsSound
  <2>4. WirePart'
    BY <1>2, <1>3, <1>4, <2>3, WireAddsOne
  <2>5. SlotPart' /\ ProcessPart'
    BY <1>1, <1>2, <1>3, <1>4 DEF SlotPart, ProcessPart
  <2> QED
    BY <1>2, <2>2, <2>4, <2>5 DEF LocalPart
<1>5. CASE Ends(c) /\ UNCHANGED wire /\ slot' = IF Owns(c) /\ fenced THEN 0 ELSE slot
  <2>1. TaskPart' /\ ProcessPart'
    BY <1>1, <1>2, <1>3, <1>5, TaskEnds
  <2>2. SlotPart'
    BY <1>1, <1>2, <1>3, <1>5 DEF SlotPart
  <2>3. WirePart'
    BY <1>1, <1>5, ServerLeft
  <2> QED
    BY <1>2, <2>1, <2>2, <2>3 DEF LocalPart
<1> QED
  BY <1>4, <1>5 DEF RestoreReads

\* A refresh begins: of the session there is now, unless it isn't the one to be refreshed.
LEMMA RefreshBeginsKeeps ==
  ASSUME ServerPart, LocalPart, NEW c \in Clients, RefreshBegins(c)
  PROVE  LocalPart'
<1> DEFINE t == cl[c].session
<1>1. UNCHANGED <<budget, serverVars, deviceVars, started, owner, stored, historyVars>>
  BY DEF RefreshBegins
<1>2. BudgetPart' /\ AttemptPart' /\ SlotPart' /\ HistoryPart' /\ tokens' = tokens /\ Token' = Token
  <2> DEFINE a == [attempt[c] EXCEPT !.fresh = FALSE]
  <2>1. a \in AttemptRecord
    BY RecordsOf DEF AttemptRecord
  <2>2. attempt' = attempt \/ attempt' = [attempt EXCEPT ![c] = a]
    BY DEF RefreshBegins, RefreshOnce
  <2> HIDE DEF a
  <2>3. AttemptPart'
    BY <2>1, <2>2 DEF LocalPart, AttemptPart
  <2> QED
    BY <1>1, <2>3, ServerLeft
<1>3. /\ t \in {0} \cup Token /\ stored' \in Nat
      /\ TaskPart /\ ProcessPart /\ WirePart /\ ClientPart /\ MarksPart
  BY <1>1, RecordsOf DEF LocalPart, ProcessPart
<1>4. CASE Ends(c) /\ UNCHANGED <<wire, cl, marks>>
  BY <1>1, <1>2, <1>3, <1>4, TaskEnds, ServerLeft DEF LocalPart
<1>5. CASE /\ t # 0 /\ slotLock' = c /\ wire' = wire \cup {Asks(c, "refresh", t)} /\ UNCHANGED <<cl, marks>>
           /\ task' = [task EXCEPT ![c] = [NoTask EXCEPT !.kind = "refresh", !.at = "asking", !.sent = t]]
  <2> DEFINE k == [NoTask EXCEPT !.kind = "refresh", !.at = "asking", !.sent = t]
  <2>1. k \in TaskRecord /\ k.at = "asking"
    BY <1>3 DEF NoTask, TaskRecord, Kinds
  <2>2. task' = [task EXCEPT ![c] = k]
    BY <1>5
  <2> HIDE DEF k
  <2>3. TaskPart'
    BY <1>2, <1>3, <2>1, <2>2, TaskChanges
  <2>4. Sound(Asks(c, "refresh", t))
    <3>1. NoCode \in Codes /\ "refresh" \notin Changes
      BY DEF NoCode, Codes, Changes
    <3> QED
      BY <1>3, <1>5, <3>1, AskedIsSound
  <2>5. WirePart'
    BY <1>2, <1>3, <1>5, <2>4, WireAddsOne
  <2>6. ProcessPart' /\ ClientPart' /\ MarksPart'
    BY <1>1, <1>2, <1>3, <1>5, ServerLeft DEF ProcessPart
  <2> QED
    BY <1>2, <2>3, <2>5, <2>6 DEF LocalPart
<1>6. CASE /\ Ends(c) /\ cl' = [cl EXCEPT ![c].session = 0, ![c].persisted = FALSE]
           /\ wire' = wire \cup Revokes(c, t, Marked(c, t)) /\ marks' = [marks EXCEPT ![c] = Without(@, t)]
  <2>1. TaskPart' /\ ProcessPart'
    BY <1>1, <1>2, <1>3, <1>6, TaskEnds
  <2> DEFINE r == [cl[c] EXCEPT !.session = 0, !.persisted = FALSE]
  <2>2. r \in ClientRecord /\ r.session = 0 /\ cl' = [cl EXCEPT ![c] = r]
    BY <1>6, RecordsOf DEF ClientRecord
  <2> HIDE DEF r
  <2>3. ClientPart'
    BY <1>2, <1>3, <2>2, ClientChanges
  <2>4. WirePart'
    BY <1>2, <1>3, <1>6, RevokesAreSound, WireAdds
  <2>5. MarksPart'
    BY <1>2, <1>3, <1>6, MarksOf, MarksChange
  <2> QED
    BY <1>2, <2>1, <2>3, <2>4, <2>5 DEF LocalPart
<1> QED
  BY <1>4, <1>5, <1>6 DEF RefreshBegins, RefreshOnce

\* A change of the account asks with the session there is.
LEMMA PasswordBeginsKeeps ==
  ASSUME ServerPart, LocalPart, NEW c \in Clients, PasswordBegins(c)
  PROVE  LocalPart'
<1> DEFINE t == cl[c].session
           kind == task[c].kind
<1>1. UNCHANGED <<budget, serverVars, deviceVars, started, owner, stored, cl, marks, attempt, historyVars>>
  BY DEF PasswordBegins
<1>2. /\ BudgetPart' /\ AttemptPart' /\ SlotPart' /\ HistoryPart' /\ ClientPart' /\ MarksPart'
      /\ tokens' = tokens /\ Token' = Token
  BY <1>1, ServerLeft
<1>3. /\ t \in {0} \cup Token /\ (t # 0 => Genuine(t)) /\ stored' \in Nat /\ TaskPart /\ ProcessPart /\ WirePart
  BY <1>1, RecordsOf DEF LocalPart, ProcessPart
<1>4. CASE Ends(c) /\ UNCHANGED wire
  BY <1>1, <1>2, <1>3, <1>4, TaskEnds, ServerLeft DEF LocalPart
<1>5. CASE /\ t # 0 /\ task' = [task EXCEPT ![c].at = "asking", ![c].sent = t] /\ slotLock' = c
           /\ \E code \in GoesWith(kind) :
                wire' = wire \cup {[Asks(c, kind, t) EXCEPT !.code = code]}
  <2> DEFINE k == [task[c] EXCEPT !.at = "asking", !.sent = t]
  <2>1. k \in TaskRecord /\ k.at = "asking" /\ task' = [task EXCEPT ![c] = k]
    BY <1>3, <1>5, RecordsOf DEF TaskRecord
  <2> HIDE DEF k
  <2>2. TaskPart' /\ ProcessPart'
    BY <1>1, <1>2, <1>3, <1>5, <2>1, TaskChanges DEF ProcessPart
  <2>3. PICK code \in GoesWith(kind) : wire' = wire \cup {[Asks(c, kind, t) EXCEPT !.code = code]}
    BY <1>5
  <2>4. code \in Codes
    BY HandedCodes DEF GoesWith, ServerPart, ServerTypeOK, NoCode, Codes
  <2>5. kind \in Changes
    BY DEF PasswordBegins
  <2> DEFINE a == [Asks(c, kind, t) EXCEPT !.code = code]
  <2>6. Sound(a)
    BY <1>3, <1>5, <2>4, <2>5, AskedIsSound
  <2>7. wire' = wire \cup {a}
    BY <2>3
  <2> HIDE DEF a
  <2>8. WirePart'
    BY <1>2, <1>3, <2>6, <2>7, WireAddsOne
  <2> QED
    BY <1>2, <2>2, <2>8 DEF LocalPart
<1> QED
  BY <1>4, <1>5 DEF PasswordBegins

\* A client's answers are lost.
LEMMA LoseKeeps ==
  ASSUME ServerPart, LocalPart, NEW c \in Clients, Lose(c)
  PROVE  LocalPart'
<1> DEFINE M == {m \in wire : m.by = c /\ m.awaited}
<1>1. UNCHANGED <<serverVars, deviceVars, started, owner, stored, cl, marks, attempt, over>>
  BY DEF Lose
<1>2. SlotPart' /\ AttemptPart' /\ MarksPart' /\ ClientPart' /\ tokens' = tokens /\ Token' = Token
  BY <1>1, ServerLeft
<1>3. BudgetPart' /\ TaskPart' /\ ProcessPart'
  <2>1. stored' \in Nat /\ Ends(c)
    BY <1>1 DEF Lose, LocalPart, ProcessPart
  <2> QED
    BY <1>1, <1>2, <2>1, TaskEnds, SpendKeeps DEF Lose, LocalPart, Outside
<1>4. \A m \in M : Sound(m)
  BY DEF LocalPart, WirePart
<1>5. lost + 1 \in Nat /\ lost' = lost + 1 /\ over' = over
  <2>1. lost' = lost + 1 /\ lost \in Nat
    BY DEF Lose, LocalPart, HistoryPart
  <2> QED
    BY <1>1, <2>1
<1>6. CASE wire' = wire \ M /\ UNCHANGED overtaken
  <2>1. WirePart'
    <3>1. wire' \subseteq wire \cup M
      BY <1>6
    <3> HIDE DEF M
    <3> QED
      BY <1>2, <1>4, <3>1, WireAdds DEF LocalPart
  <2>2. HistoryPart'
    BY <1>2, <1>5, <1>6 DEF LocalPart, HistoryPart
  <2> QED
    BY <1>2, <1>3, <2>1, <2>2 DEF LocalPart
<1>7. CASE /\ wire' = (wire \ M) \cup {[m EXCEPT !.awaited = FALSE, !.tag = lost + 1] : m \in M}
           /\ overtaken' = overtaken \cup Late(M)
  <2> DEFINE S == {[m EXCEPT !.awaited = FALSE, !.tag = lost + 1] : m \in M}
  <2>1. \A m \in S : Sound(m)
    BY <1>4, <1>5, UnawaitedIsSound
  <2>2. wire' \subseteq wire \cup S
    BY <1>7
  <2> HIDE DEF S
  <2>3. WirePart'
    BY <1>2, <2>1, <2>2, WireAdds DEF LocalPart
  <2>4. Late(M) \subseteq Token \X {"quit", "sign-in", "sign-out", "write", "late"}
    BY <1>4, LateIs
  <2>5. HistoryPart'
    BY <1>2, <1>5, <1>7, <2>4 DEF LocalPart, HistoryPart
  <2> QED
    BY <1>2, <1>3, <2>3, <2>5 DEF LocalPart
<1> QED
  BY <1>6, <1>7 DEF Lose

\* What an answer leaves, whichever way it is taken.
LEMMA AnswerTaken ==
  ASSUME ServerPart, LocalPart, NEW c \in Clients, NEW t, Genuine(t), Ends(c),
         UNCHANGED <<serverVars, started, owner, attempt, lost>>, over' \subseteq over \cup {t},
         UNCHANGED budget \/ Spend("keychain"),
         slot' \in {slot, t}, fenced' \in BOOLEAN, stored' \in {stored, stored + 1},
         NEW r \in ClientRecord, r.session \in {cl[c].session, t}, UNCHANGED cl \/ cl' = [cl EXCEPT ![c] = r],
         NEW M \in SUBSET (Token \X Nat), UNCHANGED marks \/ marks' = [marks EXCEPT ![c] = M],
         NEW G, wire' \subseteq wire \cup Revokes(c, t, G),
         NEW why \in {"quit", "sign-in", "write"}, overtaken' \subseteq overtaken \cup {<<FamilyOf(t), why>>}
  PROVE  LocalPart'
<1>1. tokens' = tokens /\ Token' = Token /\ AttemptPart' /\ t \in Token
  BY ServerLeft DEF Genuine
<1>2. BudgetPart'
  BY ServerLeft, SpendKeeps DEF LocalPart, Outside
<1>3. SlotPart'
  BY <1>1 DEF LocalPart, SlotPart
<1>4. TaskPart' /\ ProcessPart'
  <2>1. stored' \in Nat /\ UNCHANGED <<tokens, started, owner>>
    BY <1>1 DEF LocalPart, ProcessPart
  <2> QED
    BY <2>1, TaskEnds DEF LocalPart
<1>5. ClientPart'
  <2>1. CASE UNCHANGED cl
    BY <2>1, ServerLeft
  <2>2. CASE cl' = [cl EXCEPT ![c] = r]
    <3>1. r.session # 0 => Genuine(r.session)
      BY RecordsOf
    <3> QED
      BY <1>1, <2>2, <3>1, ClientChanges DEF LocalPart
  <2> QED
    BY <2>1, <2>2
<1>6. MarksPart'
  <2>1. CASE UNCHANGED marks
    BY <2>1, ServerLeft
  <2>2. CASE marks' = [marks EXCEPT ![c] = M]
    BY <1>1, <2>2, MarksChange DEF LocalPart
  <2> QED
    BY <2>1, <2>2
<1>7. WirePart'
  <2> DEFINE S == Revokes(c, t, G)
  <2>1. \A m \in S : Sound(m)
    BY <1>1, RevokesAreSound
  <2> HIDE DEF S
  <2>2. wire' \subseteq wire \cup S
    BY DEF S
  <2> QED
    BY <1>1, <2>1, <2>2, WireAdds DEF LocalPart
<1>8. HistoryPart'
  <2>1. FamilyOf(t) \in Token /\ lost' = lost /\ over' \subseteq over \cup {t}
    BY <1>1, FamilyIs
  <2> QED
    BY <1>1, <2>1 DEF LocalPart, HistoryPart
<1> QED
  BY <1>1, <1>2, <1>3, <1>4, <1>5, <1>6, <1>7, <1>8 DEF LocalPart

\* An answer that brings a pair is written to the slot before it is used.
LEMMA CommittedKeeps ==
  ASSUME ServerPart, LocalPart, NEW c \in Clients, Committed(c)
  PROVE  LocalPart'
<1> DEFINE t == task[c].answer
           sent == task[c].sent
           rotation == task[c].kind = "refresh"
           of == Marked(c, sent)
           kept == Without(marks[c], sent)
           carried == kept \cup (IF rotation THEN {<<t, g>> : g \in of} ELSE {})
           new == kept \cup {<<t, stored + 1>>}
           G == IF rotation THEN of ELSE {}
           r == [cl[c] EXCEPT !.session = t]
<1>1. /\ Ends(c) /\ UNCHANGED <<serverVars, started, owner, attempt, lost, over>>
      /\ Genuine(t) /\ t \in Token
  BY RecordsOf DEF Committed, Genuine
<1>2. stored \in Nat
  BY DEF LocalPart, ProcessPart
<1>3. /\ kept \in SUBSET (Token \X Nat) /\ carried \in SUBSET (Token \X Nat) /\ new \in SUBSET (Token \X Nat)
  <2>1. kept \in SUBSET (Token \X Nat) /\ of \subseteq Nat
    BY MarksOf DEF LocalPart
  <2> HIDE DEF kept, of, t
  <2>2. {<<t, g>> : g \in of} \subseteq Token \X Nat /\ <<t, stored + 1>> \in Token \X Nat
    BY <1>1, <1>2, <2>1
  <2> QED
    BY <2>1, <2>2
<1>4. r \in ClientRecord /\ r.session = t
  BY <1>1, RecordsOf DEF ClientRecord
<1>5. /\ UNCHANGED budget \/ Spend("keychain")
      /\ slot' \in {slot, t} /\ stored' \in {stored, stored + 1}
  BY DEF Committed, WriteSlot, NewLogin, deviceVars
<1>6. fenced' \in BOOLEAN
  <2>1. fenced' \in {fenced, FALSE, TRUE}
    BY DEF Committed, WriteSlot, deviceVars
  <2> QED
    BY <2>1 DEF LocalPart, SlotPart
<1>7. UNCHANGED cl \/ cl' = [cl EXCEPT ![c] = r]
  BY DEF Committed
<1>8. wire' \subseteq wire \cup Revokes(c, t, G)
  BY DEF Committed
<1>11. PICK why \in {"quit", "write"} : overtaken' \subseteq overtaken \cup {<<FamilyOf(t), why>>}
  BY DEF Committed, Unwritten
<1>9. PICK M \in {kept, carried, new} : marks' = [marks EXCEPT ![c] = M]
  BY DEF Committed, NewLogin
<1>10. r.session \in {cl[c].session, t} /\ M \in SUBSET (Token \X Nat)
  BY <1>3, <1>4, <1>9
<1> HIDE DEF r, G, t, kept, carried, new, sent, rotation, of
<1> QED
  BY <1>1, <1>4, <1>5, <1>6, <1>7, <1>8, <1>9, <1>10, <1>11, AnswerTaken

\* A pair is installed, as a sign-in or as a restored session.
LEMMA InstalledKeeps ==
  ASSUME ServerPart, LocalPart, NEW c \in Clients, Installed(c)
  PROVE  LocalPart'
<1> DEFINE t == task[c].answer
           restored == task[c].kind = "restore"
           G == IF restored THEN {task[c].family} ELSE {}
           r == [cl[c] EXCEPT !.session = t, !.persisted = TRUE, !.challenge = 0]
           kept == marks[c] \cup {<<t, task[c].family>>}
           new == Without(marks[c], t) \cup {<<t, stored + 1>>}
<1>1. /\ Ends(c) /\ UNCHANGED <<serverVars, started, owner, attempt, lost>> /\ over' \subseteq over \cup {t}
      /\ Genuine(t) /\ t \in Token
  BY RecordsOf DEF Installed, Genuine, Left
<1>2. stored \in Nat /\ task[c].family \in Nat /\ marks[c] \in SUBSET (Token \X Nat)
  BY RecordsOf DEF LocalPart, ProcessPart, MarksPart
<1>3. kept \in SUBSET (Token \X Nat) /\ new \in SUBSET (Token \X Nat)
  <2>1. Without(marks[c], t) \in SUBSET (Token \X Nat)
    BY MarksOf DEF LocalPart
  <2>2. <<t, task[c].family>> \in Token \X Nat /\ <<t, stored + 1>> \in Token \X Nat
    BY <1>1, <1>2
  <2> HIDE DEF t
  <2> QED
    BY <1>2, <2>1, <2>2
<1>4. r \in ClientRecord /\ r.session = t
  BY <1>1, RecordsOf DEF ClientRecord
<1>5. /\ UNCHANGED budget \/ Spend("keychain")
      /\ slot' \in {slot, t} /\ stored' \in {stored, stored + 1}
  BY DEF Installed, WriteSlot, NewLogin, deviceVars
<1>6. fenced' \in BOOLEAN
  <2>1. fenced' \in {fenced, FALSE, TRUE}
    BY DEF Installed, WriteSlot, deviceVars
  <2> QED
    BY <2>1 DEF LocalPart, SlotPart
<1>7. UNCHANGED cl \/ cl' = [cl EXCEPT ![c] = r]
  BY DEF Installed
<1>8. wire' \subseteq wire \cup Revokes(c, t, G)
  BY DEF Installed
<1>9. PICK why \in {"quit", "sign-in", "write"} : overtaken' \subseteq overtaken \cup {<<FamilyOf(t), why>>}
  BY DEF Installed, Unwritten
<1>10. PICK M \in {kept, new} : UNCHANGED marks \/ marks' = [marks EXCEPT ![c] = M]
  BY DEF Installed, NewLogin
<1>11. r.session \in {cl[c].session, t} /\ M \in SUBSET (Token \X Nat)
  BY <1>3, <1>4, <1>10
<1> HIDE DEF r, G, t, kept, new, restored
<1> QED
  BY <1>1, <1>4, <1>5, <1>6, <1>7, <1>8, <1>9, <1>10, <1>11, AnswerTaken

\* A refused refresh ends the session it was of.
LEMMA RefusedKeeps ==
  ASSUME ServerPart, LocalPart, NEW c \in Clients, Refused(c)
  PROVE  LocalPart'
<1>1. UNCHANGED <<serverVars, wire, started, owner, stored, marks, attempt, historyVars>>
  BY DEF Refused
<1>2. WirePart' /\ MarksPart' /\ AttemptPart' /\ HistoryPart' /\ tokens' = tokens /\ Token' = Token
  BY <1>1, ServerLeft
<1>3. TaskPart' /\ ProcessPart'
  <2>1. stored' \in Nat /\ Ends(c)
    BY <1>1 DEF Refused, LocalPart, ProcessPart
  <2> QED
    BY <1>1, <1>2, <2>1, TaskEnds DEF LocalPart
<1>4. BudgetPart' /\ SlotPart'
  <2>1. CASE ClearSlot(c)
    BY <1>2, <2>1, ClearSlotKeeps
  <2>2. CASE UNCHANGED <<budget, deviceVars>>
    BY <1>1, <2>2, ServerLeft
  <2> QED
    BY <2>1, <2>2 DEF Refused
<1>5. ClientPart'
  <2> DEFINE r == [cl[c] EXCEPT !.session = 0, !.persisted = FALSE]
  <2>1. r \in ClientRecord /\ r.session = 0 /\ (cl' = cl \/ cl' = [cl EXCEPT ![c] = r])
    BY RecordsOf DEF Refused, ClientRecord
  <2> HIDE DEF r
  <2> QED
    BY <1>1, <1>2, <2>1, ServerLeft, ClientChanges DEF LocalPart
<1> QED
  BY <1>2, <1>3, <1>4, <1>5 DEF LocalPart

\* An answer that brings no pair: a pending token, a wrong code, an expired one.
LEMMA ChallengedKeeps ==
  ASSUME ServerPart, LocalPart, NEW c \in Clients, Challenged(c) \/ TurnedDown(c)
  PROVE  LocalPart'
<1>1. /\ UNCHANGED <<budget, serverVars, wire, deviceVars, started, owner, stored, marks, attempt, lost, overtaken>>
      /\ over' \subseteq over \cup ({task[c].answer} \ {0})
  BY DEF Challenged, TurnedDown, Left, historyVars
<1>2. /\ BudgetPart' /\ SlotPart' /\ WirePart' /\ MarksPart' /\ AttemptPart' /\ HistoryPart'
      /\ tokens' = tokens /\ Token' = Token
  <2>1. task[c].answer \in {0} \cup Token
    BY RecordsOf
  <2> QED
    BY <1>1, <2>1, ServerLeft DEF LocalPart, HistoryPart
<1>3. TaskPart' /\ ProcessPart'
  <2>1. stored' \in Nat /\ Ends(c)
    BY <1>1 DEF Challenged, TurnedDown, LocalPart, ProcessPart
  <2> QED
    BY <1>1, <1>2, <2>1, TaskEnds DEF LocalPart
<1>4. ClientPart'
  <2>1. PICK h \in {0, task[c].answer} : cl' = cl \/ cl' = [cl EXCEPT ![c].challenge = h]
    BY DEF Challenged, TurnedDown
  <2> DEFINE r == [cl[c] EXCEPT !.challenge = h]
  <2>2. /\ r \in ClientRecord /\ r.session = cl[c].session
        /\ cl' = cl \/ cl' = [cl EXCEPT ![c] = r]
    BY <2>1, RecordsOf DEF ClientRecord
  <2> HIDE DEF r
  <2> QED
    BY <1>1, <1>2, <2>2, RecordsOf, ServerLeft, ClientChanges DEF LocalPart
<1> QED
  BY <1>2, <1>3, <1>4 DEF LocalPart

\* Every step of a client.
LEMMA ClientKeeps ==
  ASSUME ServerPart, LocalPart, NEW c \in Clients, Client(c)
  PROVE  ServerPart' /\ LocalPart'
<1>1. UNCHANGED serverVars
  BY DEF Client, AskLogin, Back, EnterCode, Logout, Quit, BeginLogin, Begin, RestoreReads, RefreshBegins,
         PasswordBegins, Lose, Committed, Installed, Refused, Challenged, TurnedDown
<1>2. LocalPart'
  BY AskLoginKeeps, BackKeeps, EnterCodeKeeps, LogoutKeeps, QuitKeeps, BeginLoginKeeps, BeginKeeps,
     RestoreReadsKeeps, RefreshBeginsKeeps, PasswordBeginsKeeps, LoseKeeps, CommittedKeeps, InstalledKeeps,
     RefusedKeeps, ChallengedKeeps DEF Client
<1> QED
  BY <1>1, <1>2, ServerStays

\* The first look at a session.
LEMMA CheckSessionKeeps ==
  ASSUME ServerPart, LocalPart, NEW m \in wire, CheckSession(m)
  PROVE  ServerPart' /\ LocalPart'
<1>1. UNCHANGED serverVars
  BY DEF CheckSession
<1>2. ServerPart' /\ Grown /\ ServerTypeOK /\ tokens' = tokens
  BY <1>1, ServerStays DEF serverVars, ServerPart
<1>3. CASE Answers(m, "refused", 0)
  BY <1>2, <1>3, AnswersKeep
<1>4. CASE /\ wire' = (wire \ {m}) \cup {[m EXCEPT !.checked = TRUE]}
           /\ UNCHANGED <<budget, deviceVars, processVars, cl, marks, attempt, task, historyVars>>
  <2> DEFINE a == [m EXCEPT !.checked = TRUE]
             W == {a}
  <2>1. Sound(m)
    BY DEF LocalPart, WirePart
  <2>2. a \in Request /\ a.ask = m.ask /\ a.token = m.token
    BY <2>1 DEF Sound, Request
  <2>3. wire' \subseteq wire \cup W
    BY <1>4
  <2> HIDE DEF a
  <2>4. \A n \in W : Sound(n)
    BY <2>1, <2>2 DEF Sound
  <2> HIDE DEF W
  <2>5. WirePart'
    BY <1>2, <2>3, <2>4, WireAdds DEF LocalPart
  <2> QED
    BY <1>1, <1>2, <1>4, <2>5, ServerLeft DEF LocalPart
<1> QED
  BY <1>3, <1>4 DEF CheckSession

\* Every request the server answers, and whether the answer arrives.
LEMMA ServeKeeps ==
  ASSUME ServerPart, LocalPart, Serve
  PROVE  ServerPart' /\ LocalPart'
<1>1. PICK m \in wire : \/ Rotate(m) \/ EndLogin(m) \/ LogIn(m) \/ CompleteLogin(m)
                        \/ CheckSession(m) \/ ChangePassword(m) \/ Activate(m)
  BY DEF Serve
<1>2. /\ Sound(m) /\ m.token \in {0} \cup Token /\ m.code \in Codes /\ ServerTypeOK
      /\ (m.ask # "login" => m.token \in Token) /\ (m.ask \in Changes => Genuine(m.token))
  BY DEF LocalPart, WirePart, Sound, Request, Codes, ServerPart
<1>3. ASSUME ServerPart', Grown,
             \/ Answers(m, "answered", New) /\ \E f, p : Issues(f, p)
             \/ Answers(m, "challenged", New) /\ New \in Token'
             \/ \E at \in {"refused", "wrong", "expired"} : Answers(m, at, 0)
      PROVE  ServerPart' /\ LocalPart'
  <2> DEFINE n == New
  <2>1. CASE Answers(m, "answered", New) /\ \E f, p : Issues(f, p)
    <3>1. Answers(m, "answered", n) /\ n \in Token' /\ tokens'[n].state # "pending"
      BY <2>1 DEF Issues
    <3> HIDE DEF n
    <3> QED
      BY <1>2, <1>3, <3>1, AnswersKeep DEF Genuine
  <2>2. CASE Answers(m, "challenged", New) /\ New \in Token'
    <3>1. Answers(m, "challenged", n) /\ n \in Token'
      BY <2>2
    <3> HIDE DEF n
    <3> QED
      BY <1>2, <1>3, <3>1, AnswersKeep
  <2>3. ASSUME NEW at \in {"refused", "wrong", "expired"}, Answers(m, at, 0)
        PROVE  LocalPart'
    BY <1>2, <1>3, <2>3, AnswersKeep
  <2> QED
    BY <1>3, <2>1, <2>2, <2>3
<1>4. CASE Rotate(m)
  <2>1. m.token \in Token
    BY <1>2, <1>4 DEF Rotate
  <2> QED
    BY <1>3, <1>4, <2>1, RotateKeeps
<1>5. CASE EndLogin(m)
  BY <1>3, <1>5, EndLoginKeeps
<1>6. CASE LogIn(m)
  BY <1>3, <1>6, LogInKeeps
<1>7. CASE CompleteLogin(m)
  <2>1. m.token \in Token
    BY <1>2, <1>7 DEF CompleteLogin
  <2> QED
    BY <1>2, <1>3, <1>7, <2>1, CompleteLoginKeeps
<1>8. CASE CheckSession(m)
  BY <1>8, CheckSessionKeeps
<1>9. CASE ChangePassword(m)
  <2>1. Genuine(m.token)
    BY <1>2, <1>9 DEF ChangePassword, Changes
  <2> QED
    BY <1>3, <1>9, <2>1, ChangePasswordKeeps
<1>10. CASE Activate(m)
  <2>1. m.token \in Token
    BY <1>2, <1>10 DEF Activate
  <2> QED
    BY <1>2, <1>3, <1>10, <2>1, ActivateIsKept
<1> QED
  BY <1>1, <1>4, <1>5, <1>6, <1>7, <1>8, <1>9, <1>10

\* What other devices, an admin, time and the sockets do leaves the clients alone.
LEMMA ElsewhereKeeps ==
  ASSUME ServerPart, LocalPart, OtherDevice \/ Factor \/ Sockets
  PROVE  ServerPart' /\ LocalPart'
<1>1. ServerPart' /\ Grown /\ ServerTypeOK
  BY OtherDeviceKeeps, FactorKeeps, SocketsKeep DEF ServerPart
<1>2. UNCHANGED <<wire, deviceVars, processVars, clientVars, historyVars>>
  BY DEF OtherDevice, Factor, Enroll, Manage, ResetFactor, StepPasses, Restart, Sockets, RevokeSessions,
         Connect, Register
<1>3. BudgetPart'
  <2>1. UNCHANGED budget \/ \E what \in Outside : Spend(what)
    BY DEF OtherDevice, Factor, Enroll, Manage, ResetFactor, StepPasses, Restart, Sockets, RevokeSessions,
           Connect, Register, Outside
  <2> QED
    BY <1>1, <2>1, PartsStay, SpendKeeps DEF LocalPart
<1> QED
  BY <1>1, <1>2, <1>3, PartsStay DEF LocalPart, clientVars

-----------------------------------------------------------------------------
(* The invariant.                                                          *)

\* At first nobody is signed in.
LEMMA InitIInv == Init => IInv
<1> SUFFICES ASSUME Init PROVE IInv
  OBVIOUS
<1> USE DEF Init
<1>1. Token = {} /\ tokens = <<>> /\ Len(tokens) = 0 /\ tokens \in Seq(TokenRecord)
  BY DEF Token
<1>2. budget \in [Outside \cup {Before} -> Nat]
  BY BudgetsAssumption
<1>3. factor \in FactorRecord /\ CodesBehind /\ CodesOnce
  <2>1. NoFactor \in FactorRecord /\ Behind(NoFactor, passed)
    BY DEF FactorRecord, NoFactor, Behind
  <2> DEFINE f == [NoFactor EXCEPT !.on = "on", !.secret = 1, !.batch = 2, !.unused = TRUE, !.made = 2]
  <2>2. f \in FactorRecord /\ f.secret = 1 /\ f.batch = 2 /\ f.made = 2
    BY <2>1 DEF FactorRecord
  <2>3. factor = NoFactor \/ factor = f
    OBVIOUS
  <2> HIDE DEF f
  <2>4. Behind(f, passed)
    BY <2>2 DEF Behind
  <2> QED
    BY <2>1, <2>2, <2>3, <2>4 DEF CodesBehind, CodesOnce
<1>4. ServerTypeOK
  <2>1. passed \in Seq(Nat \X Nat) /\ step \in Nat \ {0}
    OBVIOUS
  <2>4. raced \in BOOLEAN
    OBVIOUS
  <2>2. used \subseteq Token /\ sockets \subseteq [token: Token, at: {"checked", "open"}]
    OBVIOUS
  <2>3. changed \in Nat /\ cut \in Nat /\ closing \in Nat /\ cutoffs \in Nat
    OBVIOUS
  <2> QED
    BY <1>1, <1>3, <2>1, <2>2, <2>3, <2>4 DEF ServerTypeOK
<1>5. TokensInv /\ SocketsRevoked /\ CutOffs
  BY <1>1 DEF TokensInv, Families, Successors, OneLive, LiveIsAfter, ProvedSince, Genuine, SocketsRevoked, CutOffs
<1>6. ServerPart
  BY <1>3, <1>4, <1>5 DEF ServerPart
<1>7. LocalPart
  <2>1. BudgetPart /\ WirePart /\ SlotPart /\ ProcessPart /\ HistoryPart
    BY <1>1, <1>2 DEF BudgetPart, WirePart, SlotPart, ProcessPart, HistoryPart
  <2>2. ClientPart /\ MarksPart /\ AttemptPart
    BY <1>1 DEF ClientPart, MarksPart, AttemptPart, ClientRecord, AttemptRecord, NoAttempt
  <2>3. TaskPart
    BY NoTaskIs DEF TaskPart
  <2> QED
    BY <2>1, <2>2, <2>3 DEF LocalPart
<1> QED
  BY <1>6, <1>7 DEF IInv

\* Every step keeps both parts.
LEMMA NextIInv == IInv /\ [Next]_vars => IInv'
<1> SUFFICES ASSUME ServerPart, LocalPart, [Next]_vars PROVE ServerPart' /\ LocalPart'
  BY DEF IInv
<1>1. CASE Start
  <2>1. UNCHANGED serverVars
    BY <1>1 DEF Start
  <2> QED
    BY <1>1, <2>1, StartKeeps, ServerStays
<1>2. CASE Crash
  <2>1. UNCHANGED serverVars
    BY <1>2 DEF Crash
  <2> QED
    BY <1>2, <2>1, CrashKeeps, ServerStays
<1>3. CASE OtherDevice \/ Factor \/ Sockets
  BY <1>3, ElsewhereKeeps
<1>4. CASE Serve
  BY <1>4, ServeKeeps
<1>5. CASE \E c \in Clients : Client(c)
  BY <1>5, ClientKeeps
<1>6. CASE UNCHANGED vars
  <2>1. UNCHANGED serverVars /\ UNCHANGED <<budget, wire, deviceVars, processVars, clientVars, historyVars>>
    BY <1>6 DEF vars
  <2> QED
    BY <2>1, ServerStays, ServerLeft DEF clientVars, LocalPart
<1> QED
  BY <1>1, <1>2, <1>3, <1>4, <1>5, <1>6 DEF Next

\* What the invariant is for.
LEMMA IInvImplies == IInv => ServerInv
<1> SUFFICES ASSUME ServerPart, LocalPart PROVE ServerInv
  BY DEF IInv
<1>1. wire \subseteq Request
  BY DEF LocalPart, WirePart, Sound
<1>2. TypeOK
  BY <1>1 DEF TypeOK, LocalPart, ServerPart, BudgetPart, ClientPart, TaskPart, MarksPart, AttemptPart, SlotPart,
              ProcessPart, HistoryPart
<1>3. FactorHolds
  BY DEF FactorHolds, ServerPart, TokensInv, LiveIsAfter, ProvedSince, Genuine
<1> QED
  BY <1>2, <1>3 DEF ServerInv, ServerPart, TokensInv

\* The invariant holds always: whatever clients, devices, an admin and the api's restarts
\* do, in any number and order.
THEOREM InvariantHolds == Spec => []IInv
<1> QED
  BY InitIInv, NextIInv, PTL DEF Spec

\* One live token per login (_rotate), no socket open that a sign-out everywhere was to
\* close (revoke_sessions), no code accepted twice (verify_second_factor), and no session
\* without the second factor while it is on (activate).
THEOREM ServerHolds == Spec => []ServerInv
<1> QED
  BY InvariantHolds, IInvImplies, PTL

-----------------------------------------------------------------------------
(* What is stored.  A login that goes on, is stored or comes with an answer *)
(* is neither one that was ended nor from a challenge that was given up, or *)
(* can be (Good).  Only the owner's session ends as one of these (over),    *)
(* and it has no answer under way then that could be stored: a restore, a   *)
(* sign-in and a code run while there is no session (Calm), and the others  *)
(* replace the session they were asked with.                               *)

Pending(t) == t \in Token /\ tokens[t].state = "pending"

\* A request that is waited for is its client's only one, and what its task asks.
AskOf(kind) == IF kind = "restore" THEN "refresh" ELSE kind
Awaited ==
  \A m \in wire :
    /\ m.ask = "code" => Pending(m.token)
    /\ m.awaited =>
         /\ task[m.by].at = "asking" /\ task[m.by].sent = m.token /\ AskOf(task[m.by].kind) = m.ask
         /\ \A n \in wire : n.awaited /\ n.by = m.by => n = m

\* The pair a task was answered is of the login it refreshes, or begins one.
Fits(k, T) ==
  k.at = "answered" =>
    /\ k.kind # "login" => k.sent \in 1..Len(T)
    /\ IF k.kind \in {"restore", "refresh"} THEN T[k.answer].family = T[k.sent].family
       ELSE T[k.answer].family = k.answer /\ T[k.answer].from = IF k.kind = "code" THEN k.sent ELSE 0

Origins == \A t \in Token : tokens[t].from = 0 \/ Pending(tokens[t].from)

\* The challenge a client has, or is just told of.
Holds(k, r) == IF k.at = "challenged" THEN k.answer ELSE r.challenge
Open == {Holds(task[c], cl[c]) : c \in Clients} \ {0}
Challenges ==
  /\ \A p \in Open : Pending(p) /\ p \notin over
  /\ \A c, d \in Clients : Holds(task[c], cl[c]) # 0 /\ Holds(task[c], cl[c]) = Holds(task[d], cl[d]) => c = d

\* How a client's attempt, task and record go together.
Calm(a, k, r) ==
  /\ r.st = "new" => r.session = 0 /\ r.challenge = 0 /\ k.kind = "none" /\ a.kind = "none"
  /\ a.kind = "restore" => r.session = 0 /\ r.challenge = 0 /\ k.kind = "none"
  /\ a.kind = "login" => r.challenge = 0 /\ ~k.fresh
  /\ k.kind = "login" => r.challenge = 0
  /\ k.kind \in {"restore", "login", "code"} => r.session = 0
  /\ r.session # 0 => r.persisted /\ r.challenge = 0
  /\ k.kind = "none" => k.at = ""
  /\ k.at = "challenged" => k.kind = "login"
Quiet == \A c \in Clients : Calm(attempt[c], task[c], cl[c]) /\ (c > started => cl[c].st = "new")

Good(f, T, O, P) == f \in 1..Len(T) /\ T[f].state # "pending" /\ f \notin O /\ T[f].from \notin O \cup P

\* So for whatever the owner of the stored copy can write to it.
Writes(r, k, T, O, P) ==
  /\ r.session # 0 => Good(T[r.session].family, T, O, P)
  /\ k.kind = "restore" /\ k.at \in {"asking", "answered"} /\ k.fresh =>
       k.sent \in 1..Len(T) /\ Good(T[k.sent].family, T, O, P)
  /\ k.at = "answered" /\ ((k.kind \in Changes /\ r.persisted) \/ (k.kind \in {"login", "code"} /\ k.fresh)) =>
       k.answer \notin O
OwnersGood == owner # 0 => Writes(cl[owner], task[owner], tokens, over, Open)
SlotGood == slot # 0 /\ ~fenced => Good(tokens[slot].family, tokens, over, Open)

\* A pair that begins a login is with the task it answers only.
Brings(d) == task[d].at = "answered" /\ task[d].kind \notin {"restore", "refresh"}
Foreign(x, d) == x # 0 => FamilyOf(x) # task[d].answer
Apart(d) ==
  Brings(d) =>
    /\ Foreign(slot, d)
    /\ \A e \in Clients : Foreign(cl[e].session, d) /\ (task[e].kind # "code" => Foreign(task[e].sent, d))
    /\ \A m \in wire : m.ask # "code" => Foreign(m.token, d)
    /\ \A e \in Clients \ {d} : Brings(e) => task[e].answer # task[d].answer

AllFit == \A c \in Clients : Fits(task[c], tokens)
DeviceInv == Awaited /\ AllFit /\ Origins /\ Challenges /\ Quiet /\ OwnersGood /\ SlotGood

\* Tokens are added and keep what they are, of two sequences.
Grows(T, U) ==
  /\ Len(T) <= Len(U)
  /\ \A i \in 1..Len(T) :
       /\ U[i].family = T[i].family /\ U[i].from = T[i].from
       /\ U[i].state = "pending" <=> T[i].state = "pending"

\* What is good stays so when a challenge is over, or one is new.
LEMMA GoodStays ==
  ASSUME NEW T \in Seq(TokenRecord), NEW U \in Seq(TokenRecord), Grows(T, U),
         NEW O, NEW P, NEW O2, NEW P2,
         \A p \in P : p \in 1..Len(T) /\ T[p].state = "pending",
         \A i \in 1..Len(T) : T[i].from \in 0..Len(T),
         O2 \subseteq O \cup P, \A p \in P2 : p \in P \/ p = Len(T) + 1,
         NEW f, Good(f, T, O, P)
  PROVE  Good(f, U, O2, P2)
<1>1. /\ f \in 1..Len(T) /\ T[f].state # "pending" /\ f \notin O
      /\ T[f].from \notin O /\ T[f].from \notin P
  BY DEF Good
<1>2. f \in 1..Len(U) /\ U[f].state # "pending" /\ U[f].from = T[f].from
  BY <1>1 DEF Grows
<1>3. f \notin O2 /\ T[f].from \notin O2
  BY <1>1
<1>4. T[f].from \notin P2
  <2>1. T[f].from \in 0..Len(T) /\ Len(T) \in Nat
    BY <1>1
  <2>2. T[f].from # Len(T) + 1
    BY <2>1
  <2> QED
    BY <1>1, <2>2
<1> QED
  BY <1>2, <1>3, <1>4 DEF Good

\* And so does what the owner can write, when less is under way.
LEMMA WritesStay ==
  ASSUME NEW T \in Seq(TokenRecord), NEW U \in Seq(TokenRecord), Grows(T, U),
         NEW O, NEW P, NEW O2, NEW P2,
         \A p \in P : p \in 1..Len(T) /\ T[p].state = "pending",
         \A i \in 1..Len(T) : T[i].from \in 0..Len(T),
         O2 \subseteq O \cup P, \A p \in P2 : p \in P \/ p = Len(T) + 1,
         NEW r, NEW k, NEW r2, NEW k2, Writes(r, k, T, O, P),
         r.session = 0 \/ r.session \in 1..Len(T), r2.session \in {0, r.session}, r2.persisted => r.persisted,
         k2.at = "asking" /\ k2.kind = "restore"
           => k.at = "asking" /\ k.kind = "restore" /\ k2.sent = k.sent /\ (k2.fresh => k.fresh),
         k2.at = "answered" => /\ k.at \in {"asking", "answered"} /\ k2.kind = k.kind /\ k2.sent = k.sent
                               /\ (k2.fresh => k.fresh)
                               /\ \/ k.at = "answered" /\ k2.answer = k.answer /\ k.answer \in 1..Len(T)
                                     /\ T[k.answer].state # "pending"
                                  \/ k2.answer \notin O2
  PROVE  Writes(r2, k2, U, O2, P2)
<1>1. ASSUME NEW f, Good(f, T, O, P) PROVE Good(f, U, O2, P2)
  BY <1>1, GoodStays
<1>2. ASSUME r2.session # 0 PROVE Good(U[r2.session].family, U, O2, P2)
  <2>1. r2.session = r.session /\ r.session \in 1..Len(T) /\ U[r.session].family = T[r.session].family
    BY <1>2 DEF Grows
  <2>2. Good(T[r.session].family, T, O, P)
    BY <1>2, <2>1 DEF Writes
  <2> QED
    BY <1>1, <2>1, <2>2
<1>3. ASSUME k2.kind = "restore", k2.at \in {"asking", "answered"}, k2.fresh
      PROVE  k2.sent \in 1..Len(U) /\ Good(U[k2.sent].family, U, O2, P2)
  <2>1. k.kind = "restore" /\ k.at \in {"asking", "answered"} /\ k.fresh /\ k2.sent = k.sent
    BY <1>3
  <2>2. k.sent \in 1..Len(T) /\ Good(T[k.sent].family, T, O, P)
    BY <2>1 DEF Writes
  <2>3. k.sent \in 1..Len(U) /\ U[k.sent].family = T[k.sent].family
    BY <2>2 DEF Grows
  <2> QED
    BY <1>1, <2>1, <2>2, <2>3
<1>4. ASSUME k2.at = "answered",
             (k2.kind \in Changes /\ r2.persisted) \/ (k2.kind \in {"login", "code"} /\ k2.fresh)
      PROVE  k2.answer \notin O2
  <2>1. CASE k.at = "answered" /\ k2.answer = k.answer /\ k.answer \in 1..Len(T) /\ T[k.answer].state # "pending"
    <3>1. k.answer \notin O
      BY <1>4, <2>1 DEF Writes
    <3>2. k.answer \notin P
      BY <2>1
    <3> QED
      BY <2>1, <3>1, <3>2
  <2> QED
    BY <1>4, <2>1
<1> QED
  BY <1>2, <1>3, <1>4 DEF Writes

\* The tokens and challenges those are about.
LEMMA GrownGrows ==
  ASSUME ServerTypeOK, Grown
  PROVE  Grows(tokens, tokens')
BY DEF ServerTypeOK, Grown, Grows, Token

LEMMA Backing ==
  ASSUME ServerPart, LocalPart, DeviceInv
  PROVE  /\ tokens \in Seq(TokenRecord) /\ Len(tokens) \in Nat /\ Token = 1..Len(tokens) /\ over \subseteq Token
         /\ \A p \in Open : p \in 1..Len(tokens) /\ tokens[p].state = "pending"
         /\ \A i \in 1..Len(tokens) : tokens[i].from \in 0..Len(tokens)
<1>1. tokens \in Seq(TokenRecord) /\ Len(tokens) \in Nat /\ Token = 1..Len(tokens) /\ over \subseteq Token
  BY DEF ServerPart, ServerTypeOK, Token, LocalPart, HistoryPart
<1>2. \A p \in Open : p \in 1..Len(tokens) /\ tokens[p].state = "pending"
  BY <1>1 DEF DeviceInv, Challenges, Pending
<1>3. \A i \in 1..Len(tokens) : tokens[i].from \in 0..Len(tokens)
  BY <1>1 DEF DeviceInv, Origins, Pending
<1> QED
  BY <1>1, <1>2, <1>3

\* The other clients are as they were.
Others(c) == \A d \in Clients \ {c} : cl'[d] = cl[d] /\ task'[d] = task[d] /\ attempt'[d] = attempt[d]

\* What a step of one client leaves: it ends nothing but a challenge it had, and logins.
LEMMA ClientStep ==
  ASSUME ServerPart, LocalPart, DeviceInv, NEW c \in Clients, Others(c), UNCHANGED <<tokens, started, owner>>,
         cl[c].st # "new", cl'[c].st # "new", Calm(attempt'[c], task'[c], cl'[c]), Fits(task'[c], tokens),
         Holds(task'[c], cl'[c]) \in {0, Holds(task[c], cl[c])},
         \A f \in over' : \/ f \in over
                          \/ f # 0 /\ f = Holds(task[c], cl[c]) /\ Holds(task'[c], cl'[c]) = 0
                          \/ f \in Token /\ tokens[f].state # "pending"
  PROVE  /\ AllFit' /\ Origins' /\ Challenges' /\ Quiet' /\ Open' \subseteq Open
         /\ owner # c /\ over' \subseteq over \cup Open => OwnersGood'
         /\ over' \subseteq over \cup Open =>
              \A f : Good(f, tokens, over, Open) => Good(f, tokens', over', Open')
<1>1. /\ tokens \in Seq(TokenRecord) /\ Len(tokens) \in Nat /\ Token = 1..Len(tokens) /\ over \subseteq Token
      /\ \A p \in Open : p \in 1..Len(tokens) /\ tokens[p].state = "pending"
      /\ \A i \in 1..Len(tokens) : tokens[i].from \in 0..Len(tokens)
  BY Backing
<1>2. tokens' = tokens /\ Token' = Token /\ started' = started /\ owner' = owner
  BY DEF Token
<1>3. AllFit'
  BY <1>2 DEF AllFit, DeviceInv, Others
<1>4. Origins'
  BY <1>2 DEF Origins, DeviceInv, Pending
<1>5. Quiet'
  BY <1>2 DEF Quiet, DeviceInv, Others
<1>6. Open' \subseteq Open
  BY DEF Open, Others
<1>8. \A p \in Open' : p \notin over'
  <2> SUFFICES ASSUME NEW p \in Open', p \in over' PROVE FALSE
    OBVIOUS
  <2>1. p \in Open /\ tokens[p].state = "pending" /\ p \notin over
    BY <1>1, <1>6 DEF DeviceInv, Challenges
  <2>2. p = Holds(task[c], cl[c]) /\ Holds(task'[c], cl'[c]) = 0
    BY <2>1
  <2>3. PICK d \in Clients : p = Holds(task'[d], cl'[d]) /\ p # 0
    BY DEF Open
  <2>4. d # c /\ p = Holds(task[d], cl[d])
    BY <2>2, <2>3 DEF Others
  <2> QED
    BY <2>2, <2>3, <2>4 DEF DeviceInv, Challenges
<1>9. Challenges'
  <2>1. \A p \in Open' : Pending(p)' /\ p \notin over'
    BY <1>2, <1>6, <1>8 DEF DeviceInv, Challenges, Pending
  <2>2. ASSUME NEW d \in Clients, NEW e \in Clients, Holds(task'[d], cl'[d]) # 0,
               Holds(task'[d], cl'[d]) = Holds(task'[e], cl'[e])
        PROVE  d = e
    <3>1. Holds(task'[d], cl'[d]) = Holds(task[d], cl[d]) /\ Holds(task'[e], cl'[e]) = Holds(task[e], cl[e])
      BY <2>2 DEF Others
    <3> QED
      BY <2>2, <3>1 DEF DeviceInv, Challenges
  <2> QED
    BY <2>1, <2>2 DEF Challenges
<1>10. ASSUME over' \subseteq over \cup Open, NEW f, Good(f, tokens, over, Open)
       PROVE  Good(f, tokens', over', Open')
  <2>1. Grows(tokens, tokens)
    BY <1>1 DEF Grows
  <2> QED
    BY <1>1, <1>2, <1>6, <1>10, <2>1, GoodStays
<1>11. ASSUME owner # c, over' \subseteq over \cup Open PROVE OwnersGood'
  <2> SUFFICES ASSUME owner # 0 PROVE Writes(cl'[owner], task'[owner], tokens', over', Open')
    BY <1>2 DEF OwnersGood
  <2>1. owner \in Clients /\ owner # c /\ cl'[owner] = cl[owner] /\ task'[owner] = task[owner]
    BY <1>11 DEF LocalPart, ProcessPart, Others
  <2>2. over' \subseteq over \cup Open
    BY <1>11
  <2>3. Grows(tokens, tokens)
    BY <1>1 DEF Grows
  <2>4. /\ cl[owner].session \in {0} \cup Token
        /\ task[owner].at = "answered" => task[owner].answer \in Token /\ tokens[task[owner].answer].state # "pending"
    BY <2>1, RecordsOf DEF Genuine
  <2>5. Writes(cl[owner], task[owner], tokens, over, Open)
    BY DEF DeviceInv, OwnersGood
  <2> DEFINE r == cl[owner]
             k == task[owner]
  <2>6. Writes(r, k, tokens, over', Open')
    <3> HIDE DEF r, k
    <3>1. r.session = 0 \/ r.session \in 1..Len(tokens)
      BY <1>1, <2>4 DEF r
    <3>2. k.at = "answered" => k.answer \in 1..Len(tokens) /\ tokens[k.answer].state # "pending"
      BY <1>1, <2>4 DEF k
    <3>3. Writes(r, k, tokens, over, Open)
      BY <2>5 DEF r, k
    <3> QED
      BY <1>1, <1>6, <2>2, <2>3, <3>1, <3>2, <3>3, WritesStay
  <2> QED
    BY <1>2, <2>1, <2>6
<1> QED
  BY <1>3, <1>4, <1>5, <1>6, <1>9, <1>10, <1>11

\* Requests go, or come that nobody waits for; the client's task asks what it did, or
\* nothing it asked is waited for.
NothingAsked == \A m \in wire' : m \in wire \/ (~m.awaited /\ (m.ask = "code" => Pending(m.token)))
GoesOn(c) == task'[c].at = task[c].at /\ task'[c].sent = task[c].sent /\ task'[c].kind = task[c].kind
Forgotten(c) == \A m \in wire' : m.awaited => m.by # c

LEMMA AwaitedGrows ==
  ASSUME Awaited, \A t : Pending(t) => Pending(t)', NEW c \in Clients, wire \subseteq Request, NothingAsked,
         \A d \in Clients \ {c} : task'[d] = task[d],
         GoesOn(c) \/ task[c].at # "asking" \/ Forgotten(c)
  PROVE  Awaited'
<1> SUFFICES ASSUME NEW m \in wire'
             PROVE  /\ m.ask = "code" => Pending(m.token)'
                    /\ m.awaited =>
                         /\ task'[m.by].at = "asking" /\ task'[m.by].sent = m.token
                         /\ AskOf(task'[m.by].kind) = m.ask
                         /\ \A n \in wire' : n.awaited /\ n.by = m.by => n = m
  BY DEF Awaited
<1> USE DEF NothingAsked, Forgotten, GoesOn
<1>1. m.ask = "code" => Pending(m.token)
  BY DEF Awaited
<1>2. m.ask = "code" => Pending(m.token)'
  BY <1>1
<1>3. ASSUME m.awaited
      PROVE  /\ task'[m.by].at = "asking" /\ task'[m.by].sent = m.token
             /\ AskOf(task'[m.by].kind) = m.ask
             /\ \A n \in wire' : n.awaited /\ n.by = m.by => n = m
  <2>1. m \in wire /\ m.by \in Clients
    BY <1>3 DEF Request
  <2>2. /\ task[m.by].at = "asking" /\ task[m.by].sent = m.token /\ AskOf(task[m.by].kind) = m.ask
        /\ \A n \in wire : n.awaited /\ n.by = m.by => n = m
    BY <1>3, <2>1 DEF Awaited
  <2>3. task'[m.by].at = task[m.by].at /\ task'[m.by].sent = task[m.by].sent /\ task'[m.by].kind = task[m.by].kind
    BY <1>3, <2>1, <2>2
  <2> QED
    BY <2>2, <2>3
<1> QED
  BY <1>2, <1>3

LEMMA AwaitedKeeps ==
  ASSUME Awaited, UNCHANGED tokens, NEW c \in Clients, Others(c), wire \subseteq Request, NothingAsked,
         GoesOn(c) \/ task[c].at # "asking" \/ Forgotten(c)
  PROVE  Awaited'
<1>1. \A t : Pending(t) => Pending(t)'
  BY DEF Pending, Token
<1>2. \A d \in Clients \ {c} : task'[d] = task[d]
  BY DEF Others
<1> QED
  BY <1>1, <1>2, AwaitedGrows

\* A client whose task asked nothing asks this.
OneAsked(a) == \A m \in wire' : m \in wire \/ m = a \/ (~m.awaited /\ m.ask # "code")

LEMMA AwaitedAdds ==
  ASSUME Awaited, UNCHANGED tokens, NEW c \in Clients, Others(c), wire \subseteq Request, task[c].at # "asking",
         NEW a, a.by = c, task'[c].at = "asking", task'[c].sent = a.token, AskOf(task'[c].kind) = a.ask,
         a.ask = "code" => Pending(a.token),
         OneAsked(a)
  PROVE  Awaited'
<1> SUFFICES ASSUME NEW m \in wire'
             PROVE  /\ m.ask = "code" => Pending(m.token)'
                    /\ m.awaited =>
                         /\ task'[m.by].at = "asking" /\ task'[m.by].sent = m.token
                         /\ AskOf(task'[m.by].kind) = m.ask
                         /\ \A n \in wire' : n.awaited /\ n.by = m.by => n = m
  BY DEF Awaited
<1> USE DEF OneAsked
<1>1. m.ask = "code" => Pending(m.token)
  BY DEF Awaited
<1>2. m.ask = "code" => Pending(m.token)'
  BY <1>1 DEF Pending, Token
<1>3. \A n \in wire : n.awaited => n.by # c
  BY DEF Awaited
<1>4. ASSUME m.awaited
      PROVE  /\ task'[m.by].at = "asking" /\ task'[m.by].sent = m.token
             /\ AskOf(task'[m.by].kind) = m.ask
             /\ \A n \in wire' : n.awaited /\ n.by = m.by => n = m
  <2>1. CASE m = a
    BY <1>3, <2>1
  <2>2. CASE m \in wire
    <3>1. m.by \in Clients /\ m.by # c
      BY <1>3, <1>4, <2>2 DEF Request
    <3>2. /\ task[m.by].at = "asking" /\ task[m.by].sent = m.token /\ AskOf(task[m.by].kind) = m.ask
          /\ \A n \in wire : n.awaited /\ n.by = m.by => n = m
      BY <1>4, <2>2 DEF Awaited
    <3> QED
      BY <3>1, <3>2 DEF Others
  <2> QED
    BY <1>4, <2>1, <2>2
<1> QED
  BY <1>2, <1>4

\* Signing a login out is a request nobody waits for.
LEMMA RevokesAre ==
  ASSUME NEW c \in Clients, NEW t, NEW M, NEW m \in Revokes(c, t, M)
  PROVE  ~m.awaited /\ m.ask = "logout"
<1>1. m = [Asks(c, "logout", t) EXCEPT !.awaited = FALSE]
  BY DEF Revokes, Detached
<1> QED
  BY <1>1 DEF Asks

\* The owner has less under way, or as much.
LEMMA OwnerStep ==
  ASSUME ServerPart, LocalPart, DeviceInv, NEW c \in Clients, UNCHANGED <<tokens, owner>>,
         Open' \subseteq Open, over' \subseteq over \cup Open,
         cl'[c].session \in {0, cl[c].session}, cl'[c].persisted => cl[c].persisted,
         task'[c].at = "asking" /\ task'[c].kind = "restore"
           => /\ task[c].at = "asking" /\ task[c].kind = "restore" /\ task'[c].sent = task[c].sent
              /\ (task'[c].fresh => task[c].fresh),
         task'[c].at = "answered"
           => /\ task[c].at = "answered" /\ task'[c].kind = task[c].kind /\ (task'[c].fresh => task[c].fresh)
              /\ task'[c].sent = task[c].sent /\ task'[c].answer = task[c].answer
  PROVE  owner = c => OwnersGood'
<1> SUFFICES ASSUME owner = c PROVE Writes(cl'[c], task'[c], tokens', over', Open')
  BY DEF OwnersGood
<1>1. /\ tokens \in Seq(TokenRecord) /\ Len(tokens) \in Nat /\ Token = 1..Len(tokens)
      /\ \A p \in Open : p \in 1..Len(tokens) /\ tokens[p].state = "pending"
      /\ \A i \in 1..Len(tokens) : tokens[i].from \in 0..Len(tokens)
      /\ Grows(tokens, tokens) /\ tokens' = tokens
  BY Backing DEF Grows
<1>2. /\ cl[c].session \in {0} \cup Token
      /\ task[c].at = "answered" => task[c].answer \in Token /\ tokens[task[c].answer].state # "pending"
  BY RecordsOf DEF Genuine
<1>3. Writes(cl[c], task[c], tokens, over, Open)
  <2>1. c # 0
    BY DEF Clients
  <2> QED
    BY <2>1 DEF DeviceInv, OwnersGood
<1> DEFINE r == cl[c]
           k == task[c]
           r2 == cl'[c]
           k2 == task'[c]
<1>4. /\ Writes(r, k, tokens, over, Open) /\ (r.session = 0 \/ r.session \in 1..Len(tokens))
      /\ r2.session \in {0, r.session} /\ (r2.persisted => r.persisted)
      /\ k2.at = "asking" /\ k2.kind = "restore"
           => k.at = "asking" /\ k.kind = "restore" /\ k2.sent = k.sent /\ (k2.fresh => k.fresh)
      /\ k2.at = "answered" => /\ k.at = "answered" /\ k2.kind = k.kind /\ k2.sent = k.sent /\ k2.answer = k.answer
                               /\ (k2.fresh => k.fresh)
                               /\ k.answer \in 1..Len(tokens) /\ tokens[k.answer].state # "pending"
  BY <1>1, <1>2, <1>3
<1> HIDE DEF r, k, r2, k2
<1>5. Writes(r2, k2, tokens, over', Open')
  BY <1>1, <1>4, WritesStay
<1> QED
  BY <1>1, <1>5 DEF r2, k2

\* What is stored stays as good as it was, or goes.
LEMMA SlotStep ==
  ASSUME DeviceInv, UNCHANGED tokens, \A f : Good(f, tokens, over, Open) => Good(f, tokens', over', Open'),
         slot' = 0 \/ fenced' \/ (slot' = slot /\ fenced' = fenced)
  PROVE  SlotGood'
BY DEF DeviceInv, SlotGood

\* A client's step in which it ends no session it owned, and gets none.
LEMMA LessUnderWay ==
  ASSUME ServerPart, LocalPart, DeviceInv, NEW c \in Clients, Others(c), UNCHANGED <<tokens, started, owner>>,
         cl[c].st # "new", cl'[c].st # "new", Calm(attempt'[c], task'[c], cl'[c]),
         Holds(task'[c], cl'[c]) \in {0, Holds(task[c], cl[c])},
         \/ over' = over
         \/ /\ over' = over \cup {Holds(task[c], cl[c])}
            /\ Holds(task[c], cl[c]) # 0 /\ Holds(task'[c], cl'[c]) = 0,
         cl'[c].session \in {0, cl[c].session}, cl'[c].persisted => cl[c].persisted,
         task'[c].at = "asking" /\ task'[c].kind = "restore"
           => /\ task[c].at = "asking" /\ task[c].kind = "restore" /\ task'[c].sent = task[c].sent
              /\ (task'[c].fresh => task[c].fresh),
         task'[c].at = "answered"
           => /\ task[c].at = "answered" /\ task'[c].kind = task[c].kind /\ (task'[c].fresh => task[c].fresh)
              /\ task'[c].sent = task[c].sent /\ task'[c].answer = task[c].answer,
         slot' = 0 \/ fenced' \/ (slot' = slot /\ fenced' = fenced),
         Awaited'
  PROVE  DeviceInv'
<1>1. Fits(task'[c], tokens)
  BY DEF DeviceInv, AllFit, Fits
<1>a. over' \subseteq over \cup {Holds(task[c], cl[c])}
  OBVIOUS
<1>b. Holds(task[c], cl[c]) # 0 => Holds(task[c], cl[c]) \in Open
  BY DEF Open
<1>c. over' # over => Holds(task[c], cl[c]) # 0 /\ Holds(task'[c], cl'[c]) = 0
  OBVIOUS
<1>2. over' \subseteq over \cup Open
  BY <1>a, <1>b, <1>c
<1>d. \A f \in over' : f \in over \/ (f # 0 /\ f = Holds(task[c], cl[c]) /\ Holds(task'[c], cl'[c]) = 0)
  <2> SUFFICES ASSUME NEW f \in over', f \notin over
               PROVE  f # 0 /\ f = Holds(task[c], cl[c]) /\ Holds(task'[c], cl'[c]) = 0
    OBVIOUS
  <2>1. over' # over
    OBVIOUS
  <2>2. f = Holds(task[c], cl[c])
    BY <1>a
  <2> QED
    BY <2>1, <2>2, <1>c
<1>3. /\ AllFit' /\ Origins' /\ Challenges' /\ Quiet' /\ Open' \subseteq Open /\ (owner # c => OwnersGood')
      /\ \A f : Good(f, tokens, over, Open) => Good(f, tokens', over', Open')
  BY <1>1, <1>2, <1>d, ClientStep
<1>4. OwnersGood'
  BY <1>2, <1>d, <1>3, OwnerStep
<1>5. SlotGood'
  BY <1>3, SlotStep
<1> QED
  BY <1>3, <1>4, <1>5 DEF DeviceInv

\* What is known of a client at a step of its own.
LEMMA Known ==
  ASSUME ServerPart, LocalPart, DeviceInv, NEW c \in Clients
  PROVE  /\ Calm(attempt[c], task[c], cl[c]) /\ Fits(task[c], tokens) /\ Awaited /\ wire \subseteq Request
         /\ cl \in [Clients -> ClientRecord] /\ task \in [Clients -> TaskRecord]
         /\ attempt \in [Clients -> AttemptRecord]
         /\ cl[c] \in ClientRecord /\ task[c] \in TaskRecord /\ attempt[c] \in AttemptRecord /\ c # 0
BY RecordsOf DEF DeviceInv, Quiet, AllFit, LocalPart, WirePart, Sound, ClientPart, TaskPart, AttemptPart, Clients

\* Email and password again: the challenge is given up.
LEMMA AskLoginStores ==
  ASSUME ServerPart, LocalPart, DeviceInv, NEW c \in Clients, AskLogin(c)
  PROVE  DeviceInv'
<1>1. /\ Others(c) /\ UNCHANGED <<tokens, started, owner, wire, slot, fenced>>
      /\ cl[c].st = "up" /\ attempt[c].kind # "restore"
      /\ attempt'[c].kind = "login" /\ over' = over \cup ({cl[c].challenge} \ {0})
  BY Known DEF AskLogin, Others, serverVars, processVars, deviceVars
<1>2. /\ cl'[c].st = "up" /\ cl'[c].session = cl[c].session /\ cl'[c].persisted = cl[c].persisted
      /\ cl'[c].challenge = 0
  BY Known DEF AskLogin, ClientRecord
<1>3. GoesOn(c) /\ task'[c].answer = task[c].answer /\ ~task'[c].fresh
  BY Known DEF AskLogin, TaskRecord, GoesOn
<1>4. Calm(attempt[c], task[c], cl[c]) /\ Awaited /\ wire \subseteq Request
  BY Known
<1>5. Calm(attempt'[c], task'[c], cl'[c])
  BY <1>1, <1>2, <1>3, <1>4 DEF Calm, GoesOn
<1>6. \/ Holds(task[c], cl[c]) = cl[c].challenge /\ Holds(task'[c], cl'[c]) = 0
      \/ cl[c].challenge = 0 /\ Holds(task'[c], cl'[c]) = Holds(task[c], cl[c])
  BY <1>1, <1>2, <1>3, <1>4 DEF Calm, Holds, GoesOn
<1>7. Awaited'
  <2>1. NothingAsked
    BY <1>1 DEF NothingAsked
  <2> QED
    BY <1>1, <1>3, <1>4, <2>1, AwaitedKeeps
<1>8. \/ over' = over
      \/ /\ over' = over \cup {Holds(task[c], cl[c])}
         /\ Holds(task[c], cl[c]) # 0 /\ Holds(task'[c], cl'[c]) = 0
  BY <1>1, <1>6
<1> QED
  BY <1>1, <1>2, <1>3, <1>5, <1>6, <1>7, <1>8, LessUnderWay DEF GoesOn

\* Back from the code: the challenge is given up.
LEMMA BackStores ==
  ASSUME ServerPart, LocalPart, DeviceInv, NEW c \in Clients, Back(c)
  PROVE  DeviceInv'
<1>1. /\ Others(c) /\ UNCHANGED <<tokens, started, owner, wire, slot, fenced>> /\ UNCHANGED <<task, attempt>>
      /\ cl[c].st = "up" /\ cl[c].challenge # 0 /\ over' = over \cup {cl[c].challenge}
  BY Known DEF Back, Others, serverVars, processVars, deviceVars
<1>2. /\ cl'[c].st = "up" /\ cl'[c].session = cl[c].session /\ cl'[c].persisted = cl[c].persisted
      /\ cl'[c].challenge = 0
  BY Known DEF Back, ClientRecord
<1>3. Calm(attempt[c], task[c], cl[c]) /\ Awaited /\ wire \subseteq Request
  BY Known
<1>4. Calm(attempt'[c], task'[c], cl'[c])
  BY <1>1, <1>2, <1>3 DEF Calm
<1>5. Holds(task[c], cl[c]) = cl[c].challenge /\ Holds(task'[c], cl'[c]) = 0
  BY <1>1, <1>2, <1>3 DEF Calm, Holds
<1>6. Awaited'
  <2>1. NothingAsked /\ GoesOn(c)
    BY <1>1 DEF NothingAsked, GoesOn
  <2> QED
    BY <1>1, <1>3, <2>1, AwaitedKeeps
<1> QED
  BY <1>1, <1>2, <1>4, <1>5, <1>6, LessUnderWay

\* The client is dropped, and its challenge with it.
LEMMA QuitStores ==
  ASSUME ServerPart, LocalPart, DeviceInv, NEW c \in Clients, Quit(c)
  PROVE  DeviceInv'
<1>1. /\ Others(c) /\ UNCHANGED <<tokens, started, owner, wire, slot, fenced, over>> /\ cl[c].st = "up"
  BY Known DEF Quit, Stale, Others, serverVars, processVars, deviceVars, historyVars
<1>2. cl'[c].st = "closed" /\ cl'[c].session = 0 /\ cl'[c].persisted = cl[c].persisted /\ cl'[c].challenge = 0
  BY Known DEF Quit, ClientRecord
<1>3. GoesOn(c) /\ task'[c].answer = task[c].answer /\ attempt'[c].kind = attempt[c].kind /\ ~task'[c].fresh
  BY Known DEF Quit, Stale, TaskRecord, AttemptRecord, GoesOn
<1>4. Calm(attempt[c], task[c], cl[c]) /\ Awaited /\ wire \subseteq Request
  BY Known
<1>5. Calm(attempt'[c], task'[c], cl'[c])
  BY <1>1, <1>2, <1>3, <1>4 DEF Calm, GoesOn
<1>6. Holds(task'[c], cl'[c]) \in {0, Holds(task[c], cl[c])}
  BY <1>2, <1>3 DEF Holds, GoesOn
<1>7. Awaited'
  <2>1. NothingAsked
    BY <1>1 DEF NothingAsked
  <2> QED
    BY <1>1, <1>3, <1>4, <2>1, AwaitedKeeps
<1> QED
  BY <1>1, <1>2, <1>3, <1>5, <1>6, <1>7, LessUnderWay DEF GoesOn

\* A task begins, at the slot's lock.
LEMMA BeginStores ==
  ASSUME ServerPart, LocalPart, DeviceInv, NEW c \in Clients, Begin(c)
  PROVE  DeviceInv'
<1>1. /\ Others(c) /\ UNCHANGED <<tokens, started, owner, wire, slot, fenced, over>> /\ UNCHANGED cl
      /\ cl[c].st \in {"up", "closed"} /\ task[c].kind = "none"
  BY Known DEF Begin, Free, Others, serverVars, processVars, deviceVars, historyVars
<1>2. PICK k \in {"restore", "refresh"} \cup Changes :
        /\ task'[c].kind = k /\ task'[c].at = "slot"
        /\ \/ k = "restore" /\ attempt[c].kind = "restore" /\ attempt'[c].kind = "none"
           \/ k # "restore" /\ attempt[c].kind = "none" /\ attempt'[c].kind = "none"
  <2>1. CASE /\ attempt[c].kind = "restore" /\ attempt' = [attempt EXCEPT ![c] = NoAttempt]
             /\ task' = [task EXCEPT ![c] = [NoTask EXCEPT !.kind = "restore", !.at = "slot",
                                                           !.fresh = attempt[c].fresh]]
    <3>1. task'[c].kind = "restore" /\ task'[c].at = "slot" /\ attempt'[c].kind = "none"
      BY <2>1, Known DEF NoTask, NoAttempt
    <3>2. attempt[c].kind = "restore"
      BY <2>1
    <3> QED
      BY <3>1, <3>2
  <2>2. ASSUME NEW k \in {"refresh"} \cup Changes, attempt[c].kind = "none", UNCHANGED attempt,
               task' = [task EXCEPT ![c] = [NoTask EXCEPT !.kind = k, !.at = "slot", !.sent = cl[c].session]]
        PROVE  /\ task'[c].kind = k /\ task'[c].at = "slot" /\ k # "restore"
               /\ attempt'[c].kind = "none"
    BY <2>2, Known DEF NoTask, Changes
  <2> QED
    BY <2>1, <2>2 DEF Begin
<1>3. Calm(attempt[c], task[c], cl[c]) /\ Awaited /\ wire \subseteq Request
  BY Known
<1>4. Calm(attempt'[c], task'[c], cl'[c])
  BY <1>1, <1>2, <1>3 DEF Calm, Changes
<1>5. task[c].at = ""
  BY <1>1, <1>3 DEF Calm
<1>6. Holds(task'[c], cl'[c]) = Holds(task[c], cl[c])
  BY <1>1, <1>2, <1>5 DEF Holds
<1>7. Awaited'
  <2>1. NothingAsked
    BY <1>1 DEF NothingAsked
  <2> QED
    BY <1>1, <1>3, <1>5, <2>1, AwaitedKeeps
<1> QED
  BY <1>1, <1>2, <1>4, <1>6, <1>7, LessUnderWay

\* What a task that ends leaves.
LEMMA EndedIs ==
  ASSUME LocalPart, NEW c \in Clients, Ends(c)
  PROVE  /\ task'[c].kind = "none" /\ task'[c].at = "" /\ ~task'[c].fresh
         /\ \A d \in Clients \ {c} : task'[d] = task[d]
BY DEF Ends, LocalPart, TaskPart, NoTask

\* The code is sent for the challenge that is open.
LEMMA EnterCodeStores ==
  ASSUME ServerPart, LocalPart, DeviceInv, NEW c \in Clients, EnterCode(c)
  PROVE  DeviceInv'
<1>1. /\ Others(c) /\ UNCHANGED <<tokens, started, owner, slot, fenced, over>> /\ UNCHANGED <<cl, attempt>>
      /\ cl[c].st \in {"up", "closed"} /\ task[c].kind = "none" /\ attempt[c].kind = "none" /\ cl[c].challenge # 0
  BY Known DEF EnterCode, Free, Others, serverVars, processVars, deviceVars, historyVars
<1>2. task'[c].kind = "code" /\ task'[c].at = "asking" /\ task'[c].sent = cl[c].challenge
  BY Known DEF EnterCode, NoTask
<1>3. /\ Calm(attempt[c], task[c], cl[c]) /\ task[c].at = "" /\ Awaited /\ wire \subseteq Request
  BY <1>1, Known DEF Calm
<1>4. Calm(attempt'[c], task'[c], cl'[c])
  BY <1>1, <1>2, <1>3 DEF Calm
<1>5. Holds(task[c], cl[c]) = cl[c].challenge /\ Holds(task'[c], cl'[c]) = Holds(task[c], cl[c])
  BY <1>1, <1>2, <1>3 DEF Holds
<1>6. Awaited'
  <2>1. PICK code \in AtHand : wire' = wire \cup {[Asks(c, "code", cl[c].challenge) EXCEPT !.code = code]}
    BY DEF EnterCode
  <2> DEFINE a == [Asks(c, "code", cl[c].challenge) EXCEPT !.code = code]
  <2>2. a.by = c /\ a.token = cl[c].challenge /\ a.ask = "code"
    BY DEF Asks
  <2>3. OneAsked(a)
    BY <2>1 DEF OneAsked
  <2> HIDE DEF a
  <2>4. Pending(cl[c].challenge)
    BY <1>1, <1>5 DEF DeviceInv, Challenges, Open
  <2>5. AskOf("code") = "code"
    BY DEF AskOf
  <2> QED
    BY <1>1, <1>2, <1>3, <2>2, <2>3, <2>4, <2>5, AwaitedAdds
<1> QED
  BY <1>1, <1>2, <1>4, <1>5, <1>6, LessUnderWay

\* Nobody waits any more for what the client asked.
LEMMA LoseStores ==
  ASSUME ServerPart, LocalPart, DeviceInv, NEW c \in Clients, Lose(c)
  PROVE  DeviceInv'
<1>1. /\ Others(c) /\ UNCHANGED <<tokens, started, owner, slot, fenced, over>> /\ UNCHANGED <<cl, attempt>>
      /\ task'[c].kind = "none" /\ task'[c].at = "" /\ ~task'[c].fresh /\ task[c].at \in {"asking", "answered", "refused"}
  BY EndedIs DEF Lose, Others, serverVars, deviceVars
<1>2. Calm(attempt[c], task[c], cl[c]) /\ cl[c].st # "new" /\ Awaited /\ wire \subseteq Request
  BY <1>1, Known DEF Calm
<1>3. Calm(attempt'[c], task'[c], cl'[c])
  BY <1>1, <1>2 DEF Calm
<1>4. Holds(task'[c], cl'[c]) = Holds(task[c], cl[c])
  BY <1>1 DEF Holds
<1>5. Awaited'
  <2>1. ASSUME NEW m \in wire'
        PROVE  \/ m \in wire /\ ~(m.by = c /\ m.awaited)
               \/ \E n \in wire : m = [n EXCEPT !.awaited = FALSE, !.tag = lost + 1]
    <3> DEFINE M == {n \in wire : n.by = c /\ n.awaited}
               S == {[n EXCEPT !.awaited = FALSE, !.tag = lost + 1] : n \in M}
    <3>1. wire' = wire \ M \/ wire' = (wire \ M) \cup S
      BY DEF Lose
    <3>2. m \in wire \ M \/ m \in S
      BY <3>1
    <3> QED
      BY <3>2
  <2>2. ASSUME NEW m, NEW n \in wire, m = [n EXCEPT !.awaited = FALSE, !.tag = lost + 1]
        PROVE  ~m.awaited /\ (m.ask = "code" => Pending(m.token))
    <3>1. n \in Request /\ (n.ask = "code" => Pending(n.token))
      BY <1>2 DEF Awaited
    <3>2. m.awaited = FALSE /\ m.ask = n.ask /\ m.token = n.token
      BY <2>2, <3>1 DEF Request
    <3> QED
      BY <3>1, <3>2
  <2>3. NothingAsked /\ Forgotten(c)
    BY <2>1, <2>2 DEF NothingAsked, Forgotten
  <2> QED
    BY <1>1, <1>2, <2>3, AwaitedKeeps
<1> QED
  BY <1>1, <1>2, <1>3, <1>4, <1>5, LessUnderWay

\* A session the owner has ends here, and with it what is stored: it is gone, or fenced, and
\* nothing is under way that could be stored.
LEMMA SessionEnds ==
  ASSUME ServerPart, LocalPart, DeviceInv, NEW c \in Clients, Others(c), UNCHANGED <<tokens, started, owner>>,
         owner = c, cl[c].st # "new", cl'[c].st # "new", Calm(attempt'[c], task'[c], cl'[c]),
         Fits(task'[c], tokens), Holds(task'[c], cl'[c]) \in {0, Holds(task[c], cl[c])},
         \A f \in over' : \/ f \in over
                          \/ f # 0 /\ f = Holds(task[c], cl[c]) /\ Holds(task'[c], cl'[c]) = 0
                          \/ f \in Token /\ tokens[f].state # "pending",
         cl'[c].session = 0, ~cl'[c].persisted, ~task'[c].fresh \/ (task'[c].kind = "login" /\ task'[c].at = "asking"),
         slot' = 0 \/ fenced', Awaited'
  PROVE  DeviceInv'
<1>1. AllFit' /\ Origins' /\ Challenges' /\ Quiet'
  BY ClientStep
<1>2. Writes(cl'[c], task'[c], tokens', over', Open')
  BY DEF Writes
<1>3. OwnersGood'
  BY <1>2 DEF OwnersGood
<1>4. SlotGood'
  BY DEF SlotGood
<1> QED
  BY <1>1, <1>3, <1>4 DEF DeviceInv

\* The logins of an owner, and of what is stored, are logins.
LEMMA OwnersFamily ==
  ASSUME ServerPart, LocalPart, DeviceInv, NEW c \in Clients, owner = c
  PROVE  /\ cl[c].session # 0 => FamilyOf(cl[c].session) \in Token /\ tokens[FamilyOf(cl[c].session)].state # "pending"
         /\ slot # 0 /\ ~fenced => FamilyOf(slot) \in Token /\ tokens[FamilyOf(slot)].state # "pending"
<1>1. c # 0
  BY DEF Clients
<1> QED
  BY <1>1 DEF DeviceInv, OwnersGood, Writes, SlotGood, Good, FamilyOf, Token

\* Signing out, whatever is under way.
LEMMA LogoutStores ==
  ASSUME ServerPart, LocalPart, DeviceInv, NEW c \in Clients, Logout(c)
  PROVE  DeviceInv'
<1>1. /\ Others(c) /\ UNCHANGED <<tokens, started, owner>>
      /\ cl[c].st = "up" /\ over' = over \cup SignedOut(c)
  BY Known DEF Logout, Stale, Others, serverVars, processVars
<1>2. /\ cl'[c].st = "up" /\ cl'[c].session = 0 /\ cl'[c].persisted = FALSE /\ cl'[c].challenge = 0
  BY Known DEF Logout, ClientRecord
<1>3. GoesOn(c) /\ task'[c].answer = task[c].answer /\ attempt'[c].kind = attempt[c].kind /\ ~task'[c].fresh
  <2>1. Stale(c)
    BY DEF Logout
  <2> QED
    BY <2>1, Known DEF Stale, TaskRecord, AttemptRecord, GoesOn
<1>4. Calm(attempt[c], task[c], cl[c]) /\ Fits(task[c], tokens) /\ Awaited /\ wire \subseteq Request
  BY Known
<1>5. Calm(attempt'[c], task'[c], cl'[c]) /\ Fits(task'[c], tokens)
  BY <1>1, <1>2, <1>3, <1>4 DEF Calm, Fits, GoesOn
<1>6. \/ cl[c].challenge = 0 /\ Holds(task'[c], cl'[c]) = Holds(task[c], cl[c])
      \/ Holds(task[c], cl[c]) = cl[c].challenge /\ Holds(task'[c], cl'[c]) = 0
  BY <1>1, <1>2, <1>3, <1>4 DEF Calm, Holds, GoesOn
<1>7. Awaited'
  <2>1. \A m \in wire' : m \in wire \/ m \in Revokes(c, cl[c].session, Marked(c, cl[c].session))
    BY DEF Logout
  <2>2. NothingAsked
    BY <2>1, RevokesAre DEF NothingAsked
  <2> QED
    BY <1>1, <1>3, <1>4, <2>2, AwaitedKeeps
<1>8. CASE Owns(c)
  <2>1. slot' = 0 \/ fenced'
    <3>1. fenced \in BOOLEAN
      BY DEF LocalPart, SlotPart
    <3> QED
      BY <1>8, <3>1 DEF Logout
  <2>2. owner = c
    BY <1>8 DEF Owns
  <2>3. ASSUME NEW f \in over', f \notin over
        PROVE  \/ f # 0 /\ f = Holds(task[c], cl[c]) /\ Holds(task'[c], cl'[c]) = 0
               \/ f \in Token /\ tokens[f].state # "pending"
    <3>1. f \in SignedOut(c)
      BY <1>1, <2>3
    <3>2. CASE f = cl[c].challenge /\ f # 0
      BY <1>6, <3>2
    <3>3. CASE \E t \in ({cl[c].session} \cup (IF fenced THEN {} ELSE {slot})) \ {0} : f = FamilyOf(t)
      <4>1. PICK t \in ({cl[c].session} \cup (IF fenced THEN {} ELSE {slot})) \ {0} : f = FamilyOf(t)
        BY <3>3
      <4>2. t # 0 /\ (t = cl[c].session \/ (t = slot /\ ~fenced))
        BY <4>1
      <4> QED
        BY <2>2, <4>1, <4>2, OwnersFamily
    <3> QED
      BY <3>1, <3>2, <3>3 DEF SignedOut
  <2> QED
    BY <1>1, <1>2, <1>3, <1>5, <1>6, <1>7, <2>1, <2>2, <2>3, SessionEnds
<1>9. CASE ~Owns(c)
  <2>1. slot' = slot /\ fenced' = fenced
    <3>1. fenced \in BOOLEAN
      BY DEF LocalPart, SlotPart
    <3> QED
      BY <1>9, <3>1 DEF Logout
  <2>2. over' = over \cup ({cl[c].challenge} \ {0})
    BY <1>1, <1>9 DEF SignedOut
  <2>3. \/ over' = over
        \/ /\ over' = over \cup {Holds(task[c], cl[c])}
           /\ Holds(task[c], cl[c]) # 0 /\ Holds(task'[c], cl'[c]) = 0
    BY <1>6, <2>2
  <2> QED
    BY <1>1, <1>2, <1>3, <1>5, <1>6, <1>7, <2>1, <2>3, LessUnderWay DEF GoesOn
<1> QED
  BY <1>8, <1>9

\* A sign-in begins, and the session before it ends.
LEMMA BeginLoginStores ==
  ASSUME ServerPart, LocalPart, DeviceInv, NEW c \in Clients, BeginLogin(c)
  PROVE  DeviceInv'
<1>1. /\ UNCHANGED <<tokens, started, owner>> /\ attempt'[c].kind = "none" /\ attempt[c].kind = "login"
      /\ cl[c].st \in {"up", "closed"} /\ task[c].kind = "none"
  BY Known DEF BeginLogin, Free, NoAttempt, serverVars, processVars
<1>2. /\ Calm(attempt[c], task[c], cl[c]) /\ task[c].at = "" /\ cl[c].challenge = 0 /\ Awaited /\ wire \subseteq Request
  BY <1>1, Known DEF Calm
<1>3. Others(c)
  BY Known DEF BeginLogin, Others
<1>4. CASE UNCHANGED <<budget, wire, deviceVars, cl, marks, task, over>>
  <2>1. UNCHANGED <<wire, slot, fenced, cl, task, over>>
    BY <1>4 DEF deviceVars
  <2>2. Calm(attempt'[c], task'[c], cl'[c])
    BY <1>1, <1>2, <2>1 DEF Calm
  <2>3. NothingAsked /\ GoesOn(c)
    BY <2>1 DEF NothingAsked, GoesOn
  <2>4. Awaited'
    BY <1>1, <1>2, <1>3, <2>3, AwaitedKeeps
  <2>5. Holds(task'[c], cl'[c]) = Holds(task[c], cl[c]) /\ cl[c].st # "new" /\ cl'[c].st # "new"
    BY <1>1, <2>1
  <2> QED
    BY <1>1, <1>3, <2>1, <2>2, <2>4, <2>5, LessUnderWay
<1>5. CASE
        /\ IF cl[c].session # 0 THEN ClearSlot(c) ELSE UNCHANGED <<slot, fenced, budget>>
        /\ cl' = [cl EXCEPT ![c].session = 0, ![c].persisted = (cl[c].session = 0 /\ @)]
        /\ wire' = wire \cup Revokes(c, cl[c].session, Marked(c, cl[c].session)) \cup {Asks(c, "login", 0)}
        /\ over' = over \cup (IF cl[c].session # 0 /\ Owns(c) THEN {FamilyOf(cl[c].session)} ELSE {})
        /\ task' = [task EXCEPT ![c] = [NoTask EXCEPT !.kind = "login", !.at = "asking", !.fresh = TRUE]]
  <2>1. /\ cl'[c].st = cl[c].st /\ cl'[c].session = 0 /\ cl'[c].challenge = 0
        /\ cl'[c].persisted = (cl[c].session = 0 /\ cl[c].persisted)
    BY <1>2, <1>5, Known DEF ClientRecord
  <2>2. task'[c].kind = "login" /\ task'[c].at = "asking" /\ task'[c].sent = 0
    BY <1>5, Known DEF NoTask
  <2>3. Calm(attempt'[c], task'[c], cl'[c]) /\ cl[c].st # "new" /\ cl'[c].st # "new"
    BY <1>1, <1>2, <2>1, <2>2 DEF Calm
  <2>4. Holds(task'[c], cl'[c]) = 0
    BY <2>1, <2>2 DEF Holds
  <2>5. Awaited'
    <3> DEFINE a == Asks(c, "login", 0)
    <3>1. a.by = c /\ a.token = 0 /\ a.ask = "login" /\ AskOf("login") = "login"
      BY DEF Asks, AskOf
    <3>2. \A m \in wire' : m \in wire \/ m = a \/ m \in Revokes(c, cl[c].session, Marked(c, cl[c].session))
      BY <1>5
    <3> HIDE DEF a
    <3>3. OneAsked(a)
      BY <3>2, RevokesAre DEF OneAsked
    <3> QED
      BY <1>1, <1>2, <1>3, <2>2, <3>1, <3>3, AwaitedAdds
  <2>6. CASE cl[c].session # 0
    <3>1. /\ IF Owns(c) THEN slot' = 0 \/ fenced' ELSE UNCHANGED <<slot, fenced>>
          /\ over' = over \cup (IF Owns(c) THEN {FamilyOf(cl[c].session)} ELSE {})
      BY <1>5, <2>6 DEF ClearSlot
    <3>2. ~cl'[c].persisted
      BY <2>1, <2>6
    <3>3. CASE Owns(c)
      <4>1. /\ owner = c /\ Fits(task'[c], tokens) /\ (slot' = 0 \/ fenced')
            /\ \A f \in over' : f \in over \/ (f \in Token /\ tokens[f].state # "pending")
        BY <2>2, <2>6, <3>1, <3>3, OwnersFamily DEF Owns, Fits
      <4> QED
        BY <1>1, <1>3, <2>1, <2>2, <2>3, <2>4, <2>5, <3>2, <4>1, SessionEnds
    <3>4. CASE ~Owns(c)
      <4>1. over' = over /\ slot' = slot /\ fenced' = fenced
        BY <3>1, <3>4
      <4> QED
        BY <1>1, <1>3, <2>1, <2>2, <2>3, <2>4, <2>5, <3>2, <4>1, LessUnderWay
    <3> QED
      BY <3>3, <3>4
  <2>7. CASE cl[c].session = 0
    <3>1. over' = over /\ slot' = slot /\ fenced' = fenced
      BY <1>5, <2>7
    <3>2. cl'[c].persisted => cl[c].persisted
      BY <2>1
    <3> QED
      BY <1>1, <1>3, <2>1, <2>2, <2>3, <2>4, <2>5, <3>1, <3>2, LessUnderWay
  <2> QED
    BY <2>6, <2>7
<1> QED
  BY <1>4, <1>5 DEF BeginLogin

\* Restore reads what is stored, as its owner.
LEMMA RestoreReadsStores ==
  ASSUME ServerPart, LocalPart, DeviceInv, NEW c \in Clients, RestoreReads(c)
  PROVE  DeviceInv'
<1>1. /\ UNCHANGED <<tokens, started, owner, fenced, over>> /\ UNCHANGED <<cl, attempt>>
      /\ task[c].kind = "restore" /\ task[c].at = "slot"
  BY DEF RestoreReads, serverVars, historyVars
<1>2. /\ Calm(attempt[c], task[c], cl[c]) /\ cl[c].st # "new" /\ cl[c].session = 0 /\ Awaited /\ wire \subseteq Request
      /\ attempt[c].kind # "restore"
  BY <1>1, Known DEF Calm
<1>3. Others(c)
  BY <1>1, Known DEF RestoreReads, Ends, Others
<1>4. CASE /\ Owns(c) /\ slot # 0 /\ ~fenced /\ wire' = wire \cup {Asks(c, "refresh", slot)}
           /\ task' = [task EXCEPT ![c].at = "asking", ![c].sent = slot, ![c].family = stored]
           /\ UNCHANGED slot
  <2>1. /\ task'[c].kind = "restore" /\ task'[c].at = "asking" /\ task'[c].sent = slot
        /\ task'[c].fresh = task[c].fresh
    BY <1>1, <1>4, Known DEF TaskRecord
  <2>2. Calm(attempt'[c], task'[c], cl'[c])
    BY <1>1, <1>2, <2>1 DEF Calm
  <2>3. Holds(task'[c], cl'[c]) = Holds(task[c], cl[c]) /\ Fits(task'[c], tokens)
    BY <1>1, <2>1 DEF Holds, Fits
  <2>4. Awaited'
    <3> DEFINE a == Asks(c, "refresh", slot)
    <3>1. a.by = c /\ a.token = slot /\ a.ask = "refresh" /\ AskOf("restore") = "refresh"
      BY DEF Asks, AskOf
    <3>2. \A m \in wire' : m \in wire \/ m = a
      BY <1>4
    <3> HIDE DEF a
    <3>3. OneAsked(a)
      BY <3>2 DEF OneAsked
    <3> QED
      BY <1>1, <1>2, <1>3, <2>1, <3>1, <3>3, AwaitedAdds
  <2>5. /\ AllFit' /\ Origins' /\ Challenges' /\ Quiet' /\ Open' \subseteq Open
        /\ \A f : Good(f, tokens, over, Open) => Good(f, tokens', over', Open')
    BY <1>1, <1>2, <1>3, <2>2, <2>3, ClientStep
  <2>6. slot \in 1..Len(tokens) /\ Good(tokens[slot].family, tokens', over', Open')
    <3>1. slot \in Token /\ Good(tokens[slot].family, tokens, over, Open)
      BY <1>4 DEF LocalPart, SlotPart, DeviceInv, SlotGood
    <3> QED
      BY <2>5, <3>1 DEF Token
  <2>7. Writes(cl'[c], task'[c], tokens', over', Open')
    BY <1>1, <1>2, <2>1, <2>6 DEF Writes
  <2>8. OwnersGood'
    BY <1>1, <1>4, <2>7 DEF OwnersGood, Owns
  <2>9. SlotGood'
    BY <1>1, <1>4, <2>5, SlotStep
  <2> QED
    BY <2>4, <2>5, <2>8, <2>9 DEF DeviceInv
<1>5. CASE Ends(c) /\ UNCHANGED wire /\ (slot' = 0 \/ slot' = slot)
  <2>1. task'[c].kind = "none" /\ task'[c].at = "" /\ ~task'[c].fresh
    BY <1>5, EndedIs
  <2>2. Calm(attempt'[c], task'[c], cl'[c])
    BY <1>1, <1>2, <2>1 DEF Calm
  <2>3. Holds(task'[c], cl'[c]) = Holds(task[c], cl[c])
    BY <1>1, <2>1 DEF Holds
  <2>4. Awaited'
    <3>1. NothingAsked
      BY <1>5 DEF NothingAsked
    <3> QED
      BY <1>1, <1>2, <1>3, <3>1, AwaitedKeeps
  <2> QED
    BY <1>1, <1>2, <1>3, <1>5, <2>1, <2>2, <2>3, <2>4, LessUnderWay
<1> QED
  BY <1>4, <1>5 DEF RestoreReads

\* A refresh begins, of the session there is; one that was replaced ends.
LEMMA RefreshBeginsStores ==
  ASSUME ServerPart, LocalPart, DeviceInv, NEW c \in Clients, RefreshBegins(c)
  PROVE  DeviceInv'
<1>1. /\ UNCHANGED <<tokens, started, owner, slot, fenced, over>>
      /\ task[c].kind \in {"refresh"} \cup Changes /\ task[c].at \in {"slot", "refused"}
  BY DEF RefreshBegins, serverVars, deviceVars, historyVars
<1>2. /\ Calm(attempt[c], task[c], cl[c]) /\ cl[c].st # "new" /\ Awaited /\ wire \subseteq Request
      /\ attempt[c].kind # "restore"
  BY <1>1, Known DEF Calm, Changes
<1>3. CASE Ends(c) /\ UNCHANGED <<wire, cl, attempt>>
  <2>1. task'[c].kind = "none" /\ task'[c].at = "" /\ ~task'[c].fresh /\ Others(c)
    BY <1>1, <1>3, EndedIs DEF Others
  <2>2. Calm(attempt'[c], task'[c], cl'[c])
    BY <1>1, <1>2, <1>3, <2>1 DEF Calm
  <2>3. Holds(task'[c], cl'[c]) = Holds(task[c], cl[c])
    BY <1>1, <1>3, <2>1 DEF Holds
  <2>4. Awaited'
    <3>1. NothingAsked
      BY <1>3 DEF NothingAsked
    <3> QED
      BY <1>1, <1>2, <2>1, <3>1, AwaitedKeeps
  <2> QED
    BY <1>1, <1>2, <1>3, <2>1, <2>2, <2>3, <2>4, LessUnderWay
<1>4. CASE /\ cl[c].session # 0 /\ wire' = wire \cup {Asks(c, "refresh", cl[c].session)} /\ UNCHANGED <<cl, attempt>>
           /\ task' = [task EXCEPT ![c] = [NoTask EXCEPT !.kind = "refresh", !.at = "asking", !.sent = cl[c].session]]
  <2>1. /\ task'[c].kind = "refresh" /\ task'[c].at = "asking" /\ task'[c].sent = cl[c].session /\ Others(c)
        /\ ~task'[c].fresh
    BY <1>1, <1>4, Known DEF NoTask, Others
  <2>2. Calm(attempt'[c], task'[c], cl'[c])
    BY <1>1, <1>2, <1>4, <2>1 DEF Calm
  <2>3. Holds(task'[c], cl'[c]) = Holds(task[c], cl[c])
    BY <1>1, <1>4, <2>1 DEF Holds
  <2>4. Awaited'
    <3> DEFINE a == Asks(c, "refresh", cl[c].session)
    <3>1. a.by = c /\ a.token = cl[c].session /\ a.ask = "refresh" /\ AskOf("refresh") = "refresh"
      BY DEF Asks, AskOf
    <3>2. \A m \in wire' : m \in wire \/ m = a
      BY <1>4
    <3> HIDE DEF a
    <3>3. OneAsked(a)
      BY <3>2 DEF OneAsked
    <3> QED
      BY <1>1, <1>2, <2>1, <3>1, <3>3, AwaitedAdds
  <2> QED
    BY <1>1, <1>2, <1>4, <2>1, <2>2, <2>3, <2>4, LessUnderWay
<1>5. CASE /\ Ends(c) /\ attempt' = [attempt EXCEPT ![c].fresh = FALSE]
           /\ cl' = [cl EXCEPT ![c].session = 0, ![c].persisted = FALSE]
           /\ wire' = wire \cup Revokes(c, cl[c].session, Marked(c, cl[c].session))
  <2>1. task'[c].kind = "none" /\ task'[c].at = "" /\ Others(c) /\ attempt'[c].kind = attempt[c].kind /\ ~task'[c].fresh
    BY <1>1, <1>5, Known, EndedIs DEF Others, AttemptRecord
  <2>2. /\ cl'[c].st = cl[c].st /\ cl'[c].session = 0 /\ cl'[c].persisted = FALSE
        /\ cl'[c].challenge = cl[c].challenge
    BY <1>5, Known DEF ClientRecord
  <2>3. Calm(attempt'[c], task'[c], cl'[c])
    BY <1>1, <1>2, <2>1, <2>2 DEF Calm
  <2>4. Holds(task'[c], cl'[c]) = Holds(task[c], cl[c])
    BY <1>1, <2>1, <2>2 DEF Holds
  <2>5. Awaited'
    <3>1. \A m \in wire' : m \in wire \/ m \in Revokes(c, cl[c].session, Marked(c, cl[c].session))
      BY <1>5
    <3>2. NothingAsked
      BY <3>1, RevokesAre DEF NothingAsked
    <3> QED
      BY <1>1, <1>2, <2>1, <3>2, AwaitedKeeps
  <2> QED
    BY <1>1, <1>2, <2>1, <2>2, <2>3, <2>4, <2>5, LessUnderWay
<1> QED
  BY <1>3, <1>4, <1>5 DEF RefreshBegins, RefreshOnce

\* A change of the account is asked for with the session there is.
LEMMA PasswordBeginsStores ==
  ASSUME ServerPart, LocalPart, DeviceInv, NEW c \in Clients, PasswordBegins(c)
  PROVE  DeviceInv'
<1>1. /\ UNCHANGED <<tokens, started, owner, slot, fenced, over>> /\ UNCHANGED <<cl, attempt>>
      /\ task[c].kind \in Changes /\ task[c].at = "slot"
  BY DEF PasswordBegins, serverVars, deviceVars, historyVars
<1>2. /\ Calm(attempt[c], task[c], cl[c]) /\ cl[c].st # "new" /\ Awaited /\ wire \subseteq Request
      /\ attempt[c].kind # "restore"
  BY <1>1, Known DEF Calm, Changes
<1>3. CASE Ends(c) /\ UNCHANGED wire
  <2>1. task'[c].kind = "none" /\ task'[c].at = "" /\ ~task'[c].fresh /\ Others(c)
    BY <1>1, <1>3, EndedIs DEF Others
  <2>2. Calm(attempt'[c], task'[c], cl'[c])
    BY <1>1, <1>2, <2>1 DEF Calm
  <2>3. Holds(task'[c], cl'[c]) = Holds(task[c], cl[c])
    BY <1>1, <2>1 DEF Holds
  <2>4. Awaited'
    <3>1. NothingAsked
      BY <1>3 DEF NothingAsked
    <3> QED
      BY <1>1, <1>2, <2>1, <3>1, AwaitedKeeps
  <2> QED
    BY <1>1, <1>2, <2>1, <2>2, <2>3, <2>4, LessUnderWay
<1>4. CASE /\ task' = [task EXCEPT ![c].at = "asking", ![c].sent = cl[c].session]
           /\ \E code \in GoesWith(task[c].kind) :
                wire' = wire \cup {[Asks(c, task[c].kind, cl[c].session) EXCEPT !.code = code]}
  <2>1. /\ task'[c].kind = task[c].kind /\ task'[c].at = "asking" /\ task'[c].sent = cl[c].session /\ Others(c)
        /\ task'[c].fresh = task[c].fresh
    BY <1>1, <1>4, Known DEF TaskRecord, Others
  <2>2. Calm(attempt'[c], task'[c], cl'[c])
    BY <1>1, <1>2, <2>1 DEF Calm, Changes
  <2>3. Holds(task'[c], cl'[c]) = Holds(task[c], cl[c])
    BY <1>1, <2>1 DEF Holds
  <2>4. Awaited'
    <3>1. PICK code \in GoesWith(task[c].kind) :
            wire' = wire \cup {[Asks(c, task[c].kind, cl[c].session) EXCEPT !.code = code]}
      BY <1>4
    <3> DEFINE a == [Asks(c, task[c].kind, cl[c].session) EXCEPT !.code = code]
    <3>2. a.by = c /\ a.token = cl[c].session /\ a.ask = task[c].kind
      BY DEF Asks
    <3>3. AskOf(task[c].kind) = task[c].kind /\ task[c].kind # "code"
      BY <1>1 DEF AskOf, Changes
    <3>4. \A m \in wire' : m \in wire \/ m = a
      BY <3>1
    <3> HIDE DEF a
    <3>5. OneAsked(a)
      BY <3>4 DEF OneAsked
    <3> QED
      BY <1>1, <1>2, <2>1, <3>2, <3>3, <3>5, AwaitedAdds
  <2> QED
    BY <1>1, <1>2, <2>1, <2>2, <2>3, <2>4, LessUnderWay DEF Changes
<1> QED
  BY <1>3, <1>4 DEF PasswordBegins

\* A refused refresh ends the session, and clears what is stored if it is that.
LEMMA RefusedStores ==
  ASSUME ServerPart, LocalPart, DeviceInv, NEW c \in Clients, Refused(c)
  PROVE  DeviceInv'
<1>1. /\ UNCHANGED <<tokens, started, owner, wire, over>> /\ UNCHANGED attempt
      /\ task[c].kind \in {"restore", "refresh"} /\ task[c].at = "refused" /\ Ends(c)
  BY DEF Refused, serverVars, historyVars
<1>2. /\ Calm(attempt[c], task[c], cl[c]) /\ cl[c].st # "new" /\ Awaited /\ wire \subseteq Request
      /\ attempt[c].kind # "restore"
  BY <1>1, Known DEF Calm
<1>3. task'[c].kind = "none" /\ task'[c].at = "" /\ ~task'[c].fresh /\ Others(c)
  BY <1>1, Known, EndedIs DEF Refused, Others
<1>4. /\ cl'[c].st = cl[c].st /\ cl'[c].challenge = cl[c].challenge
      /\ \/ cl'[c].session = 0 /\ cl'[c].persisted = FALSE
         \/ cl'[c].session = cl[c].session /\ cl'[c].persisted = cl[c].persisted
  <2> DEFINE r == [cl[c] EXCEPT !.session = 0, !.persisted = FALSE]
  <2>1. r.st = cl[c].st /\ r.challenge = cl[c].challenge /\ r.session = 0 /\ r.persisted = FALSE
    BY Known DEF ClientRecord
  <2>2. cl'[c] = r \/ cl'[c] = cl[c]
    BY Known DEF Refused
  <2> HIDE DEF r
  <2> QED
    BY <2>1, <2>2
<1>5. Calm(attempt'[c], task'[c], cl'[c])
  BY <1>1, <1>2, <1>3, <1>4 DEF Calm
<1>6. Holds(task'[c], cl'[c]) = Holds(task[c], cl[c])
  BY <1>1, <1>3, <1>4 DEF Holds
<1>7. Awaited'
  <2>1. NothingAsked
    BY <1>1 DEF NothingAsked
  <2> QED
    BY <1>1, <1>2, <1>3, <2>1, AwaitedKeeps
<1>8. slot' = 0 \/ fenced' \/ (slot' = slot /\ fenced' = fenced)
  BY DEF Refused, ClearSlot, deviceVars
<1> QED
  BY <1>1, <1>2, <1>3, <1>4, <1>5, <1>6, <1>7, <1>8, LessUnderWay

\* A pending token opens the challenge, or comes too late; a code that is turned down may
\* end it.
LEMMA ChallengedStores ==
  ASSUME ServerPart, LocalPart, DeviceInv, NEW c \in Clients, Challenged(c) \/ TurnedDown(c)
  PROVE  DeviceInv'
<1>1. /\ UNCHANGED <<tokens, started, owner, wire, slot, fenced>> /\ UNCHANGED attempt
      /\ task[c].at \in {"challenged", "wrong", "expired"} /\ Ends(c)
  BY DEF Challenged, TurnedDown, serverVars, deviceVars, historyVars
<1>2. /\ Calm(attempt[c], task[c], cl[c]) /\ cl[c].st # "new" /\ Awaited /\ wire \subseteq Request
      /\ attempt[c].kind # "restore"
  BY <1>1, Known DEF Calm
<1>3. task'[c].kind = "none" /\ task'[c].at = "" /\ ~task'[c].fresh /\ Others(c)
  BY <1>1, Known, EndedIs DEF Challenged, TurnedDown, Others
<1>4. /\ cl'[c].st = cl[c].st /\ cl'[c].session = cl[c].session /\ cl'[c].persisted = cl[c].persisted
      /\ \/ cl'[c].challenge \in {0, cl[c].challenge}
         \/ cl'[c].challenge = task[c].answer /\ task[c].at = "challenged" /\ task[c].fresh
  <2>1. PICK h \in {0, task[c].answer} :
          /\ cl' = cl \/ cl' = [cl EXCEPT ![c].challenge = h]
          /\ h = 0 \/ (task[c].at = "challenged" /\ (cl' # cl => task[c].fresh))
    BY DEF Challenged, TurnedDown, Current
  <2> DEFINE r == [cl[c] EXCEPT !.challenge = h]
  <2>2. r.st = cl[c].st /\ r.session = cl[c].session /\ r.persisted = cl[c].persisted /\ r.challenge = h
    BY Known DEF ClientRecord
  <2>3. cl'[c] = cl[c] \/ (cl'[c] = r /\ (h = 0 \/ task[c].fresh \/ cl'[c] = cl[c]))
    BY <2>1, Known
  <2> HIDE DEF r
  <2> QED
    BY <2>1, <2>2, <2>3
<1>5. Calm(attempt'[c], task'[c], cl'[c])
  BY <1>1, <1>2, <1>3, <1>4 DEF Calm
<1>6. Holds(task'[c], cl'[c]) \in {0, Holds(task[c], cl[c])}
  BY <1>1, <1>2, <1>3, <1>4 DEF Holds, Calm
<1>7. \/ over' = over
      \/ /\ over' = over \cup {Holds(task[c], cl[c])}
         /\ Holds(task[c], cl[c]) # 0 /\ Holds(task'[c], cl'[c]) = 0
  <2>1. CASE TurnedDown(c)
    BY <2>1 DEF TurnedDown, historyVars
  <2>2. CASE Challenged(c)
    <3>1. over' = over \cup Left(c) /\ task[c].at = "challenged" /\ Holds(task[c], cl[c]) = task[c].answer
      BY <2>2 DEF Challenged, Holds
    <3>2. CASE task[c].fresh
      BY <3>1, <3>2 DEF Left
    <3>3. CASE ~task[c].fresh
      <4>1. cl'[c].challenge = 0
        BY <1>2, <2>2, <3>1, <3>3 DEF Challenged, Current, Calm
      <4>2. Holds(task'[c], cl'[c]) = 0
        BY <1>3, <4>1 DEF Holds
      <4> QED
        BY <3>1, <3>3, <4>2 DEF Left
    <3> QED
      BY <3>2, <3>3
  <2> QED
    BY <2>1, <2>2
<1>8. Awaited'
  <2>1. NothingAsked
    BY <1>1 DEF NothingAsked
  <2> QED
    BY <1>1, <1>2, <1>3, <2>1, AwaitedKeeps
<1> QED
  BY <1>1, <1>2, <1>3, <1>4, <1>5, <1>6, <1>7, <1>8, LessUnderWay

\* The client that starts has nothing, and so nothing to write.
LEMMA StartStores ==
  ASSUME ServerPart, LocalPart, DeviceInv, Start
  PROVE  DeviceInv'
<1> DEFINE c == started + 1
<1>1. /\ c \in Clients /\ UNCHANGED <<tokens, wire, slot, fenced, over>> /\ UNCHANGED task
      /\ started' = c /\ owner' = c /\ cl' = [cl EXCEPT ![c].st = "up"]
      /\ attempt' = [attempt EXCEPT ![c] = [kind |-> "restore", fresh |-> TRUE]]
  BY DEF Start, serverVars, deviceVars
<1>2. started \in Nat /\ c > started
  BY DEF LocalPart, ProcessPart, Clients
<1> HIDE DEF c
<1>3. Calm(attempt[c], task[c], cl[c]) /\ cl[c].st = "new"
  BY <1>1, <1>2, Known DEF DeviceInv, Quiet
<1>4. /\ cl'[c].st = "up" /\ cl'[c].session = cl[c].session /\ cl'[c].challenge = cl[c].challenge
      /\ attempt'[c].kind = "restore"
      /\ \A d \in Clients \ {c} : cl'[d] = cl[d] /\ attempt'[d] = attempt[d]
  BY <1>1, Known DEF ClientRecord
<1>5. Quiet'
  <2>1. Calm(attempt'[c], task'[c], cl'[c])
    BY <1>1, <1>3, <1>4 DEF Calm
  <2>2. \A d \in Clients : d > c => d > started /\ d # c
    BY <1>1, <1>2 DEF Clients
  <2> QED
    BY <1>1, <1>4, <2>1, <2>2 DEF Quiet, DeviceInv
<1>6. \A d \in Clients : Holds(task'[d], cl'[d]) = Holds(task[d], cl[d])
  BY <1>1, <1>4 DEF Holds
<1>7. Open' = Open
  BY <1>6 DEF Open
<1>8. Challenges'
  BY <1>1, <1>6, <1>7 DEF DeviceInv, Challenges, Pending, Token
<1>9. AllFit' /\ Origins' /\ Awaited' /\ SlotGood'
  BY <1>1, <1>7 DEF DeviceInv, AllFit, Fits, Origins, Awaited, SlotGood, Pending, Token
<1>10. OwnersGood'
  BY <1>1, <1>3, <1>4 DEF OwnersGood, Writes, Calm
<1> QED
  BY <1>5, <1>8, <1>9, <1>10 DEF DeviceInv

\* The process ends: no challenge is open, and nobody owns what is stored.
LEMMA CrashStores ==
  ASSUME ServerPart, LocalPart, DeviceInv, Crash
  PROVE  DeviceInv'
<1>1. UNCHANGED <<tokens, slot, fenced, over, started>> /\ owner' = 0
  BY DEF Crash, serverVars, deviceVars
<1>2. ASSUME NEW c \in Clients
      PROVE  /\ task'[c].kind = "none" /\ task'[c].at = "" /\ attempt'[c].kind = "none"
             /\ cl'[c].session = 0 /\ cl'[c].challenge = 0 /\ (c > started => cl'[c].st = "new")
  <2>1. task'[c].kind = "none" /\ task'[c].at = "" /\ attempt'[c].kind = "none"
    BY DEF Crash, NoTask, NoAttempt
  <2> DEFINE r == [cl[c] EXCEPT !.st = "dead", !.session = 0, !.challenge = 0]
  <2>2. r.session = 0 /\ r.challenge = 0
    BY Known DEF ClientRecord
  <2>3. cl'[c] = IF cl[c].st = "new" THEN cl[c] ELSE r
    BY DEF Crash
  <2>4. /\ cl[c].st = "new" => cl[c].session = 0 /\ cl[c].challenge = 0
        /\ c > started => cl[c].st = "new"
    BY DEF DeviceInv, Quiet, Calm
  <2> HIDE DEF r
  <2> QED
    BY <2>1, <2>2, <2>3, <2>4
<1>3. Quiet' /\ AllFit' /\ Origins'
  BY <1>1, <1>2 DEF Quiet, Calm, AllFit, Fits, Origins, DeviceInv, Pending, Token
<1>4. Open' = {} /\ Challenges'
  BY <1>2 DEF Open, Holds, Challenges
<1>5. OwnersGood'
  BY <1>1 DEF OwnersGood
<1>6. SlotGood'
  <2>1. /\ tokens \in Seq(TokenRecord) /\ Grows(tokens, tokens) /\ over' \subseteq over \cup Open
        /\ \A p \in Open : p \in 1..Len(tokens) /\ tokens[p].state = "pending"
        /\ \A i \in 1..Len(tokens) : tokens[i].from \in 0..Len(tokens)
    BY <1>1, Backing DEF Grows
  <2>2. ASSUME NEW f, Good(f, tokens, over, Open) PROVE Good(f, tokens, over', Open')
    <3>1. \A p \in Open' : p \in Open \/ p = Len(tokens) + 1
      BY <1>4
    <3> QED
      BY <2>1, <2>2, <3>1, GoodStays
  <2> QED
    BY <1>1, <2>2 DEF DeviceInv, SlotGood
<1>7. Awaited'
  <2>1. PICK S \in SUBSET wire : wire' = {[m EXCEPT !.awaited = FALSE] : m \in S}
    BY DEF Crash
  <2>2. ASSUME NEW m \in wire'
        PROVE  m.awaited = FALSE /\ (m.ask = "code" => Pending(m.token)')
    <3>1. PICK n \in wire : m = [n EXCEPT !.awaited = FALSE]
      BY <2>1
    <3>2. n \in Request /\ (n.ask = "code" => Pending(n.token))
      BY DEF DeviceInv, Awaited, LocalPart, WirePart, Sound
    <3>3. m.awaited = FALSE /\ m.ask = n.ask /\ m.token = n.token
      BY <3>1, <3>2 DEF Request
    <3> QED
      BY <1>1, <3>2, <3>3 DEF Pending, Token
  <2> QED
    BY <2>2 DEF Awaited
<1> QED
  BY <1>3, <1>4, <1>5, <1>6, <1>7 DEF DeviceInv

\* An answered pair can be stored: it is of the login that was sent, or a new one that was
\* not ended since.
LEMMA PairGood ==
  ASSUME ServerPart, LocalPart, DeviceInv, NEW c \in Clients, owner = c,
         task[c].kind \in {"refresh"} \cup Changes, task[c].at = "answered",
         \/ cl[c].session = task[c].sent
         \/ cl[c].persisted /\ slot = task[c].sent /\ ~fenced
  PROVE  Good(tokens[task[c].answer].family, tokens, over, Open)
<1> DEFINE t == task[c].answer
           s == task[c].sent
<1>1. /\ t \in 1..Len(tokens) /\ tokens[t].state # "pending" /\ s \in 1..Len(tokens)
      /\ Len(tokens) \in Nat /\ over \subseteq 1..Len(tokens)
      /\ \A p \in Open : p \in 1..Len(tokens)
  <2>1. t \in Token /\ tokens[t].state # "pending"
    BY RecordsOf DEF Genuine
  <2>2. s \in 1..Len(tokens)
    BY DEF DeviceInv, AllFit, Fits, Changes
  <2> QED
    BY <2>1, <2>2, Backing
<1>2. Writes(cl[c], task[c], tokens, over, Open) /\ Calm(attempt[c], task[c], cl[c])
  BY Known DEF DeviceInv, OwnersGood
<1>3. CASE task[c].kind = "refresh"
  <2>1. tokens[t].family = tokens[s].family
    BY <1>3 DEF DeviceInv, AllFit, Fits
  <2>2. CASE cl[c].session = s
    <3>1. Good(tokens[s].family, tokens, over, Open)
      BY <1>1, <1>2, <2>2 DEF Writes
    <3> QED
      BY <2>1, <3>1
  <2>3. CASE slot = s /\ ~fenced
    <3>1. Good(tokens[s].family, tokens, over, Open)
      BY <1>1, <2>3 DEF DeviceInv, SlotGood
    <3> QED
      BY <2>1, <3>1
  <2> QED
    BY <2>2, <2>3
<1>4. CASE task[c].kind \in Changes
  <2>1. tokens[t].family = t /\ tokens[t].from = 0
    BY <1>4 DEF DeviceInv, AllFit, Fits, Changes
  <2>2. cl[c].persisted
    BY <1>1, <1>2 DEF Calm
  <2>3. t \notin over
    BY <1>2, <1>4, <2>2 DEF Writes
  <2>4. 0 \notin over \cup Open
    BY <1>1
  <2> QED
    BY <1>1, <2>1, <2>3, <2>4 DEF Good
<1> QED
  BY <1>3, <1>4

\* A refreshed pair, or that of a change of the account, is taken.
LEMMA CommittedStores ==
  ASSUME ServerPart, LocalPart, DeviceInv, NEW c \in Clients, Committed(c)
  PROVE  DeviceInv'
<1> DEFINE t == task[c].answer
           s == task[c].sent
<1>1. /\ UNCHANGED <<tokens, started, owner, over>> /\ UNCHANGED attempt
      /\ task[c].kind \in {"refresh"} \cup Changes /\ task[c].at = "answered" /\ Ends(c)
  BY DEF Committed, serverVars
<1>2. /\ Calm(attempt[c], task[c], cl[c]) /\ cl[c].st # "new" /\ Awaited /\ wire \subseteq Request
      /\ attempt[c].kind # "restore"
  BY <1>1, Known DEF Calm, Changes
<1>3. task'[c].kind = "none" /\ task'[c].at = "" /\ ~task'[c].fresh /\ Others(c)
  BY <1>1, Known, EndedIs DEF Committed, Others
<1>4. t \in Token /\ tokens[t].state # "pending" /\ s \in 1..Len(tokens) /\ s # 0
  BY <1>1, RecordsOf DEF Genuine, DeviceInv, AllFit, Fits, Changes
<1>5. \/ cl'[c] = cl[c] /\ slot' = slot /\ fenced' = fenced
      \/ cl'[c] = cl[c] /\ Follows(c, s) /\ slot' = t /\ fenced' = fenced
      \/ /\ cl'[c] = [cl[c] EXCEPT !.session = t] /\ cl[c].session = s
         /\ \/ ~Owns(c) /\ slot' = slot /\ fenced' = fenced
            \/ Owns(c) /\ (slot' = t \/ fenced')
  BY Known DEF Committed, WriteSlot, deviceVars
<1>6. Awaited'
  <2>1. PICK G : wire' \subseteq wire \cup Revokes(c, t, G)
    BY DEF Committed
  <2>2. NothingAsked
    BY <2>1, RevokesAre DEF NothingAsked
  <2> QED
    BY <1>1, <1>2, <1>3, <2>2, AwaitedKeeps
<1>7. Fits(task'[c], tokens)
  BY <1>3 DEF Fits
<1> HIDE DEF t, s
<1>8. CASE cl'[c] = cl[c]
  <2>1. Calm(attempt'[c], task'[c], cl'[c])
    BY <1>1, <1>2, <1>3, <1>8 DEF Calm
  <2>2. Holds(task'[c], cl'[c]) = Holds(task[c], cl[c])
    BY <1>1, <1>3, <1>8 DEF Holds
  <2>3. /\ AllFit' /\ Origins' /\ Challenges' /\ Quiet' /\ Open' \subseteq Open /\ (owner # c => OwnersGood')
        /\ \A f : Good(f, tokens, over, Open) => Good(f, tokens', over', Open')
    BY <1>1, <1>2, <1>3, <1>7, <1>8, <2>1, <2>2, ClientStep
  <2>4. OwnersGood'
    BY <1>1, <1>3, <1>8, <2>3, OwnerStep
  <2>5. CASE slot' = slot /\ fenced' = fenced
    BY <1>1, <1>6, <2>3, <2>4, <2>5, SlotStep DEF DeviceInv
  <2>6. CASE Follows(c, s) /\ slot' = t /\ fenced' = fenced
    <3>1. SlotGood'
      <4> SUFFICES ASSUME ~fenced PROVE Good(tokens[t].family, tokens', over', Open')
        BY <1>1, <2>6 DEF SlotGood
      <4>1. owner = c /\ cl[c].persisted /\ slot = s
        BY <2>6 DEF Follows, Owns
      <4> QED
        BY <1>1, <2>3, <4>1, PairGood DEF t, s
    <3> QED
      BY <1>6, <2>3, <2>4, <3>1 DEF DeviceInv
  <2>7. CASE /\ cl'[c] = [cl[c] EXCEPT !.session = t] /\ cl[c].session = s
             /\ \/ ~Owns(c) /\ slot' = slot /\ fenced' = fenced
                \/ Owns(c) /\ (slot' = t \/ fenced')
    <3>1. SlotGood'
      <4>1. CASE slot' = slot /\ fenced' = fenced
        BY <1>1, <2>3, <4>1, SlotStep
      <4>2. CASE Owns(c) /\ (slot' = t \/ fenced')
        <5>1. Good(tokens[t].family, tokens', over', Open')
          BY <1>1, <2>3, <2>7, <4>2, PairGood DEF t, s, Owns
        <5> QED
          BY <1>1, <4>2, <5>1 DEF SlotGood
      <4> QED
        BY <2>7, <4>1, <4>2
    <3> QED
      BY <1>6, <2>3, <2>4, <3>1 DEF DeviceInv
  <2> QED
    BY <1>5, <2>5, <2>6, <2>7
<1>9. CASE /\ cl'[c] = [cl[c] EXCEPT !.session = t] /\ cl[c].session = s
           /\ \/ ~Owns(c) /\ slot' = slot /\ fenced' = fenced
              \/ Owns(c) /\ (slot' = t \/ fenced')
  <2>1. /\ cl'[c].st = cl[c].st /\ cl'[c].session = t /\ cl'[c].persisted = cl[c].persisted
        /\ cl'[c].challenge = cl[c].challenge
    BY <1>9, Known DEF ClientRecord
  <2>2. Calm(attempt'[c], task'[c], cl'[c])
    BY <1>1, <1>2, <1>3, <1>4, <1>9, <2>1 DEF Calm
  <2>3. Holds(task'[c], cl'[c]) = Holds(task[c], cl[c])
    BY <1>1, <1>3, <2>1 DEF Holds
  <2>4. /\ AllFit' /\ Origins' /\ Challenges' /\ Quiet' /\ Open' \subseteq Open /\ (owner # c => OwnersGood')
        /\ \A f : Good(f, tokens, over, Open) => Good(f, tokens', over', Open')
    <3>1. over' = over /\ cl'[c].st # "new" /\ tokens' = tokens /\ started' = started /\ owner' = owner
      BY <1>1, <1>2, <2>1
    <3> QED
      BY <1>2, <1>3, <1>7, <2>2, <2>3, <3>1, ClientStep
  <2>5. CASE ~Owns(c) /\ slot' = slot /\ fenced' = fenced
    <3>1. OwnersGood'
      BY <2>4, <2>5 DEF Owns
    <3> QED
      BY <1>1, <1>6, <2>4, <2>5, <3>1, SlotStep DEF DeviceInv
  <2>6. CASE Owns(c) /\ (slot' = t \/ fenced')
    <3>1. Good(tokens[t].family, tokens', over', Open')
      BY <1>1, <1>9, <2>4, <2>6, PairGood DEF t, s, Owns
    <3>2. Writes(cl'[c], task'[c], tokens', over', Open')
      BY <1>1, <1>3, <2>1, <3>1 DEF Writes
    <3>3. OwnersGood' /\ SlotGood'
      BY <1>1, <2>6, <3>1, <3>2 DEF OwnersGood, SlotGood, Owns
    <3> QED
      BY <1>6, <2>4, <3>3 DEF DeviceInv
  <2> QED
    BY <1>9, <2>5, <2>6
<1> QED
  BY <1>5, <1>8, <1>9

\* A restored session, or one that was signed in to, is taken.
LEMMA InstalledStores ==
  ASSUME ServerPart, LocalPart, DeviceInv, NEW c \in Clients, Apart(c), Installed(c)
  PROVE  DeviceInv'
<1> DEFINE t == task[c].answer
           s == task[c].sent
<1>1. /\ UNCHANGED <<tokens, started, owner>> /\ UNCHANGED attempt
      /\ task[c].kind \in {"restore", "login", "code"} /\ task[c].at = "answered" /\ Ends(c)
  BY DEF Installed, serverVars
<1>2. /\ Calm(attempt[c], task[c], cl[c]) /\ cl[c].st # "new" /\ Awaited /\ wire \subseteq Request
      /\ attempt[c].kind # "restore" /\ cl[c].session = 0
  BY <1>1, Known DEF Calm
<1>3. task'[c].kind = "none" /\ task'[c].at = "" /\ ~task'[c].fresh /\ Others(c)
  BY <1>1, Known, EndedIs DEF Installed, Others
<1>4. t \in Token /\ tokens[t].state # "pending" /\ t # 0
  BY <1>1, Backing, RecordsOf DEF Genuine
<1>5. \/ cl'[c] = cl[c] /\ slot' = slot /\ fenced' = fenced
      \/ /\ cl'[c] = [cl[c] EXCEPT !.session = t, !.persisted = TRUE, !.challenge = 0]
         /\ Current(c) /\ Owns(c) /\ (slot' = t \/ fenced') /\ over' = over
  BY Known DEF Installed, WriteSlot, deviceVars, Current, Left
<1>6. Awaited'
  <2>1. PICK G : wire' \subseteq wire \cup Revokes(c, t, G)
    BY DEF Installed
  <2>2. NothingAsked
    BY <2>1, RevokesAre DEF NothingAsked
  <2> QED
    BY <1>1, <1>2, <1>3, <2>2, AwaitedKeeps
<1>7. Fits(task'[c], tokens)
  BY <1>3 DEF Fits
<1> HIDE DEF t, s
<1>8. CASE cl'[c] = cl[c] /\ slot' = slot /\ fenced' = fenced
  <2>1. Calm(attempt'[c], task'[c], cl'[c])
    BY <1>1, <1>2, <1>3, <1>8 DEF Calm
  <2>2. Holds(task'[c], cl'[c]) = Holds(task[c], cl[c])
    BY <1>1, <1>3, <1>8 DEF Holds
  <2>3. CASE over' = over
    BY <1>1, <1>2, <1>3, <1>6, <1>8, <2>1, <2>2, <2>3, LessUnderWay
  <2>4. CASE over' = over \cup {t} /\ task[c].kind # "restore"
    <3>1. /\ AllFit' /\ Origins' /\ Challenges' /\ Quiet' /\ Open' \subseteq Open
      BY <1>1, <1>2, <1>3, <1>4, <1>7, <1>8, <2>1, <2>2, <2>4, ClientStep
    <3>2. Brings(c) /\ \A x \in Token : Foreign(x, c) => tokens[x].family # t
      BY <1>1, <2>4 DEF Brings, Foreign, FamilyOf, t, Token
    <3>3. ASSUME NEW f, f # t, Good(f, tokens, over, Open) PROVE Good(f, tokens', over', Open')
      <4>1. f \in Token /\ tokens[f].from # t
        BY <1>4, <3>3, Backing DEF Good, DeviceInv, Origins, Pending
      <4> QED
        BY <1>1, <2>4, <3>1, <3>3, <4>1 DEF Good
    <3>4. SlotGood'
      <4> SUFFICES ASSUME slot # 0, ~fenced PROVE Good(tokens[slot].family, tokens', over', Open')
        BY <1>1, <1>8 DEF SlotGood
      <4>1. slot \in Token /\ Good(tokens[slot].family, tokens, over, Open)
        BY DEF LocalPart, SlotPart, DeviceInv, SlotGood
      <4>2. tokens[slot].family # t
        BY <3>2, <4>1 DEF Apart
      <4> QED
        BY <3>3, <4>1, <4>2
    <3>5. OwnersGood'
      <4> SUFFICES ASSUME owner # 0 PROVE Writes(cl'[owner], task'[owner], tokens', over', Open')
        BY <1>1 DEF OwnersGood
      <4>1. owner \in Clients /\ Writes(cl[owner], task[owner], tokens, over, Open)
        BY DEF LocalPart, ProcessPart, DeviceInv, OwnersGood
      <4>2. CASE owner = c
        BY <1>2, <1>3, <1>8, <4>2 DEF Writes
      <4>3. CASE owner # c
        <5>1. cl'[owner] = cl[owner] /\ task'[owner] = task[owner] /\ tokens' = tokens
          BY <1>1, <1>3, <4>1, <4>3 DEF Others
        <5>2. cl[owner].session # 0 => Good(tokens[cl[owner].session].family, tokens', over', Open')
          <6> SUFFICES ASSUME cl[owner].session # 0 PROVE tokens[cl[owner].session].family # t
            BY <3>3, <4>1 DEF Writes
          <6>1. cl[owner].session \in Token
            BY <4>1, RecordsOf
          <6> QED
            BY <3>2, <4>1, <6>1 DEF Apart
        <5>3. ASSUME task[owner].kind = "restore", task[owner].at \in {"asking", "answered"}, task[owner].fresh
              PROVE  task[owner].sent \in 1..Len(tokens) /\ Good(tokens[task[owner].sent].family, tokens', over', Open')
          <6>1. task[owner].sent \in Token /\ Good(tokens[task[owner].sent].family, tokens, over, Open)
            BY <4>1, <5>3 DEF Writes, Token
          <6>2. tokens[task[owner].sent].family # t
            BY <3>2, <4>1, <5>3, <6>1 DEF Apart
          <6> QED
            BY <3>3, <6>1, <6>2 DEF Token
        <5>4. ASSUME task[owner].at = "answered",
                     \/ task[owner].kind \in Changes /\ cl[owner].persisted
                     \/ task[owner].kind \in {"login", "code"} /\ task[owner].fresh
              PROVE  task[owner].answer \notin over'
          <6>1. task[owner].answer \notin over
            BY <4>1, <5>4 DEF Writes
          <6>2. Brings(owner)
            BY <5>4 DEF Brings, Changes
          <6>3. task[owner].answer # t
            BY <3>2, <4>1, <4>3, <6>2 DEF Apart, t
          <6> QED
            BY <2>4, <6>1, <6>3
        <5> QED
          BY <5>1, <5>2, <5>3, <5>4 DEF Writes
      <4> QED
        BY <4>2, <4>3
    <3> QED
      BY <1>6, <3>1, <3>4, <3>5 DEF DeviceInv
  <2>5. over' = over \/ (over' = over \cup {t} /\ task[c].kind # "restore")
    BY <1>4 DEF Installed, Left, t
  <2> QED
    BY <2>3, <2>4, <2>5
<1>9. CASE /\ cl'[c] = [cl[c] EXCEPT !.session = t, !.persisted = TRUE, !.challenge = 0]
           /\ Current(c) /\ Owns(c) /\ (slot' = t \/ fenced') /\ over' = over
  <2>1. cl'[c].st = cl[c].st /\ cl'[c].session = t /\ cl'[c].persisted = TRUE /\ cl'[c].challenge = 0
    BY <1>9, Known DEF ClientRecord
  <2>2. Calm(attempt'[c], task'[c], cl'[c])
    BY <1>1, <1>2, <1>3, <1>4, <2>1 DEF Calm
  <2>3. Holds(task'[c], cl'[c]) = 0
    BY <1>3, <2>1 DEF Holds
  <2>4. /\ AllFit' /\ Origins' /\ Challenges' /\ Quiet' /\ Open' \subseteq Open
        /\ \A f : Good(f, tokens, over, Open) => Good(f, tokens', over', Open')
    <3>1. over' = over /\ cl'[c].st # "new" /\ tokens' = tokens /\ started' = started /\ owner' = owner
      BY <1>1, <1>2, <1>9, <2>1
    <3> QED
      BY <1>2, <1>3, <1>7, <2>2, <2>3, <3>1, ClientStep
  <2>5. Writes(cl[c], task[c], tokens, over, Open)
    BY <1>9, Known DEF DeviceInv, OwnersGood, Owns
  <2>6. Good(tokens[t].family, tokens', over', Open')
    <3>1. CASE task[c].kind = "restore"
      <4>1. tokens[t].family = tokens[s].family /\ Good(tokens[s].family, tokens, over, Open)
        BY <1>1, <1>9, <2>5, <3>1 DEF DeviceInv, AllFit, Fits, Writes, Current, t, s
      <4> QED
        BY <2>4, <4>1
    <3>2. CASE task[c].kind = "login"
      <4>1. tokens[t].family = t /\ tokens[t].from = 0 /\ t \notin over
        BY <1>1, <1>9, <2>5, <3>2 DEF DeviceInv, AllFit, Fits, Writes, Current, t
      <4>2. 0 \notin over \cup Open
        BY Backing
      <4>3. Good(t, tokens, over, Open)
        BY <1>4, <4>1, <4>2 DEF Good, Token
      <4> QED
        BY <2>4, <4>1, <4>3
    <3>3. CASE task[c].kind = "code"
      <4>1. tokens[t].family = t /\ tokens[t].from = s /\ t \notin over /\ cl[c].challenge = s /\ s \in 1..Len(tokens)
        BY <1>1, <1>9, <2>5, <3>3 DEF DeviceInv, AllFit, Fits, Writes, Current, t, s
      <4>2. Holds(task[c], cl[c]) = s /\ s # 0
        BY <1>1, <4>1 DEF Holds
      <4>3. s \in Open /\ s \notin over
        BY <4>2 DEF Open, DeviceInv, Challenges
      <4>4. s \notin Open'
        <5> SUFFICES ASSUME s \in Open' PROVE FALSE
          OBVIOUS
        <5>1. PICK d \in Clients : s = Holds(task'[d], cl'[d])
          BY DEF Open
        <5>2. d # c
          BY <2>3, <4>2, <5>1
        <5>3. Holds(task[d], cl[d]) = s
          BY <1>3, <5>1, <5>2 DEF Others
        <5> QED
          BY <4>2, <5>2, <5>3 DEF DeviceInv, Challenges
      <4> QED
        BY <1>1, <1>4, <1>9, <4>1, <4>3, <4>4 DEF Good, Token
    <3> QED
      BY <1>1, <3>1, <3>2, <3>3
  <2>7. Writes(cl'[c], task'[c], tokens', over', Open')
    BY <1>1, <1>3, <2>1, <2>6 DEF Writes
  <2>8. OwnersGood' /\ SlotGood'
    BY <1>1, <1>9, <2>6, <2>7 DEF OwnersGood, SlotGood, Owns
  <2> QED
    BY <1>6, <2>4, <2>8 DEF DeviceInv
<1> QED
  BY <1>5, <1>8, <1>9

\* What a task has fits tokens that were added to.
LEMMA FitsStay ==
  ASSUME NEW T \in Seq(TokenRecord), NEW U \in Seq(TokenRecord), Grows(T, U), NEW k, Fits(k, T),
         k.at = "answered" => k.answer \in 1..Len(T)
  PROVE  Fits(k, U)
<1> SUFFICES ASSUME k.at = "answered"
             PROVE  /\ k.kind # "login" => k.sent \in 1..Len(U)
                    /\ IF k.kind \in {"restore", "refresh"} THEN U[k.answer].family = U[k.sent].family
                       ELSE U[k.answer].family = k.answer /\ U[k.answer].from = IF k.kind = "code" THEN k.sent ELSE 0
  BY DEF Fits
<1>1. /\ k.kind # "login" => k.sent \in 1..Len(T)
      /\ IF k.kind \in {"restore", "refresh"} THEN T[k.answer].family = T[k.sent].family
         ELSE T[k.answer].family = k.answer /\ T[k.answer].from = IF k.kind = "code" THEN k.sent ELSE 0
  BY DEF Fits
<1>2. U[k.answer].family = T[k.answer].family /\ U[k.answer].from = T[k.answer].from
  BY DEF Grows
<1>3. k.kind # "login" => k.sent \in 1..Len(U) /\ U[k.sent].family = T[k.sent].family
  BY <1>1 DEF Grows
<1> QED
  BY <1>1, <1>2, <1>3

\* A new token is from no challenge, or from a pending token.
NewOrigins == \A t \in Token' \ Token : tokens'[t].from = 0 \/ Pending(tokens'[t].from)
DeviceStays == UNCHANGED <<over, slot, fenced, owner, started>> /\ UNCHANGED <<cl, attempt>>

\* What every step of the server leaves.
LEMMA GrownLeaves ==
  ASSUME ServerPart, LocalPart, DeviceInv, Grown, NewOrigins, DeviceStays
  PROVE  /\ Origins' /\ (\A t : Pending(t) => Pending(t)')
         /\ \A d \in Clients : task'[d] = task[d] => Fits(task'[d], tokens')
         /\ (\A p \in Open' : p \in Open \/ p = Len(tokens) + 1) => SlotGood'
<1>1. /\ tokens \in Seq(TokenRecord) /\ Len(tokens) \in Nat /\ Token = 1..Len(tokens) /\ over \subseteq Token
      /\ \A p \in Open : p \in 1..Len(tokens) /\ tokens[p].state = "pending"
      /\ \A i \in 1..Len(tokens) : tokens[i].from \in 0..Len(tokens)
  BY Backing
<1>2. Grows(tokens, tokens') /\ tokens' \in Seq(TokenRecord)
  BY GrownGrows DEF ServerPart, Grown
<1>3. \A t : Pending(t) => Pending(t)'
  BY <1>2 DEF Pending, Token, Grows
<1>4. Origins'
  <2>1. ASSUME NEW t \in Token'
        PROVE  tokens'[t].from = 0 \/ (tokens'[t].from \in Token' /\ tokens'[tokens'[t].from].state = "pending")
    <3> DEFINE o == tokens'[t].from
    <3>1. o = 0 \/ Pending(o)
      <4>1. CASE t \in Token
        BY <4>1 DEF Grown, DeviceInv, Origins
      <4>2. CASE t \notin Token
        BY <2>1, <4>2 DEF NewOrigins
      <4> QED
        BY <4>1, <4>2
    <3> HIDE DEF o
    <3>2. o = 0 \/ (o \in Token' /\ tokens'[o].state = "pending")
      BY <1>3, <3>1 DEF Pending
    <3> QED
      BY <3>2 DEF o
  <2> QED
    BY <2>1 DEF Origins, Pending
<1>5. ASSUME NEW d \in Clients, task'[d] = task[d]
      PROVE  Fits(task'[d], tokens')
  <2> DEFINE k == task[d]
  <2>1. Fits(k, tokens) /\ (k.at = "answered" => k.answer \in 1..Len(tokens))
    BY <1>1, RecordsOf DEF DeviceInv, AllFit, Genuine
  <2> HIDE DEF k
  <2>2. Fits(k, tokens')
    BY <1>1, <1>2, <2>1, FitsStay
  <2> QED
    BY <1>5, <2>2 DEF k
<1>6. ASSUME \A p \in Open' : p \in Open \/ p = Len(tokens) + 1
      PROVE  SlotGood'
  <2>1. ASSUME NEW f, Good(f, tokens, over, Open) PROVE Good(f, tokens', over', Open')
    <3>1. over' \subseteq over \cup Open
      BY DEF DeviceStays
    <3> QED
      BY <1>1, <1>2, <1>6, <2>1, <3>1, GoodStays
  <2>2. slot' = slot /\ fenced' = fenced /\ (slot # 0 => tokens'[slot].family = tokens[slot].family)
    BY <1>1 DEF DeviceStays, LocalPart, SlotPart, Grown
  <2> QED
    BY <2>1, <2>2 DEF DeviceInv, SlotGood
<1> QED
  BY <1>3, <1>4, <1>5, <1>6

\* What the owner can write stays good as the server adds a token, which may be the owner's
\* answer.
LEMMA OwnersStay ==
  ASSUME ServerPart, LocalPart, DeviceInv, Grown, DeviceStays, \A p \in Open' : p \in Open \/ p = Len(tokens) + 1,
         NEW c \in Clients, \A d \in Clients \ {c} : task'[d] = task[d],
         \/ task'[c] = task[c]
         \/ task[c].at = "asking" /\ task'[c].at # "asking" /\ task'[c].kind = task[c].kind /\ task'[c].sent = task[c].sent
            /\ task'[c].fresh = task[c].fresh /\ (task'[c].at = "answered" => task'[c].answer \notin Token)
  PROVE  OwnersGood'
<1> SUFFICES ASSUME owner # 0 PROVE Writes(cl[owner], task'[owner], tokens', over', Open')
  BY DEF OwnersGood, DeviceStays
<1>1. /\ tokens \in Seq(TokenRecord) /\ Len(tokens) \in Nat /\ Token = 1..Len(tokens) /\ over \subseteq Token
      /\ \A p \in Open : p \in 1..Len(tokens) /\ tokens[p].state = "pending"
      /\ \A i \in 1..Len(tokens) : tokens[i].from \in 0..Len(tokens)
  BY Backing
<1>2. Grows(tokens, tokens') /\ tokens' \in Seq(TokenRecord) /\ over' \subseteq over \cup Open /\ over' = over
  BY GrownGrows DEF ServerPart, Grown, DeviceStays
<1> DEFINE r == cl[owner]
           k == task[owner]
           k2 == task'[owner]
<1>3. owner \in Clients /\ Writes(r, k, tokens, over, Open)
  BY DEF LocalPart, ProcessPart, DeviceInv, OwnersGood
<1>4. /\ r.session = 0 \/ r.session \in 1..Len(tokens)
      /\ k.at = "answered" => k.answer \in 1..Len(tokens) /\ tokens[k.answer].state # "pending"
  BY <1>1, <1>3, RecordsOf DEF Genuine
<1>5. \/ k2 = k
      \/ k.at = "asking" /\ k2.at # "asking" /\ k2.kind = k.kind /\ k2.sent = k.sent /\ k2.fresh = k.fresh
         /\ (k2.at = "answered" => k2.answer \notin over')
  BY <1>1, <1>2, <1>3
<1> HIDE DEF r, k, k2
<1>6. Writes(r, k2, tokens', over', Open')
  BY <1>1, <1>2, <1>3, <1>4, <1>5, WritesStay
<1> QED
  BY <1>6 DEF r, k2

\* The server's step answers nobody.
LEMMA GrownStores ==
  ASSUME ServerPart, LocalPart, DeviceInv, Grown, NewOrigins, DeviceStays, UNCHANGED task, NothingAsked
  PROVE  DeviceInv'
<1>1. Open' = Open
  BY DEF Open, DeviceStays
<1>2. Origins' /\ SlotGood' /\ AllFit' /\ (\A t : Pending(t) => Pending(t)')
  BY <1>1, GrownLeaves DEF AllFit
<1>3. Challenges' /\ Quiet'
  BY <1>1, <1>2 DEF DeviceInv, Challenges, Quiet, DeviceStays
<1>4. OwnersGood'
  <2> SUFFICES ASSUME owner' # 0 PROVE OwnersGood'
    BY DEF OwnersGood
  <2>1. owner \in Clients
    BY DEF LocalPart, ProcessPart, DeviceStays
  <2> QED
    BY <1>1, <2>1, OwnersStay
<1>5. Awaited'
  <2> SUFFICES ASSUME NEW m \in wire' PROVE Awaited'
    BY DEF Awaited
  <2>1. CASE m \in wire
    <3>1. m.by \in Clients /\ wire \subseteq Request
      BY <2>1 DEF LocalPart, WirePart, Sound, Request
    <3> QED
      BY <1>2, <3>1, AwaitedGrows DEF DeviceInv, GoesOn
  <2>2. CASE \A n \in wire' : ~n.awaited
    BY <1>2, <2>2 DEF Awaited, NothingAsked, DeviceInv
  <2>3. CASE \E n \in wire' : n.awaited
    <3>1. PICK n \in wire' : n.awaited
      BY <2>3
    <3>2. n \in wire
      BY <3>1 DEF NothingAsked
    <3>3. n.by \in Clients /\ wire \subseteq Request
      BY <3>2 DEF LocalPart, WirePart, Sound, Request
    <3> QED
      BY <1>2, <3>3, AwaitedGrows DEF DeviceInv, GoesOn
  <2> QED
    BY <2>2, <2>3
<1> QED
  BY <1>2, <1>3, <1>4, <1>5 DEF DeviceInv

\* A pair that answers a request: of the login it refreshes, or of a new one.
OfTheAnswer(m) ==
  /\ tokens'[New].state # "pending"
  /\ IF m.ask = "refresh" THEN tokens'[New].family = FamilyOf(m.token)
     ELSE tokens'[New].family = New /\ tokens'[New].from = IF m.ask = "code" THEN m.token ELSE 0

\* The server answers a client that waits for it.
LEMMA AnsweredStores ==
  ASSUME ServerPart, LocalPart, DeviceInv, Grown, NewOrigins, NEW m \in wire, m.awaited,
         NEW at \in {"answered", "refused", "challenged", "wrong", "expired"}, NEW t, Answers(m, at, t),
         at = "answered" => t = New /\ OfTheAnswer(m),
         at = "challenged" => t = New /\ m.ask = "login" /\ New \in Token' /\ tokens'[New].state = "pending"
  PROVE  DeviceInv'
<1> DEFINE c == m.by
           k == task[c]
           k2 == task'[c]
<1>1. /\ c \in Clients /\ m.token \in {0} \cup Token /\ wire \subseteq Request
      /\ m.ask # "login" => m.token \in Token
  BY DEF LocalPart, WirePart, Sound, Request
<1>2. /\ k.at = "asking" /\ k.sent = m.token /\ AskOf(k.kind) = m.ask
      /\ \A n \in wire : n.awaited /\ n.by = c => n = m
  BY DEF DeviceInv, Awaited
<1>3. task \in [Clients -> TaskRecord] /\ k \in TaskRecord
  BY <1>1, Known
<1>4. DeviceStays /\ wire' = wire \ {m} /\ \A d \in Clients \ {c} : task'[d] = task[d]
  <2>1. DeviceStays /\ wire' = wire \ {m}
    BY DEF Answers, DeviceStays, deviceVars, processVars, historyVars
  <2>2. task' = [task EXCEPT ![c].at = at, ![c].answer = t]
    BY DEF Answers
  <2> QED
    BY <1>1, <1>3, <2>1, <2>2
<1>5. k2.at = at /\ k2.answer = t /\ k2.kind = k.kind /\ k2.sent = k.sent /\ k2.fresh = k.fresh
  <2> DEFINE q == [k EXCEPT !.at = at, !.answer = t]
  <2>1. q.at = at /\ q.answer = t /\ q.kind = k.kind /\ q.sent = k.sent /\ q.fresh = k.fresh
    BY <1>3 DEF TaskRecord
  <2>2. k2 = q
    BY <1>1, <1>3 DEF Answers
  <2> HIDE DEF q
  <2> QED
    BY <2>1, <2>2
<1>6. /\ tokens \in Seq(TokenRecord) /\ Len(tokens) \in Nat /\ Token = 1..Len(tokens) /\ over \subseteq Token
      /\ \A p \in Open : p \in 1..Len(tokens) /\ tokens[p].state = "pending"
      /\ New = Len(tokens) + 1 /\ New \notin Token
  BY Backing DEF New
<1>7. Calm(attempt[c], k, cl[c])
  BY <1>1 DEF DeviceInv, Quiet
<1> HIDE DEF c, k, k2
<1>8. Holds(k, cl[c]) = cl[c].challenge /\ Holds(k2, cl[c]) = (IF at = "challenged" THEN New ELSE cl[c].challenge)
  BY <1>2, <1>5 DEF Holds
<1>9. \A d \in Clients \ {c} : Holds(task'[d], cl'[d]) = Holds(task[d], cl[d])
  BY <1>4 DEF DeviceStays
<1>10. /\ Holds(task'[c], cl'[c]) = (IF at = "challenged" THEN New ELSE cl[c].challenge)
       /\ Holds(task[c], cl[c]) = cl[c].challenge
  BY <1>4, <1>8 DEF DeviceStays, k, k2
<1>11. \A d \in Clients : Holds(task[d], cl[d]) # 0 => Holds(task[d], cl[d]) \in Open
  BY DEF Open
<1>12. \A p \in Open' : p \in Open \/ (p = Len(tokens) + 1 /\ at = "challenged")
  BY <1>6, <1>9, <1>10 DEF Open
<1>13. Origins' /\ SlotGood' /\ (\A p : Pending(p) => Pending(p)')
       /\ \A d \in Clients : task'[d] = task[d] => Fits(task'[d], tokens')
  BY <1>4, <1>12, GrownLeaves
<1>14. OwnersGood'
  <2>1. /\ task[c].at = "asking" /\ task'[c].at # "asking" /\ task'[c].kind = task[c].kind /\ task'[c].sent = task[c].sent
        /\ task'[c].fresh = task[c].fresh /\ (task'[c].at = "answered" => task'[c].answer \notin Token)
    BY <1>2, <1>5, <1>6 DEF k, k2
  <2> QED
    BY <1>1, <1>4, <1>12, <2>1, OwnersStay DEF c
<1>15. Challenges'
  <2>1. \A p \in Open' : Pending(p)' /\ p \notin over'
    <3>1. \A p \in Open : Pending(p) /\ p \notin over
      BY DEF DeviceInv, Challenges
    <3>2. over' = over
      BY <1>4 DEF DeviceStays
    <3>3. ASSUME NEW p \in Open', p = Len(tokens) + 1, at = "challenged"
          PROVE  Pending(p)' /\ p \notin over'
      <4>1. p = New /\ p \in Token' /\ tokens'[p].state = "pending" /\ p \notin over'
        BY <1>6, <3>2, <3>3
      <4> QED
        BY <4>1 DEF Pending
    <3> QED
      BY <1>12, <1>13, <3>1, <3>2, <3>3
  <2>2. ASSUME NEW d \in Clients, NEW e \in Clients, Holds(task'[d], cl'[d]) # 0,
               Holds(task'[d], cl'[d]) = Holds(task'[e], cl'[e])
        PROVE  d = e
    <3>1. CASE at = "challenged"
      <4>1. \A b \in Clients \ {c} : Holds(task'[b], cl'[b]) # New
        BY <1>6, <1>9, <1>11
      <4>2. \A b \in Clients \ {c}, a \in Clients \ {c} : Holds(task'[b], cl'[b]) # 0 /\ Holds(task'[b], cl'[b]) = Holds(task'[a], cl'[a]) => a = b
        BY <1>9 DEF DeviceInv, Challenges
      <4> QED
        BY <1>10, <2>2, <3>1, <4>1, <4>2
    <3>2. CASE at # "challenged"
      <4>1. \A b \in Clients : Holds(task'[b], cl'[b]) = Holds(task[b], cl[b])
        BY <1>9, <1>10, <3>2
      <4> QED
        BY <2>2, <4>1 DEF DeviceInv, Challenges
    <3> QED
      BY <3>1, <3>2
  <2> QED
    BY <2>1, <2>2 DEF Challenges
<1>16. Quiet'
  <2>1. Calm(attempt[c], k2, cl[c])
    <3>1. at = "challenged" => k.kind = "login"
      BY <1>2 DEF AskOf
    <3> QED
      BY <1>2, <1>5, <1>7, <3>1 DEF Calm
  <2> QED
    BY <1>4, <2>1 DEF Quiet, DeviceInv, DeviceStays, k2
<1>17. AllFit'
  <2>1. Fits(k2, tokens')
    <3> SUFFICES ASSUME at = "answered"
                 PROVE  /\ k.kind # "login" => k.sent \in 1..Len(tokens')
                        /\ IF k.kind \in {"restore", "refresh"} THEN tokens'[New].family = tokens'[k.sent].family
                           ELSE tokens'[New].family = New /\ tokens'[New].from = IF k.kind = "code" THEN k.sent ELSE 0
      BY <1>5 DEF Fits
    <3>1. OfTheAnswer(m) /\ k.kind \in Kinds \cup {"none"}
      BY <1>3 DEF TaskRecord
    <3>2. k.kind # "login" => k.sent \in Token /\ k.sent \in 1..Len(tokens') /\ tokens'[k.sent].family = FamilyOf(k.sent)
      <4>1. Len(tokens) <= Len(tokens') /\ Len(tokens') \in Nat /\ \A i \in Token : tokens'[i].family = FamilyOf(i)
        BY DEF Grown, FamilyOf
      <4>2. k.kind # "login" => k.sent \in Token
        BY <1>1, <1>2 DEF AskOf
      <4> QED
        BY <1>6, <4>1, <4>2
    <3> QED
      BY <1>2, <3>1, <3>2 DEF OfTheAnswer, AskOf
  <2> QED
    BY <1>4, <1>13, <2>1 DEF AllFit, k2
<1>18. Awaited'
  <2>1. NothingAsked /\ Forgotten(c)
    BY <1>2, <1>4 DEF NothingAsked, Forgotten
  <2> QED
    BY <1>1, <1>4, <1>13, <2>1, AwaitedGrows DEF DeviceInv
<1> QED
  BY <1>13, <1>14, <1>15, <1>16, <1>17, <1>18 DEF DeviceInv

\* A request is run, and its client waits for the answer or not.
LEMMA RunStores ==
  ASSUME ServerPart, LocalPart, DeviceInv, Grown, NEW m \in wire,
         \/ /\ Answers(m, "answered", New) /\ Token' = Token \cup {New} /\ OfTheAnswer(m)
            /\ tokens'[New].from = IF m.ask = "code" THEN m.token ELSE 0
         \/ /\ Answers(m, "challenged", New) /\ Token' = Token \cup {New} /\ m.ask = "login"
            /\ tokens'[New].state = "pending" /\ tokens'[New].from = 0
         \/ Token' = Token /\ \E at \in {"refused", "wrong", "expired"} : Answers(m, at, 0)
  PROVE  DeviceInv'
<1>1. NewOrigins
  <2>1. m.ask = "code" => Pending(m.token)
    BY DEF DeviceInv, Awaited
  <2> QED
    BY <2>1 DEF NewOrigins
<1>2. PICK at \in {"answered", "refused", "challenged", "wrong", "expired"}, t \in {0, New} :
        /\ Answers(m, at, t)
        /\ at = "answered" => t = New /\ OfTheAnswer(m)
        /\ at = "challenged" => t = New /\ m.ask = "login" /\ New \in Token' /\ tokens'[New].state = "pending"
  OBVIOUS
<1>3. CASE m.awaited
  BY <1>1, <1>2, <1>3, AnsweredStores
<1>4. CASE ~m.awaited
  <2>1. DeviceStays /\ UNCHANGED task /\ NothingAsked
    BY <1>2, <1>4 DEF Answers, DeviceStays, deviceVars, processVars, historyVars, NothingAsked
  <2> QED
    BY <1>1, <2>1, GrownStores
<1> QED
  BY <1>3, <1>4

\* A session is looked at, and the request waits on.
LEMMA CheckSessionStores ==
  ASSUME ServerPart, LocalPart, DeviceInv, NEW m \in wire, CheckSession(m)
  PROVE  DeviceInv'
<1>1. /\ ServerTypeOK /\ tokens' = tokens /\ Grown /\ Token' = Token
  <2>1. UNCHANGED serverVars
    BY DEF CheckSession
  <2> QED
    BY <2>1, ServerStays DEF serverVars, ServerPart, Token
<1>2. CASE Answers(m, "refused", 0)
  BY <1>1, <1>2, RunStores
<1>3. CASE /\ wire' = (wire \ {m}) \cup {[m EXCEPT !.checked = TRUE]}
           /\ UNCHANGED <<budget, deviceVars, processVars, cl, marks, attempt, task, historyVars>>
  <2> DEFINE a == [m EXCEPT !.checked = TRUE]
  <2>1. wire \subseteq Request /\ m \in Request
    BY DEF LocalPart, WirePart, Sound
  <2>2. a.by = m.by /\ a.ask = m.ask /\ a.token = m.token /\ a.awaited = m.awaited
    BY <2>1 DEF Request
  <2>3. wire' = (wire \ {m}) \cup {a}
    BY <1>3
  <2> HIDE DEF a
  <2>4. DeviceStays /\ UNCHANGED task
    BY <1>3 DEF DeviceStays, deviceVars, processVars, historyVars
  <2>5. Open' = Open /\ NewOrigins
    BY <1>1, <2>4 DEF Open, DeviceStays, NewOrigins
  <2>6. Origins' /\ SlotGood' /\ AllFit' /\ (\A t : Pending(t) => Pending(t)')
    BY <1>1, <2>4, <2>5, GrownLeaves DEF AllFit
  <2>7. Challenges' /\ Quiet'
    BY <2>4, <2>5, <2>6 DEF DeviceInv, Challenges, Quiet, DeviceStays
  <2>8. OwnersGood'
    <3>1. m.by \in Clients
      BY <2>1 DEF Request
    <3> QED
      BY <1>1, <2>4, <2>5, <3>1, OwnersStay
  <2>9. Awaited'
    <3> SUFFICES ASSUME NEW n \in wire'
                 PROVE  /\ n.ask = "code" => Pending(n.token)'
                        /\ n.awaited =>
                             /\ task'[n.by].at = "asking" /\ task'[n.by].sent = n.token
                             /\ AskOf(task'[n.by].kind) = n.ask
                             /\ \A q \in wire' : q.awaited /\ q.by = n.by => q = n
      BY DEF Awaited
    <3>1. PICK o \in wire : /\ o.by = n.by /\ o.ask = n.ask /\ o.token = n.token /\ o.awaited = n.awaited
                            /\ ((n = o /\ o # m) \/ (n = a /\ o = m))
      <4>1. CASE n = a
        <5> WITNESS m \in wire
        <5> QED
          BY <2>2, <4>1
      <4>2. CASE n # a
        <5>1. n \in wire /\ n # m
          BY <2>3, <4>2
        <5> QED
          BY <5>1
      <4> QED
        BY <4>1, <4>2
    <3>2. /\ o.ask = "code" => Pending(o.token)
          /\ o.awaited =>
               /\ task[o.by].at = "asking" /\ task[o.by].sent = o.token /\ AskOf(task[o.by].kind) = o.ask
               /\ \A q \in wire : q.awaited /\ q.by = o.by => q = o
      BY DEF DeviceInv, Awaited
    <3>3. ASSUME n.awaited, NEW q \in wire', q.awaited, q.by = n.by PROVE q = n
      <4>1. CASE q = a
        BY <2>2, <3>1, <3>2, <3>3, <4>1
      <4>2. CASE q # a
        BY <2>2, <2>3, <3>1, <3>2, <3>3, <4>2
      <4> QED
        BY <4>1, <4>2
    <3>4. n.ask = "code" => Pending(n.token)'
      BY <2>6, <3>1, <3>2
    <3> QED
      BY <2>4, <3>1, <3>2, <3>3, <3>4
  <2> QED
    BY <2>6, <2>7, <2>8, <2>9 DEF DeviceInv
<1> QED
  BY <1>2, <1>3 DEF CheckSession

\* Every request the server runs.
LEMMA ServeStores ==
  ASSUME ServerPart, LocalPart, DeviceInv, Serve
  PROVE  DeviceInv'
<1>1. PICK m \in wire : \/ Rotate(m) \/ EndLogin(m) \/ LogIn(m) \/ CompleteLogin(m)
                        \/ CheckSession(m) \/ ChangePassword(m) \/ Activate(m)
  BY DEF Serve
<1>2. /\ m.token \in {0} \cup Token /\ m.code \in Codes
      /\ (m.ask # "login" => m.token \in Token) /\ (m.ask \in Changes => Genuine(m.token))
  BY DEF LocalPart, WirePart, Sound, Request, Codes
<1> USE DEF Issues, OfTheAnswer
<1>3. CASE Rotate(m)
  <2>1. m.token \in Token /\ m.ask = "refresh"
    BY <1>2, <1>3 DEF Rotate
  <2> QED
    BY <1>3, <2>1, RotateKeeps, RunStores
<1>4. CASE EndLogin(m)
  BY <1>4, EndLoginKeeps, RunStores
<1>5. CASE LogIn(m)
  <2>1. m.ask = "login"
    BY <1>5 DEF LogIn
  <2> QED
    BY <1>5, <2>1, LogInKeeps, RunStores
<1>6. CASE CompleteLogin(m)
  <2>1. m.token \in Token /\ m.ask = "code"
    BY <1>2, <1>6 DEF CompleteLogin
  <2> QED
    BY <1>2, <1>6, <2>1, CompleteLoginKeeps, RunStores
<1>7. CASE CheckSession(m)
  BY <1>7, CheckSessionStores
<1>8. CASE ChangePassword(m)
  <2>1. Genuine(m.token) /\ m.ask \in Changes
    BY <1>2, <1>8 DEF ChangePassword, Changes
  <2>2. m.ask # "refresh" /\ m.ask # "code"
    BY <2>1 DEF Changes
  <2> QED
    BY <1>8, <2>1, <2>2, ChangePasswordKeeps, RunStores
<1>9. CASE Activate(m)
  <2>1. m.token \in Token /\ m.ask = "activate"
    BY <1>2, <1>9 DEF Activate
  <2> QED
    BY <1>2, <1>9, <2>1, ActivateIsKept, RunStores
<1> QED
  BY <1>1, <1>3, <1>4, <1>5, <1>6, <1>7, <1>8, <1>9

\* What happens elsewhere stores nothing.
LEMMA ElsewhereStores ==
  ASSUME ServerPart, LocalPart, DeviceInv, OtherDevice \/ Factor \/ Sockets
  PROVE  DeviceInv'
<1>1. Grown
  BY OtherDeviceKeeps, FactorKeeps, SocketsKeep
<1>2. UNCHANGED <<wire, deviceVars, processVars, clientVars, historyVars>>
  BY DEF OtherDevice, Factor, Enroll, Manage, ResetFactor, StepPasses, Restart, Sockets, RevokeSessions,
         Connect, Register
<1>3. Token' = Token
  <2>1. tokens \in Seq(TokenRecord)
    BY DEF ServerPart, ServerTypeOK
  <2>2. tokens' = tokens \/ tokens' = EndAll(tokens)
    BY DEF OtherDevice, Factor, Enroll, Manage, ResetFactor, StepPasses, Restart, Sockets, RevokeSessions,
           Connect, Register, factorVars
  <2> QED
    BY <2>1, <2>2, EndAllKeeps DEF Token
<1>4. NewOrigins /\ DeviceStays /\ UNCHANGED task /\ NothingAsked
  BY <1>2, <1>3 DEF NewOrigins, DeviceStays, deviceVars, processVars, clientVars, historyVars, NothingAsked
<1> QED
  BY <1>1, <1>4, GrownStores

\* At first nobody is signed in.
LEMMA InitStores == Init => DeviceInv
<1> SUFFICES ASSUME Init PROVE DeviceInv
  OBVIOUS
<1>1. /\ wire = {} /\ Token = {} /\ slot = 0 /\ owner = 0 /\ over = {} /\ NoTask.at = "" /\ NoTask.kind = "none"
      /\ NoAttempt.kind = "none"
  <2>1. wire = {} /\ tokens = <<>> /\ slot = 0 /\ owner = 0 /\ over = {}
    BY DEF Init
  <2>2. Token = {}
    BY <2>1 DEF Token
  <2>3. NoAttempt.kind = "none"
    BY DEF NoAttempt
  <2> QED
    BY <2>1, <2>2, <2>3, NoTaskIs
<1>2. \A c \in Clients :
        /\ task[c] = NoTask /\ attempt[c] = NoAttempt
        /\ cl[c].st = "new" /\ cl[c].session = 0 /\ cl[c].challenge = 0 /\ ~cl[c].persisted
  BY DEF Init
<1>3. Open = {} /\ \A c \in Clients : Holds(task[c], cl[c]) = 0
  BY <1>1, <1>2 DEF Open, Holds
<1> HIDE DEF Init, NoTask, NoAttempt
<1>4. Awaited /\ Origins /\ Challenges /\ OwnersGood /\ SlotGood
  BY <1>1, <1>3 DEF Awaited, Origins, Challenges, OwnersGood, SlotGood
<1>5. AllFit /\ Quiet
  BY <1>1, <1>2 DEF AllFit, Fits, Quiet, Calm
<1> QED
  BY <1>4, <1>5 DEF DeviceInv

\* A step that changes nothing.
LEMMA NothingStores ==
  ASSUME ServerPart, LocalPart, DeviceInv, UNCHANGED vars
  PROVE  DeviceInv'
<1>1. /\ tokens' = tokens /\ UNCHANGED <<wire, task, cl, attempt>>
      /\ UNCHANGED <<over, slot, fenced, owner, started>>
  BY DEF vars, serverVars, deviceVars, processVars, clientVars, historyVars
<1>2. Token' = Token /\ Grown
  BY <1>1 DEF Token, Grown, ServerPart, ServerTypeOK
<1>3. NewOrigins /\ DeviceStays /\ UNCHANGED task /\ NothingAsked
  BY <1>1, <1>2 DEF NewOrigins, DeviceStays, NothingAsked
<1> QED
  BY <1>2, <1>3, GrownStores

\* Every step of a client.
LEMMA ClientStores ==
  ASSUME ServerPart, LocalPart, DeviceInv, NEW c \in Clients, Apart(c), Client(c)
  PROVE  DeviceInv'
<1>1. CASE AskLogin(c) \/ Back(c) \/ EnterCode(c) \/ Logout(c) \/ Quit(c)
  BY <1>1, AskLoginStores, BackStores, EnterCodeStores, LogoutStores, QuitStores
<1>2. CASE BeginLogin(c) \/ Begin(c) \/ RestoreReads(c) \/ RefreshBegins(c) \/ PasswordBegins(c)
  BY <1>2, BeginLoginStores, BeginStores, RestoreReadsStores, RefreshBeginsStores, PasswordBeginsStores
<1>3. CASE Lose(c) \/ Committed(c) \/ Installed(c) \/ Refused(c)
  BY <1>3, LoseStores, CommittedStores, InstalledStores, RefusedStores
<1>4. CASE Challenged(c) \/ TurnedDown(c)
  BY <1>4, ChallengedStores
<1> QED
  BY <1>1, <1>2, <1>3, <1>4 DEF Client

LEMMA NextStores == IInv /\ DeviceInv /\ (\A c \in Clients : Apart(c)) /\ [Next]_vars => DeviceInv'
<1> SUFFICES ASSUME ServerPart, LocalPart, DeviceInv, \A c \in Clients : Apart(c), [Next]_vars PROVE DeviceInv'
  BY DEF IInv
<1>1. CASE Start \/ Crash
  BY <1>1, StartStores, CrashStores
<1>2. CASE OtherDevice \/ Factor \/ Sockets
  BY <1>2, ElsewhereStores
<1>3. CASE Serve
  BY <1>3, ServeStores
<1>4. CASE \E c \in Clients : Client(c)
  BY <1>4, ClientStores
<1>5. CASE UNCHANGED vars
  BY <1>5, NothingStores
<1> QED
  BY <1>1, <1>2, <1>3, <1>4, <1>5 DEF Next

-----------------------------------------------------------------------------
(* The login another client goes on with.  What is stored and was disturbed *)
(* by nothing (Alive) is of no login that anybody asks to end: whoever asks *)
(* for it, of a token of that login, either owned the stored copy, which is *)
(* gone then, or has it marked with the generation stored (MarkedStored),   *)
(* and is spared.  A new login's pair is nobody else's (Apart).             *)

Why == {"sign-out", "quit", "sign-in", "write"}
Follow == {"refresh"} \cup Changes
UnderWay(c) == task[c].at \in {"asking", "answered"}

\* The login that is stored, if nothing came between.
Stands(f, s, n, T, V) == s # 0 /\ ~n /\ T[s].family = f /\ \A o \in V : o[1] = f => o[2] \notin Why
Alive(f) == Stands(f, slot, fenced, tokens, overtaken)

SlotSpared == \A m \in wire : m.ask = "logout" => ~Alive(FamilyOf(m.token))

\* What its owner has, asks with, or waits for is what is stored.
OwnersSession(c) ==
  owner = c /\ cl[c].session # 0 =>
    \/ slot = cl[c].session /\ ~fenced
    \/ \E o \in overtaken : o[1] = FamilyOf(cl[c].session) /\ o[2] \in Why
OwnersChange(c) ==
  owner = c /\ task[c].kind \in Follow /\ UnderWay(c) /\ Alive(FamilyOf(task[c].sent)) =>
    slot = task[c].sent /\ cl[c].persisted /\ (cl[c].st = "up" => cl[c].session = task[c].sent)
OwnersRestore(c) ==
  owner = c /\ task[c].kind = "restore" /\ task[c].fresh /\ UnderWay(c) =>
    task[c].family = stored /\ slot = task[c].sent /\ ~fenced
MarkedStored(c) ==
  /\ cl[c].session # 0 /\ Alive(FamilyOf(cl[c].session)) => Marked(c, cl[c].session) = {stored}
  /\ task[c].kind = "refresh" /\ UnderWay(c) /\ Alive(FamilyOf(task[c].sent)) => Marked(c, task[c].sent) = {stored}
Locked(c) == task[c].kind \in Follow \cup {"restore"} /\ task[c].at \notin {"", "slot"} => slotLock = c /\ task[c].sent # 0
Signed(c) == cl[c].st # "up" => cl[c].session = 0
ClientSpared(c) ==
  OwnersSession(c) /\ OwnersChange(c) /\ OwnersRestore(c) /\ MarkedStored(c) /\ Locked(c) /\ Signed(c)

\* Nor is any marked that a task is answered.
Unmarked(d) == task[d].at = "answered" => \A m \in marks[d] : m[1] # task[d].answer

SparedInv == SlotSpared /\ \A c \in Clients : ClientSpared(c) /\ Apart(c) /\ Unmarked(c)

\* What is still stored, after a step.
After(f) == Stands(f, slot', fenced', tokens', overtaken')
Carried(f) == After(f) => Alive(f) /\ stored' = stored
CarriedFor(d) ==
  /\ cl[d].session # 0 => Carried(FamilyOf(cl[d].session))
  /\ task[d].kind \in Follow /\ UnderWay(d) => Carried(FamilyOf(task[d].sent))

\* The others have what they had.
LEMMA OthersSpared ==
  ASSUME SparedInv, NEW c \in Clients, Others(c), UNCHANGED <<tokens, owner>>, overtaken \subseteq overtaken',
         \A d \in Clients \ {c} : marks'[d] = marks[d] /\ (slotLock = d => slotLock' = d),
         owner # c => UNCHANGED <<slot, fenced, stored>>,
         \A d \in Clients \ {c} : CarriedFor(d)
  PROVE  \A d \in Clients \ {c} : ClientSpared(d)'
<1> SUFFICES ASSUME NEW d \in Clients \ {c} PROVE ClientSpared(d)'
  OBVIOUS
<1>1. ClientSpared(d) /\ CarriedFor(d)
  BY DEF SparedInv
<1>2. cl'[d] = cl[d] /\ task'[d] = task[d] /\ marks'[d] = marks[d] /\ tokens' = tokens /\ owner' = owner
  BY DEF Others
<1>3. OwnersSession(d)'
  BY <1>1, <1>2 DEF ClientSpared, OwnersSession, FamilyOf
<1>4. OwnersRestore(d)'
  BY <1>1, <1>2 DEF ClientSpared, OwnersRestore, UnderWay
<1>5. OwnersChange(d)'
  <2> SUFFICES ASSUME owner = d, task[d].kind \in Follow, UnderWay(d), After(FamilyOf(task[d].sent))
               PROVE  slot' = task[d].sent /\ cl[d].persisted /\ (cl[d].st = "up" => cl[d].session = task[d].sent)
    BY <1>2 DEF OwnersChange, UnderWay, Alive, After, FamilyOf
  <2>1. Alive(FamilyOf(task[d].sent)) /\ slot' = slot
    BY <1>1 DEF CarriedFor, Carried
  <2> QED
    BY <1>1, <2>1 DEF ClientSpared, OwnersChange
<1>6. MarkedStored(d)'
  <2>1. ASSUME cl[d].session # 0, After(FamilyOf(cl[d].session))
        PROVE  Marked(d, cl[d].session) = {stored'}
    BY <1>1, <2>1 DEF ClientSpared, MarkedStored, CarriedFor, Carried
  <2>2. ASSUME task[d].kind = "refresh", UnderWay(d), After(FamilyOf(task[d].sent))
        PROVE  Marked(d, task[d].sent) = {stored'}
    BY <1>1, <2>2 DEF ClientSpared, MarkedStored, CarriedFor, Carried, Follow
  <2> QED
    BY <1>2, <2>1, <2>2 DEF MarkedStored, UnderWay, Alive, After, FamilyOf, Marked
<1>7. Locked(d)' /\ Signed(d)'
  BY <1>1, <1>2 DEF ClientSpared, Locked, Signed
<1> QED
  BY <1>3, <1>4, <1>5, <1>6, <1>7 DEF ClientSpared

\* What a client comes to hold is not what another's answer begins.
Heard(x) == \A d \in Clients : Brings(d)' => Foreign(x, d)
NoNewAnswer(c) ==
  task'[c].at = "answered" => task[c].at = "answered" /\ task'[c].kind = task[c].kind /\ task'[c].answer = task[c].answer

LEMMA AllHeard ==
  ASSUME SparedInv, NEW c \in Clients, Others(c), NoNewAnswer(c)
  PROVE  /\ Heard(slot) /\ Heard(0) /\ (\A e \in Clients : Heard(cl[e].session))
         /\ \A e \in Clients : task[e].kind # "code" => Heard(task[e].sent)
         /\ \A m \in wire : m.ask # "code" => Heard(m.token)
<1>1. \A d \in Clients : Brings(d)' => Brings(d) /\ Apart(d)
  BY DEF SparedInv, Others, NoNewAnswer, Brings
<1>2. \A d \in Clients : Foreign(0, d)
  BY DEF Foreign
<1> QED
  BY <1>1, <1>2 DEF Heard, Apart

\* Nor is what the task was answered, when it is over.
LEMMA AnswerHeard ==
  ASSUME SparedInv, AllFit, NEW c \in Clients, Others(c), task[c].at = "answered", task'[c].at # "answered",
         task[c].sent # 0 \/ task[c].kind \notin {"restore", "refresh"}
  PROVE  Heard(task[c].answer)
<1> SUFFICES ASSUME NEW d \in Clients, Brings(d)' PROVE FamilyOf(task[c].answer) # task[d].answer
  BY DEF Heard, Foreign
<1>1. d # c /\ Brings(d) /\ Apart(d)
  BY DEF SparedInv, Others, Brings
<1>2. Fits(task[c], tokens)
  BY DEF AllFit
<1>3. CASE task[c].kind \in {"restore", "refresh"}
  BY <1>1, <1>2, <1>3 DEF Fits, FamilyOf, Apart, Foreign
<1>4. CASE task[c].kind \notin {"restore", "refresh"}
  BY <1>1, <1>2, <1>4 DEF Fits, FamilyOf, Apart, Brings
<1> QED
  BY <1>3, <1>4

LEMMA ApartStays ==
  ASSUME SparedInv, NEW c \in Clients, Others(c), UNCHANGED tokens, NoNewAnswer(c),
         Heard(slot'), Heard(cl'[c].session), task'[c].kind # "code" => Heard(task'[c].sent),
         \A m \in wire' : m.ask # "code" => Heard(m.token),
         \A d \in Clients : task'[d].at = "answered" => marks'[d] \subseteq marks[d]
  PROVE  \A d \in Clients : Apart(d)' /\ Unmarked(d)'
<1> SUFFICES ASSUME NEW d \in Clients PROVE Apart(d)' /\ Unmarked(d)'
  OBVIOUS
<1>1. Apart(d) /\ Unmarked(d) /\ \A e \in Clients : Brings(e)' => Brings(e) /\ task'[e].answer = task[e].answer
  BY DEF SparedInv, Others, NoNewAnswer, Brings
<1>2. Unmarked(d)'
  BY <1>1 DEF Unmarked, Others, NoNewAnswer
<1>3. ASSUME Brings(d)' PROVE Apart(d)'
  <2>1. \A x : Heard(x) => Foreign(x, d)
    BY <1>3 DEF Heard
  <2>2. \A x : Foreign(x, d) => (x # 0 => tokens'[x].family # task'[d].answer)
    BY <1>1, <1>3 DEF Foreign, FamilyOf
  <2>3. \A e \in Clients : Heard(cl'[e].session) /\ (task'[e].kind # "code" => Heard(task'[e].sent))
    BY AllHeard DEF Others
  <2>4. \A e \in Clients \ {d} : Brings(e)' => task'[e].answer # task'[d].answer
    BY <1>1, <1>3 DEF Apart
  <2> HIDE DEF Heard, Brings
  <2>5. /\ Foreign(slot, d)'
        /\ \A e \in Clients : Foreign(cl[e].session, d)' /\ (task'[e].kind # "code" => Foreign(task[e].sent, d)')
        /\ \A m \in wire' : m.ask # "code" => Foreign(m.token, d)'
    BY <2>1, <2>2, <2>3 DEF Foreign, FamilyOf
  <2> QED
    BY <2>4, <2>5 DEF Apart
<1>4. ~Brings(d)' => Apart(d)'
  BY DEF Apart
<1> QED
  BY <1>2, <1>3, <1>4

\* A step only takes from what is stored, or puts there what this client's answer begins.
Moves(c) == (\A f : Carried(f)) \/ (Brings(c) /\ \A f : After(f) => f = task[c].answer)

\* A request is not to end what is stored then.
Spares(m) ==
  \/ \E n \in wire : m.ask = n.ask /\ m.token = n.token
  \/ m.ask = "code"
  \/ Heard(m.token) /\ (m.ask = "logout" => ~After(FamilyOf(m.token)))

LEMMA SparedAdds ==
  ASSUME SparedInv, LocalPart, NEW c \in Clients, Others(c), UNCHANGED <<tokens, owner>>, overtaken \subseteq overtaken',
         \A d \in Clients \ {c} : marks'[d] = marks[d] /\ (slotLock = d => slotLock' = d),
         owner # c => UNCHANGED <<slot, fenced, stored>>,
         Moves(c), ClientSpared(c)', NoNewAnswer(c), Heard(slot'), Heard(cl'[c].session),
         task'[c].kind # "code" => Heard(task'[c].sent),
         \A m \in wire' : Spares(m),
         task'[c].at = "answered" => marks'[c] \subseteq marks[c]
  PROVE  SparedInv'
<1>1. ASSUME NEW x \in Token, Brings(c) => Foreign(x, c) PROVE Carried(FamilyOf(x))
  <2>1. x # 0
    BY DEF Token
  <2> QED
    BY <1>1, <2>1 DEF Moves, Foreign, Carried
<1>2. \A d \in Clients \ {c} : CarriedFor(d)
  <2> SUFFICES ASSUME NEW d \in Clients \ {c} PROVE CarriedFor(d)
    OBVIOUS
  <2>1. cl[d].session \in {0} \cup Token /\ task[d].sent \in {0} \cup Token
    BY RecordsOf
  <2>2. Apart(c) /\ Locked(d)
    BY DEF SparedInv, ClientSpared
  <2>3. ASSUME cl[d].session # 0 PROVE Carried(FamilyOf(cl[d].session))
    BY <1>1, <2>1, <2>2, <2>3 DEF Apart
  <2>4. ASSUME task[d].kind \in Follow, UnderWay(d) PROVE Carried(FamilyOf(task[d].sent))
    <3>1. task[d].sent \in Token /\ task[d].kind # "code"
      BY <2>1, <2>2, <2>4 DEF Locked, UnderWay, Follow, Changes
    <3> QED
      BY <1>1, <2>2, <3>1 DEF Apart
  <2> QED
    BY <2>3, <2>4 DEF CarriedFor
<1>3. \A d \in Clients \ {c} : ClientSpared(d)'
  BY <1>2, OthersSpared
<1>4. \A m \in wire' : m.ask # "code" => Heard(m.token)
  BY AllHeard DEF Spares
<1>5. \A d \in Clients : Apart(d)' /\ Unmarked(d)'
  <2>1. \A d \in Clients : task'[d].at = "answered" => marks'[d] \subseteq marks[d]
    OBVIOUS
  <2> QED
    BY <1>4, <2>1, ApartStays
<1>6. SlotSpared'
  <2> SUFFICES ASSUME NEW m \in wire', m.ask = "logout", After(FamilyOf(m.token)) PROVE FALSE
    BY DEF SlotSpared, Alive, After, FamilyOf
  <2>1. PICK n \in wire : n.ask = "logout" /\ n.token = m.token
    BY DEF Spares
  <2>2. n.token \in Token
    <3>1. n \in Request /\ n.token # 0
      BY <2>1 DEF LocalPart, WirePart, Sound
    <3> QED
      BY <3>1 DEF Request
  <2>3. Brings(c) => Foreign(n.token, c)
    BY <2>1 DEF SparedInv, Apart
  <2>4. Alive(FamilyOf(n.token))
    BY <1>1, <2>1, <2>2, <2>3 DEF Carried
  <2> QED
    BY <2>1, <2>4 DEF SparedInv, SlotSpared
<1> QED
  BY <1>3, <1>5, <1>6 DEF SparedInv

\* A step that only takes.
Less == slot' \in {0, slot} /\ (slot' # 0 /\ ~fenced' => ~fenced)
LEMMA LessCarries ==
  ASSUME Less, UNCHANGED <<tokens, stored>>, overtaken \subseteq overtaken'
  PROVE  (\A f : Carried(f)) /\ \A f : Alive(f) \/ ~After(f)
BY DEF Less, Carried, After, Alive, Stands

\* The client keeps what it has, or its session or its task is over.
MarkedThen(c, x) == {m[2] : m \in {m \in marks'[c] : m[1] = x}}
GoesLess(c) ==
  /\ cl'[c].session \in {0, cl[c].session}
  /\ cl'[c].session # 0 =>
       slot' = slot /\ fenced' = fenced /\ MarkedThen(c, cl[c].session) = Marked(c, cl[c].session)
  /\ UnderWay(c)' /\ task'[c].kind \in Follow \cup {"restore"} => GoesOn(c) /\ task'[c].family = task[c].family
  /\ UnderWay(c)' /\ task'[c].kind = "restore" /\ task'[c].fresh => task[c].fresh /\ slot' = slot /\ fenced' = fenced
  /\ UnderWay(c)' /\ task'[c].kind \in Follow /\ After(FamilyOf(task[c].sent)) =>
       /\ owner = c => /\ cl[c].persisted => cl'[c].persisted
                       /\ cl'[c].st = "up" => cl[c].st = "up" /\ cl'[c].session = cl[c].session
       /\ task[c].kind = "refresh" => MarkedThen(c, task[c].sent) = Marked(c, task[c].sent)

LEMMA LessSpared ==
  ASSUME SparedInv, LocalPart, NEW c \in Clients, Others(c), UNCHANGED <<tokens, owner, stored>>,
         overtaken \subseteq overtaken',
         \A d \in Clients \ {c} : marks'[d] = marks[d] /\ (slotLock = d => slotLock' = d),
         owner # c => UNCHANGED <<slot, fenced>>,
         Less, GoesLess(c), Locked(c)', Signed(c)', NoNewAnswer(c),
         task'[c].kind # "code" => Heard(task'[c].sent),
         \A m \in wire' : Spares(m),
         task'[c].at = "answered" => marks'[c] \subseteq marks[c]
  PROVE  SparedInv'
<1>1. /\ ClientSpared(c) /\ (\A f : Carried(f)) /\ tokens' = tokens /\ owner' = owner /\ stored' = stored
      /\ UnderWay(c)' = (task'[c].at \in {"asking", "answered"})
  BY LessCarries DEF SparedInv, UnderWay
<1>2. OwnersSession(c)'
  BY <1>1 DEF ClientSpared, OwnersSession, GoesLess, FamilyOf
<1>3. OwnersRestore(c)'
  BY <1>1 DEF ClientSpared, OwnersRestore, UnderWay, GoesLess, GoesOn
<1>4. OwnersChange(c)'
  <2> SUFFICES ASSUME owner = c, task'[c].kind \in Follow, UnderWay(c)', After(FamilyOf(task'[c].sent))
               PROVE  slot' = task'[c].sent /\ cl'[c].persisted /\ (cl'[c].st = "up" => cl'[c].session = task'[c].sent)
    BY <1>1 DEF OwnersChange, UnderWay, Alive, After, FamilyOf
  <2>1. GoesOn(c) /\ UnderWay(c)
    BY DEF GoesLess, GoesOn, UnderWay
  <2>2. Alive(FamilyOf(task[c].sent)) /\ slot' = slot
    BY <1>1, <2>1 DEF GoesOn, Carried, Less, After, Stands
  <2>3. slot = task[c].sent /\ cl[c].persisted /\ (cl[c].st = "up" => cl[c].session = task[c].sent)
    BY <1>1, <2>1, <2>2 DEF ClientSpared, OwnersChange, GoesOn
  <2> QED
    BY <2>1, <2>2, <2>3 DEF GoesLess, GoesOn
<1>5. MarkedStored(c)'
  <2>1. ASSUME cl'[c].session # 0, After(FamilyOf(cl'[c].session))
        PROVE  MarkedThen(c, cl'[c].session) = {stored'}
    <3>1. cl'[c].session = cl[c].session /\ Alive(FamilyOf(cl[c].session))
      BY <1>1, <2>1 DEF GoesLess, Carried
    <3> QED
      BY <1>1, <2>1, <3>1 DEF ClientSpared, MarkedStored, GoesLess
  <2>2. ASSUME task'[c].kind = "refresh", UnderWay(c)', After(FamilyOf(task'[c].sent))
        PROVE  MarkedThen(c, task'[c].sent) = {stored'}
    <3>1. GoesOn(c) /\ UnderWay(c) /\ task'[c].sent = task[c].sent /\ task[c].kind = "refresh"
      BY <2>2 DEF GoesLess, GoesOn, UnderWay, Follow
    <3>2. Alive(FamilyOf(task[c].sent))
      BY <1>1, <2>2, <3>1 DEF Carried
    <3> QED
      BY <1>1, <2>2, <3>1, <3>2 DEF ClientSpared, MarkedStored, GoesLess, Follow
  <2> QED
    BY <1>1, <2>1, <2>2 DEF MarkedStored, UnderWay, Alive, After, FamilyOf, Marked, MarkedThen
<1>6. ClientSpared(c)'
  BY <1>2, <1>3, <1>4, <1>5 DEF ClientSpared
<1>7. Heard(slot') /\ Heard(cl'[c].session)
  <2>1. slot' \in {0, slot} /\ cl'[c].session \in {0, cl[c].session}
    BY DEF GoesLess, Less
  <2> QED
    BY <2>1, AllHeard
<1> QED
  BY <1>1, <1>6, <1>7, SparedAdds DEF Moves

\* A step that leaves the client's session, or ends it as the client is dropped, and its task,
\* or ends or begins that.
Proceeds(c) ==
  \/ /\ GoesOn(c) /\ task'[c].family = task[c].family /\ task'[c].answer = task[c].answer /\ slotLock' = slotLock
     /\ task'[c].fresh => task[c].fresh
  \/ task'[c].at \in {"", "slot"} /\ Heard(task'[c].sent) /\ (slotLock' = slotLock \/ slotLock = c)
  \/ task'[c].kind = "code" /\ task'[c].at = "asking" /\ slotLock' = slotLock
SessionStays(c) ==
  /\ cl'[c].persisted = cl[c].persisted
  /\ \/ cl'[c].st = cl[c].st /\ cl'[c].session = cl[c].session
     \/ cl'[c].st = "closed" /\ cl'[c].session = 0

LEMMA ProceedsSpared ==
  ASSUME SparedInv, LocalPart, NEW c \in Clients, Others(c), UNCHANGED <<tokens, owner, stored, slot, fenced, marks>>,
         overtaken \subseteq overtaken', SessionStays(c), Proceeds(c), \A m \in wire' : Spares(m)
  PROVE  SparedInv'
<1>1. Less /\ ClientSpared(c)
  BY DEF Less, SparedInv
<1>2. GoesLess(c)
  <2>1. \A x : MarkedThen(c, x) = Marked(c, x)
    BY DEF MarkedThen, Marked
  <2> QED
    BY <2>1 DEF GoesLess, SessionStays, Proceeds, GoesOn, UnderWay, Follow, Changes
<1>3. Locked(c)' /\ Signed(c)'
  BY <1>1 DEF ClientSpared, Locked, Signed, SessionStays, Proceeds, GoesOn, Follow, Changes
<1>4. NoNewAnswer(c)
  BY DEF NoNewAnswer, Proceeds, GoesOn
<1>5. task'[c].kind # "code" => Heard(task'[c].sent)
  BY <1>4, AllHeard DEF Proceeds, GoesOn
<1>6. \A d \in Clients \ {c} : marks'[d] = marks[d] /\ (slotLock = d => slotLock' = d)
  BY DEF Proceeds
<1> QED
  BY <1>1, <1>2, <1>3, <1>4, <1>5, <1>6, LessSpared

\* Nobody asks what was not asked.
LEMMA WireSpares == UNCHANGED wire => \A m \in wire' : Spares(m)
BY DEF Spares

\* Email and password again, Back, and the client dropped.
LEMMA AskLoginSpares ==
  ASSUME SparedInv, ServerPart, LocalPart, DeviceInv, NEW c \in Clients, AskLogin(c)
  PROVE  SparedInv'
<1>1. /\ Others(c) /\ UNCHANGED <<tokens, owner, stored, slot, fenced>> /\ UNCHANGED <<marks, wire, slotLock, overtaken>>
  BY Known DEF AskLogin, Others, serverVars, processVars, deviceVars
<1>2. cl'[c].st = cl[c].st /\ cl'[c].session = cl[c].session /\ cl'[c].persisted = cl[c].persisted
  BY Known DEF AskLogin, ClientRecord
<1>3. GoesOn(c) /\ task'[c].answer = task[c].answer /\ task'[c].family = task[c].family /\ ~task'[c].fresh
  BY Known DEF AskLogin, TaskRecord, GoesOn
<1> QED
  BY <1>1, <1>2, <1>3, ProceedsSpared, WireSpares DEF SessionStays, Proceeds

LEMMA BackSpares ==
  ASSUME SparedInv, ServerPart, LocalPart, DeviceInv, NEW c \in Clients, Back(c)
  PROVE  SparedInv'
<1>1. /\ Others(c) /\ UNCHANGED <<tokens, owner, stored, slot, fenced>> /\ UNCHANGED <<marks, wire, slotLock, overtaken>>
      /\ UNCHANGED task
  BY Known DEF Back, Others, serverVars, processVars, deviceVars
<1>2. cl'[c].st = cl[c].st /\ cl'[c].session = cl[c].session /\ cl'[c].persisted = cl[c].persisted
  BY Known DEF Back, ClientRecord
<1> QED
  BY <1>1, <1>2, ProceedsSpared, WireSpares DEF SessionStays, Proceeds, GoesOn

LEMMA QuitSpares ==
  ASSUME SparedInv, ServerPart, LocalPart, DeviceInv, NEW c \in Clients, Quit(c)
  PROVE  SparedInv'
<1>1. /\ Others(c) /\ UNCHANGED <<tokens, owner, stored, slot, fenced>> /\ UNCHANGED <<marks, wire, slotLock, overtaken>>
  BY Known DEF Quit, Stale, Others, serverVars, processVars, deviceVars, historyVars
<1>2. cl'[c].st = "closed" /\ cl'[c].session = 0 /\ cl'[c].persisted = cl[c].persisted
  BY Known DEF Quit, ClientRecord
<1>3. GoesOn(c) /\ task'[c].answer = task[c].answer /\ task'[c].family = task[c].family /\ ~task'[c].fresh
  BY Known DEF Quit, Stale, TaskRecord, GoesOn
<1> QED
  BY <1>1, <1>2, <1>3, ProceedsSpared, WireSpares DEF SessionStays, Proceeds

\* A code is sent, for a pending token.
LEMMA EnterCodeSpares ==
  ASSUME SparedInv, ServerPart, LocalPart, DeviceInv, NEW c \in Clients, EnterCode(c)
  PROVE  SparedInv'
<1>1. /\ Others(c) /\ UNCHANGED <<tokens, owner, stored, slot, fenced>> /\ UNCHANGED <<marks, slotLock, overtaken>>
      /\ UNCHANGED cl
  BY Known DEF EnterCode, Others, serverVars, processVars, deviceVars, historyVars
<1>2. task'[c].kind = "code" /\ task'[c].at = "asking"
  BY Known DEF EnterCode, NoTask
<1>3. \A m \in wire' : Spares(m)
  <2>1. PICK code \in AtHand : wire' = wire \cup {[Asks(c, "code", cl[c].challenge) EXCEPT !.code = code]}
    BY DEF EnterCode
  <2> DEFINE a == [Asks(c, "code", cl[c].challenge) EXCEPT !.code = code]
  <2>2. a.ask = "code"
    BY DEF Asks
  <2> HIDE DEF a
  <2> QED
    BY <2>1, <2>2 DEF Spares, a
<1> QED
  BY <1>1, <1>2, <1>3, ProceedsSpared DEF SessionStays, Proceeds

\* A task begins, for the session there is.
LEMMA BeginSpares ==
  ASSUME SparedInv, ServerPart, LocalPart, DeviceInv, NEW c \in Clients, Begin(c)
  PROVE  SparedInv'
<1>1. /\ Others(c) /\ UNCHANGED <<tokens, owner, stored, slot, fenced>> /\ UNCHANGED <<marks, wire, slotLock, overtaken>>
      /\ UNCHANGED cl
  BY Known DEF Begin, Others, serverVars, processVars, deviceVars, historyVars
<1>2. task'[c].at = "slot" /\ task'[c].sent \in {0, cl[c].session}
  <2>1. CASE task' = [task EXCEPT ![c] = [NoTask EXCEPT !.kind = "restore", !.at = "slot", !.fresh = attempt[c].fresh]]
    BY <2>1, Known DEF NoTask
  <2>2. ASSUME NEW k,
               task' = [task EXCEPT ![c] = [NoTask EXCEPT !.kind = k, !.at = "slot", !.sent = cl[c].session]]
        PROVE  task'[c].at = "slot" /\ task'[c].sent = cl[c].session
    BY <2>2, Known DEF NoTask
  <2> QED
    BY <2>1, <2>2 DEF Begin
<1>3. NoNewAnswer(c)
  BY <1>2 DEF NoNewAnswer
<1>4. Heard(task'[c].sent)
  BY <1>1, <1>2, <1>3, AllHeard
<1> QED
  BY <1>1, <1>2, <1>4, ProceedsSpared, WireSpares DEF SessionStays, Proceeds

\* What a task that is over leaves.
LEMMA EndsHere ==
  ASSUME SparedInv, LocalPart, NEW c \in Clients, Ends(c), Others(c)
  PROVE  /\ task'[c].at = "" /\ task'[c].kind = "none" /\ task'[c].sent = 0
         /\ (slotLock' = slotLock \/ slotLock = c) /\ Heard(task'[c].sent) /\ Proceeds(c)
         /\ Locked(c)' /\ NoNewAnswer(c) /\ ~UnderWay(c)'
<1>1. task'[c].at = "" /\ task'[c].kind = "none" /\ task'[c].sent = 0
  BY DEF Ends, LocalPart, TaskPart, NoTask
<1>2. slotLock' = slotLock \/ slotLock = c
  BY DEF Ends
<1>3. NoNewAnswer(c)
  BY <1>1 DEF NoNewAnswer
<1>4. Heard(task'[c].sent)
  BY <1>1, <1>3, AllHeard
<1> QED
  BY <1>1, <1>2, <1>3, <1>4 DEF Proceeds, Locked, UnderWay

LEMMA ChallengedSpares ==
  ASSUME SparedInv, ServerPart, LocalPart, DeviceInv, NEW c \in Clients, Challenged(c) \/ TurnedDown(c)
  PROVE  SparedInv'
<1>1. /\ UNCHANGED <<tokens, owner, stored, slot, fenced>> /\ UNCHANGED <<attempt, marks, wire, overtaken>> /\ Ends(c)
  BY DEF Challenged, TurnedDown, serverVars, deviceVars, historyVars
<1>2. PICK h : cl' = cl \/ cl' = [cl EXCEPT ![c].challenge = h]
  BY DEF Challenged, TurnedDown
<1>3. Others(c)
  BY <1>1, <1>2, Known, EndedIs DEF Others
<1>4. cl'[c].st = cl[c].st /\ cl'[c].session = cl[c].session /\ cl'[c].persisted = cl[c].persisted
  <2> DEFINE r == [cl[c] EXCEPT !.challenge = h]
  <2>1. r.st = cl[c].st /\ r.session = cl[c].session /\ r.persisted = cl[c].persisted
    BY Known DEF ClientRecord
  <2>2. cl'[c] = cl[c] \/ cl'[c] = r
    BY <1>2, Known
  <2> HIDE DEF r
  <2> QED
    BY <2>1, <2>2
<1> QED
  BY <1>1, <1>3, <1>4, EndsHere, ProceedsSpared, WireSpares DEF SessionStays

\* A request that nobody waits for any more asks what it did.
LEMMA LoseSpares ==
  ASSUME SparedInv, ServerPart, LocalPart, DeviceInv, NEW c \in Clients, Lose(c)
  PROVE  SparedInv'
<1>1. /\ UNCHANGED <<tokens, owner, stored, slot, fenced>> /\ UNCHANGED <<attempt, marks, cl>> /\ Ends(c)
      /\ overtaken \subseteq overtaken'
  BY DEF Lose, serverVars, deviceVars
<1>2. Others(c)
  BY <1>1, Known, EndedIs DEF Others
<1>3. \A m \in wire' : Spares(m)
  <2> SUFFICES ASSUME NEW m \in wire' PROVE \E n \in wire : m.ask = n.ask /\ m.token = n.token
    BY DEF Spares
  <2> DEFINE M == {n \in wire : n.by = c /\ n.awaited}
             S == {[n EXCEPT !.awaited = FALSE, !.tag = lost + 1] : n \in M}
  <2>1. wire' = wire \ M \/ wire' = (wire \ M) \cup S
    BY DEF Lose
  <2>2. m \in wire \/ m \in S
    BY <2>1
  <2>3. ASSUME NEW n \in wire, m = [n EXCEPT !.awaited = FALSE, !.tag = lost + 1]
        PROVE  m.ask = n.ask /\ m.token = n.token
    <3>1. n \in Request
      BY Known
    <3> QED
      BY <2>3, <3>1 DEF Request
  <2> QED
    BY <2>2, <2>3
<1> QED
  BY <1>1, <1>2, <1>3, EndsHere, ProceedsSpared DEF SessionStays

\* What ends a login that is not stored, or not stored any more.
LEMMA RevokedSpares ==
  ASSUME LocalPart, NEW c \in Clients, NEW x, NEW G, Heard(x),
         x # 0 /\ After(FamilyOf(x)) => ~Owns(c) /\ G = {stored},
         \A m \in wire' : m \in wire \/ m \in Revokes(c, x, G) \/ (m.ask # "logout" /\ Heard(m.token))
  PROVE  \A m \in wire' : Spares(m)
<1> SUFFICES ASSUME NEW m \in wire', m \in Revokes(c, x, G) PROVE Spares(m)
  BY DEF Spares
<1>1. m = [Asks(c, "logout", x) EXCEPT !.awaited = FALSE] /\ x # 0 /\ ~(~Owns(c) /\ G = {stored})
  BY DEF Revokes, Detached
<1>2. m.token = x
  BY <1>1 DEF Asks
<1> QED
  BY <1>1, <1>2 DEF Spares

\* Signing out: what was stored is gone or fenced, or the client does not own it.  If it
\* waits for a refresh, that one's pair will be of a login that is disturbed.
LEMMA LogoutSpares ==
  ASSUME SparedInv, ServerPart, LocalPart, DeviceInv, NEW c \in Clients, Logout(c)
  PROVE  SparedInv'
<1> DEFINE t == cl[c].session
<1>1. /\ Others(c) /\ UNCHANGED <<tokens, owner, stored>> /\ UNCHANGED slotLock
      /\ cl[c].st = "up" /\ overtaken \subseteq overtaken'
      /\ wire' = wire \cup Revokes(c, t, Marked(c, t))
      /\ t # 0 /\ ~Owns(c) /\ slotLock = c => <<FamilyOf(t), "sign-out">> \in overtaken'
  BY Known DEF Logout, Stale, Others, serverVars, processVars
<1>2. cl'[c].st = "up" /\ cl'[c].session = 0
  BY Known DEF Logout, ClientRecord
<1>3. GoesOn(c) /\ task'[c].answer = task[c].answer /\ task'[c].family = task[c].family /\ ~task'[c].fresh
  <2>1. Stale(c)
    BY DEF Logout
  <2> QED
    BY <2>1, Known DEF Stale, TaskRecord, GoesOn
<1>4. /\ IF Owns(c) THEN slot' = 0 \/ fenced' ELSE slot' = slot /\ fenced' = fenced
      /\ Less
  <2>1. fenced \in BOOLEAN
    BY DEF LocalPart, SlotPart
  <2> QED
    BY <2>1 DEF Logout, Less
<1>5. marks' = [marks EXCEPT ![c] = Without(@, t)] /\ marks \in [Clients -> SUBSET (Token \X Nat)]
  BY DEF Logout, LocalPart, MarksPart
<1>6. marks'[c] = Without(marks[c], t) /\ \A d \in Clients \ {c} : marks'[d] = marks[d]
  BY <1>5
<1>7. ClientSpared(c)
  BY DEF SparedInv
<1> HIDE DEF t
<1>9. \A x : x # t => MarkedThen(c, x) = Marked(c, x)
  BY <1>6 DEF MarkedThen, Marked, Without
<1>10. Locked(c)' /\ Signed(c)' /\ NoNewAnswer(c)
  BY <1>1, <1>2, <1>3, <1>7 DEF ClientSpared, Locked, Signed, NoNewAnswer, GoesOn
<1>11. task'[c].kind # "code" => Heard(task'[c].sent)
  BY <1>1, <1>3, <1>10, AllHeard DEF GoesOn
<1>12. ASSUME After(FamilyOf(task[c].sent)), UnderWay(c)', task'[c].kind \in Follow
       PROVE  ~Owns(c) /\ task[c].sent # t
  <2>1. ~Owns(c)
    BY <1>4, <1>12 DEF After, Stands
  <2>2. slotLock = c /\ task[c].sent # 0
    BY <1>3, <1>7, <1>12 DEF ClientSpared, Locked, GoesOn, UnderWay
  <2> QED
    BY <1>1, <1>12, <2>1, <2>2 DEF After, Stands, Why
<1>13. GoesLess(c)
  <2>1. ~(UnderWay(c)' /\ task'[c].kind = "restore" /\ task'[c].fresh)
    BY <1>3
  <2>2. ASSUME UnderWay(c)', task'[c].kind \in Follow, After(FamilyOf(task[c].sent))
        PROVE  owner # c /\ MarkedThen(c, task[c].sent) = Marked(c, task[c].sent)
    BY <1>9, <1>12, <2>2 DEF Owns
  <2>3. cl'[c].session = 0
    BY <1>2
  <2> QED
    BY <1>3, <2>1, <2>2, <2>3 DEF GoesLess
<1>14. ASSUME t # 0, After(FamilyOf(t)) PROVE ~Owns(c) /\ Marked(c, t) = {stored}
  <2>1. ~Owns(c)
    BY <1>4, <1>14 DEF After, Stands
  <2>2. Alive(FamilyOf(t))
    BY <1>1, <1>4, <1>14, LessCarries
  <2> QED
    BY <1>1, <1>7, <1>14, <2>1, <2>2 DEF ClientSpared, MarkedStored, t
<1>15. \A m \in wire' : Spares(m)
  <2>1. Heard(t)
    BY <1>10, <1>1, AllHeard DEF t
  <2> QED
    BY <1>1, <1>14, <2>1, RevokedSpares
<1>16. marks'[c] \subseteq marks[c]
  BY <1>6 DEF Without
<1> QED
  BY <1>1, <1>4, <1>6, <1>10, <1>11, <1>13, <1>15, <1>16, LessSpared DEF Owns

\* The session goes first, as when signing out, and no task waits.
LEMMA BeginLoginSpares ==
  ASSUME SparedInv, ServerPart, LocalPart, DeviceInv, NEW c \in Clients, BeginLogin(c)
  PROVE  SparedInv'
<1> DEFINE t == cl[c].session
<1>1. /\ UNCHANGED <<tokens, owner, stored>> /\ UNCHANGED <<slotLock, overtaken>>
      /\ cl[c].st \in {"up", "closed"} /\ task[c].kind = "none"
  BY DEF BeginLogin, Free, serverVars, processVars
<1>2. Others(c)
  BY Known DEF BeginLogin, Others
<1>3. CASE UNCHANGED <<budget, wire, deviceVars, cl, marks, task, over>>
  <2>1. UNCHANGED <<wire, slot, fenced, marks, cl, task>>
    BY <1>3 DEF deviceVars
  <2> QED
    BY <1>1, <1>2, <2>1, ProceedsSpared, WireSpares DEF SessionStays, Proceeds, GoesOn
<1>4. CASE
        /\ IF cl[c].session # 0 THEN ClearSlot(c) ELSE UNCHANGED <<slot, fenced, budget>>
        /\ cl' = [cl EXCEPT ![c].session = 0, ![c].persisted = (cl[c].session = 0 /\ @)]
        /\ wire' = wire \cup Revokes(c, cl[c].session, Marked(c, cl[c].session)) \cup {Asks(c, "login", 0)}
        /\ marks' = [marks EXCEPT ![c] = Without(@, cl[c].session)]
        /\ over' = over \cup (IF cl[c].session # 0 /\ Owns(c) THEN {FamilyOf(cl[c].session)} ELSE {})
        /\ task' = [task EXCEPT ![c] = [NoTask EXCEPT !.kind = "login", !.at = "asking", !.fresh = TRUE]]
  <2>1. cl'[c].st = cl[c].st /\ cl'[c].session = 0
    BY <1>4, Known DEF ClientRecord
  <2>2. task'[c].kind = "login" /\ task'[c].at = "asking" /\ task'[c].sent = 0
    BY <1>4, Known DEF NoTask
  <2>3. /\ t # 0 => IF Owns(c) THEN slot' = 0 \/ fenced' ELSE slot' = slot /\ fenced' = fenced
        /\ Less /\ (owner # c => slot' = slot /\ fenced' = fenced)
    BY <1>4 DEF ClearSlot, Less, Owns
  <2>4. \A d \in Clients \ {c} : marks'[d] = marks[d]
    BY <1>4 DEF LocalPart, MarksPart
  <2>5. GoesLess(c) /\ Locked(c)' /\ NoNewAnswer(c)
    BY <2>1, <2>2 DEF GoesLess, Locked, NoNewAnswer, Follow, Changes
  <2>6. Signed(c)'
    BY <2>1 DEF Signed
  <2>7. Heard(t) /\ Heard(0)
    BY <1>2, <2>5, AllHeard
  <2>8. ASSUME t # 0, After(FamilyOf(t)) PROVE ~Owns(c) /\ Marked(c, t) = {stored}
    <3>1. ~Owns(c)
      BY <2>3, <2>8 DEF After, Stands
    <3>2. Alive(FamilyOf(t))
      BY <1>1, <2>3, <2>8, LessCarries
    <3> QED
      BY <2>8, <3>1, <3>2 DEF SparedInv, ClientSpared, MarkedStored
  <2>9. \A m \in wire' : Spares(m)
    <3> DEFINE a == Asks(c, "login", 0)
    <3>1. a.ask # "logout" /\ a.token = 0
      BY DEF Asks
    <3> HIDE DEF a
    <3>2. \A m \in wire' : m \in wire \/ m \in Revokes(c, t, Marked(c, t)) \/ m = a
      BY <1>4 DEF a
    <3> HIDE DEF t
    <3> QED
      BY <2>7, <2>8, <3>1, <3>2, RevokedSpares
  <2> QED
    BY <1>1, <1>2, <2>2, <2>3, <2>4, <2>5, <2>6, <2>7, <2>9, LessSpared
<1> QED
  BY <1>3, <1>4 DEF BeginLogin

\* The session that is refused is over, and what is stored of it.
LEMMA RefusedSpares ==
  ASSUME SparedInv, ServerPart, LocalPart, DeviceInv, NEW c \in Clients, Refused(c)
  PROVE  SparedInv'
<1>1. /\ UNCHANGED <<tokens, owner, stored>> /\ UNCHANGED <<attempt, marks, wire, overtaken>> /\ Ends(c)
  BY DEF Refused, serverVars, historyVars
<1>2. cl' = cl \/ cl' = [cl EXCEPT ![c].session = 0, ![c].persisted = FALSE]
  BY DEF Refused
<1>3. Others(c)
  BY <1>1, <1>2, Known, EndedIs DEF Others
<1>4. cl'[c].st = cl[c].st /\ (cl'[c].session = 0 \/ cl' = cl)
  <2> DEFINE r == [cl[c] EXCEPT !.session = 0, !.persisted = FALSE]
  <2>1. r.st = cl[c].st /\ r.session = 0
    BY Known DEF ClientRecord
  <2>2. cl'[c] = r \/ cl' = cl
    BY <1>2, Known
  <2> HIDE DEF r
  <2> QED
    BY <2>1, <2>2
<1>5. cl'[c].session # 0 => cl' = cl /\ slot' = slot /\ fenced' = fenced
  <2>1. task[c].kind = "restore" => cl[c].session = 0
    BY Known DEF Calm
  <2> QED
    BY <1>4, <2>1, Known DEF Refused, ClientRecord, deviceVars
<1>6. Less /\ (owner # c => slot' = slot /\ fenced' = fenced)
  BY DEF Refused, ClearSlot, Less, Owns, deviceVars
<1>7. Signed(c)'
  BY <1>4 DEF Signed, SparedInv, ClientSpared
<1>8. GoesLess(c)
  <2>1. \A x : MarkedThen(c, x) = Marked(c, x)
    BY <1>1 DEF MarkedThen, Marked
  <2> QED
    BY <1>1, <1>3, <1>5, <2>1, EndsHere DEF GoesLess
<1>9. \A d \in Clients \ {c} : marks'[d] = marks[d] /\ (slotLock = d => slotLock' = d)
  BY <1>1 DEF Ends
<1> QED
  BY <1>1, <1>3, <1>6, <1>7, <1>8, <1>9, EndsHere, WireSpares, LessSpared

\* A request for what the client has, or what is stored, is sent.
LEMMA SendsSpared ==
  ASSUME SparedInv, ServerPart, LocalPart, DeviceInv, NEW c \in Clients, Others(c),
         UNCHANGED <<tokens, owner, stored, slot, fenced>>, UNCHANGED <<cl, marks, overtaken>>,
         slotLock \in {0, c}, slotLock' = c, task'[c].at = "asking", task'[c].sent # 0,
         \/ /\ task'[c].kind = "restore" /\ owner = c
            /\ task'[c].sent = slot /\ task'[c].family = stored /\ ~fenced
         \/ task'[c].kind \in Follow /\ task'[c].sent = cl[c].session,
         NEW a, a.ask # "logout", a.token = task'[c].sent, wire' = wire \cup {a}
  PROVE  SparedInv'
<1>1. ClientSpared(c) /\ (\A f : Carried(f)) /\ NoNewAnswer(c) /\ \A f : After(f) <=> Alive(f)
  BY DEF SparedInv, Carried, NoNewAnswer, After, Alive
<1>2. Heard(task'[c].sent) /\ Heard(slot') /\ Heard(cl'[c].session)
  BY <1>1, AllHeard
<1>3. OwnersSession(c)' /\ Signed(c)' /\ Locked(c)'
  BY <1>1 DEF ClientSpared, OwnersSession, Signed, Locked, FamilyOf
<1>4. OwnersRestore(c)'
  BY DEF OwnersRestore, Follow, Changes
<1>5. OwnersChange(c)'
  <2> SUFFICES ASSUME owner = c, task'[c].kind \in Follow, Alive(FamilyOf(task'[c].sent))
               PROVE  slot = task'[c].sent /\ cl[c].persisted /\ (cl[c].st = "up" => cl[c].session = task'[c].sent)
    BY DEF OwnersChange, Alive, FamilyOf
  <2>1. task'[c].sent = cl[c].session
    BY DEF Follow, Changes
  <2>2. slot = cl[c].session
    BY <1>1, <2>1 DEF ClientSpared, OwnersSession, Alive, Stands
  <2>3. cl[c].persisted
    BY <2>1, Known DEF Calm
  <2> QED
    BY <2>1, <2>2, <2>3
<1>6. MarkedStored(c)'
  <2>1. ASSUME task'[c].kind = "refresh", Alive(FamilyOf(task'[c].sent))
        PROVE  Marked(c, task'[c].sent) = {stored}
    BY <1>1, <2>1 DEF ClientSpared, MarkedStored
  <2> QED
    BY <1>1, <2>1 DEF ClientSpared, MarkedStored, Alive, FamilyOf, Marked
<1>7. ClientSpared(c)'
  BY <1>3, <1>4, <1>5, <1>6 DEF ClientSpared
<1>8. \A m \in wire' : Spares(m)
  BY <1>2 DEF Spares
<1>9. \A d \in Clients \ {c} : marks'[d] = marks[d] /\ (slotLock = d => slotLock' = d)
  <2>1. \A d \in Clients : d # 0
    BY DEF Clients
  <2> QED
    BY <2>1
<1> QED
  BY <1>1, <1>2, <1>7, <1>8, <1>9, SparedAdds DEF Moves

\* A restore reads what is stored.
LEMMA RestoreReadsSpares ==
  ASSUME SparedInv, ServerPart, LocalPart, DeviceInv, NEW c \in Clients, RestoreReads(c)
  PROVE  SparedInv'
<1>1. /\ UNCHANGED <<tokens, owner, stored, fenced>> /\ UNCHANGED <<attempt, marks, cl, overtaken>>
      /\ task[c].kind = "restore" /\ task[c].at = "slot" /\ slotLock = 0
  BY DEF RestoreReads, serverVars, historyVars
<1>2. CASE /\ Owns(c) /\ slot # 0 /\ ~fenced
           /\ slotLock' = c /\ wire' = wire \cup {Asks(c, "refresh", slot)}
           /\ task' = [task EXCEPT ![c].at = "asking", ![c].sent = slot, ![c].family = stored]
           /\ UNCHANGED slot
  <2> DEFINE a == Asks(c, "refresh", slot)
             k == [task[c] EXCEPT !.at = "asking", !.sent = slot, !.family = stored]
  <2>1. k.kind = "restore" /\ k.at = "asking" /\ k.sent = slot /\ k.family = stored
    BY <1>1, Known DEF TaskRecord
  <2>2. task'[c] = k /\ \A d \in Clients \ {c} : task'[d] = task[d]
    BY <1>2, Known
  <2>3. a.ask # "logout" /\ a.token = slot /\ wire' = wire \cup {a}
    BY <1>2 DEF Asks
  <2> HIDE DEF a, k
  <2>4. Others(c)
    BY <1>1, <2>2 DEF Others
  <2> QED
    BY <1>1, <1>2, <2>1, <2>2, <2>3, <2>4, SendsSpared DEF Owns
<1>3. CASE Ends(c) /\ UNCHANGED wire /\ slot' = IF Owns(c) /\ fenced THEN 0 ELSE slot
  <2>1. Others(c)
    BY <1>1, <1>3, EndedIs DEF Others
  <2>2. Less /\ (owner # c => slot' = slot /\ fenced' = fenced)
    BY <1>1, <1>3 DEF Less, Owns
  <2>3. cl[c].session = 0
    BY <1>1, Known DEF Calm
  <2>4. Signed(c)' /\ GoesLess(c)
    BY <1>1, <1>3, <2>1, <2>3, EndsHere DEF GoesLess, Signed
  <2>5. \A d \in Clients \ {c} : marks'[d] = marks[d] /\ (slotLock = d => slotLock' = d)
    BY <1>1, <1>3 DEF Ends
  <2> QED
    BY <1>1, <1>3, <2>1, <2>2, <2>4, <2>5, EndsHere, WireSpares, LessSpared
<1> QED
  BY <1>2, <1>3 DEF RestoreReads

\* A refresh is sent, or the session ends of a client that another has replaced.
LEMMA RefreshBeginsSpares ==
  ASSUME SparedInv, ServerPart, LocalPart, DeviceInv, NEW c \in Clients, RefreshBegins(c)
  PROVE  SparedInv'
<1> DEFINE t == cl[c].session
<1>1. UNCHANGED <<tokens, owner, stored, slot, fenced>> /\ UNCHANGED overtaken
  BY DEF RefreshBegins, serverVars, deviceVars, historyVars
<1>2. slotLock \in {0, c} /\ task[c].kind \in Follow
  BY DEF RefreshBegins, SparedInv, ClientSpared, Locked, Follow
<1>3. CASE Ends(c) /\ UNCHANGED <<wire, cl, marks, attempt>>
  <2>1. Others(c)
    BY <1>1, <1>3, EndedIs DEF Others
  <2> QED
    BY <1>1, <1>3, <2>1, EndsHere, ProceedsSpared, WireSpares DEF SessionStays
<1>4. CASE /\ t # 0 /\ Owns(c) /\ UNCHANGED <<cl, marks, attempt>>
           /\ task' = [task EXCEPT ![c] = [NoTask EXCEPT !.kind = "refresh", !.at = "asking", !.sent = t]]
           /\ slotLock' = c /\ wire' = wire \cup {Asks(c, "refresh", t)}
  <2> DEFINE a == Asks(c, "refresh", t)
  <2>1. task'[c].kind = "refresh" /\ task'[c].at = "asking" /\ task'[c].sent = t
    BY <1>4, Known DEF NoTask
  <2>2. Others(c)
    BY <1>1, <1>4, Known DEF Others
  <2>3. a.ask # "logout" /\ a.token = t /\ wire' = wire \cup {a}
    BY <1>4 DEF Asks
  <2> HIDE DEF a
  <2> QED
    BY <1>1, <1>2, <1>4, <2>1, <2>2, <2>3, SendsSpared DEF Follow
<1>5. CASE /\ t # 0 /\ ~Owns(c) /\ Ends(c) /\ attempt' = [attempt EXCEPT ![c].fresh = FALSE]
           /\ cl' = [cl EXCEPT ![c].session = 0, ![c].persisted = FALSE]
           /\ wire' = wire \cup Revokes(c, t, Marked(c, t))
           /\ marks' = [marks EXCEPT ![c] = Without(@, t)]
  <2>1. cl'[c].session = 0 /\ \A d \in Clients \ {c} : marks'[d] = marks[d]
    BY <1>5, Known DEF ClientRecord, LocalPart, MarksPart
  <2>2. Others(c)
    BY <1>1, <1>5, Known, EndedIs DEF Others
  <2>3. Signed(c)' /\ GoesLess(c) /\ Less
    BY <1>1, <1>5, <2>1, <2>2, EndsHere DEF GoesLess, Signed, Less
  <2>4. Heard(t)
    BY <1>5, <2>2, EndsHere, AllHeard
  <2>5. ASSUME After(FamilyOf(t)) PROVE Marked(c, t) = {stored}
    BY <1>1, <1>5, <2>5 DEF SparedInv, ClientSpared, MarkedStored, After, Alive
  <2>6. \A m \in wire' : Spares(m)
    BY <1>5, <2>4, <2>5, RevokedSpares
  <2>7. \A d \in Clients \ {c} : slotLock = d => slotLock' = d
    BY <1>5 DEF Ends
  <2> QED
    BY <1>1, <1>5, <2>1, <2>2, <2>3, <2>6, <2>7, EndsHere, LessSpared
<1> QED
  BY <1>3, <1>4, <1>5 DEF RefreshBegins, RefreshOnce

\* A change of the account is sent, for the session there is.
LEMMA PasswordBeginsSpares ==
  ASSUME SparedInv, ServerPart, LocalPart, DeviceInv, NEW c \in Clients, PasswordBegins(c)
  PROVE  SparedInv'
<1> DEFINE t == cl[c].session
<1>1. /\ UNCHANGED <<tokens, owner, stored, slot, fenced>> /\ UNCHANGED <<attempt, overtaken, cl, marks>>
      /\ task[c].kind \in Changes /\ slotLock = 0
  BY DEF PasswordBegins, serverVars, deviceVars, historyVars
<1>2. CASE Ends(c) /\ UNCHANGED wire
  <2>1. Others(c)
    BY <1>1, <1>2, EndedIs DEF Others
  <2> QED
    BY <1>1, <1>2, <2>1, EndsHere, ProceedsSpared, WireSpares DEF SessionStays
<1>3. CASE /\ t # 0 /\ task' = [task EXCEPT ![c].at = "asking", ![c].sent = t] /\ slotLock' = c
           /\ \E code \in GoesWith(task[c].kind) : wire' = wire \cup {[Asks(c, task[c].kind, t) EXCEPT !.code = code]}
  <2> DEFINE k == [task[c] EXCEPT !.at = "asking", !.sent = t]
  <2>1. k.kind \in Follow /\ k.at = "asking" /\ k.sent = t
    BY <1>1, Known DEF TaskRecord, Follow
  <2>2. task'[c] = k /\ \A d \in Clients \ {c} : task'[d] = task[d]
    BY <1>3, Known
  <2> HIDE DEF k
  <2>3. Others(c)
    BY <1>1, <2>2 DEF Others
  <2>4. PICK code \in GoesWith(task[c].kind) : wire' = wire \cup {[Asks(c, task[c].kind, t) EXCEPT !.code = code]}
    BY <1>3
  <2> DEFINE a == [Asks(c, task[c].kind, t) EXCEPT !.code = code]
  <2>5. a.ask # "logout" /\ a.token = t /\ wire' = wire \cup {a}
    BY <1>1, <2>4 DEF Asks, Changes
  <2> HIDE DEF a
  <2> QED
    BY <1>1, <1>3, <2>1, <2>2, <2>3, <2>5, SendsSpared
<1> QED
  BY <1>2, <1>3 DEF PasswordBegins

\* The marks of a pair: those of what it replaces.
LEMMA MarksCarry ==
  ASSUME NEW c \in Clients, NEW s, NEW t, NEW G, \A m \in marks[c] : m[1] # t,
         marks'[c] = Without(marks[c], s) \cup {<<t, g>> : g \in G}
  PROVE  MarkedThen(c, t) = G
<1>1. \A m \in Without(marks[c], s) : m[1] # t
  BY DEF Without
<1>2. {m \in marks'[c] : m[1] = t} = {<<t, g>> : g \in G}
  BY <1>1
<1> DEFINE S == {<<t, g>> : g \in G}
<1>3. \A g \in G : <<t, g>> \in S /\ <<t, g>>[2] = g
  OBVIOUS
<1>4. \A m \in S : m[2] \in G
  OBVIOUS
<1> HIDE DEF S
<1>5. {m[2] : m \in S} = G
  <2>1. \A g \in G : g \in {m[2] : m \in S}
    BY <1>3
  <2>2. \A g \in {m[2] : m \in S} : g \in G
    BY <1>4
  <2> QED
    BY <2>1, <2>2
<1> QED
  BY <1>2, <1>5 DEF MarkedThen, S

\* A client takes a pair as its session.
LEMMA TakenSpared ==
  ASSUME NEW c \in Clients, NEW t, Ends(c), Others(c), SparedInv, LocalPart, UNCHANGED <<tokens, owner>>,
         cl'[c].session = t, cl'[c].st = "up",
         owner = c => (slot' = t /\ ~fenced') \/ <<FamilyOf(t), "write">> \in overtaken',
         After(FamilyOf(t)) => MarkedThen(c, t) = {stored'}
  PROVE  ClientSpared(c)'
<1>1. task'[c].kind = "none" /\ ~UnderWay(c)' /\ Locked(c)'
  BY EndsHere
<1>2. OwnersSession(c)'
  <2>1. \E o \in {<<FamilyOf(t), "write">>} : o[1] = FamilyOf(t) /\ o[2] \in Why
    BY DEF Why
  <2> QED
    BY <2>1 DEF OwnersSession, FamilyOf
<1>3. OwnersChange(c)' /\ OwnersRestore(c)' /\ Signed(c)'
  BY <1>1 DEF OwnersChange, OwnersRestore, Signed
<1>4. MarkedStored(c)'
  BY <1>1 DEF MarkedStored, After, Alive, FamilyOf, Marked, MarkedThen
<1> QED
  BY <1>1, <1>2, <1>3, <1>4 DEF ClientSpared

\* What is known of a pair that is answered.
LEMMA AnswerIs ==
  ASSUME SparedInv, ServerPart, LocalPart, DeviceInv, NEW c \in Clients, Others(c), Ends(c),
         task[c].at = "answered", task[c].kind # "none"
  PROVE  LET t == task[c].answer  s == task[c].sent IN
         /\ t \in Token /\ Heard(t) /\ Apart(c) /\ (\A m \in marks[c] : m[1] # t)
         /\ task[c].kind \in {"restore", "refresh"} => s \in Token /\ FamilyOf(t) = FamilyOf(s)
         /\ task[c].kind \notin {"restore", "refresh"} => Brings(c) /\ FamilyOf(t) = t
<1>1. task[c].answer \in Token /\ task[c].sent \in {0} \cup Token
  BY RecordsOf DEF Genuine
<1>2. Fits(task[c], tokens) /\ AllFit
  BY Known DEF DeviceInv
<1>3. Locked(c) /\ Apart(c) /\ Unmarked(c)
  BY DEF SparedInv, ClientSpared
<1>4. task[c].kind \in {"restore", "refresh"} => task[c].sent \in Token /\ task[c].sent # 0
  BY <1>1, <1>3 DEF Locked, Follow
<1>5. Heard(task[c].answer)
  <2>1. task'[c].at # "answered"
    BY EndsHere
  <2> QED
    BY <1>2, <1>4, <2>1, AnswerHeard
<1> QED
  BY <1>1, <1>2, <1>3, <1>4, <1>5 DEF Fits, FamilyOf, Brings, Unmarked

\* A refreshed pair, or that of a change of the account, is taken.
LEMMA CommittedSpares ==
  ASSUME SparedInv, ServerPart, LocalPart, DeviceInv, NEW c \in Clients, Committed(c)
  PROVE  SparedInv'
<1> DEFINE t == task[c].answer
           s == task[c].sent
           rotation == task[c].kind = "refresh"
           of == Marked(c, s)
           kept == Without(marks[c], s)
           carried == kept \cup (IF rotation THEN {<<t, g>> : g \in of} ELSE {})
<1>1. /\ UNCHANGED <<tokens, owner>> /\ UNCHANGED attempt
      /\ task[c].kind \in Follow /\ task[c].at = "answered" /\ Ends(c)
  BY DEF Committed, serverVars, Follow
<1>2. Others(c)
  BY <1>1, Known, EndedIs DEF Committed, Others
<1>3. /\ t \in Token /\ Heard(t) /\ Apart(c) /\ (\A m \in marks[c] : m[1] # t)
      /\ rotation => s \in Token /\ FamilyOf(t) = FamilyOf(s)
      /\ ~rotation => Brings(c) /\ FamilyOf(t) = t
  <2>1. task[c].kind # "none" /\ task[c].kind # "restore"
    BY <1>1 DEF Follow, Changes
  <2> QED
    BY <1>1, <1>2, <2>1, AnswerIs
<1>4. /\ s # 0 /\ slotLock = c /\ UnderWay(c) /\ ClientSpared(c)
  BY <1>1 DEF SparedInv, ClientSpared, Locked, UnderWay
<1>5. /\ marks \in [Clients -> SUBSET (Token \X Nat)]
      /\ \A d \in Clients \ {c} : slotLock = d => slotLock' = d
  BY <1>4 DEF LocalPart, MarksPart
<1>6. /\ task'[c].at = "" /\ task'[c].kind = "none" /\ Heard(task'[c].sent)
      /\ Locked(c)' /\ NoNewAnswer(c) /\ ~UnderWay(c)'
  BY <1>1, <1>2, EndsHere
<1>7. t # 0
  BY <1>3 DEF Token
<1> DEFINE Leaves == /\ UNCHANGED <<slot, fenced, stored>> /\ cl'[c] = cl[c]
                     /\ marks' = [marks EXCEPT ![c] = kept] /\ overtaken \subseteq overtaken'
                     /\ wire' = wire \cup Revokes(c, t, IF rotation THEN of ELSE {})
           Marks(M) == marks' = [marks EXCEPT ![c] = M]
<1>8. \/ /\ Leaves /\ cl[c].st = "closed" /\ (Follows(c, s) => <<FamilyOf(t), "quit">> \in overtaken')
      \/ Leaves /\ cl[c].st = "up" /\ cl[c].session # s
      \/ /\ cl[c].st = "closed" /\ Follows(c, s) /\ slot' = t /\ Marks(carried)
         /\ UNCHANGED <<wire, overtaken, fenced, stored>> /\ cl'[c] = cl[c]
      \/ /\ cl[c].st = "up" /\ cl[c].session = s /\ cl' = [cl EXCEPT ![c].session = t] /\ wire' = wire
         /\ \/ ~Owns(c) /\ Marks(carried) /\ UNCHANGED <<slot, fenced, stored, overtaken>>
            \/ Owns(c) /\ slot' = t /\ fenced' = FALSE /\ rotation /\ Marks(carried) /\ UNCHANGED <<stored, overtaken>>
            \/ Owns(c) /\ slot' = t /\ fenced' = FALSE /\ ~rotation /\ NewLogin(c, s, t) /\ UNCHANGED overtaken
            \/ Owns(c) /\ slot' = slot /\ fenced' = TRUE /\ Marks(kept) /\ Unwritten(t) /\ UNCHANGED stored
  BY DEF Committed, WriteSlot, deviceVars
<1> HIDE DEF t, s, of, kept, carried, rotation
\* Nothing is taken: the pair goes, if it isn't of what another goes on with.
<1>9. ASSUME Leaves, ~(cl[c].st = "up" /\ cl[c].session = s),
             cl[c].st # "up" /\ Follows(c, s) => <<FamilyOf(t), "quit">> \in overtaken'
      PROVE  SparedInv'
  <2>1. Less /\ marks'[c] = kept /\ \A d \in Clients \ {c} : marks'[d] = marks[d]
    BY <1>5, <1>9 DEF Less
  <2>2. Signed(c)' /\ (cl[c].st # "up" => cl[c].session = 0)
    BY <1>4, <1>9 DEF ClientSpared, Signed
  <2>3. GoesLess(c)
    <3>1. \A x : x # s => MarkedThen(c, x) = Marked(c, x)
      BY <2>1 DEF MarkedThen, Marked, kept, Without
    <3> QED
      BY <1>6, <1>9, <2>2, <3>1 DEF GoesLess
  <2>4. ASSUME After(FamilyOf(t)) PROVE rotation /\ ~Owns(c) /\ of = {stored}
    <3>1. Alive(FamilyOf(t)) /\ slot = slot' /\ slot # 0 /\ FamilyOf(slot) = FamilyOf(t)
      BY <1>1, <1>9, <2>1, <2>4, LessCarries DEF After, Alive, Stands, FamilyOf
    <3>2. rotation
      BY <1>3, <3>1 DEF Apart, Foreign, t
    <3>3. Alive(FamilyOf(s))
      BY <1>3, <3>1, <3>2
    <3>4. ~Owns(c)
      <4> SUFFICES ASSUME Owns(c) PROVE FALSE
        OBVIOUS
      <4>1. slot = s /\ cl[c].persisted /\ (cl[c].st = "up" => cl[c].session = s)
        BY <1>1, <1>4, <3>3 DEF ClientSpared, OwnersChange, Owns, s
      <4>2. <<FamilyOf(t), "quit">> \in overtaken'
        BY <1>9, <4>1 DEF Follows
      <4> QED
        BY <2>4, <4>2 DEF After, Stands, Why
    <3>5. of = {stored}
      BY <1>4, <3>2, <3>3 DEF ClientSpared, MarkedStored, of, s, rotation
    <3> QED
      BY <3>2, <3>4, <3>5
  <2>5. \A m \in wire' : Spares(m)
    <3>1. \A m \in wire' : m \in wire \/ m \in Revokes(c, t, IF rotation THEN of ELSE {})
      BY <1>9
    <3> QED
      BY <1>3, <2>4, <3>1, RevokedSpares
  <2> QED
    BY <1>1, <1>2, <1>5, <1>6, <1>9, <2>1, <2>2, <2>3, <2>5, LessSpared
\* What is stored becomes this pair, of the login that it was of or of the one it begins.
<1>10. ASSUME slot' = t, UNCHANGED overtaken, rotation => (slot = s /\ ~fenced /\ stored' = stored) \/ ~After(FamilyOf(t))
       PROVE  Moves(c)
  <2>1. \A f : After(f) => f = FamilyOf(t) /\ After(FamilyOf(t))
    BY <1>1, <1>10 DEF After, Stands, FamilyOf
  <2>2. CASE rotation
    <3>1. \A f : Carried(f)
      BY <1>3, <1>4, <1>10, <2>1, <2>2 DEF Carried, After, Alive, Stands, FamilyOf
    <3> QED
      BY <3>1 DEF Moves
  <2>3. CASE ~rotation
    BY <1>3, <2>1, <2>3 DEF Moves, t
  <2> QED
    BY <2>2, <2>3
\* The marks that a rotation carries over.
<1>11. ASSUME rotation, Marks(carried), cl[c].session = s, Alive(FamilyOf(s)) PROVE MarkedThen(c, t) = {stored}
  <2>1. of = {stored}
    BY <1>4, <1>11 DEF ClientSpared, MarkedStored, of
  <2>2. marks'[c] = carried
    BY <1>5, <1>11
  <2>3. marks'[c] = Without(marks[c], s) \cup {<<t, g>> : g \in of}
    BY <1>11, <2>2 DEF carried, kept
  <2>4. MarkedThen(c, t) = of
    BY <1>3, <2>3, MarksCarry
  <2> QED
    BY <2>1, <2>4
<1>12. \A m \in wire' : m \in wire => Spares(m)
  BY DEF Spares
<1>13. \A M : Marks(M) => \A d \in Clients \ {c} : marks'[d] = marks[d]
  BY <1>5
\* The client was dropped, and what is stored follows.
<1>14. ASSUME cl[c].st = "closed", Follows(c, s), slot' = t, Marks(carried),
              UNCHANGED <<wire, overtaken, fenced, stored>>, cl'[c] = cl[c]
       PROVE  SparedInv'
  <2>1. owner = c /\ slot = s
    BY <1>14 DEF Follows, Owns
  <2>2. Moves(c)
    BY <1>10, <1>14, <2>1 DEF After, Stands
  <2>3. ClientSpared(c)'
    <3>1. cl'[c].session = 0
      BY <1>4, <1>14 DEF ClientSpared, Signed
    <3> QED
      BY <1>6, <1>14, <3>1 DEF ClientSpared, OwnersSession, OwnersChange, OwnersRestore, MarkedStored, Signed, Follow
  <2>4. Heard(cl'[c].session)
    BY <1>2, <1>6, <1>14, AllHeard
  <2>5. \A m \in wire' : Spares(m)
    BY <1>12, <1>14
  <2> QED
    BY <1>1, <1>2, <1>3, <1>5, <1>6, <1>13, <1>14, <2>1, <2>2, <2>3, <2>4, <2>5, SparedAdds
<1>15. ASSUME cl[c].st = "up", cl[c].session = s, cl' = [cl EXCEPT ![c].session = t], wire' = wire
       PROVE  cl'[c].st = "up" /\ cl'[c].session = t /\ (\A m \in wire' : Spares(m)) /\ Heard(cl'[c].session)
  BY <1>3, <1>12, <1>15, Known DEF ClientRecord
\* Another client has replaced this one.
<1>16. ASSUME cl[c].st = "up", cl[c].session = s, cl' = [cl EXCEPT ![c].session = t], wire' = wire,
              ~Owns(c), Marks(carried), UNCHANGED <<slot, fenced, stored, overtaken>>
       PROVE  SparedInv'
  <2>1. Less /\ \A f : Carried(f)
    BY <1>1, <1>16, LessCarries DEF Less
  <2>2. ASSUME After(FamilyOf(t)) PROVE MarkedThen(c, t) = {stored'}
    <3>1. Alive(FamilyOf(t))
      BY <2>1, <2>2 DEF Carried
    <3>2. rotation
      BY <1>3, <3>1 DEF Apart, Foreign, Alive, Stands, FamilyOf, t
    <3> QED
      BY <1>3, <1>11, <1>16, <3>1, <3>2
  <2>3. ClientSpared(c)'
    BY <1>1, <1>2, <1>15, <1>16, <2>2, TakenSpared DEF Owns
  <2>4. Heard(slot')
    BY <1>2, <1>6, <1>16, AllHeard
  <2> QED
    BY <1>1, <1>2, <1>3, <1>5, <1>6, <1>13, <1>15, <1>16, <2>1, <2>3, <2>4, SparedAdds DEF Moves
\* It owns what is stored.
<1>17. ASSUME cl[c].st = "up", cl[c].session = s, cl' = [cl EXCEPT ![c].session = t], wire' = wire,
              Owns(c), slot' = t, fenced' = FALSE, rotation, Marks(carried), UNCHANGED <<stored, overtaken>>
       PROVE  SparedInv'
  <2>1. After(FamilyOf(t)) => slot = s /\ ~fenced
    BY <1>3, <1>4, <1>17 DEF ClientSpared, OwnersSession, Owns, After, Stands
  <2>2. Moves(c)
    BY <1>10, <1>17, <2>1
  <2>3. ASSUME After(FamilyOf(t)) PROVE MarkedThen(c, t) = {stored'}
    <3>1. Alive(FamilyOf(s))
      BY <1>1, <1>3, <1>4, <1>17, <2>1, <2>3 DEF Alive, After, Stands, FamilyOf
    <3> QED
      BY <1>11, <1>17, <3>1
  <2>4. ClientSpared(c)'
    BY <1>1, <1>2, <1>15, <1>17, <2>3, TakenSpared
  <2> QED
    BY <1>1, <1>2, <1>3, <1>5, <1>6, <1>13, <1>15, <1>17, <2>2, <2>4, SparedAdds DEF Owns
<1>18. ASSUME cl[c].st = "up", cl[c].session = s, cl' = [cl EXCEPT ![c].session = t], wire' = wire,
              Owns(c), slot' = t, fenced' = FALSE, ~rotation, NewLogin(c, s, t), UNCHANGED overtaken
       PROVE  SparedInv'
  <2>1. Moves(c)
    BY <1>10, <1>18
  <2>2. stored' = stored + 1 /\ marks'[c] = kept \cup {<<t, stored + 1>>} /\ \A d \in Clients \ {c} : marks'[d] = marks[d]
    BY <1>5, <1>18 DEF NewLogin, kept
  <2>3. MarkedThen(c, t) = {stored'}
    <3> DEFINE G == {stored + 1}
    <3>1. {<<t, stored + 1>>} = {<<t, g>> : g \in G}
      OBVIOUS
    <3>2. stored' \in G /\ G = {stored'}
      BY <2>2
    <3> HIDE DEF G
    <3>3. marks'[c] = Without(marks[c], s) \cup {<<t, g>> : g \in G}
      BY <2>2, <3>1 DEF kept
    <3>4. MarkedThen(c, t) = G
      BY <1>3, <3>3, MarksCarry
    <3> QED
      BY <3>2, <3>4
  <2>4. ClientSpared(c)'
    BY <1>1, <1>2, <1>15, <1>18, <2>3, TakenSpared
  <2> QED
    BY <1>1, <1>2, <1>3, <1>5, <1>6, <1>15, <1>18, <2>1, <2>2, <2>4, SparedAdds DEF Owns
<1>19. ASSUME cl[c].st = "up", cl[c].session = s, cl' = [cl EXCEPT ![c].session = t], wire' = wire,
              Owns(c), slot' = slot, fenced' = TRUE, Marks(kept), Unwritten(t), UNCHANGED stored
       PROVE  SparedInv'
  <2>1. /\ Less /\ overtaken \subseteq overtaken' /\ <<FamilyOf(t), "write">> \in overtaken'
        /\ ~After(FamilyOf(t)) /\ \A f : Carried(f)
    BY <1>19 DEF Less, Unwritten, After, Stands, Carried
  <2>2. ClientSpared(c)'
    BY <1>1, <1>2, <1>15, <1>19, <2>1, TakenSpared
  <2>3. Heard(slot')
    BY <1>2, <1>6, <1>19, AllHeard
  <2> QED
    BY <1>1, <1>2, <1>3, <1>5, <1>6, <1>13, <1>15, <1>19, <2>1, <2>2, <2>3, SparedAdds DEF Moves, Owns
<1> QED
  BY <1>8, <1>9, <1>14, <1>16, <1>17, <1>18, <1>19

\* A restored session, or one that was signed in to, is taken.
LEMMA InstalledSpares ==
  ASSUME SparedInv, ServerPart, LocalPart, DeviceInv, NEW c \in Clients, Installed(c)
  PROVE  SparedInv'
<1> DEFINE t == task[c].answer
           s == task[c].sent
           restored == task[c].kind = "restore"
           gone == Revokes(c, t, IF restored THEN {task[c].family} ELSE {})
           Taken == cl' = [cl EXCEPT ![c].session = t, ![c].persisted = TRUE, ![c].challenge = 0]
<1>1. /\ UNCHANGED <<tokens, owner>> /\ UNCHANGED attempt
      /\ task[c].kind \in {"restore", "login", "code"} /\ task[c].at = "answered" /\ Ends(c)
  BY DEF Installed, serverVars
<1>2. Others(c)
  BY <1>1, Known, EndedIs DEF Installed, Others
<1>3. /\ t \in Token /\ Heard(t) /\ Apart(c) /\ (\A m \in marks[c] : m[1] # t)
      /\ restored => s \in Token /\ FamilyOf(t) = FamilyOf(s)
      /\ ~restored => Brings(c) /\ FamilyOf(t) = t
  <2>1. task[c].kind # "none" /\ task[c].kind # "refresh"
    BY <1>1
  <2> QED
    BY <1>1, <1>2, <2>1, AnswerIs
<1>4. /\ ClientSpared(c) /\ UnderWay(c) /\ cl[c].session = 0
      /\ restored /\ Owns(c) /\ Current(c) => task[c].family = stored /\ slot = s /\ ~fenced
  <2>1. cl[c].session = 0
    BY <1>1, Known DEF Calm
  <2> QED
    BY <1>1, <2>1 DEF SparedInv, ClientSpared, OwnersRestore, UnderWay, Owns, Current
<1>5. /\ marks \in [Clients -> SUBSET (Token \X Nat)]
      /\ \A d \in Clients \ {c} : slotLock = d => slotLock' = d
  BY <1>1 DEF LocalPart, MarksPart, Ends
<1>6. /\ task'[c].at = "" /\ task'[c].kind = "none" /\ Heard(task'[c].sent)
      /\ Locked(c)' /\ NoNewAnswer(c) /\ ~UnderWay(c)'
  BY <1>1, <1>2, EndsHere
<1>7. \/ /\ ~Current(c) \/ ~Owns(c)
         /\ wire' = IF restored /\ Current(c) THEN wire ELSE wire \cup gone
         /\ overtaken' = IF restored /\ ~Current(c) /\ gone # {}
                         THEN overtaken \cup {<<FamilyOf(t), IF cl[c].st = "closed" THEN "quit" ELSE "sign-in">>}
                         ELSE overtaken
         /\ UNCHANGED <<slot, fenced, cl, marks, stored>>
      \/ /\ Current(c) /\ Owns(c) /\ Taken /\ wire' = wire
         /\ \/ slot' = t /\ fenced' = FALSE /\ restored /\ marks' = [marks EXCEPT ![c] = @ \cup {<<t, task[c].family>>}]
               /\ UNCHANGED <<stored, overtaken>>
            \/ slot' = t /\ fenced' = FALSE /\ ~restored /\ NewLogin(c, t, t) /\ UNCHANGED overtaken
            \/ slot' = slot /\ fenced' = TRUE /\ Unwritten(t) /\ UNCHANGED <<marks, stored>>
  BY DEF Installed, WriteSlot, deviceVars
<1> HIDE DEF t, s, restored
\* Nothing is taken.
<1>8. ASSUME wire' = (IF restored /\ Current(c) THEN wire ELSE wire \cup gone),
             overtaken' = IF restored /\ ~Current(c) /\ gone # {}
                          THEN overtaken \cup {<<FamilyOf(t), IF cl[c].st = "closed" THEN "quit" ELSE "sign-in">>}
                          ELSE overtaken,
             UNCHANGED <<slot, fenced, cl, marks, stored>>
      PROVE  SparedInv'
  <2>1. overtaken \subseteq overtaken'
    BY <1>8
  <2>2. CASE wire' = wire
    BY <1>1, <1>2, <1>8, <2>1, <2>2, EndsHere, ProceedsSpared, WireSpares DEF SessionStays
  <2>3. CASE wire' # wire
    <3>1. wire' = wire \cup gone /\ gone # {} /\ (restored => ~Current(c))
      BY <1>8, <2>3
    <3>2. ASSUME After(FamilyOf(t)) PROVE FALSE
      <4>1. CASE restored
        <5>1. PICK why \in {"quit", "sign-in"} : overtaken' = overtaken \cup {<<FamilyOf(t), why>>}
          BY <1>8, <3>1, <4>1
        <5>2. <<FamilyOf(t), why>> \in overtaken' /\ why \in Why
          BY <5>1 DEF Why
        <5> HIDE DEF Why
        <5> QED
          BY <3>2, <5>2 DEF After, Stands
      <4>2. CASE ~restored
        <5>1. slot' = slot /\ tokens' = tokens
          BY <1>1, <1>8
        <5>2. slot # 0 /\ FamilyOf(slot) = FamilyOf(t)
          BY <3>2, <5>1 DEF After, Stands, FamilyOf
        <5> QED
          BY <1>3, <4>2, <5>2 DEF Apart, Foreign, t
      <4> QED
        BY <4>1, <4>2
    <3>3. \A m \in wire' : Spares(m)
      BY <1>3, <3>1, <3>2, RevokedSpares
    <3> QED
      BY <1>1, <1>2, <1>8, <2>1, <3>3, EndsHere, ProceedsSpared DEF SessionStays
  <2> QED
    BY <2>2, <2>3
\* The pair is the session.
<1>9. ASSUME Current(c), Taken, wire' = wire
      PROVE  cl'[c].st = "up" /\ cl'[c].session = t /\ (\A m \in wire' : Spares(m)) /\ Heard(cl'[c].session)
  <2> DEFINE r == [cl[c] EXCEPT !.session = t, !.persisted = TRUE, !.challenge = 0]
  <2>1. r.st = cl[c].st /\ r.session = t
    BY Known DEF ClientRecord
  <2>2. cl'[c] = r
    BY <1>9, Known
  <2> HIDE DEF r
  <2> QED
    BY <1>3, <1>9, <2>1, <2>2, WireSpares DEF Current
<1> HIDE DEF Taken
\* What was stored goes on.
<1>10. ASSUME Current(c), Owns(c), Taken, wire' = wire, slot' = t, fenced' = FALSE, restored,
              marks' = [marks EXCEPT ![c] = @ \cup {<<t, task[c].family>>}], UNCHANGED <<stored, overtaken>>
       PROVE  SparedInv'
  <2>1. task[c].family = stored /\ slot = s /\ ~fenced
    BY <1>4, <1>10
  <2>2. \A f : Carried(f)
    <3>1. s # 0 /\ FamilyOf(t) = FamilyOf(s)
      BY <1>3, <1>10 DEF Token
    <3> QED
      BY <1>1, <1>10, <2>1, <3>1 DEF Carried, After, Alive, Stands, FamilyOf
  <2>3. MarkedThen(c, t) = {stored'}
    <3> DEFINE G == {stored}
    <3>1. {<<t, stored>>} = {<<t, g>> : g \in G} /\ Without(marks[c], t) = marks[c]
      BY <1>3 DEF Without
    <3>2. marks'[c] = marks[c] \cup {<<t, stored>>} /\ G = {stored'}
      BY <1>5, <1>10, <2>1
    <3> HIDE DEF G
    <3>3. marks'[c] = Without(marks[c], t) \cup {<<t, g>> : g \in G}
      BY <3>1, <3>2
    <3> QED
      BY <1>3, <3>2, <3>3, MarksCarry
  <2>4. ClientSpared(c)'
    BY <1>1, <1>2, <1>9, <1>10, <2>3, TakenSpared
  <2>5. \A d \in Clients \ {c} : marks'[d] = marks[d]
    BY <1>5, <1>10
  <2> QED
    BY <1>1, <1>2, <1>3, <1>5, <1>6, <1>9, <1>10, <2>2, <2>4, <2>5, SparedAdds DEF Moves, Owns
\* A new login is stored.
<1>11. ASSUME Current(c), Owns(c), Taken, wire' = wire, slot' = t, fenced' = FALSE, ~restored,
              NewLogin(c, t, t), UNCHANGED overtaken
       PROVE  SparedInv'
  <2>1. Moves(c)
    BY <1>1, <1>3, <1>11 DEF Moves, After, Stands, FamilyOf, t
  <2>2. /\ stored' = stored + 1 /\ marks'[c] = Without(marks[c], t) \cup {<<t, stored + 1>>}
        /\ \A d \in Clients \ {c} : marks'[d] = marks[d]
    BY <1>5, <1>11 DEF NewLogin
  <2>3. MarkedThen(c, t) = {stored'}
    <3> DEFINE G == {stored + 1}
    <3>1. {<<t, stored + 1>>} = {<<t, g>> : g \in G}
      OBVIOUS
    <3>2. G = {stored'}
      BY <2>2
    <3> HIDE DEF G
    <3>3. marks'[c] = Without(marks[c], t) \cup {<<t, g>> : g \in G}
      BY <2>2, <3>1
    <3> QED
      BY <1>3, <3>2, <3>3, MarksCarry
  <2>4. ClientSpared(c)'
    BY <1>1, <1>2, <1>9, <1>11, <2>3, TakenSpared
  <2> QED
    BY <1>1, <1>2, <1>3, <1>5, <1>6, <1>9, <1>11, <2>1, <2>2, <2>4, SparedAdds DEF Owns
\* Nothing is stored of it.
<1>12. ASSUME Current(c), Owns(c), Taken, wire' = wire, slot' = slot, fenced' = TRUE, Unwritten(t),
              UNCHANGED <<marks, stored>>
       PROVE  SparedInv'
  <2>1. /\ Less /\ overtaken \subseteq overtaken' /\ <<FamilyOf(t), "write">> \in overtaken'
        /\ ~After(FamilyOf(t)) /\ \A f : Carried(f)
    BY <1>12 DEF Less, Unwritten, After, Stands, Carried
  <2>2. ClientSpared(c)'
    BY <1>1, <1>2, <1>9, <1>12, <2>1, TakenSpared
  <2>3. Heard(slot')
    BY <1>2, <1>6, <1>12, AllHeard
  <2>4. \A d \in Clients \ {c} : marks'[d] = marks[d]
    BY <1>12
  <2> QED
    BY <1>1, <1>2, <1>3, <1>5, <1>6, <1>9, <1>12, <2>1, <2>2, <2>3, <2>4, SparedAdds DEF Moves, Owns
<1> QED
  BY <1>7, <1>8, <1>10, <1>11, <1>12

\* The client that starts owns what is stored, and has nothing yet.
LEMMA StartSpares ==
  ASSUME SparedInv, ServerPart, LocalPart, DeviceInv, Start
  PROVE  SparedInv'
<1> DEFINE c == started + 1
<1>1. /\ c \in Clients /\ UNCHANGED <<tokens, wire, slot, fenced, stored>> /\ UNCHANGED <<task, marks, slotLock, overtaken>>
      /\ owner' = c /\ cl' = [cl EXCEPT ![c].st = "up"]
  BY DEF Start, serverVars, deviceVars
<1>2. started \in Nat /\ c > started
  BY DEF LocalPart, ProcessPart, Clients
<1> HIDE DEF c
<1>3. cl[c].session = 0 /\ task[c].kind = "none" /\ task[c].at = ""
  BY <1>1, <1>2, Known DEF DeviceInv, Quiet, Calm
<1>4. \A d \in Clients : cl'[d].session = cl[d].session /\ (d # c => cl'[d] = cl[d])
  BY <1>1, Known DEF ClientRecord
<1>5. SlotSpared'
  BY <1>1 DEF SparedInv, SlotSpared, Alive, FamilyOf
<1>6. ASSUME NEW d \in Clients PROVE Apart(d)' /\ Unmarked(d)'
  <2>1. Apart(d) /\ Unmarked(d)
    BY DEF SparedInv
  <2> QED
    BY <1>1, <1>4, <2>1 DEF Apart, Unmarked, Brings, Foreign, FamilyOf
<1>7. ASSUME NEW d \in Clients PROVE ClientSpared(d)'
  <2>1. ClientSpared(d)
    BY DEF SparedInv
  <2>2. OwnersSession(d)' /\ OwnersChange(d)' /\ OwnersRestore(d)'
    BY <1>1, <1>3, <1>4 DEF OwnersSession, OwnersChange, OwnersRestore, Follow, Changes
  <2>3. MarkedStored(d)' /\ Locked(d)' /\ Signed(d)'
    BY <1>1, <1>3, <1>4, <2>1 DEF ClientSpared, MarkedStored, Locked, Signed, UnderWay, Alive, FamilyOf, Marked
  <2> QED
    BY <2>2, <2>3 DEF ClientSpared
<1> QED
  BY <1>5, <1>6, <1>7 DEF SparedInv

\* The process ends: nobody has anything, and what is on its way asks what it did.
LEMMA CrashSpares ==
  ASSUME SparedInv, ServerPart, LocalPart, DeviceInv, Crash
  PROVE  SparedInv'
<1>1. UNCHANGED <<tokens, slot, fenced>> /\ owner' = 0 /\ overtaken \subseteq overtaken'
  BY DEF Crash, serverVars, deviceVars
<1>2. ASSUME NEW c \in Clients
      PROVE  task'[c].kind = "none" /\ task'[c].at = "" /\ cl'[c].session = 0
  <2>1. task'[c].kind = "none" /\ task'[c].at = ""
    BY DEF Crash, NoTask
  <2> DEFINE r == [cl[c] EXCEPT !.st = "dead", !.session = 0, !.challenge = 0]
  <2>2. r.session = 0
    BY Known DEF ClientRecord
  <2>3. cl'[c] = IF cl[c].st = "new" THEN cl[c] ELSE r
    BY DEF Crash
  <2>4. cl[c].st = "new" => cl[c].session = 0
    BY DEF DeviceInv, Quiet, Calm
  <2> HIDE DEF r
  <2> QED
    BY <2>1, <2>2, <2>3, <2>4
<1>3. \A c \in Clients : ClientSpared(c)' /\ Apart(c)' /\ Unmarked(c)'
  <2> SUFFICES ASSUME NEW c \in Clients PROVE ClientSpared(c)' /\ Apart(c)' /\ Unmarked(c)'
    OBVIOUS
  <2>1. OwnersSession(c)' /\ OwnersChange(c)' /\ OwnersRestore(c)' /\ MarkedStored(c)' /\ Locked(c)' /\ Signed(c)'
    BY <1>2 DEF OwnersSession, OwnersChange, OwnersRestore, MarkedStored, Locked, Signed, Follow, Changes
  <2>2. Apart(c)' /\ Unmarked(c)'
    BY <1>2 DEF Apart, Unmarked, Brings
  <2> QED
    BY <2>1, <2>2 DEF ClientSpared
<1>4. SlotSpared'
  <2> SUFFICES ASSUME NEW m \in wire', m.ask = "logout", After(FamilyOf(m.token)) PROVE FALSE
    BY <1>1 DEF SlotSpared, Alive, After, FamilyOf
  <2>1. PICK S \in SUBSET wire : wire' = {[n EXCEPT !.awaited = FALSE] : n \in S}
    BY DEF Crash
  <2>2. PICK n \in wire : m = [n EXCEPT !.awaited = FALSE]
    BY <2>1
  <2>3. n \in Request
    BY DEF LocalPart, WirePart, Sound
  <2>4. m.ask = n.ask /\ m.token = n.token
    BY <2>2, <2>3 DEF Request
  <2>5. Alive(FamilyOf(n.token))
    BY <1>1, <2>4 DEF After, Alive, Stands
  <2> QED
    BY <2>4, <2>5 DEF SparedInv, SlotSpared
<1> QED
  BY <1>3, <1>4 DEF SparedInv

\* The server adds a token, and answers one client or none.
Told(d) ==
  /\ task[d].at = "asking" /\ task'[d].at \notin {"", "slot", "asking"}
  /\ task'[d].kind = task[d].kind /\ task'[d].sent = task[d].sent /\ task'[d].family = task[d].family
  /\ task'[d].fresh = task[d].fresh
  /\ task'[d].at = "answered" =>
       task'[d].answer = New /\ (task[d].kind \notin {"restore", "refresh"} => tokens'[New].family = New)

LEMMA GrownSpares ==
  ASSUME SparedInv, ServerPart, LocalPart, Grown,
         UNCHANGED <<slot, fenced, owner, stored, slotLock>>, UNCHANGED <<cl, marks, overtaken>>,
         \A d \in Clients : task'[d] = task[d] \/ Told(d),
         \A d, e \in Clients : Told(d) /\ Told(e) => d = e,
         \A m \in wire' : \E n \in wire : m.ask = n.ask /\ m.token = n.token
  PROVE  SparedInv'
<1>1. /\ \A x \in Token : FamilyOf(x)' = FamilyOf(x) /\ FamilyOf(x) \in Token /\ x # 0
      /\ New \notin Token
  <2>1. New \notin Token
    BY DEF ServerPart, ServerTypeOK, New, Token
  <2> QED
    BY <2>1, FamilyIs DEF Grown, FamilyOf, Token
<1>2. \A f : Alive(f)' <=> Alive(f)
  <2>1. slot \in {0} \cup Token
    BY DEF LocalPart, SlotPart
  <2> QED
    BY <1>1, <2>1 DEF Alive, Stands, FamilyOf
<1>3. \A d \in Clients : /\ cl[d].session \in {0} \cup Token /\ task[d].sent \in {0} \cup Token
                         /\ task[d].at = "answered" => task[d].answer \in Token
  BY RecordsOf DEF Genuine
<1>4. SlotSpared'
  <2> SUFFICES ASSUME NEW m \in wire', m.ask = "logout", Alive(FamilyOf(m.token)') PROVE FALSE
    BY <1>2 DEF SlotSpared, Alive
  <2>1. PICK n \in wire : n.ask = "logout" /\ n.token = m.token
    OBVIOUS
  <2>2. n.token \in Token
    <3>1. n \in Request /\ n.token # 0
      BY <2>1 DEF LocalPart, WirePart, Sound
    <3> QED
      BY <3>1 DEF Request
  <2> QED
    BY <1>1, <2>1, <2>2 DEF SparedInv, SlotSpared
<1>5. ASSUME NEW d \in Clients PROVE ClientSpared(d)'
  <2>1. /\ ClientSpared(d)
        /\ task'[d].kind = task[d].kind /\ task'[d].sent = task[d].sent /\ task'[d].family = task[d].family
        /\ task'[d].fresh = task[d].fresh
        /\ task'[d].at \notin {"", "slot"} => task[d].at \notin {"", "slot"}
        /\ UnderWay(d)' => UnderWay(d)
    BY DEF SparedInv, Told, UnderWay
  <2>2. /\ cl[d].session # 0 => FamilyOf(cl[d].session)' = FamilyOf(cl[d].session)
        /\ task[d].sent # 0 => FamilyOf(task[d].sent)' = FamilyOf(task[d].sent)
        /\ task[d].kind \in Follow /\ UnderWay(d) => task[d].sent # 0
    <3>1. \A x \in Token : FamilyOf(x)' = FamilyOf(x)
      BY <1>1
    <3> QED
      BY <1>3, <2>1, <3>1 DEF FamilyOf, ClientSpared, Locked, UnderWay
  <2>3. OwnersSession(d)'
    BY <2>1, <2>2 DEF ClientSpared, OwnersSession, FamilyOf
  <2>4. OwnersRestore(d)' /\ Locked(d)' /\ Signed(d)'
    BY <2>1 DEF ClientSpared, OwnersRestore, Locked, Signed
  <2>5. OwnersChange(d)'
    <3> SUFFICES ASSUME owner = d, task[d].kind \in Follow, UnderWay(d), Alive(FamilyOf(task[d].sent))
                 PROVE  slot = task[d].sent /\ cl[d].persisted /\ (cl[d].st = "up" => cl[d].session = task[d].sent)
      BY <1>2, <2>1, <2>2 DEF OwnersChange, FamilyOf
    <3> QED
      BY <2>1 DEF ClientSpared, OwnersChange
  <2>6. MarkedStored(d)'
    <3>1. cl[d].session # 0 /\ Alive(FamilyOf(cl[d].session)) => Marked(d, cl[d].session) = {stored}
      BY <2>1 DEF ClientSpared, MarkedStored
    <3>2. task[d].kind = "refresh" /\ UnderWay(d) /\ Alive(FamilyOf(task[d].sent)) => Marked(d, task[d].sent) = {stored}
      BY <2>1 DEF ClientSpared, MarkedStored
    <3> QED
      BY <1>2, <2>1, <2>2, <3>1, <3>2 DEF MarkedStored, FamilyOf, Marked, Follow
  <2> QED
    BY <2>3, <2>4, <2>5, <2>6 DEF ClientSpared
<1>6. ASSUME NEW d \in Clients PROVE Apart(d)' /\ Unmarked(d)'
  <2>0. \A x \in Token : tokens'[x].family = FamilyOf(x) /\ FamilyOf(x) \in Token
    BY <1>1 DEF FamilyOf
  <2>1. Apart(d) /\ Unmarked(d) /\ (Brings(d)' => (task'[d] = task[d] /\ Brings(d)) \/ Told(d))
    BY DEF SparedInv, Brings, Told
  <2>2. Unmarked(d)'
    <3>1. \A m \in marks[d] : m[1] \in Token
      BY DEF LocalPart, MarksPart
    <3> QED
      BY <1>1, <2>1, <3>1 DEF Unmarked, Told
  <2>7. ASSUME /\ slot' # 0 => tokens'[slot'].family # task'[d].answer
               /\ \A e \in Clients :
                    /\ cl'[e].session # 0 => tokens'[cl'[e].session].family # task'[d].answer
                    /\ task'[e].kind # "code" /\ task'[e].sent # 0 => tokens'[task'[e].sent].family # task'[d].answer,
               \A m \in wire' : m.ask # "code" /\ m.token # 0 => tokens'[m.token].family # task'[d].answer,
               \A e \in Clients \ {d} : Brings(e)' => task'[e].answer # task'[d].answer
        PROVE  Apart(d)'
    <3>1. Foreign(slot, d)'
      BY <2>7 DEF Foreign, FamilyOf
    <3>2. \A e \in Clients : Foreign(cl[e].session, d)' /\ (task'[e].kind # "code" => Foreign(task[e].sent, d)')
      BY <2>7 DEF Foreign, FamilyOf
    <3>3. \A m \in wire' : m.ask # "code" => (m.token # 0 => tokens'[m.token].family # task'[d].answer)
      BY <2>7
    <3> QED
      BY <2>7, <3>1, <3>2, <3>3 DEF Apart, Foreign, FamilyOf
  <2>3. ASSUME Brings(d)' PROVE Apart(d)'
    <3> DEFINE a == task'[d].answer
    <3>0. /\ slot \in {0} \cup Token
          /\ \A m \in wire' : \E n \in wire : m.ask = n.ask /\ m.token = n.token /\ n.token \in {0} \cup Token
      BY DEF LocalPart, SlotPart, WirePart, Sound, Request
    <3>1. CASE task'[d] = task[d] /\ Brings(d)
      <4>1. a \in Token /\ a = task[d].answer
        BY <1>3, <3>1 DEF Brings
      <4>2. ASSUME NEW x \in {0} \cup Token, Foreign(x, d) PROVE x # 0 => tokens'[x].family # a
        BY <2>0, <4>1, <4>2 DEF Foreign
      <4>3. \A e \in Clients \ {d} : Brings(e)' => task'[e].answer # a
        <5> SUFFICES ASSUME NEW e \in Clients \ {d}, Brings(e)' PROVE task'[e].answer # a
          OBVIOUS
        <5>1. CASE task'[e] = task[e]
          BY <2>1, <3>1, <4>1, <5>1 DEF Apart, Brings
        <5>2. CASE Told(e)
          BY <1>1, <4>1, <5>2 DEF Told, Brings
        <5> QED
          BY <5>1, <5>2
      <4>4. slot # 0 => tokens'[slot].family # a
        BY <2>1, <3>0, <3>1, <4>2 DEF Apart
      <4>5. \A e \in Clients : /\ cl[e].session # 0 => tokens'[cl[e].session].family # a
                               /\ task[e].kind # "code" /\ task[e].sent # 0 => tokens'[task[e].sent].family # a
        BY <1>3, <2>1, <3>1, <4>2 DEF Apart
      <4>6. \A m \in wire' : m.ask # "code" /\ m.token # 0 => tokens'[m.token].family # a
        BY <2>1, <3>0, <3>1, <4>2 DEF Apart
      <4> HIDE DEF a
      <4>7. \A e \in Clients : task'[e].kind = task[e].kind /\ task'[e].sent = task[e].sent
        BY DEF Told
      <4>8. /\ slot' # 0 => tokens'[slot'].family # a
            /\ \A e \in Clients : /\ cl'[e].session # 0 => tokens'[cl'[e].session].family # a
                                  /\ task'[e].kind # "code" /\ task'[e].sent # 0 => tokens'[task'[e].sent].family # a
        BY <4>4, <4>5, <4>7
      <4>a. \A e \in Clients \ {d} : Brings(e)' => task'[e].answer # task'[d].answer
        BY <4>3 DEF a
      <4>b. \A m \in wire' : m.ask # "code" /\ m.token # 0 => tokens'[m.token].family # task'[d].answer
        BY <4>6 DEF a
      <4>d. a = task'[d].answer
        BY DEF a
      <4>e. slot' # 0 => tokens'[slot'].family # task'[d].answer
        BY <4>8, <4>d
      <4>f. \A e \in Clients : cl'[e].session # 0 => tokens'[cl'[e].session].family # task'[d].answer
        BY <4>8, <4>d
      <4>g. \A e \in Clients :
              task'[e].kind # "code" /\ task'[e].sent # 0 => tokens'[task'[e].sent].family # task'[d].answer
        BY <4>8, <4>d
      <4>c. /\ slot' # 0 => tokens'[slot'].family # task'[d].answer
            /\ \A e \in Clients :
                 /\ cl'[e].session # 0 => tokens'[cl'[e].session].family # task'[d].answer
                 /\ task'[e].kind # "code" /\ task'[e].sent # 0 => tokens'[task'[e].sent].family # task'[d].answer
        BY <4>e, <4>f, <4>g
      <4> QED
        BY <2>7, <4>a, <4>b, <4>c
    <3>2. CASE Told(d)
      <4>0. a = New
        BY <2>3, <3>2 DEF Told, Brings
      <4>1. a = New /\ \A x \in Token : tokens'[x].family # a
        BY <1>1, <2>0, <4>0
      <4>2. \A e \in Clients \ {d} : Brings(e)' => task'[e].answer # a
        BY <1>1, <1>3, <3>2, <4>1 DEF Told, Brings
      <4> HIDE DEF a
      <4>3. slot # 0 => tokens'[slot].family # a
        BY <3>0, <4>1
      <4>4. \A e \in Clients : /\ cl[e].session # 0 => tokens'[cl[e].session].family # a
                               /\ task[e].sent # 0 => tokens'[task[e].sent].family # a
        BY <1>3, <4>1
      <4>5. \A m \in wire' : m.token # 0 => tokens'[m.token].family # a
        BY <3>0, <4>1
      <4>6. \A e \in Clients : task'[e].kind = task[e].kind /\ task'[e].sent = task[e].sent
        BY DEF Told
      <4>7. /\ slot' # 0 => tokens'[slot'].family # a
            /\ \A e \in Clients : /\ cl'[e].session # 0 => tokens'[cl'[e].session].family # a
                                  /\ task'[e].kind # "code" /\ task'[e].sent # 0 => tokens'[task'[e].sent].family # a
        BY <4>3, <4>4, <4>6
      <4>a. \A e \in Clients \ {d} : Brings(e)' => task'[e].answer # task'[d].answer
        BY <4>2 DEF a
      <4>b. \A m \in wire' : m.ask # "code" /\ m.token # 0 => tokens'[m.token].family # task'[d].answer
        BY <4>5 DEF a
      <4>d. a = task'[d].answer
        BY DEF a
      <4>e. slot' # 0 => tokens'[slot'].family # task'[d].answer
        BY <4>7, <4>d
      <4>f. \A e \in Clients : cl'[e].session # 0 => tokens'[cl'[e].session].family # task'[d].answer
        BY <4>7, <4>d
      <4>g. \A e \in Clients :
              task'[e].kind # "code" /\ task'[e].sent # 0 => tokens'[task'[e].sent].family # task'[d].answer
        BY <4>7, <4>d
      <4>c. /\ slot' # 0 => tokens'[slot'].family # task'[d].answer
            /\ \A e \in Clients :
                 /\ cl'[e].session # 0 => tokens'[cl'[e].session].family # task'[d].answer
                 /\ task'[e].kind # "code" /\ task'[e].sent # 0 => tokens'[task'[e].sent].family # task'[d].answer
        BY <4>e, <4>f, <4>g
      <4> QED
        BY <2>7, <4>a, <4>b, <4>c
    <3> QED
      BY <2>1, <2>3, <3>1, <3>2
  <2>4. ~Brings(d)' => Apart(d)'
    BY DEF Apart
  <2> QED
    BY <2>2, <2>3, <2>4
<1> QED
  BY <1>4, <1>5, <1>6 DEF SparedInv

\* The server runs a request; who waits for it, if anybody, is told.
LEMMA RunSpares ==
  ASSUME SparedInv, ServerPart, LocalPart, DeviceInv, Grown, NEW m \in wire,
         \/ /\ Answers(m, "answered", New) /\ Token' = Token \cup {New} /\ OfTheAnswer(m)
            /\ tokens'[New].from = IF m.ask = "code" THEN m.token ELSE 0
         \/ /\ Answers(m, "challenged", New) /\ Token' = Token \cup {New} /\ m.ask = "login"
            /\ tokens'[New].state = "pending" /\ tokens'[New].from = 0
         \/ Token' = Token /\ \E at \in {"refused", "wrong", "expired"} : Answers(m, at, 0)
  PROVE  SparedInv'
<1>1. PICK at \in {"answered", "refused", "challenged", "wrong", "expired"}, t \in {0, New} :
        Answers(m, at, t) /\ (at = "answered" => t = New /\ OfTheAnswer(m))
  OBVIOUS
<1>2. /\ UNCHANGED <<slot, fenced, owner, stored, slotLock>> /\ UNCHANGED <<cl, marks, overtaken>>
      /\ \A n \in wire' : n \in wire
  BY <1>1 DEF Answers, deviceVars, processVars, historyVars
<1>3. m.by \in Clients /\ task \in [Clients -> TaskRecord]
  BY Known DEF LocalPart, WirePart, Sound, Request
<1>4. (\A d \in Clients : d # m.by => task'[d] = task[d]) /\ (task'[m.by] = task[m.by] \/ Told(m.by))
  <2>1. CASE ~m.awaited
    BY <1>1, <2>1 DEF Answers
  <2>2. CASE m.awaited
    <3> DEFINE c == m.by
               k == task[c]
               q == [k EXCEPT !.at = at, !.answer = t]
    <3>1. k.at = "asking" /\ k.sent = m.token /\ AskOf(k.kind) = m.ask
      BY <2>2 DEF DeviceInv, Awaited
    <3>2. k \in TaskRecord /\ c \in Clients
      BY <1>3
    <3>3. q.at = at /\ q.answer = t /\ q.kind = k.kind /\ q.sent = k.sent /\ q.family = k.family /\ q.fresh = k.fresh
      BY <3>2 DEF TaskRecord
    <3>4. task'[c] = q /\ \A d \in Clients : d # c => task'[d] = task[d]
      BY <1>1, <1>3, <2>2 DEF Answers
    <3>5. m.ask # "refresh" /\ at = "answered" => tokens'[New].family = New
      BY <1>1 DEF OfTheAnswer
    <3>6. k.kind \notin {"restore", "refresh"} => m.ask # "refresh"
      BY <3>1 DEF AskOf
    <3> HIDE DEF q
    <3>7. Told(c)
      BY <1>1, <3>1, <3>3, <3>4, <3>5, <3>6 DEF Told
    <3> QED
      BY <3>4, <3>7
  <2> QED
    BY <2>1, <2>2
<1>5. \A d \in Clients : task'[d] = task[d] \/ Told(d)
  BY <1>4
<1>6. \A d, e \in Clients : Told(d) /\ Told(e) => d = e
  <2>1. \A d \in Clients : Told(d) => task'[d] # task[d]
    BY DEF Told
  <2> QED
    BY <1>4, <2>1
<1> QED
  BY <1>2, <1>5, <1>6, GrownSpares

\* What is neither a client's nor a request's.
LEMMA StaysSpared ==
  ASSUME SparedInv, ServerPart, LocalPart, Grown,
         UNCHANGED <<deviceVars, processVars, clientVars, historyVars>>,
         \A m \in wire' : \E n \in wire : m.ask = n.ask /\ m.token = n.token
  PROVE  SparedInv'
<1>1. UNCHANGED <<slot, fenced, owner, stored, slotLock>> /\ UNCHANGED <<cl, marks, overtaken>> /\ task' = task
  BY DEF deviceVars, processVars, clientVars, historyVars
<1>2. \A d \in Clients : ~Told(d)
  BY <1>1 DEF Told
<1> QED
  BY <1>1, <1>2, GrownSpares

LEMMA ServeSpares ==
  ASSUME SparedInv, ServerPart, LocalPart, DeviceInv, Serve
  PROVE  SparedInv'
<1>1. PICK m \in wire : \/ Rotate(m) \/ EndLogin(m) \/ LogIn(m) \/ CompleteLogin(m)
                        \/ CheckSession(m) \/ ChangePassword(m) \/ Activate(m)
  BY DEF Serve
<1>2. /\ m.token \in {0} \cup Token /\ m.code \in Codes
      /\ (m.ask # "login" => m.token \in Token) /\ (m.ask \in Changes => Genuine(m.token))
  BY DEF LocalPart, WirePart, Sound, Request, Codes
<1> USE DEF Issues, OfTheAnswer
<1>3. CASE Rotate(m)
  <2>1. m.token \in Token /\ m.ask = "refresh"
    BY <1>2, <1>3 DEF Rotate
  <2> QED
    BY <1>3, <2>1, RotateKeeps, RunSpares
<1>4. CASE EndLogin(m)
  BY <1>4, EndLoginKeeps, RunSpares
<1>5. CASE LogIn(m)
  <2>1. m.ask = "login"
    BY <1>5 DEF LogIn
  <2> QED
    BY <1>5, <2>1, LogInKeeps, RunSpares
<1>6. CASE CompleteLogin(m)
  <2>1. m.token \in Token /\ m.ask = "code"
    BY <1>2, <1>6 DEF CompleteLogin
  <2> QED
    BY <1>2, <1>6, <2>1, CompleteLoginKeeps, RunSpares
<1>7. CASE CheckSession(m)
  <2>1. Grown /\ Token' = Token
    <3>1. UNCHANGED serverVars
      BY <1>7 DEF CheckSession
    <3> QED
      BY <3>1, ServerStays DEF serverVars, Token
  <2>2. CASE Answers(m, "refused", 0)
    BY <2>1, <2>2, RunSpares
  <2>3. CASE /\ wire' = (wire \ {m}) \cup {[m EXCEPT !.checked = TRUE]}
             /\ UNCHANGED <<budget, deviceVars, processVars, cl, marks, attempt, task, historyVars>>
    <3> DEFINE a == [m EXCEPT !.checked = TRUE]
    <3>1. a.ask = m.ask /\ a.token = m.token
      BY DEF LocalPart, WirePart, Sound, Request
    <3>2. wire' = (wire \ {m}) \cup {a}
      BY <2>3
    <3> HIDE DEF a
    <3>3. \A n \in wire' : \E o \in wire : n.ask = o.ask /\ n.token = o.token
      BY <3>1, <3>2
    <3> QED
      BY <2>1, <2>3, <3>3, StaysSpared DEF clientVars
  <2> QED
    BY <1>7, <2>2, <2>3 DEF CheckSession
<1>8. CASE ChangePassword(m)
  <2>1. Genuine(m.token) /\ m.ask # "refresh" /\ m.ask # "code"
    BY <1>2, <1>8 DEF ChangePassword, Changes
  <2> QED
    BY <1>8, <2>1, ChangePasswordKeeps, RunSpares
<1>9. CASE Activate(m)
  <2>1. m.token \in Token /\ m.ask = "activate"
    BY <1>2, <1>9 DEF Activate
  <2> QED
    BY <1>2, <1>9, <2>1, ActivateIsKept, RunSpares
<1> QED
  BY <1>1, <1>3, <1>4, <1>5, <1>6, <1>7, <1>8, <1>9

LEMMA ElsewhereSpares ==
  ASSUME SparedInv, ServerPart, LocalPart, OtherDevice \/ Factor \/ Sockets
  PROVE  SparedInv'
<1>1. Grown
  BY OtherDeviceKeeps, FactorKeeps, SocketsKeep
<1>2. UNCHANGED <<wire, deviceVars, processVars, clientVars, historyVars>>
  BY DEF OtherDevice, Factor, Enroll, Manage, ResetFactor, StepPasses, Restart, Sockets, RevokeSessions,
         Connect, Register
<1> QED
  BY <1>1, <1>2, StaysSpared

LEMMA NothingSpares ==
  ASSUME SparedInv, ServerPart, LocalPart, UNCHANGED vars
  PROVE  SparedInv'
<1>1. Grown
  <2>1. UNCHANGED serverVars
    BY DEF vars
  <2> QED
    BY <2>1, ServerStays
<1> QED
  BY <1>1, StaysSpared DEF vars

LEMMA InitSpares == Init => SparedInv
<1> SUFFICES ASSUME Init PROVE SparedInv
  OBVIOUS
<1>1. /\ wire = {} /\ NoTask.at = "" /\ NoTask.kind = "none" /\ owner = 0
      /\ \A c \in Clients : task[c] = NoTask /\ cl[c].session = 0
  BY NoTaskIs DEF Init
<1> HIDE DEF Init, NoTask
<1>2. \A c \in Clients : ClientSpared(c)
  BY <1>1 DEF ClientSpared, OwnersSession, OwnersChange, OwnersRestore, MarkedStored, Locked, Signed, Follow, Changes
<1>3. \A c \in Clients : Apart(c) /\ Unmarked(c)
  BY <1>1 DEF Apart, Unmarked, Brings
<1> QED
  BY <1>1, <1>2, <1>3 DEF SparedInv, SlotSpared

LEMMA ClientSpares ==
  ASSUME SparedInv, ServerPart, LocalPart, DeviceInv, NEW c \in Clients, Client(c)
  PROVE  SparedInv'
<1>1. CASE AskLogin(c) \/ Back(c) \/ EnterCode(c) \/ Logout(c) \/ Quit(c)
  BY <1>1, AskLoginSpares, BackSpares, EnterCodeSpares, LogoutSpares, QuitSpares
<1>2. CASE BeginLogin(c) \/ Begin(c) \/ RestoreReads(c) \/ RefreshBegins(c) \/ PasswordBegins(c)
  BY <1>2, BeginLoginSpares, BeginSpares, RestoreReadsSpares, RefreshBeginsSpares, PasswordBeginsSpares
<1>3. CASE Lose(c) \/ Committed(c) \/ Installed(c) \/ Refused(c)
  BY <1>3, LoseSpares, CommittedSpares, InstalledSpares, RefusedSpares
<1>4. CASE Challenged(c) \/ TurnedDown(c)
  BY <1>4, ChallengedSpares
<1> QED
  BY <1>1, <1>2, <1>3, <1>4 DEF Client

LEMMA NextSpares == IInv /\ DeviceInv /\ SparedInv /\ [Next]_vars => SparedInv'
<1> SUFFICES ASSUME ServerPart, LocalPart, DeviceInv, SparedInv, [Next]_vars PROVE SparedInv'
  BY DEF IInv
<1>1. CASE Start \/ Crash
  BY <1>1, StartSpares, CrashSpares
<1>2. CASE OtherDevice \/ Factor \/ Sockets
  BY <1>2, ElsewhereSpares
<1>3. CASE Serve
  BY <1>3, ServeSpares
<1>4. CASE \E c \in Clients : Client(c)
  BY <1>4, ClientSpares
<1>5. CASE UNCHANGED vars
  BY <1>5, NothingSpares
<1> QED
  BY <1>1, <1>2, <1>3, <1>4, <1>5 DEF Next

\* Whatever was under way when its user signed out, signed in again or gave up a code, the
\* login that was ended is never what is stored afterwards (commit_refresh, install_for_login,
\* install_for_challenge).
THEOREM EndedStaysOut == Spec => []EndedNotStored
<1>1. DeviceInv => EndedNotStored
  BY DEF DeviceInv, SlotGood, Good, EndedNotStored, FamilyOf
<1>2. SparedInv => \A c \in Clients : Apart(c)
  BY DEF SparedInv
<1> QED
  BY <1>1, <1>2, InvariantHolds, InitStores, NextStores, InitSpares, NextSpares, PTL DEF Spec

\* The owner's session, undisturbed, is what is stored: nobody asks to end that login.
LEMMA SparesOwners == LocalPart /\ SparedInv => OwnersLoginStays
<1> SUFFICES ASSUME LocalPart, SparedInv, NEW m \in wire, m.ask = "logout", owner # 0, cl[owner].session # 0,
                    Undisturbed(FamilyOf(m.token), Why), FamilyOf(m.token) = FamilyOf(cl[owner].session)
             PROVE  FALSE
  BY DEF OwnersLoginStays, SupersededSpares, Why
<1> DEFINE f == FamilyOf(m.token)
<1>1. owner \in Clients
  BY DEF LocalPart, ProcessPart
<1>2. \A o \in overtaken : o[1] = f => o[2] \notin Why
  BY DEF Undisturbed
<1>3. slot = cl[owner].session /\ ~fenced
  <2>1. OwnersSession(owner)
    BY <1>1 DEF SparedInv, ClientSpared
  <2> QED
    BY <1>2, <2>1 DEF OwnersSession
<1>4. Alive(f)
  BY <1>2, <1>3 DEF Alive, Stands, FamilyOf
<1> QED
  BY <1>4 DEF SparedInv, SlotSpared

\* A client that was replaced never asks the server to end the login that the one that replaced
\* it goes on with, whatever either was waiting for (session_store.rs, revoke_detached), unless
\* that login was signed out of, quit, signed in again or not written meanwhile.
THEOREM OwnersLoginStands == Spec => []OwnersLoginStays
<1>1. IInv /\ SparedInv => OwnersLoginStays
  BY SparesOwners DEF IInv
<1>2. SparedInv => \A c \in Clients : Apart(c)
  BY DEF SparedInv
<1> QED
  BY <1>1, <1>2, InvariantHolds, InitStores, NextStores, InitSpares, NextSpares, PTL DEF Spec

-----------------------------------------------------------------------------
(* The token that is stored.  Unless two answers were lost, the server is  *)
(* no further than one rotation past it (Tip): whoever refreshes it, sends *)
(* what is stored, with the slot's lock (Locked); the owner that waits for *)
(* the answer takes it, and so is one rotation ahead at most; a client that *)
(* was replaced while it waited counts as an answer lost (Start).           *)

Live(t) == tokens[t].state = "live"
Follower(d) == task[d].kind \in {"restore", "refresh"}
Asking(d) == Follower(d) /\ task[d].at = "asking"
Answering(d) == Follower(d) /\ task[d].at = "answered"
OfSlot(d) == FamilyOf(task[d].sent) = FamilyOf(slot)

\* What is stored stands, nothing came between, and one answer was lost at most.
Rests == slot # 0 /\ ~fenced /\ lost < 2 /\ \A o \in overtaken : o[1] # FamilyOf(slot)

StoredTip ==
  slot > cut /\ (\A d \in Clients : Answering(d) => ~OfSlot(d)) => Accepted(slot) /\ (lost = 0 => Live(slot))
AskedTip(d) ==
  Asking(d) /\ OfSlot(d) => slot = task[d].sent /\ (owner # d => lost = 1 /\ (slot > cut => Live(slot)))
AnsweredTip(d) ==
  Answering(d) /\ OfSlot(d) =>
    /\ task[d].answer > cut => Live(task[d].answer)
    /\ owner # d => lost = 1
    /\ slot > cut /\ (owner = d => lost = 0) => Graceful(slot)
Tip == Rests => StoredTip /\ \A d \in Clients : AskedTip(d) /\ AnsweredTip(d)

\* A pair that begins a login is as good as new, and refreshes nobody waits for are recorded.
Begun == \A d \in Clients : Brings(d) /\ task[d].answer > cut => Live(task[d].answer)
Recorded(m) == m.ask = "refresh" /\ ~m.awaited => \E o \in overtaken : o[1] = FamilyOf(m.token)
TipInv == Tip /\ Begun /\ \A m \in wire : Recorded(m)

\* What one client does that does not write to the slot.
LEMMA TipKept ==
  ASSUME ServerPart, LocalPart, TipInv, NEW c \in Clients, Others(c), UNCHANGED <<tokens, cut, owner>>,
         lost' \in {lost, lost + 1}, overtaken \subseteq overtaken', NoNewAnswer(c),
         Rests' => slot' = slot /\ ~fenced,
         \A m \in wire' : Recorded(m)',
         Answering(c)' => task'[c].sent = task[c].sent,
         Asking(c)' => \/ Asking(c) /\ task'[c].sent = task[c].sent
                       \/ owner = c /\ (Rests' /\ OfSlot(c)' => slot = task'[c].sent),
         Rests' /\ Answering(c) /\ OfSlot(c) /\ owner = c => Answering(c)' \/ lost' = lost + 1
  PROVE  TipInv'
<1>1. \A d \in Clients \ {c} : task'[d] = task[d]
  BY DEF Others
<1>2. Begun'
  <2> SUFFICES ASSUME NEW d \in Clients, Brings(d)', task'[d].answer > cut PROVE Live(task[d].answer)'
    BY DEF Begun
  <2>1. Brings(d) /\ task'[d].answer = task[d].answer
    BY <1>1 DEF Brings, NoNewAnswer
  <2> QED
    BY <2>1 DEF TipInv, Begun, Live
<1>3. Tip'
  <2> SUFFICES ASSUME Rests' PROVE StoredTip' /\ \A d \in Clients : AskedTip(d)' /\ AnsweredTip(d)'
    BY DEF Tip
  <2>1. lost \in Nat /\ lost' < 2 /\ slot' = slot /\ slot # 0
    BY DEF LocalPart, HistoryPart, Rests
  <2>2. Rests
    BY <2>1 DEF Rests, FamilyOf
  <2>3. StoredTip /\ \A d \in Clients : AskedTip(d) /\ AnsweredTip(d)
    BY <2>2 DEF TipInv, Tip
  <2>4. \A d \in Clients : Answering(d)' => Answering(d) /\ task'[d].sent = task[d].sent /\ task'[d].answer = task[d].answer
    BY <1>1 DEF Answering, Follower, NoNewAnswer
  <2>5. StoredTip'
    <3> SUFFICES ASSUME slot > cut, \A d \in Clients : Answering(d)' => ~OfSlot(d)'
                 PROVE  Accepted(slot) /\ (lost' = 0 => Live(slot))
      BY <2>1 DEF StoredTip, Accepted, Live, Graceful
    <3>1. CASE Answering(c) /\ OfSlot(c)
      <4>1. ~Answering(c)'
        BY <2>1, <3>1 DEF OfSlot, FamilyOf
      <4>2. lost = 1 \/ (owner = c /\ lost' = lost + 1)
        BY <2>3, <3>1, <4>1 DEF AnsweredTip
      <4>3. lost' # 0 /\ (owner = c => lost = 0)
        BY <2>1, <2>3, <3>1, <4>1, <4>2
      <4> QED
        BY <2>3, <3>1, <4>3 DEF AnsweredTip, Accepted
    <3>2. CASE ~(Answering(c) /\ OfSlot(c))
      <4>1. \A d \in Clients : Answering(d) => ~OfSlot(d)
        <5> SUFFICES ASSUME NEW d \in Clients, Answering(d), OfSlot(d), d # c PROVE FALSE
          BY <3>2
        <5> QED
          BY <1>1, <2>1 DEF Answering, Follower, OfSlot, FamilyOf
      <4> QED
        BY <2>1, <2>3, <4>1 DEF StoredTip
    <3> QED
      BY <3>1, <3>2
  <2>6. ASSUME NEW d \in Clients, Asking(d)', OfSlot(d)'
        PROVE  slot = task'[d].sent /\ (owner # d => lost' = 1 /\ (slot > cut => Live(slot)))
    <3>1. CASE Asking(d) /\ task'[d].sent = task[d].sent
      <4>1. OfSlot(d)
        BY <2>1, <2>6, <3>1 DEF OfSlot, FamilyOf
      <4> QED
        BY <2>1, <2>3, <3>1, <4>1 DEF AskedTip
    <3>2. CASE ~(Asking(d) /\ task'[d].sent = task[d].sent)
      <4>1. d = c
        BY <1>1, <2>6, <3>2 DEF Asking, Follower
      <4> QED
        BY <2>6, <3>2, <4>1
    <3> QED
      BY <3>1, <3>2
  <2>7. ASSUME NEW d \in Clients, Answering(d)', OfSlot(d)'
        PROVE  /\ task'[d].answer > cut => Live(task'[d].answer)
               /\ owner # d => lost' = 1
               /\ slot > cut /\ (owner = d => lost' = 0) => Graceful(slot)
    <3>1. Answering(d) /\ OfSlot(d) /\ task'[d].answer = task[d].answer
      BY <2>1, <2>4, <2>7 DEF OfSlot, FamilyOf
    <3> QED
      BY <2>1, <2>3, <3>1 DEF AnsweredTip
  <2>8. \A d \in Clients : AskedTip(d)'
    BY <2>1, <2>6 DEF AskedTip, Live
  <2>9. \A d \in Clients : AnsweredTip(d)'
    BY <2>1, <2>7 DEF AnsweredTip, Live, Graceful
  <2> QED
    BY <2>5, <2>8, <2>9
<1> QED
  BY <1>2, <1>3 DEF TipInv

\* What one client was answered is stored.
LEMMA TipTaken ==
  ASSUME ServerPart, LocalPart, DeviceInv, SparedInv, TipInv, NEW c \in Clients, Others(c),
         UNCHANGED <<tokens, cut, owner, lost, wire>>, overtaken \subseteq overtaken',
         task[c].at = "answered", task[c].kind # "none", task'[c].at = "",
         slot' = task[c].answer,
         Follower(c) => (Rests' => slot = task[c].sent /\ ~fenced)
  PROVE  TipInv'
<1> DEFINE t == task[c].answer
<1>1. \A d \in Clients \ {c} : task'[d] = task[d]
  BY DEF Others
<1>2. t \in Token
  BY RecordsOf DEF Genuine
<1>3. Begun'
  BY <1>1 DEF TipInv, Begun, Brings, Live
<1>4. \A m \in wire' : Recorded(m)'
  BY DEF TipInv, Recorded, FamilyOf
<1>5. ASSUME Rests', NEW d \in Clients, Follower(d)', task'[d].at \in {"asking", "answered"} PROVE ~OfSlot(d)'
  <2>1. d # c /\ task'[d] = task[d]
    BY <1>1, <1>5
  <2>2. task[d].sent # 0 /\ slotLock = d
    BY <1>5, <2>1 DEF SparedInv, ClientSpared, Locked, Follow, Follower
  <2>3. CASE Follower(c)
    <3>1. slotLock = c
      BY <2>3 DEF SparedInv, ClientSpared, Locked, Follow, Follower
    <3> QED
      BY <2>1, <2>2, <3>1
  <2>4. CASE ~Follower(c)
    <3>1. Brings(c) /\ Apart(c)
      BY <2>4 DEF Brings, Follower, SparedInv
    <3>2. FamilyOf(task[d].sent) # t
      BY <1>5, <2>1, <2>2, <3>1 DEF Apart, Foreign, Follower
    <3>3. FamilyOf(t) = t
      <4>1. Fits(task[c], tokens)
        BY DEF DeviceInv, AllFit
      <4> QED
        BY <3>1, <4>1 DEF Fits, FamilyOf, Brings
    <3> QED
      BY <2>1, <3>2, <3>3 DEF OfSlot, FamilyOf
  <2> QED
    BY <2>3, <2>4
<1>6. ASSUME Rests', t > cut PROVE Live(t)
  <2>1. CASE Follower(c)
    <3>1. slot = task[c].sent /\ slot # 0 /\ FamilyOf(t) = FamilyOf(slot)
      <4>1. Fits(task[c], tokens) /\ Locked(c)
        BY DEF DeviceInv, AllFit, SparedInv, ClientSpared
      <4>2. slot = task[c].sent /\ slot # 0
        BY <1>6, <2>1, <4>1 DEF Locked, Follow, Follower
      <4> QED
        BY <2>1, <4>1, <4>2 DEF Fits, FamilyOf, Follower
    <3>2. Rests
      BY <1>6, <2>1, <3>1 DEF Rests, FamilyOf
    <3>3. AnsweredTip(c) /\ Answering(c) /\ OfSlot(c)
      BY <2>1, <3>1, <3>2 DEF TipInv, Tip, Answering, OfSlot
    <3> QED
      BY <1>6, <3>3 DEF AnsweredTip
  <2>2. CASE ~Follower(c)
    BY <1>6, <2>2 DEF Follower, Brings, TipInv, Begun
  <2> QED
    BY <2>1, <2>2
<1>7. Tip'
  <2> SUFFICES ASSUME Rests' PROVE StoredTip' /\ \A d \in Clients : AskedTip(d)' /\ AnsweredTip(d)'
    BY DEF Tip
  <2>1. StoredTip'
    BY <1>6 DEF StoredTip, Accepted, Live
  <2>2. \A d \in Clients : AskedTip(d)' /\ AnsweredTip(d)'
    BY <1>5 DEF AskedTip, AnsweredTip, Asking, Answering
  <2> QED
    BY <2>1, <2>2
<1> QED
  BY <1>3, <1>4, <1>7 DEF TipInv

\* No request is sent, and nothing is stored.
LEMMA TipLeft ==
  ASSUME ServerPart, LocalPart, TipInv, NEW c \in Clients, Others(c), UNCHANGED <<tokens, cut, owner, lost>>,
         overtaken \subseteq overtaken', NoNewAnswer(c), ~Asking(c)' \/ (Asking(c) /\ task'[c].sent = task[c].sent),
         Rests' => slot' = slot /\ ~fenced,
         \A m \in wire' : m \in wire \/ m.ask # "refresh" \/ m.awaited,
         Answering(c)' => task'[c].sent = task[c].sent,
         Rests' /\ Answering(c) /\ OfSlot(c) /\ owner = c => Answering(c)'
  PROVE  TipInv'
<1>1. \A m \in wire' : Recorded(m)'
  BY DEF TipInv, Recorded, FamilyOf
<1> QED
  BY <1>1, TipKept

\* What was done is not of an answer (the task goes on, or was not one).
LEMMA TipElsewhere ==
  ASSUME ServerPart, LocalPart, TipInv, NEW c \in Clients, Others(c), UNCHANGED <<tokens, cut, owner, lost>>,
         overtaken \subseteq overtaken', Rests' => slot' = slot /\ ~fenced,
         \A m \in wire' : m \in wire \/ m.ask # "refresh" \/ m.awaited,
         \/ GoesOn(c) /\ task'[c].answer = task[c].answer
         \/ task[c].at # "answered" /\ (Follower(c)' => task'[c].at \notin {"asking", "answered"}) /\ task'[c].at # "answered"
  PROVE  TipInv'
BY TipLeft DEF GoesOn, NoNewAnswer, Asking, Answering, Follower

LEMMA AskLoginTips ==
  ASSUME TipInv, ServerPart, LocalPart, DeviceInv, NEW c \in Clients, AskLogin(c)
  PROVE  TipInv'
<1>1. /\ UNCHANGED <<tokens, cut, owner, lost>> /\ UNCHANGED <<slot, fenced, wire, overtaken>>
  BY DEF AskLogin, serverVars, deviceVars, processVars
<1>2. Others(c) /\ GoesOn(c) /\ task'[c].answer = task[c].answer
  BY Known DEF AskLogin, Others, GoesOn, TaskRecord
<1> QED
  BY <1>1, <1>2, TipElsewhere DEF Rests

LEMMA BackTips ==
  ASSUME TipInv, ServerPart, LocalPart, DeviceInv, NEW c \in Clients, Back(c)
  PROVE  TipInv'
<1>1. /\ UNCHANGED <<tokens, cut, owner, lost>> /\ UNCHANGED <<slot, fenced, wire, overtaken>>
  BY DEF Back, serverVars, deviceVars, processVars
<1>2. Others(c) /\ GoesOn(c) /\ task'[c].answer = task[c].answer
  BY Known DEF Back, Others, GoesOn
<1> QED
  BY <1>1, <1>2, TipElsewhere DEF Rests

LEMMA QuitTips ==
  ASSUME TipInv, ServerPart, LocalPart, DeviceInv, NEW c \in Clients, Quit(c)
  PROVE  TipInv'
<1>1. /\ UNCHANGED <<tokens, cut, owner, lost>> /\ UNCHANGED <<slot, fenced, wire, overtaken>>
  BY DEF Quit, serverVars, deviceVars, processVars, historyVars
<1>2. Others(c) /\ GoesOn(c) /\ task'[c].answer = task[c].answer
  BY Known DEF Quit, Stale, Others, GoesOn, TaskRecord
<1> QED
  BY <1>1, <1>2, TipElsewhere DEF Rests

LEMMA LogoutTips ==
  ASSUME TipInv, ServerPart, LocalPart, DeviceInv, NEW c \in Clients, Logout(c)
  PROVE  TipInv'
<1>1. UNCHANGED <<tokens, cut, owner, lost>> /\ overtaken \subseteq overtaken'
  BY DEF Logout, serverVars, processVars
<1>2. Others(c) /\ GoesOn(c) /\ task'[c].answer = task[c].answer
  BY Known DEF Logout, Stale, Others, GoesOn, TaskRecord
<1>3. Rests' => slot' = slot /\ ~fenced
  BY DEF Logout, Rests
<1>4. \A m \in wire' : m \in wire \/ m.ask # "refresh"
  <2>1. \A m \in Revokes(c, cl[c].session, Marked(c, cl[c].session)) : m.ask = "logout"
    BY RevokesAre
  <2> QED
    BY <2>1 DEF Logout
<1> QED
  BY <1>1, <1>2, <1>3, <1>4, TipElsewhere

LEMMA EnterCodeTips ==
  ASSUME TipInv, ServerPart, LocalPart, DeviceInv, NEW c \in Clients, EnterCode(c)
  PROVE  TipInv'
<1>1. /\ UNCHANGED <<tokens, cut, owner, lost>> /\ UNCHANGED <<slot, fenced, overtaken>>
  BY DEF EnterCode, serverVars, deviceVars, processVars, historyVars
<1>2. Others(c) /\ task[c].at # "answered" /\ task'[c].kind = "code" /\ task'[c].at = "asking"
  BY Known DEF EnterCode, Free, Others, NoTask, Calm
<1>3. \A m \in wire' : m \in wire \/ m.awaited
  <2>1. PICK code \in AtHand : wire' = wire \cup {[Asks(c, "code", cl[c].challenge) EXCEPT !.code = code]}
    BY DEF EnterCode
  <2>2. [Asks(c, "code", cl[c].challenge) EXCEPT !.code = code].awaited
    BY DEF Asks
  <2> QED
    BY <2>1, <2>2
<1> QED
  BY <1>1, <1>2, <1>3, TipElsewhere DEF Rests, Follower

LEMMA BeginLoginTips ==
  ASSUME TipInv, ServerPart, LocalPart, DeviceInv, NEW c \in Clients, BeginLogin(c)
  PROVE  TipInv'
<1>1. /\ UNCHANGED <<tokens, cut, owner, lost>> /\ UNCHANGED overtaken
      /\ task[c].kind = "none" /\ task[c].at # "answered"
  BY Known DEF BeginLogin, Free, serverVars, processVars, Calm
<1>2. Others(c)
  BY Known DEF BeginLogin, Others
<1>3. CASE UNCHANGED <<budget, wire, deviceVars, cl, marks, task, over>>
  BY <1>1, <1>2, <1>3, TipElsewhere DEF Rests, GoesOn, deviceVars
<1>4. CASE
        /\ IF cl[c].session # 0 THEN ClearSlot(c) ELSE UNCHANGED <<slot, fenced, budget>>
        /\ wire' = wire \cup Revokes(c, cl[c].session, Marked(c, cl[c].session)) \cup {Asks(c, "login", 0)}
        /\ task' = [task EXCEPT ![c] = [NoTask EXCEPT !.kind = "login", !.at = "asking", !.fresh = TRUE]]
  <2>1. task'[c].kind = "login" /\ task'[c].at = "asking"
    BY <1>4, Known DEF NoTask
  <2>2. Rests' => slot' = slot /\ ~fenced
    BY <1>4 DEF ClearSlot, Rests
  <2>3. \A m \in wire' : m \in wire \/ m.ask # "refresh"
    <3>1. \A m \in Revokes(c, cl[c].session, Marked(c, cl[c].session)) : m.ask = "logout"
      BY RevokesAre
    <3>2. Asks(c, "login", 0).ask = "login"
      BY DEF Asks
    <3> QED
      BY <1>4, <3>1, <3>2
  <2> QED
    BY <1>1, <1>2, <2>1, <2>2, <2>3, TipElsewhere DEF Follower
<1> QED
  BY <1>3, <1>4 DEF BeginLogin

LEMMA BeginTips ==
  ASSUME TipInv, ServerPart, LocalPart, DeviceInv, NEW c \in Clients, Begin(c)
  PROVE  TipInv'
<1>1. /\ UNCHANGED <<tokens, cut, owner, lost>> /\ UNCHANGED <<slot, fenced, wire, overtaken>> /\ Others(c)
      /\ task[c].at # "answered"
  BY Known DEF Begin, Free, Others, Calm, serverVars, deviceVars, processVars, historyVars
<1>2. task'[c].at = "slot"
  BY Known DEF Begin, NoTask
<1> QED
  BY <1>1, <1>2, TipElsewhere DEF Rests

\* A task that is over asks nothing.
LEMMA EndsTips ==
  ASSUME TipInv, ServerPart, LocalPart, NEW c \in Clients, Others(c), Ends(c), UNCHANGED <<tokens, cut, owner, lost>>,
         overtaken \subseteq overtaken', Rests' => slot' = slot /\ ~fenced,
         \A m \in wire' : m \in wire \/ m.ask # "refresh" \/ m.awaited,
         Rests' => ~(Answering(c) /\ OfSlot(c) /\ owner = c)
  PROVE  TipInv'
<1>1. task'[c].kind = "none" /\ task'[c].at = ""
  BY EndedIs
<1> QED
  BY <1>1, TipLeft DEF NoNewAnswer, Asking, Answering, Follower

LEMMA RestoreReadsTips ==
  ASSUME TipInv, ServerPart, LocalPart, DeviceInv, NEW c \in Clients, RestoreReads(c)
  PROVE  TipInv'
<1>1. /\ UNCHANGED <<tokens, cut, owner, lost>> /\ UNCHANGED <<fenced, attempt, cl, overtaken>>
      /\ task[c].kind = "restore" /\ task[c].at = "slot"
  BY DEF RestoreReads, serverVars, historyVars
<1>2. CASE /\ Owns(c) /\ slot # 0 /\ ~fenced /\ wire' = wire \cup {Asks(c, "refresh", slot)}
           /\ task' = [task EXCEPT ![c].at = "asking", ![c].sent = slot, ![c].family = stored]
           /\ UNCHANGED slot
  <2> DEFINE k == [task[c] EXCEPT !.at = "asking", !.sent = slot, !.family = stored]
  <2>1. k.at = "asking" /\ k.sent = slot
    BY <1>1, Known DEF TaskRecord
  <2>2. task'[c] = k /\ \A d \in Clients \ {c} : task'[d] = task[d]
    BY <1>2, Known
  <2>3. Others(c)
    BY <1>1, <2>2 DEF Others
  <2>4. \A m \in wire' : m \in wire \/ m.awaited
    BY <1>2 DEF Asks
  <2>5. \A m \in wire' : Recorded(m)'
    BY <1>1, <2>4 DEF TipInv, Recorded, FamilyOf
  <2> HIDE DEF k
  <2> QED
    BY <1>1, <1>2, <2>1, <2>2, <2>3, <2>5, TipKept DEF NoNewAnswer, Asking, Answering, Follower, Owns
<1>3. CASE Ends(c) /\ UNCHANGED wire /\ slot' = IF Owns(c) /\ fenced THEN 0 ELSE slot
  <2>1. Others(c)
    BY <1>1, <1>3, EndedIs DEF Others
  <2>2. ~Answering(c) /\ (Rests' => slot' = slot /\ ~fenced)
    BY <1>1, <1>3 DEF Answering, Rests
  <2> QED
    BY <1>1, <1>3, <2>1, <2>2, EndsTips
<1> QED
  BY <1>2, <1>3 DEF RestoreReads

LEMMA RefreshBeginsTips ==
  ASSUME TipInv, SparedInv, ServerPart, LocalPart, DeviceInv, NEW c \in Clients, RefreshBegins(c)
  PROVE  TipInv'
<1> DEFINE t == cl[c].session
<1>1. UNCHANGED <<tokens, cut, owner, lost>> /\ UNCHANGED <<slot, fenced, overtaken>> /\ task[c].at # "answered"
  BY DEF RefreshBegins, serverVars, deviceVars, historyVars
<1>2. ~Answering(c) /\ (Rests' => Rests)
  BY <1>1 DEF Answering, Rests, FamilyOf
<1>3. CASE Ends(c) /\ UNCHANGED <<wire, cl, marks, attempt>>
  <2>1. Others(c)
    BY <1>1, <1>3, EndedIs DEF Others
  <2> QED
    BY <1>1, <1>2, <1>3, <2>1, EndsTips DEF Rests
<1>4. CASE /\ t # 0 /\ Owns(c) /\ UNCHANGED <<cl, marks, attempt>>
           /\ task' = [task EXCEPT ![c] = [NoTask EXCEPT !.kind = "refresh", !.at = "asking", !.sent = t]]
           /\ wire' = wire \cup {Asks(c, "refresh", t)}
  <2>1. task'[c].kind = "refresh" /\ task'[c].at = "asking" /\ task'[c].sent = t
    BY <1>4, Known DEF NoTask
  <2>2. Others(c)
    BY <1>1, <1>4, Known DEF Others
  <2>3. \A m \in wire' : m \in wire \/ m.awaited
    BY <1>4 DEF Asks
  <2>4. \A m \in wire' : Recorded(m)'
    BY <1>1, <2>3 DEF TipInv, Recorded, FamilyOf
  <2>5. ASSUME Rests', OfSlot(c)' PROVE slot = task'[c].sent
    <3>1. Rests /\ FamilyOf(t) = FamilyOf(slot)
      BY <1>1, <1>2, <2>1, <2>5 DEF OfSlot, FamilyOf
    <3>2. OwnersSession(c)
      BY DEF SparedInv, ClientSpared
    <3> QED
      BY <1>4, <2>1, <3>1, <3>2 DEF OwnersSession, Rests, Owns
  <2> QED
    BY <1>1, <1>2, <1>4, <2>1, <2>2, <2>4, <2>5, TipKept DEF NoNewAnswer, Answering, Owns, Rests
<1>5. CASE /\ Ends(c) /\ attempt' = [attempt EXCEPT ![c].fresh = FALSE]
           /\ wire' = wire \cup Revokes(c, t, Marked(c, t))
           /\ cl' = [cl EXCEPT ![c].session = 0, ![c].persisted = FALSE]
  <2>1. Others(c)
    BY <1>1, <1>5, Known, EndedIs DEF Others
  <2>2. \A m \in wire' : m \in wire \/ m.ask # "refresh"
    <3>1. \A m \in Revokes(c, t, Marked(c, t)) : m.ask = "logout"
      BY RevokesAre
    <3> QED
      BY <1>5, <3>1
  <2> QED
    BY <1>1, <1>2, <1>5, <2>1, <2>2, EndsTips DEF Rests
<1> QED
  BY <1>3, <1>4, <1>5 DEF RefreshBegins, RefreshOnce

LEMMA PasswordBeginsTips ==
  ASSUME TipInv, ServerPart, LocalPart, DeviceInv, NEW c \in Clients, PasswordBegins(c)
  PROVE  TipInv'
<1> DEFINE t == cl[c].session
<1>1. /\ UNCHANGED <<tokens, cut, owner, lost>> /\ UNCHANGED <<slot, fenced, attempt, cl, overtaken>>
      /\ task[c].kind \in Changes /\ task[c].at = "slot"
  BY DEF PasswordBegins, serverVars, deviceVars, historyVars
<1>2. CASE Ends(c) /\ UNCHANGED wire
  <2>1. Others(c) /\ ~Answering(c)
    BY <1>1, <1>2, EndedIs DEF Others, Answering
  <2> QED
    BY <1>1, <1>2, <2>1, EndsTips DEF Rests
<1>3. CASE /\ task' = [task EXCEPT ![c].at = "asking", ![c].sent = t]
           /\ \E code \in GoesWith(task[c].kind) : wire' = wire \cup {[Asks(c, task[c].kind, t) EXCEPT !.code = code]}
  <2> DEFINE k == [task[c] EXCEPT !.at = "asking", !.sent = t]
  <2>1. k.kind \in Changes /\ k.at = "asking"
    BY <1>1, Known DEF TaskRecord
  <2>2. task'[c] = k /\ \A d \in Clients \ {c} : task'[d] = task[d]
    BY <1>3, Known
  <2> HIDE DEF k
  <2>3. Others(c)
    BY <1>1, <2>2 DEF Others
  <2>4. PICK code \in GoesWith(task[c].kind) : wire' = wire \cup {[Asks(c, task[c].kind, t) EXCEPT !.code = code]}
    BY <1>3
  <2>5. \A m \in wire' : m \in wire \/ m.awaited
    BY <2>4 DEF Asks
  <2> QED
    BY <1>1, <2>1, <2>2, <2>3, <2>5, TipElsewhere DEF Rests, Follower, Changes
<1> QED
  BY <1>2, <1>3 DEF PasswordBegins

LEMMA RefusedTips ==
  ASSUME TipInv, ServerPart, LocalPart, DeviceInv, NEW c \in Clients, Refused(c)
  PROVE  TipInv'
<1>1. /\ UNCHANGED <<tokens, cut, owner, lost>> /\ UNCHANGED <<attempt, wire, overtaken>> /\ Ends(c) /\ ~Answering(c)
  BY DEF Refused, Answering, serverVars, historyVars
<1>2. cl' = cl \/ cl' = [cl EXCEPT ![c].session = 0, ![c].persisted = FALSE]
  BY DEF Refused
<1>3. Others(c)
  BY <1>1, <1>2, Known, EndedIs DEF Others
<1>4. Rests' => slot' = slot /\ ~fenced
  BY DEF Refused, ClearSlot, deviceVars, Rests
<1> QED
  BY <1>1, <1>3, <1>4, EndsTips

LEMMA ChallengedTips ==
  ASSUME TipInv, ServerPart, LocalPart, DeviceInv, NEW c \in Clients, Challenged(c) \/ TurnedDown(c)
  PROVE  TipInv'
<1>1. /\ UNCHANGED <<tokens, cut, owner, lost>> /\ UNCHANGED <<slot, fenced, attempt, wire, overtaken>> /\ Ends(c)
      /\ ~Answering(c)
  BY DEF Challenged, TurnedDown, Answering, serverVars, deviceVars, historyVars
<1>2. PICK h : cl' = cl \/ cl' = [cl EXCEPT ![c].challenge = h]
  BY DEF Challenged, TurnedDown
<1>3. Others(c)
  BY <1>1, <1>2, Known, EndedIs DEF Others
<1> QED
  BY <1>1, <1>3, EndsTips DEF Rests

LEMMA LoseTips ==
  ASSUME TipInv, ServerPart, LocalPart, DeviceInv, NEW c \in Clients, Lose(c)
  PROVE  TipInv'
<1>1. /\ UNCHANGED <<tokens, cut, owner, slot, fenced>> /\ UNCHANGED <<attempt, cl>> /\ Ends(c)
      /\ overtaken \subseteq overtaken' /\ lost' = lost + 1
  BY DEF Lose, serverVars, deviceVars
<1>2. Others(c) /\ task'[c].kind = "none" /\ task'[c].at = ""
  BY <1>1, Known, EndedIs DEF Others
<1>3. \A m \in wire' : Recorded(m)'
  <2> SUFFICES ASSUME NEW m \in wire', m.ask = "refresh", ~m.awaited
               PROVE  \E o \in overtaken' : o[1] = FamilyOf(m.token)
    BY <1>1 DEF Recorded, FamilyOf
  <2> DEFINE M == {n \in wire : n.by = c /\ n.awaited}
             S == {[n EXCEPT !.awaited = FALSE, !.tag = lost + 1] : n \in M}
  <2>1. wire' = wire \ M \/ (wire' = (wire \ M) \cup S /\ overtaken' = overtaken \cup Late(M))
    BY DEF Lose
  <2>2. CASE m \in wire
    BY <1>1, <2>2 DEF TipInv, Recorded
  <2>3. CASE m \in S /\ overtaken' = overtaken \cup Late(M)
    <3>1. PICK n \in M : m = [n EXCEPT !.awaited = FALSE, !.tag = lost + 1]
      BY <2>3
    <3>2. n \in Request
      BY <3>1, Known
    <3>3. n.ask = "refresh" /\ n.token = m.token
      BY <3>1, <3>2 DEF Request
    <3> HIDE DEF M, S
    <3>4. <<FamilyOf(n.token), "late">> \in Late(M)
      BY <3>3 DEF Late
    <3> QED
      BY <2>3, <3>3, <3>4
  <2> QED
    BY <2>1, <2>2, <2>3
<1> QED
  BY <1>1, <1>2, <1>3, TipKept DEF NoNewAnswer, Asking, Answering, Follower, Rests

LEMMA CommittedTips ==
  ASSUME TipInv, SparedInv, ServerPart, LocalPart, DeviceInv, NEW c \in Clients, Committed(c)
  PROVE  TipInv'
<1> DEFINE t == task[c].answer
           s == task[c].sent
           rotation == task[c].kind = "refresh"
           gone == Revokes(c, t, IF rotation THEN Marked(c, s) ELSE {})
<1>1. /\ UNCHANGED <<tokens, cut, owner, lost>> /\ UNCHANGED attempt
      /\ task[c].kind \in Follow /\ task[c].at = "answered" /\ Ends(c)
  BY DEF Committed, serverVars, Follow
<1>2. Others(c)
  BY <1>1, Known, EndedIs DEF Committed, Others
<1>3. /\ t \in Token /\ t # 0
      /\ rotation => s \in Token /\ FamilyOf(t) = FamilyOf(s)
  <2>1. task[c].kind # "none" /\ task[c].kind # "restore"
    BY <1>1 DEF Follow, Changes
  <2> QED
    BY <1>1, <1>2, <2>1, AnswerIs DEF Token
<1>4. /\ s # 0 /\ UnderWay(c) /\ ClientSpared(c) /\ task'[c].at = ""
  BY <1>1, EndedIs DEF SparedInv, ClientSpared, Locked, UnderWay
<1>5. \/ /\ cl[c].st = "closed" /\ (Follows(c, s) => <<FamilyOf(t), "quit">> \in overtaken')
         /\ UNCHANGED <<slot, fenced>> /\ overtaken \subseteq overtaken' /\ wire' = wire \cup gone
      \/ /\ cl[c].st = "up" /\ cl[c].session # s
         /\ UNCHANGED <<slot, fenced>> /\ overtaken \subseteq overtaken' /\ wire' = wire \cup gone
      \/ /\ cl[c].st = "closed" /\ Follows(c, s) /\ slot' = t /\ UNCHANGED <<wire, overtaken, fenced>>
      \/ /\ cl[c].st = "up" /\ cl[c].session = s /\ wire' = wire
         /\ \/ ~Owns(c) /\ UNCHANGED <<slot, fenced, overtaken>>
            \/ Owns(c) /\ slot' = t /\ UNCHANGED overtaken
            \/ Owns(c) /\ fenced' = TRUE /\ overtaken \subseteq overtaken'
  BY DEF Committed, WriteSlot, deviceVars, Unwritten
<1>6. \A m \in gone : m.ask = "logout"
  BY RevokesAre
<1>7. Follower(c) <=> rotation
  BY <1>1 DEF Follower, Follow, Changes
<1> HIDE DEF t, s, gone, rotation
\* The pair goes: it is not of what is stored, or the user quit, or signed in again.
<1>8. ASSUME UNCHANGED <<slot, fenced>>, overtaken \subseteq overtaken', wire' = wire \cup gone,
             \/ cl[c].st = "closed" /\ (Follows(c, s) => <<FamilyOf(t), "quit">> \in overtaken')
             \/ cl[c].st = "up" /\ cl[c].session # s
      PROVE  TipInv'
  <2>1. ASSUME Rests', Answering(c), OfSlot(c), owner = c PROVE FALSE
    <3>1. slot # 0 /\ ~fenced /\ \A o \in overtaken' : o[1] # FamilyOf(slot)
      BY <1>1, <1>8, <2>1 DEF Rests, FamilyOf
    <3>2. rotation /\ FamilyOf(s) = FamilyOf(slot) /\ FamilyOf(t) = FamilyOf(s)
      BY <1>3, <1>7, <2>1 DEF Answering, OfSlot, s
    <3>3. Alive(FamilyOf(s))
      BY <1>8, <3>1, <3>2 DEF Alive, Stands, FamilyOf
    <3>4. slot = s /\ cl[c].persisted /\ (cl[c].st = "up" => cl[c].session = s)
      BY <1>1, <1>4, <2>1, <3>3 DEF ClientSpared, OwnersChange, s
    <3>5. <<FamilyOf(t), "quit">> \in overtaken'
      BY <1>8, <2>1, <3>4 DEF Follows, Owns
    <3> QED
      BY <3>1, <3>2, <3>5
  <2>2. \A m \in wire' : m \in wire \/ m.ask # "refresh"
    BY <1>6, <1>8
  <2>3. Rests' => slot' = slot /\ ~fenced
    BY <1>8 DEF Rests
  <2> QED
    BY <1>1, <1>2, <1>8, <2>1, <2>2, <2>3, EndsTips
\* It is stored.
<1>9. ASSUME slot' = t, UNCHANGED <<wire, overtaken>>, (slot = s /\ UNCHANGED fenced) \/ (owner = c /\ cl[c].session = s)
      PROVE  TipInv'
  <2>1. Follower(c) /\ Rests' => slot = s /\ ~fenced
    <3> SUFFICES ASSUME Follower(c), Rests', ~(slot = s /\ UNCHANGED fenced) PROVE slot = s /\ ~fenced
      BY DEF Rests
    <3>1. \A o \in overtaken : o[1] # FamilyOf(t)
      BY <1>1, <1>9 DEF Rests, FamilyOf
    <3>2. FamilyOf(t) = FamilyOf(s) /\ OwnersSession(c) /\ owner = c /\ cl[c].session = s
      BY <1>3, <1>4, <1>7, <1>9 DEF ClientSpared
    <3> QED
      BY <1>4, <3>1, <3>2 DEF OwnersSession
  <2>2. task[c].kind # "none" /\ overtaken \subseteq overtaken'
    BY <1>1, <1>9 DEF Follow, Changes
  <2> QED
    BY <1>1, <1>2, <1>4, <1>9, <2>1, <2>2, TipTaken DEF t, s
\* Nothing is stored, as the client is replaced, or the keychain fails.
<1>10. ASSUME wire' = wire, overtaken \subseteq overtaken', (~Owns(c) /\ UNCHANGED <<slot, fenced>>) \/ fenced' = TRUE
       PROVE  TipInv'
  <2>1. Rests' => slot' = slot /\ ~fenced /\ owner # c
    BY <1>10 DEF Rests, Owns
  <2> QED
    BY <1>1, <1>2, <1>10, <2>1, EndsTips
<1> QED
  <2>1. CASE cl[c].st = "closed" /\ Follows(c, s) /\ slot' = t /\ UNCHANGED <<wire, overtaken, fenced>>
    <3>1. slot = s
      BY <2>1 DEF Follows
    <3> QED
      BY <1>9, <2>1, <3>1
  <2>2. CASE cl[c].st = "up" /\ cl[c].session = s /\ wire' = wire
             /\ Owns(c) /\ slot' = t /\ UNCHANGED overtaken
    BY <1>9, <2>2 DEF Owns
  <2> QED
    BY <1>5, <1>8, <1>10, <2>1, <2>2

LEMMA InstalledTips ==
  ASSUME TipInv, SparedInv, ServerPart, LocalPart, DeviceInv, NEW c \in Clients, Installed(c)
  PROVE  TipInv'
<1> DEFINE t == task[c].answer
           s == task[c].sent
           restored == task[c].kind = "restore"
           gone == Revokes(c, t, IF restored THEN {task[c].family} ELSE {})
<1>1. /\ UNCHANGED <<tokens, cut, owner, lost>> /\ UNCHANGED attempt
      /\ task[c].kind \in {"restore", "login", "code"} /\ task[c].at = "answered" /\ Ends(c)
  BY DEF Installed, serverVars
<1>2. Others(c)
  BY <1>1, Known, EndedIs DEF Installed, Others
<1>3. t \in Token /\ t # 0 /\ (restored => s \in Token /\ FamilyOf(t) = FamilyOf(s))
  <2>1. task[c].kind # "none" /\ task[c].kind # "refresh"
    BY <1>1
  <2> QED
    BY <1>1, <1>2, <2>1, AnswerIs DEF Token
<1>4. task'[c].at = "" /\ (restored /\ Owns(c) /\ Current(c) => slot = s /\ ~fenced)
  BY <1>1, EndedIs DEF SparedInv, ClientSpared, OwnersRestore, UnderWay, Owns, Current
<1>5. \/ /\ ~Current(c) \/ ~Owns(c)
         /\ wire' = IF restored /\ Current(c) THEN wire ELSE wire \cup gone
         /\ overtaken' = IF restored /\ ~Current(c) /\ gone # {}
                         THEN overtaken \cup {<<FamilyOf(t), IF cl[c].st = "closed" THEN "quit" ELSE "sign-in">>}
                         ELSE overtaken
         /\ UNCHANGED <<slot, fenced>>
      \/ Current(c) /\ Owns(c) /\ slot' = t /\ UNCHANGED <<wire, overtaken>>
      \/ wire' = wire /\ fenced' = TRUE /\ overtaken \subseteq overtaken'
  BY DEF Installed, WriteSlot, deviceVars, Unwritten
<1>6. (\A m \in gone : m.ask = "logout") /\ (Owns(c) => gone # {})
  BY <1>3, RevokesAre DEF Revokes
<1>7. Follower(c) <=> restored
  BY <1>1 DEF Follower
<1> HIDE DEF t, s, gone, restored
\* The pair goes, or is left to the client that replaced this one.
<1>8. ASSUME ~Current(c) \/ ~Owns(c),
             wire' = (IF restored /\ Current(c) THEN wire ELSE wire \cup gone),
             overtaken' = IF restored /\ ~Current(c) /\ gone # {}
                          THEN overtaken \cup {<<FamilyOf(t), IF cl[c].st = "closed" THEN "quit" ELSE "sign-in">>}
                          ELSE overtaken,
             UNCHANGED <<slot, fenced>>
      PROVE  TipInv'
  <2>1. ASSUME Rests', Answering(c), OfSlot(c), owner = c PROVE FALSE
    <3>1. restored /\ FamilyOf(t) = FamilyOf(slot)
      BY <1>3, <1>7, <2>1 DEF Answering, OfSlot, s
    <3>2. ~Current(c) /\ gone # {}
      BY <1>6, <1>8, <2>1 DEF Owns
    <3>3. PICK why : overtaken' = overtaken \cup {<<FamilyOf(t), why>>}
      BY <1>8, <3>1, <3>2
    <3>4. <<FamilyOf(t), why>> \in overtaken'
      BY <3>3
    <3> QED
      BY <1>1, <1>8, <2>1, <3>1, <3>4 DEF Rests, FamilyOf
  <2>2. overtaken \subseteq overtaken'
    BY <1>8
  <2>3. \A m \in wire' : m \in wire \/ m.ask # "refresh"
    BY <1>6, <1>8
  <2>4. Rests' => slot' = slot /\ ~fenced
    BY <1>8 DEF Rests
  <2> QED
    BY <1>1, <1>2, <2>1, <2>2, <2>3, <2>4, EndsTips
<1>9. ASSUME Current(c), Owns(c), slot' = t, UNCHANGED <<wire, overtaken>> PROVE TipInv'
  <2>1. Follower(c) => slot = s /\ ~fenced
    BY <1>4, <1>7, <1>9
  <2>2. task[c].kind # "none" /\ overtaken \subseteq overtaken'
    BY <1>1, <1>9
  <2> QED
    BY <1>1, <1>2, <1>4, <1>9, <2>1, <2>2, TipTaken DEF t, s
<1>10. ASSUME wire' = wire, overtaken \subseteq overtaken', fenced' = TRUE PROVE TipInv'
  <2>1. ~Rests'
    BY <1>10 DEF Rests
  <2> QED
    BY <1>1, <1>2, <1>10, <2>1, EndsTips
<1> QED
  BY <1>5, <1>8, <1>9, <1>10

\* A client that starts does not hear what another waits for.
LEMMA StartTips ==
  ASSUME TipInv, SparedInv, ServerPart, LocalPart, DeviceInv, Start
  PROVE  TipInv'
<1> DEFINE c == started + 1
<1>1. /\ c \in Clients /\ UNCHANGED <<tokens, cut, wire, slot, fenced>> /\ UNCHANGED <<task, slotLock, overtaken>>
      /\ owner' = c /\ lost' = IF slotLock = 0 THEN lost ELSE lost + 1
  BY DEF Start, serverVars, deviceVars
<1>2. started \in Nat /\ c > started /\ lost \in Nat
  BY DEF LocalPart, ProcessPart, HistoryPart, Clients
<1> HIDE DEF c
<1>3. task[c].kind = "none"
  BY <1>1, <1>2, Known DEF DeviceInv, Quiet, Calm
<1>4. Begun' /\ \A m \in wire' : Recorded(m)'
  BY <1>1 DEF TipInv, Begun, Brings, Live, Recorded, FamilyOf
<1>5. Tip'
  <2> SUFFICES ASSUME Rests' PROVE StoredTip' /\ \A d \in Clients : AskedTip(d)' /\ AnsweredTip(d)'
    BY DEF Tip
  <2>1. Rests /\ lost' < 2
    BY <1>1, <1>2 DEF Rests, FamilyOf
  <2>2. StoredTip /\ \A d \in Clients : AskedTip(d) /\ AnsweredTip(d)
    BY <2>1 DEF TipInv, Tip
  <2>3. StoredTip'
    <3>1. lost' = 0 => lost = 0
      BY <1>1, <1>2
    <3> QED
      BY <1>1, <2>2, <3>1 DEF StoredTip, Answering, Follower, OfSlot, Accepted, Live, Graceful, FamilyOf
  <2>4. ASSUME NEW d \in Clients, Follower(d), task[d].at \in {"asking", "answered"}
        PROVE  d # c /\ slotLock = d /\ lost = 0 /\ lost' = 1
    <3>1. d # c
      BY <1>3, <2>4 DEF Follower
    <3>2. slotLock = d /\ d # 0
      <4>1. Locked(d) /\ d # 0
        BY DEF SparedInv, ClientSpared, Clients
      <4> QED
        BY <2>4, <4>1 DEF Locked, Follow, Follower
    <3> QED
      BY <1>1, <1>2, <2>1, <3>1, <3>2
  <2>5. ASSUME NEW d \in Clients, Asking(d), OfSlot(d)
        PROVE  slot = task[d].sent /\ lost' = 1 /\ (slot > cut => Live(slot))
    <3>1. lost = 0 /\ lost' = 1 /\ slotLock = d
      BY <2>4, <2>5 DEF Asking
    <3>2. \A e \in Clients : ~Answering(e)
      BY <2>4, <2>5, <3>1 DEF Asking, Answering
    <3> QED
      BY <2>2, <2>5, <3>1, <3>2 DEF AskedTip, StoredTip
  <2>6. ASSUME NEW d \in Clients, Answering(d), OfSlot(d)
        PROVE  lost' = 1 /\ (task[d].answer > cut => Live(task[d].answer)) /\ (slot > cut => Graceful(slot))
    <3>1. lost = 0 /\ lost' = 1
      BY <2>4, <2>6 DEF Answering
    <3> QED
      BY <2>2, <2>6, <3>1 DEF AnsweredTip
  <2>7. \A d \in Clients : AskedTip(d)'
    BY <1>1, <2>5 DEF AskedTip, Asking, Follower, OfSlot, Live, FamilyOf
  <2>8. \A d \in Clients : AnsweredTip(d)'
    BY <1>1, <2>6 DEF AnsweredTip, Answering, Follower, OfSlot, Live, Graceful, FamilyOf
  <2> QED
    BY <2>3, <2>7, <2>8
<1> QED
  BY <1>4, <1>5 DEF TipInv

\* Each answer that was under way when the process died counts as lost.
LEMMA CrashTips ==
  ASSUME TipInv, ServerPart, LocalPart, DeviceInv, Crash
  PROVE  TipInv'
<1> DEFINE D == {c \in Clients : task[c].at \in {"asking", "answered", "refused"}}
           n == Cardinality(D)
<1>1. UNCHANGED <<tokens, cut, slot, fenced>> /\ overtaken \subseteq overtaken' /\ lost' = lost + n
  BY DEF Crash, serverVars, deviceVars
<1>2. ASSUME NEW d \in Clients PROVE task'[d].kind = "none" /\ task'[d].at = ""
  BY DEF Crash, NoTask
<1>3. lost \in Nat /\ n \in Nat /\ (n = 0 => D = {})
  <2>1. IsFiniteSet(Clients)
    BY ClientsAssumption, FS_Interval DEF Clients
  <2>2. IsFiniteSet(D)
    BY <2>1, FS_Subset
  <2>3. n \in Nat /\ (n = 0 <=> D = {})
    BY <2>2, FS_CardinalityType, FS_EmptySet
  <2> QED
    BY <2>3 DEF LocalPart, HistoryPart
<1>4. ASSUME NEW d \in Clients, Answering(d) PROVE n # 0
  BY <1>3, <1>4 DEF Answering
<1> HIDE DEF n, D
<1>5. Begun'
  BY <1>2 DEF Begun, Brings
<1>6. \A m \in wire' : Recorded(m)'
  <2> SUFFICES ASSUME NEW m \in wire', m.ask = "refresh" PROVE \E o \in overtaken' : o[1] = FamilyOf(m.token)
    BY <1>1 DEF Recorded, FamilyOf
  <2>1. PICK S \in SUBSET wire :
          wire' = {[r EXCEPT !.awaited = FALSE] : r \in S} /\ overtaken' = overtaken \cup Late(S)
    BY DEF Crash
  <2>2. PICK r \in S : m = [r EXCEPT !.awaited = FALSE]
    BY <2>1
  <2>3. r \in wire /\ r \in Request
    BY <2>1, <2>2 DEF LocalPart, WirePart, Sound
  <2>4. r.ask = "refresh" /\ r.token = m.token
    BY <2>2, <2>3 DEF Request
  <2>5. <<FamilyOf(r.token), "late">> \in Late(S)
    BY <2>4 DEF Late
  <2> QED
    BY <2>1, <2>4, <2>5
<1>7. Tip'
  <2> SUFFICES ASSUME Rests' PROVE StoredTip'
    BY <1>2 DEF Tip, AskedTip, AnsweredTip, Asking, Answering, Follower
  <2>1. Rests /\ lost' < 2
    BY <1>1, <1>3 DEF Rests, FamilyOf
  <2>2. StoredTip /\ \A d \in Clients : AskedTip(d) /\ AnsweredTip(d)
    BY <2>1 DEF TipInv, Tip
  <2> SUFFICES ASSUME slot > cut PROVE Accepted(slot) /\ (lost' = 0 => Live(slot))
    BY <1>1 DEF StoredTip, Accepted, Live, Graceful
  <2>3. CASE \A d \in Clients : Answering(d) => ~OfSlot(d)
    <3>1. lost' = 0 => lost = 0
      BY <1>1, <1>3
    <3> QED
      BY <2>2, <2>3, <3>1 DEF StoredTip
  <2>4. ASSUME NEW d \in Clients, Answering(d), OfSlot(d) PROVE Accepted(slot) /\ lost' # 0
    <3>1. lost = 0 /\ lost' # 0
      BY <1>1, <1>3, <1>4, <2>1, <2>4
    <3>2. Graceful(slot)
      BY <2>2, <2>4, <3>1 DEF AnsweredTip
    <3> QED
      BY <3>1, <3>2 DEF Accepted
  <2> QED
    BY <2>3, <2>4
<1> QED
  BY <1>5, <1>6, <1>7 DEF TipInv

\* What a run of a request tells whom.
LEMMA AnswerTells ==
  ASSUME ServerPart, LocalPart, DeviceInv, NEW m \in wire, NEW at \in {"answered", "refused", "challenged", "wrong", "expired"},
         NEW t, Answers(m, at, t)
  PROVE  /\ m.by \in Clients /\ (\A d \in Clients : d # m.by => task'[d] = task[d])
         /\ IF m.awaited
            THEN /\ task[m.by].at = "asking" /\ task[m.by].sent = m.token /\ AskOf(task[m.by].kind) = m.ask
                 /\ task'[m.by].at = at /\ task'[m.by].answer = t
                 /\ task'[m.by].kind = task[m.by].kind /\ task'[m.by].sent = task[m.by].sent
            ELSE task' = task
<1>1. m.by \in Clients /\ task \in [Clients -> TaskRecord]
  BY Known DEF LocalPart, WirePart, Sound, Request
<1>2. CASE ~m.awaited
  BY <1>1, <1>2 DEF Answers
<1>3. CASE m.awaited
  <2> DEFINE q == [task[m.by] EXCEPT !.at = at, !.answer = t]
  <2>1. task[m.by].at = "asking" /\ task[m.by].sent = m.token /\ AskOf(task[m.by].kind) = m.ask
    BY <1>3 DEF DeviceInv, Awaited
  <2>2. q.at = at /\ q.answer = t /\ q.kind = task[m.by].kind /\ q.sent = task[m.by].sent
    BY <1>1 DEF TaskRecord
  <2>3. task'[m.by] = q /\ \A d \in Clients : d # m.by => task'[d] = task[d]
    BY <1>1, <1>3 DEF Answers
  <2> HIDE DEF q
  <2> QED
    BY <1>1, <1>3, <2>1, <2>2, <2>3
<1> QED
  BY <1>2, <1>3

\* What the server hears next is asked by nobody new, and who is told waits no more.
Hears ==
  /\ UNCHANGED <<slot, fenced, owner, lost, overtaken>>
  /\ \A m \in wire' : \E n \in wire : m.ask = n.ask /\ m.token = n.token /\ m.awaited = n.awaited
  /\ \A d \in Clients :
       \/ task'[d] = task[d]
       \/ /\ task[d].at = "asking" /\ task'[d].at \notin {"", "slot", "asking"}
          /\ task'[d].kind = task[d].kind /\ task'[d].sent = task[d].sent
          /\ task'[d].at = "answered" => task'[d].answer = New

\* A pair for one login, or the end of it, or of all, leaves the others as they are.
LEMMA ServedTips ==
  ASSUME TipInv, SparedInv, ServerPart, LocalPart, DeviceInv, Grown, Hears, cut' = cut \/ cut' = Len(tokens), NEW g,
         \A x \in Token : x > cut' /\ FamilyOf(x) # g => tokens'[x] = tokens[x],
         \A d \in Clients : Brings(d) => task[d].answer # g,
         \A d \in Clients : task[d].at = "asking" /\ task'[d].at = "answered" =>
           /\ tokens'[New].state = "live"
           /\ Follower(d) => FamilyOf(task[d].sent) = g,
         Rests => FamilyOf(slot) # g \/ Tip'
  PROVE  TipInv'
<1> DEFINE Same(x) == tokens'[x] = tokens[x]
           Fam(x) == tokens'[x].family
<1>1. /\ Token = 1..Len(tokens) /\ Len(tokens) \in Nat /\ cut \in Nat
      /\ \A x \in Token : FamilyOf(x) \in Token /\ Fam(x) = FamilyOf(x)
      /\ \A x \in Token : x > cut' => x > cut /\ cut' = cut /\ (FamilyOf(x) # g => Same(x))
  <2>1. Token = 1..Len(tokens) /\ Len(tokens) \in Nat /\ cut \in Nat
    BY DEF ServerPart, ServerTypeOK, Token
  <2>2. \A x \in Token : x > cut' => cut' = cut
    BY <2>1
  <2>3. \A x \in Token : FamilyOf(x) \in Token
    BY FamilyIs
  <2> QED
    BY <2>1, <2>2, <2>3 DEF Grown, FamilyOf
<1>2. /\ slot \in {0} \cup Token
      /\ \A d \in Clients : /\ task[d].sent \in {0} \cup Token
                            /\ task[d].at = "answered" => task[d].answer \in Token
  BY RecordsOf DEF Genuine, LocalPart, SlotPart
<1>3. \A d \in Clients : Fits(task[d], tokens)
  BY DEF DeviceInv, AllFit
<1> HIDE DEF Same, Fam
<1>4. Begun'
  <2> SUFFICES ASSUME NEW d \in Clients, Brings(d)', task'[d].answer > cut'
               PROVE  tokens'[task'[d].answer].state = "live"
    BY DEF Begun, Live
  <2>1. CASE task'[d] = task[d]
    <3>1. Brings(d) /\ task[d].answer \in Token /\ FamilyOf(task[d].answer) = task[d].answer
      BY <1>2, <1>3, <2>1 DEF Brings, Fits, FamilyOf
    <3>2. Same(task[d].answer) /\ task[d].answer > cut
      BY <1>1, <2>1, <3>1
    <3> QED
      BY <2>1, <3>1, <3>2 DEF TipInv, Begun, Live, Same
  <2>2. CASE task'[d] # task[d]
    BY <2>2 DEF Hears, Brings
  <2> QED
    BY <2>1, <2>2
<1>5. \A m \in wire' : Recorded(m)'
  <2> SUFFICES ASSUME NEW m \in wire', m.ask = "refresh", ~m.awaited
               PROVE  \E o \in overtaken : o[1] = tokens'[m.token].family
    BY DEF Recorded, FamilyOf, Hears
  <2>1. PICK n \in wire : n.ask = "refresh" /\ n.token = m.token /\ ~n.awaited
    BY DEF Hears
  <2>2. n.token \in Token
    BY <2>1 DEF LocalPart, WirePart, Sound, Request
  <2>3. \E o \in overtaken : o[1] = FamilyOf(n.token)
    BY <2>1 DEF TipInv, Recorded
  <2> QED
    BY <1>1, <2>1, <2>2, <2>3 DEF Fam
<1>6. CASE ~Rests
  <2>1. ~Rests'
    <3>1. slot' = slot /\ (slot # 0 => tokens'[slot].family = FamilyOf(slot))
      BY <1>1, <1>2 DEF Fam, Hears
    <3> QED
      BY <1>6, <3>1 DEF Rests, FamilyOf, Hears
  <2> QED
    BY <1>4, <1>5, <2>1 DEF TipInv, Tip
<1>7. CASE Rests /\ FamilyOf(slot) # g
  <2>1. slot \in Token /\ Fam(slot) = FamilyOf(slot) /\ slot' = slot /\ lost' = lost /\ owner' = owner
    BY <1>1, <1>2, <1>7 DEF Rests, Hears
  <2>2. StoredTip /\ \A d \in Clients : AskedTip(d) /\ AnsweredTip(d)
    BY <1>7 DEF TipInv, Tip
  <2>3. ASSUME slot > cut'
        PROVE  /\ slot > cut
               /\ tokens'[slot] = tokens[slot]
               /\ Graceful(slot) => Graceful(slot)'
    <3>1. slot > cut /\ cut' = cut /\ Same(slot)
      BY <1>1, <1>7, <2>1, <2>3
    <3>2. ASSUME Graceful(slot) PROVE tokens[slot].state = "rotated" /\ tokens'[tokens[slot].next].state = "live"
      <4> DEFINE n == tokens[slot].next
      <4>1. n \in Token /\ FamilyOf(n) = FamilyOf(slot) /\ tokens[n].state = "live" /\ tokens[slot].state = "rotated"
        BY <2>1, <3>2 DEF ServerPart, TokensInv, Successors, Graceful, FamilyOf
      <4>2. Same(n)
        <5>1. n > cut
          BY <4>1 DEF ServerPart, TokensInv, LiveIsAfter
        <5> QED
          BY <1>1, <1>7, <3>1, <4>1, <5>1
      <4> QED
        BY <4>1, <4>2 DEF Same
    <3> QED
      BY <2>1, <3>1, <3>2 DEF Same, Graceful
  <2>4. \A d \in Clients : (Asking(d)' => task'[d] = task[d]) /\ (Answering(d) => task'[d] = task[d])
    BY DEF Hears, Asking, Answering
  <2>5. \A d \in Clients : task'[d].sent = task[d].sent
    BY DEF Hears
  <2>6. ASSUME NEW d \in Clients, Follower(d), task[d].at \in {"asking", "answered"}, OfSlot(d)' PROVE OfSlot(d)
    <3>1. Fam(task[d].sent) = FamilyOf(slot)
      BY <2>1, <2>5, <2>6 DEF OfSlot, FamilyOf, Fam
    <3>2. Locked(d)
      BY DEF SparedInv, ClientSpared
    <3>3. task[d].sent \in Token
      BY <1>2, <2>6, <3>2 DEF Locked, Follower, Follow
    <3> QED
      BY <1>1, <3>1, <3>3 DEF OfSlot
  <2>7. StoredTip'
    <3> SUFFICES ASSUME slot > cut', \A d \in Clients : Answering(d)' => ~OfSlot(d)'
                 PROVE  Accepted(slot)' /\ (lost = 0 => Live(slot)')
      BY <2>1 DEF StoredTip, Accepted, Live, Graceful
    <3>1. ASSUME NEW d \in Clients, Answering(d), OfSlot(d) PROVE FALSE
      <4>1. Answering(d)'
        BY <2>4, <3>1 DEF Answering, Follower
      <4>2. task[d].sent \in Token
        BY <1>2, <1>3, <3>1 DEF Answering, Follower, Fits
      <4>3. OfSlot(d)'
        BY <1>1, <2>1, <2>5, <3>1, <4>2 DEF OfSlot, FamilyOf, Fam
      <4> QED
        BY <4>1, <4>3
    <3>2. Accepted(slot) /\ (lost = 0 => Live(slot))
      BY <2>2, <2>3, <3>1 DEF StoredTip
    <3> QED
      BY <2>1, <2>3, <3>2 DEF Accepted, Live
  <2>8. ASSUME NEW d \in Clients PROVE AskedTip(d)'
    <3> SUFFICES ASSUME Asking(d)', OfSlot(d)'
                 PROVE  slot = task[d].sent /\ (owner # d => lost = 1 /\ (slot > cut' => Live(slot)'))
      BY <2>1, <2>5 DEF AskedTip, Live
    <3>1. Asking(d)
      BY <2>4 DEF Asking, Follower
    <3>2. OfSlot(d)
      BY <2>6, <3>1 DEF Asking
    <3> QED
      BY <2>1, <2>2, <2>3, <3>1, <3>2 DEF AskedTip, Live
  <2>9. ASSUME NEW d \in Clients PROVE AnsweredTip(d)'
    <3> SUFFICES ASSUME Answering(d)', OfSlot(d)' PROVE AnsweredTip(d)'
      BY DEF AnsweredTip
    <3>1. CASE task'[d] = task[d]
      <4>1. Answering(d) /\ OfSlot(d)
        BY <2>6, <3>1 DEF Answering, Follower
      <4>2. task[d].answer \in Token /\ FamilyOf(task[d].answer) = FamilyOf(slot)
        BY <1>2, <1>3, <4>1 DEF Answering, Follower, OfSlot, Fits, FamilyOf
      <4>3. task[d].answer > cut' => task[d].answer > cut /\ Same(task[d].answer)
        BY <1>1, <1>7, <4>2
      <4>4. task'[d].answer > cut' => tokens'[task'[d].answer].state = "live"
        BY <2>2, <3>1, <4>1, <4>3 DEF AnsweredTip, Live, Same
      <4>5. owner' # d => lost' = 1
        BY <2>1, <2>2, <4>1 DEF AnsweredTip
      <4>6. slot' > cut' /\ (owner' = d => lost' = 0) => Graceful(slot)'
        BY <2>1, <2>2, <2>3, <4>1 DEF AnsweredTip
      <4> QED
        BY <4>4, <4>5, <4>6 DEF AnsweredTip, Live
    <3>2. CASE task'[d] # task[d]
      <4>1. task[d].at = "asking" /\ task'[d].at = "answered" /\ Follower(d)
        BY <3>2 DEF Hears, Answering, Follower
      <4>2. OfSlot(d)
        BY <2>6, <4>1
      <4> QED
        BY <1>7, <4>1, <4>2 DEF OfSlot
    <3> QED
      BY <3>1, <3>2
  <2> QED
    BY <1>4, <1>5, <2>7, <2>8, <2>9 DEF TipInv, Tip
<1> QED
  BY <1>4, <1>5, <1>6, <1>7 DEF TipInv

\* What a token that is added leaves.
LEMMA OneMore ==
  ASSUME ServerPart, NEW T \in Seq(TokenRecord), Len(T) = Len(tokens), NEW r \in TokenRecord, tokens' = Append(T, r)
  PROVE  tokens'[New] = r /\ \A x \in Token : tokens'[x] = T[x]
<1>1. Append(T, r)[Len(T) + 1] = r /\ \A i \in 1..Len(T) : Append(T, r)[i] = T[i]
  BY AppendsOne
<1> QED
  BY <1>1 DEF New, Token

\* A rotation leaves the other logins; its new token is live, and the one it is for is
\* accepted, before it or after it; a token it refuses is not.
LEMMA RotateLeaves ==
  ASSUME ServerPart, NEW m, Rotate(m), m.token \in Token
  PROVE  /\ \A x \in Token : FamilyOf(x) # FamilyOf(m.token) => tokens'[x] = tokens[x]
         /\ \/ /\ Answers(m, "answered", New) /\ tokens'[New].state = "live"
               /\ \/ Live(m.token) /\ tokens'[m.token].state = "rotated" /\ tokens'[m.token].next = New
                  \/ Graceful(m.token) /\ ~Live(m.token)
            \/ Answers(m, "refused", 0) /\ ~Accepted(m.token)
<1> DEFINE t == m.token
           p == Pair(FamilyOf(t), tokens[t].proved)
           n == tokens[t].next
<1>1. /\ tokens \in Seq(TokenRecord) /\ Token = 1..Len(tokens) /\ New = Len(tokens) + 1 /\ New \in Nat /\ New # 0
      /\ tokens[t] \in TokenRecord
  BY DEF ServerPart, ServerTypeOK, Token, New
<1>2. p \in TokenRecord /\ p.state = "live"
  BY <1>1 DEF Pair, TokenRecord, FamilyOf
<1> HIDE DEF p
<1>3. CASE tokens[t].state = "live" /\ tokens' = Append(Retire(tokens, t, New), p) /\ Answers(m, "answered", New)
  <2> DEFINE R == Retire(tokens, t, New)
  <2>1. /\ R \in Seq(TokenRecord) /\ Len(R) = Len(tokens) /\ R[t].state = "rotated" /\ R[t].next = New
        /\ \A j \in 1..Len(tokens) \ {t} : R[j] = tokens[j]
    BY <1>1, RetireKeeps
  <2> HIDE DEF R
  <2>2. tokens' = Append(R, p)
    BY <1>3 DEF R
  <2>3. tokens'[New] = p /\ \A i \in Token : tokens'[i] = R[i]
    BY <1>2, <2>1, <2>2, OneMore
  <2> QED
    BY <1>1, <1>2, <1>3, <2>1, <2>3 DEF Live
<1>4. CASE Graceful(t) /\ tokens' = Append(Retire(tokens, n, 0), p) /\ Answers(m, "answered", New)
  <2> DEFINE R == Retire(tokens, n, 0)
  <2>1. n \in Token /\ FamilyOf(n) = FamilyOf(t) /\ ~Live(t)
    BY <1>4 DEF Graceful, ServerPart, TokensInv, Successors, FamilyOf, Live
  <2>2. R \in Seq(TokenRecord) /\ Len(R) = Len(tokens) /\ \A j \in 1..Len(tokens) \ {n} : R[j] = tokens[j]
    BY <1>1, <2>1, RetireKeeps
  <2> HIDE DEF R
  <2>3. tokens' = Append(R, p)
    BY <1>4 DEF R
  <2>4. tokens'[New] = p /\ \A i \in Token : tokens'[i] = R[i]
    BY <1>2, <2>2, <2>3, OneMore
  <2> QED
    BY <1>1, <1>2, <1>4, <2>1, <2>2, <2>4
<1>5. CASE tokens[t].state = "revoked" /\ UNCHANGED tokens /\ Answers(m, "refused", 0)
  BY <1>5 DEF Accepted, Graceful
<1>6. CASE /\ tokens[t].state \in {"rotated", "retired"} /\ ~Graceful(t)
           /\ tokens' = EndFamily(tokens, FamilyOf(t)) /\ Answers(m, "refused", 0)
  <2>1. \A i \in 1..Len(tokens) :
          RevokeAll(tokens, {FamilyOf(t)})[i] = IF tokens[i].state = "live" /\ tokens[i].family \in {FamilyOf(t)}
                                                THEN [tokens[i] EXCEPT !.state = "revoked"] ELSE tokens[i]
    BY <1>1, RevokeAllKeeps
  <2>2. \A i \in Token : FamilyOf(i) # FamilyOf(t) => tokens'[i] = tokens[i]
    BY <1>1, <1>6, <2>1 DEF EndFamily, FamilyOf
  <2> QED
    BY <1>6, <2>2 DEF Accepted, Live
<1> QED
  BY <1>3, <1>4, <1>5, <1>6 DEF Rotate, p

\* A request that is run tells who waits for it, and nobody else.
LEMMA RunHears ==
  ASSUME ServerPart, LocalPart, DeviceInv, NEW m \in wire,
         NEW at \in {"answered", "refused", "challenged", "wrong", "expired"}, NEW t, Answers(m, at, t),
         at = "answered" => t = New
  PROVE  /\ Hears
         /\ \A d \in Clients : task'[d] # task[d] =>
              m.awaited /\ d = m.by /\ AskOf(task[d].kind) = m.ask /\ task'[d].at = at /\ task[d].sent = m.token
<1>1. /\ UNCHANGED <<slot, fenced, owner, lost, overtaken>> /\ \A n \in wire' : n \in wire
  BY DEF Answers, deviceVars, processVars, historyVars
<1>2. ASSUME NEW d \in Clients, task'[d] # task[d]
      PROVE  /\ m.awaited /\ d = m.by /\ AskOf(task[d].kind) = m.ask /\ task'[d].at = at /\ task[d].sent = m.token
             /\ task[d].at = "asking" /\ task'[d].kind = task[d].kind /\ task'[d].sent = task[d].sent /\ task'[d].answer = t
  BY <1>2, AnswerTells
<1>3. at \notin {"", "slot", "asking"}
  OBVIOUS
<1> QED
  BY <1>1, <1>2, <1>3 DEF Hears

\* Any request but a refresh.
LEMMA RunTips ==
  ASSUME TipInv, SparedInv, ServerPart, LocalPart, DeviceInv, Grown, NEW m \in wire, m.ask # "refresh",
         NEW at \in {"answered", "refused", "challenged", "wrong", "expired"}, NEW t, Answers(m, at, t),
         at = "answered" => t = New /\ tokens'[New].state = "live",
         cut' = cut \/ cut' = Len(tokens),
         \/ m.ask = "logout" /\ \A x \in Token : FamilyOf(x) # FamilyOf(m.token) => tokens'[x] = tokens[x]
         \/ \A x \in Token : x > cut' => tokens'[x] = tokens[x]
  PROVE  TipInv'
<1>1. /\ Hears
      /\ \A d \in Clients : task'[d] # task[d] =>
           m.awaited /\ d = m.by /\ AskOf(task[d].kind) = m.ask /\ task'[d].at = at /\ task[d].sent = m.token
  BY RunHears
<1>2. \A d \in Clients : task[d].at = "asking" /\ task'[d].at = "answered" =>
        tokens'[New].state = "live" /\ ~Follower(d)
  <2> SUFFICES ASSUME NEW d \in Clients, task[d].at = "asking", task'[d].at = "answered"
               PROVE  tokens'[New].state = "live" /\ ~Follower(d)
    OBVIOUS
  <2>1. task'[d] # task[d]
    OBVIOUS
  <2> QED
    BY <1>1, <2>1 DEF AskOf, Follower
<1>3. CASE m.ask = "logout" /\ \A x \in Token : FamilyOf(x) # FamilyOf(m.token) => tokens'[x] = tokens[x]
  <2> DEFINE g == FamilyOf(m.token)
  <2>1. \A d \in Clients : Brings(d) => task[d].answer # g
    <3>1. m.token # 0
      BY <1>3 DEF LocalPart, WirePart, Sound
    <3> QED
      BY <1>3, <3>1 DEF SparedInv, Apart, Foreign
  <2>2. Rests => FamilyOf(slot) # g
    <3>1. ~Alive(g)
      BY <1>3 DEF SparedInv, SlotSpared
    <3> QED
      BY <3>1 DEF Rests, Alive, Stands, FamilyOf
  <2> HIDE DEF g
  <2>3. \A x \in Token : FamilyOf(x) # g => tokens'[x] = tokens[x]
    BY <1>3 DEF g
  <2> QED
    BY <1>1, <1>2, <2>1, <2>2, <2>3, ServedTips
<1>4. CASE \A x \in Token : x > cut' => tokens'[x] = tokens[x]
  <2>1. \A d \in Clients : Brings(d) => task[d].answer # 0
    BY RecordsOf DEF Brings, Genuine, Token
  <2>2. Rests => FamilyOf(slot) # 0
    BY FamilyIs DEF Rests, LocalPart, SlotPart, Token
  <2> QED
    BY <1>1, <1>2, <1>4, <2>1, <2>2, ServedTips
<1> QED
  BY <1>3, <1>4

\* The token that is stored is refreshed: its client has the lock, and is told.
LEMMA SlotRotates ==
  ASSUME TipInv, SparedInv, ServerPart, LocalPart, DeviceInv, NEW m \in wire, Rotate(m),
         Rests, FamilyOf(slot) = FamilyOf(m.token)
  PROVE  Tip'
<1> DEFINE d == m.by
<1>1. m.ask = "refresh" /\ m.token \in Token /\ cut' = cut /\ cut \in Nat
  BY DEF Rotate, LocalPart, WirePart, Sound, Request, ServerPart, ServerTypeOK
<1>2. /\ d \in Clients /\ m.awaited
      /\ task[d].at = "asking" /\ task[d].sent = m.token /\ Follower(d)
  <2>1. m.awaited
    BY <1>1 DEF TipInv, Recorded, Rests
  <2>2. m.by \in Clients /\ task[m.by].at = "asking" /\ task[m.by].sent = m.token /\ AskOf(task[m.by].kind) = "refresh"
    BY <1>1, <2>1 DEF DeviceInv, Awaited, LocalPart, WirePart, Sound, Request
  <2> QED
    BY <2>1, <2>2 DEF AskOf, Follower
<1>3. /\ StoredTip /\ slot = m.token /\ lost < 2 /\ lost \in Nat
      /\ owner # d => lost = 1 /\ (slot > cut => Live(slot))
  BY <1>2 DEF TipInv, Tip, AskedTip, Asking, OfSlot, Rests, LocalPart, HistoryPart
<1>4. \A e \in Clients : e # d => ~(Follower(e) /\ task[e].at \in {"asking", "answered"})
  <2>1. \A e \in Clients : Locked(e)
    BY DEF SparedInv, ClientSpared
  <2>2. \A e \in Clients : Follower(e) /\ task[e].at \in {"asking", "answered"} => slotLock = e
    BY <2>1 DEF Locked, Follower, Follow
  <2> QED
    BY <1>2, <2>2
<1>5. slot > cut => Accepted(slot) /\ (lost = 0 => Live(slot))
  <2>1. \A e \in Clients : ~Answering(e)
    BY <1>2, <1>4 DEF Answering
  <2> QED
    BY <1>3, <2>1 DEF StoredTip
<1>6. slot' = slot /\ owner' = owner /\ lost' = lost
  BY DEF Rotate, Answers, deviceVars, processVars, historyVars
<1>7. ASSUME NEW at \in {"answered", "refused"}, NEW t, Answers(m, at, t)
      PROVE  /\ \A e \in Clients : e # d => task'[e] = task[e]
             /\ task'[d].at = at /\ task'[d].answer = t /\ task'[d].kind = task[d].kind /\ task'[d].sent = slot
  BY <1>2, <1>3, <1>7, AnswerTells
<1> HIDE DEF d
<1>8. CASE Answers(m, "refused", 0) /\ ~Accepted(m.token)
  <2>1. ~(slot > cut)
    BY <1>3, <1>5, <1>8
  <2>2. \A e \in Clients : ~Asking(e)' /\ ~Answering(e)'
    BY <1>4, <1>7, <1>8 DEF Asking, Answering, Follower
  <2> QED
    BY <1>1, <1>6, <2>1, <2>2 DEF Tip, StoredTip, AskedTip, AnsweredTip
<1>9. ASSUME Answers(m, "answered", New), tokens'[New].state = "live",
             \/ Live(m.token) /\ tokens'[m.token].state = "rotated" /\ tokens'[m.token].next = New
             \/ Graceful(m.token) /\ ~Live(m.token)
      PROVE  Tip'
  <2>1. \A e \in Clients : e # d => ~Asking(e)' /\ ~Answering(e)'
    BY <1>4, <1>7, <1>9 DEF Asking, Answering, Follower
  <2>2. Answering(d)' /\ ~Asking(d)' /\ task'[d].answer = New /\ OfSlot(d)'
    BY <1>2, <1>6, <1>7, <1>9 DEF Asking, Answering, Follower, OfSlot, FamilyOf
  <2>3. slot > cut /\ (owner = d => lost = 0) => Graceful(slot)'
    <3> SUFFICES ASSUME slot > cut, owner = d => lost = 0 PROVE Graceful(slot)'
      OBVIOUS
    <3>1. Live(slot)
      BY <1>3, <1>5
    <3> QED
      BY <1>3, <1>6, <1>9, <3>1 DEF Graceful
  <2>4. AnsweredTip(d)'
    BY <1>1, <1>3, <1>6, <1>9, <2>2, <2>3 DEF AnsweredTip, Live
  <2>5. StoredTip'
    BY <1>2, <2>2 DEF StoredTip
  <2>6. \A e \in Clients : AskedTip(e)' /\ AnsweredTip(e)'
    <3> SUFFICES ASSUME NEW e \in Clients PROVE AskedTip(e)' /\ AnsweredTip(e)'
      OBVIOUS
    <3>1. CASE e # d
      BY <2>1, <3>1 DEF AskedTip, AnsweredTip
    <3>2. CASE e = d
      BY <2>2, <2>4, <3>2 DEF AskedTip
    <3> QED
      BY <3>1, <3>2
  <2> QED
    BY <2>5, <2>6 DEF Tip
<1> QED
  BY <1>1, <1>8, <1>9, RotateLeaves

LEMMA RotateTips ==
  ASSUME TipInv, SparedInv, ServerPart, LocalPart, DeviceInv, NEW m \in wire, Rotate(m)
  PROVE  TipInv'
<1> DEFINE g == FamilyOf(m.token)
<1>1. m.ask = "refresh" /\ m.token \in Token /\ m.token # 0 /\ cut' = cut
  BY DEF Rotate, LocalPart, WirePart, Sound, Request
<1>2. /\ Grown /\ \A x \in Token : FamilyOf(x) # g => tokens'[x] = tokens[x]
      /\ \/ Answers(m, "answered", New) /\ tokens'[New].state = "live"
         \/ Answers(m, "refused", 0)
  BY <1>1, RotateKeeps, RotateLeaves
<1>3. /\ Hears
      /\ \A d \in Clients : task[d].at = "asking" /\ task'[d].at = "answered" =>
           tokens'[New].state = "live" /\ (Follower(d) => FamilyOf(task[d].sent) = g)
  <2>1. CASE Answers(m, "answered", New) /\ tokens'[New].state = "live"
    <3>1. Hears /\ \A d \in Clients : task'[d] # task[d] => task[d].sent = m.token
      BY <2>1, RunHears
    <3> QED
      BY <2>1, <3>1
  <2>2. CASE Answers(m, "refused", 0)
    <3>1. Hears /\ \A d \in Clients : task'[d] # task[d] => task'[d].at = "refused"
      BY <2>2, RunHears
    <3> QED
      BY <3>1
  <2> QED
    BY <1>2, <2>1, <2>2
<1>4. \A d \in Clients : Brings(d) => task[d].answer # g
  BY <1>1 DEF SparedInv, Apart, Foreign
<1>5. Rests => FamilyOf(slot) # g \/ Tip'
  BY SlotRotates
<1> HIDE DEF g
<1> QED
  BY <1>1, <1>2, <1>3, <1>4, <1>5, ServedTips

\* Nobody is told anything.
LEMMA QuietTips ==
  ASSUME TipInv, SparedInv, ServerPart, LocalPart, DeviceInv, Grown, UNCHANGED <<deviceVars, processVars, clientVars, historyVars>>,
         \A m \in wire' : \E n \in wire : m.ask = n.ask /\ m.token = n.token /\ m.awaited = n.awaited,
         (cut' = cut /\ UNCHANGED tokens) \/ cut' = Len(tokens)
  PROVE  TipInv'
<1>1. Hears /\ task' = task
  BY DEF Hears, deviceVars, processVars, clientVars, historyVars
<1>2. \A d \in Clients : Brings(d) => task[d].answer # 0
  BY RecordsOf DEF Brings, Genuine, Token
<1>3. Rests => FamilyOf(slot) # 0
  BY FamilyIs DEF Rests, LocalPart, SlotPart, Token
<1>4. \A x \in Token : x > cut' => tokens'[x] = tokens[x]
  <2>1. Token = 1..Len(tokens) /\ Len(tokens) \in Nat
    BY DEF Token, ServerPart, ServerTypeOK
  <2> QED
    BY <2>1
<1> QED
  BY <1>1, <1>2, <1>3, <1>4, ServedTips

\* Every request the server runs.
LEMMA ServeTips ==
  ASSUME TipInv, SparedInv, ServerPart, LocalPart, DeviceInv, Serve
  PROVE  TipInv'
<1>1. PICK m \in wire : \/ Rotate(m) \/ EndLogin(m) \/ LogIn(m) \/ CompleteLogin(m)
                        \/ CheckSession(m) \/ ChangePassword(m) \/ Activate(m)
  BY DEF Serve
<1>2. /\ m.token \in {0} \cup Token /\ m.code \in Codes
      /\ (m.ask # "login" => m.token \in Token) /\ (m.ask \in Changes => Genuine(m.token))
  BY DEF LocalPart, WirePart, Sound, Request, Codes
<1>3. /\ tokens \in Seq(TokenRecord) /\ Token = 1..Len(tokens) /\ Len(tokens) \in Nat
      /\ EndAll(tokens) \in Seq(TokenRecord) /\ Len(EndAll(tokens)) = Len(tokens)
  BY EndAllKeeps DEF ServerPart, ServerTypeOK, Token
<1>4. CASE Rotate(m)
  BY <1>4, RotateTips
<1>5. CASE EndLogin(m)
  <2>1. m.ask = "logout" /\ cut' = cut /\ Grown /\ Answers(m, "refused", 0)
    BY <1>5, EndLoginKeeps DEF EndLogin
  <2>2. \A x \in Token : FamilyOf(x) # FamilyOf(m.token) => tokens'[x] = tokens[x]
    <3> DEFINE f == FamilyOf(m.token)
    <3>1. \A i \in 1..Len(tokens) :
            RevokeAll(tokens, {f})[i] = IF tokens[i].state = "live" /\ tokens[i].family \in {f}
                                        THEN [tokens[i] EXCEPT !.state = "revoked"] ELSE tokens[i]
      BY <1>3, RevokeAllKeeps
    <3>2. tokens' = RevokeAll(tokens, {f})
      BY <1>5 DEF EndLogin, EndFamily
    <3> HIDE DEF f
    <3>3. \A x \in Token : FamilyOf(x) # f => tokens'[x] = tokens[x]
      BY <1>3, <3>1, <3>2 DEF FamilyOf
    <3> QED
      BY <3>3 DEF f
  <2> QED
    BY <2>1, <2>2, RunTips
<1>6. CASE LogIn(m)
  <2> DEFINE q == Pair(New, FALSE)
             r == [q EXCEPT !.state = "pending"]
  <2>1. m.ask = "login" /\ cut' = cut /\ Grown
    BY <1>6, LogInKeeps DEF LogIn
  <2>2. q \in TokenRecord /\ q.state = "live"
    BY PairIs
  <2> HIDE DEF q
  <2>3. r \in TokenRecord
    BY <2>2 DEF TokenRecord
  <2> HIDE DEF r
  <2>4. CASE tokens' = Append(tokens, q) /\ Answers(m, "answered", New)
    <3>1. tokens'[New] = q /\ \A x \in Token : tokens'[x] = tokens[x]
      BY <1>3, <2>2, <2>4, OneMore
    <3>2. tokens'[New].state = "live"
      BY <2>2, <3>1
    <3> QED
      BY <2>1, <2>4, <3>1, <3>2, RunTips
  <2>5. CASE tokens' = Append(tokens, r) /\ Answers(m, "challenged", New)
    <3>1. \A x \in Token : tokens'[x] = tokens[x]
      BY <1>3, <2>3, <2>5, OneMore
    <3> QED
      BY <2>1, <2>5, <3>1, RunTips
  <2> QED
    BY <1>6, <2>4, <2>5 DEF LogIn, q, r
<1>7. CASE CompleteLogin(m)
  <2> DEFINE q == Pair(New, TRUE)
             r == [q EXCEPT !.from = m.token]
  <2>1. m.ask = "code" /\ cut' = cut /\ m.token \in Token
    BY <1>2, <1>7 DEF CompleteLogin
  <2>2. Grown
    BY <1>2, <1>7, <2>1, CompleteLoginKeeps
  <2>3. q \in TokenRecord /\ q.state = "live"
    BY PairIs
  <2> HIDE DEF q
  <2>4. r \in TokenRecord /\ r.state = "live"
    <3>1. m.token \in Nat
      BY <2>1 DEF Token
    <3> QED
      BY <2>3, <3>1 DEF TokenRecord
  <2> HIDE DEF r
  <2>5. CASE UNCHANGED tokens /\ (Answers(m, "expired", 0) \/ Answers(m, "wrong", 0))
    <3>1. \A x \in Token : x > cut' => tokens'[x] = tokens[x]
      BY <2>5
    <3> QED
      BY <2>1, <2>2, <2>5, <3>1, RunTips
  <2>6. CASE tokens' = Append(tokens, r) /\ Answers(m, "answered", New)
    <3>1. tokens'[New] = r /\ \A x \in Token : tokens'[x] = tokens[x]
      BY <1>3, <2>4, <2>6, OneMore
    <3>2. tokens'[New].state = "live"
      BY <2>4, <3>1
    <3> QED
      BY <2>1, <2>2, <2>6, <3>1, <3>2, RunTips
  <2> QED
    BY <1>7, <2>5, <2>6 DEF CompleteLogin, q, r
<1>8. CASE CheckSession(m)
  <2>1. Grown /\ tokens' = tokens /\ cut' = cut /\ m.ask # "refresh"
    <3>1. UNCHANGED serverVars /\ m.ask \in Changes
      BY <1>8 DEF CheckSession
    <3> QED
      BY <3>1, ServerStays DEF serverVars, Changes
  <2>2. CASE Answers(m, "refused", 0)
    <3>1. \A x \in Token : x > cut' => tokens'[x] = tokens[x]
      BY <2>1
    <3> QED
      BY <2>1, <2>2, <3>1, RunTips
  <2>3. CASE /\ wire' = (wire \ {m}) \cup {[m EXCEPT !.checked = TRUE]}
             /\ UNCHANGED <<budget, deviceVars, processVars, cl, marks, attempt, task, historyVars>>
    <3> DEFINE a == [m EXCEPT !.checked = TRUE]
    <3>1. a.ask = m.ask /\ a.token = m.token /\ a.awaited = m.awaited
      BY DEF LocalPart, WirePart, Sound, Request
    <3>2. wire' = (wire \ {m}) \cup {a}
      BY <2>3
    <3> HIDE DEF a
    <3>3. \A n \in wire' : \E o \in wire : n.ask = o.ask /\ n.token = o.token /\ n.awaited = o.awaited
      BY <3>1, <3>2
    <3> QED
      BY <2>1, <2>3, <3>3, QuietTips DEF clientVars
  <2> QED
    BY <1>8, <2>2, <2>3 DEF CheckSession
\* A pair for who asked, after all others ended or not.
<1>9. ASSUME NEW proved \in BOOLEAN, m.ask \in Changes, Grown, Answers(m, "answered", New),
             \/ AllButOne(proved)
             \/ tokens' = Append(tokens, Pair(New, proved)) /\ cut' = cut
      PROVE  TipInv'
  <2> DEFINE q == Pair(New, proved)
  <2>1. q \in TokenRecord /\ q.state = "live"
    BY PairIs
  <2>2. \/ tokens' = Append(EndAll(tokens), q) /\ cut' = Len(tokens)
        \/ tokens' = Append(tokens, q) /\ cut' = cut
    BY <1>9 DEF AllButOne
  <2> HIDE DEF q
  <2>3. tokens'[New] = q
    BY <1>3, <2>1, <2>2, OneMore
  <2>4. \A x \in Token : x > cut' => tokens'[x] = tokens[x]
    <3>1. CASE tokens' = Append(tokens, q)
      BY <1>3, <2>1, <3>1, OneMore
    <3>2. CASE cut' = Len(tokens)
      BY <1>3, <3>2
    <3> QED
      BY <2>2, <3>1, <3>2
  <2>5. tokens'[New].state = "live" /\ m.ask # "refresh"
    BY <1>9, <2>1, <2>3 DEF Changes
  <2> QED
    BY <1>9, <2>2, <2>4, <2>5, RunTips
<1>10. ASSUME m.ask \in Changes, Grown, Answers(m, "wrong", 0), UNCHANGED <<tokens, cut>> PROVE TipInv'
  <2>1. m.ask # "refresh" /\ \A x \in Token : x > cut' => tokens'[x] = tokens[x]
    BY <1>10 DEF Changes
  <2> QED
    BY <1>10, <2>1, RunTips
<1>11. CASE ChangePassword(m)
  <2>1. Genuine(m.token) /\ m.ask \in Changes
    BY <1>2, <1>11 DEF ChangePassword, Changes
  <2>2. Grown
    BY <1>11, <2>1, ChangePasswordKeeps
  <2>3. tokens[m.token].proved \in BOOLEAN
    <3>1. tokens[m.token] \in TokenRecord
      BY <1>3, <2>1 DEF Genuine
    <3> QED
      BY <3>1 DEF TokenRecord
  <2> QED
    BY <1>9, <1>10, <1>11, <2>1, <2>2, <2>3 DEF ChangePassword
<1>12. CASE Activate(m)
  <2>1. m.token \in Token /\ m.ask \in Changes
    BY <1>2, <1>12 DEF Activate, Changes
  <2>2. Grown
    BY <1>2, <1>12, <2>1, ActivateIsKept
  <2> QED
    BY <1>9, <1>10, <1>12, <2>1, <2>2 DEF Activate
<1> QED
  BY <1>1, <1>4, <1>5, <1>6, <1>7, <1>8, <1>11, <1>12

LEMMA ElsewhereTips ==
  ASSUME TipInv, SparedInv, ServerPart, LocalPart, DeviceInv, OtherDevice \/ Factor \/ Sockets
  PROVE  TipInv'
<1>1. Grown
  BY OtherDeviceKeeps, FactorKeeps, SocketsKeep
<1>2. UNCHANGED <<wire, deviceVars, processVars, clientVars, historyVars>>
  BY DEF OtherDevice, Factor, Enroll, Manage, ResetFactor, StepPasses, Restart, Sockets, RevokeSessions,
         Connect, Register
<1>3. (cut' = cut /\ UNCHANGED tokens) \/ cut' = Len(tokens)
  BY DEF OtherDevice, Factor, Enroll, Manage, ResetFactor, StepPasses, Restart, Sockets, RevokeSessions,
         Connect, Register
<1> QED
  BY <1>1, <1>2, <1>3, QuietTips

LEMMA NothingTips ==
  ASSUME TipInv, SparedInv, ServerPart, LocalPart, DeviceInv, UNCHANGED vars
  PROVE  TipInv'
<1>1. Grown /\ UNCHANGED <<tokens, cut>>
  <2>1. UNCHANGED serverVars
    BY DEF vars
  <2> QED
    BY <2>1, ServerStays DEF serverVars
<1>2. UNCHANGED <<wire, deviceVars, processVars, clientVars, historyVars>>
  BY DEF vars
<1> QED
  BY <1>1, <1>2, QuietTips

LEMMA InitTips == Init => TipInv
<1> SUFFICES ASSUME Init PROVE TipInv
  OBVIOUS
<1>1. slot = 0 /\ wire = {} /\ \A d \in Clients : task[d] = NoTask
  BY DEF Init
<1> QED
  BY <1>1, NoTaskIs DEF TipInv, Tip, Rests, Begun, Brings

\* Every step of a client.
LEMMA ClientTips ==
  ASSUME TipInv, SparedInv, ServerPart, LocalPart, DeviceInv, NEW c \in Clients, Client(c)
  PROVE  TipInv'
<1>1. CASE AskLogin(c) \/ Back(c) \/ EnterCode(c) \/ Logout(c) \/ Quit(c)
  BY <1>1, AskLoginTips, BackTips, EnterCodeTips, LogoutTips, QuitTips
<1>2. CASE BeginLogin(c) \/ Begin(c) \/ RestoreReads(c) \/ RefreshBegins(c) \/ PasswordBegins(c)
  BY <1>2, BeginLoginTips, BeginTips, RestoreReadsTips, RefreshBeginsTips, PasswordBeginsTips
<1>3. CASE Lose(c) \/ Committed(c) \/ Installed(c) \/ Refused(c)
  BY <1>3, LoseTips, CommittedTips, InstalledTips, RefusedTips
<1>4. CASE Challenged(c) \/ TurnedDown(c)
  BY <1>4, ChallengedTips
<1> QED
  BY <1>1, <1>2, <1>3, <1>4 DEF Client

LEMMA NextTips == IInv /\ DeviceInv /\ SparedInv /\ TipInv /\ [Next]_vars => TipInv'
<1> SUFFICES ASSUME ServerPart, LocalPart, DeviceInv, SparedInv, TipInv, [Next]_vars PROVE TipInv'
  BY DEF IInv
<1>1. CASE Start \/ Crash
  BY <1>1, StartTips, CrashTips
<1>2. CASE OtherDevice \/ Factor \/ Sockets
  BY <1>2, ElsewhereTips
<1>3. CASE Serve
  BY <1>3, ServeTips
<1>4. CASE \E c \in Clients : Client(c)
  BY <1>4, ClientTips
<1>5. CASE UNCHANGED vars
  BY <1>5, NothingTips
<1> QED
  BY <1>1, <1>2, <1>3, <1>4, <1>5 DEF Next

\* Nobody waits for an answer that what is stored, or what the owner has, depends on.
LEMMA TipsRefresh == IInv /\ SparedInv /\ TipInv => Refreshable
<1> SUFFICES ASSUME ServerPart, LocalPart, SparedInv, TipInv PROVE Refreshable
  BY DEF IInv
<1> DEFINE All == {"quit", "sign-in", "sign-out", "write", "late"}
<1>1. \A f : Undisturbed(f, All) => \A o \in overtaken : o[1] # f
  BY DEF Undisturbed, LocalPart, HistoryPart
<1>2. cut \in Nat /\ lost \in Nat
  BY DEF ServerPart, ServerTypeOK, LocalPart, HistoryPart
<1>3. ASSUME NEW d \in Clients, Answering(d) PROVE slotLock = d /\ d # 0
  <2>1. Locked(d) /\ d # 0
    BY DEF SparedInv, ClientSpared, Clients
  <2> QED
    BY <1>3, <2>1 DEF Locked, Answering, Follower, Follow
<1>4. StoredGood(All)
  <2> SUFFICES ASSUME lost < 2, slot > cut, ~fenced, slotLock = 0, Undisturbed(FamilyOf(slot), All)
               PROVE  Accepted(slot)
    BY DEF StoredGood
  <2>1. Rests
    BY <1>1, <1>2 DEF Rests
  <2> QED
    BY <1>3, <2>1 DEF TipInv, Tip, StoredTip
<1>5. ASSUME NEW c \in Clients, lost < 2, cl[c].session > cut, Owns(c), task[c].kind = "none",
             Undisturbed(FamilyOf(cl[c].session), All)
      PROVE  Accepted(cl[c].session)
  <2>1. \A o \in overtaken : o[1] # FamilyOf(cl[c].session)
    BY <1>1, <1>5
  <2>2. slot = cl[c].session /\ ~fenced /\ slot # 0
    <3>1. OwnersSession(c)
      BY DEF SparedInv, ClientSpared
    <3> QED
      BY <1>2, <1>5, <2>1, <3>1 DEF OwnersSession, Owns
  <2>3. StoredTip /\ \A d \in Clients : AnsweredTip(d)
    BY <1>5, <2>1, <2>2 DEF Rests, TipInv, Tip
  <2>4. CASE \A d \in Clients : Answering(d) => ~OfSlot(d)
    BY <1>5, <2>2, <2>3, <2>4 DEF StoredTip
  <2>5. ASSUME NEW d \in Clients, Answering(d), OfSlot(d) PROVE Accepted(slot)
    <3>1. owner # d
      BY <1>5, <2>5 DEF Owns, Answering, Follower
    <3> QED
      BY <1>5, <2>2, <2>3, <2>5, <3>1 DEF AnsweredTip, Accepted
  <2> QED
    BY <2>2, <2>4, <2>5
<1> HIDE DEF All
<1> QED
  BY <1>4, <1>5 DEF Refreshable, All

\* Unless two answers were lost, what is stored is good for the next launch, and what the signed-in
\* client has for its next refresh, whatever was repeated, replaced or restarted meanwhile (auth.py,
\* _rotate; client.rs, refresh_once), but for a sign-out everywhere and what is recorded of that login.
THEOREM StaysRefreshable == Spec => []Refreshable
<1>1. IInv /\ SparedInv /\ TipInv => Refreshable
  BY TipsRefresh
<1>2. SparedInv => \A c \in Clients : Apart(c)
  BY DEF SparedInv
<1> QED
  BY <1>1, <1>2, InvariantHolds, InitStores, NextStores, InitSpares, NextSpares, InitTips, NextTips, PTL DEF Spec

=============================================================================
