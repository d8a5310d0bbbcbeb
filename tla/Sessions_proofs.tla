--------------------------- MODULE Sessions_proofs ---------------------------
(***************************************************************************)
(* Theorems about Sessions, for every set of sessions, tokens and requests *)
(* and every choice of the windows.                                        *)
(***************************************************************************)
EXTENDS Sessions, TLAPS

\* Which rows a request in flight holds on to, by where it has got to.
Renewing == {"read", "spend", "judge", "rescue", "retire"}
Stamped == {"spend", "judge", "rescue", "retire", "ending"}
Holding == Renewing \cup {"begun", "account", "revoke", "change"}

\* Rows point at rows that exist, and an unissued token is unspent.
RowsOK ==
  /\ \A t \in Token : Issued(t) => Exists(token[t].sid)
  /\ \A t \in Token : ~Issued(t) => token[t].usedAt = Never

\* What a request in flight holds is there, and was read no later than now.
HeldOK(q) ==
  /\ q.pc \in Holding => q.sid \in Session /\ Exists(q.sid)
  /\ q.pc \in Renewing => q.token \in Token /\ token[q.token].sid = q.sid
  /\ q.pc \in Stamped => q.at \in 0..now
  /\ q.pc = "ending" => \A s \in q.ending : Exists(s)
RequestsOK == \A r \in Request : HeldOK(request[r])

\* Between its two inserts a sign-in is alone with its session: no token names
\* the session yet, and no other sign-in inserted it.
SignInsOK ==
  \A r \in Request : request[r].pc = "begun" =>
    /\ \A t \in Token : token[t].sid # request[r].sid
    /\ \A q \in Request : q # r /\ request[q].pc = "begun" =>
                            request[q].sid # request[r].sid

\* Only a spent token has been exchanged.
ExchangedOK == \A t \in Token : token[t].usedAt = Never => exchangedFor[t] = {}

IInv ==
  /\ TypeOK /\ RowsOK /\ RequestsOK /\ SignInsOK /\ ExchangedOK
  /\ OneSuccessor /\ OneLiveTokenUntilRescue /\ ExpiryBounded
-----------------------------------------------------------------------------

LEMMA InitInv == Init => IInv
<1> SUFFICES ASSUME Init PROVE IInv
  OBVIOUS
<1> USE WindowsAssumption, AbsentAssumption
    DEF Init, Idle, Absent, Never, Time, Exists, Issued, Unspent
<1>1. TypeOK
  BY DEF TypeOK, Account, SessionRow, TokenRow, RequestState, Step
<1>2. RowsOK /\ RequestsOK /\ SignInsOK /\ ExchangedOK
  BY DEF RowsOK, RequestsOK, HeldOK, SignInsOK, ExchangedOK, Holding, Renewing,
         Stamped
<1>3. OneSuccessor /\ OneLiveTokenUntilRescue /\ ExpiryBounded
  BY DEF OneSuccessor, OneLiveTokenUntilRescue, ExpiryBounded
<1> QED
  BY <1>1, <1>2, <1>3 DEF IInv

\* A statement that only reads: one request moves on, to a state whose rows it
\* has just seen.
LEMMA ReadPreserves ==
  ASSUME IInv, NEW r \in Request, NEW q \in RequestState,
         HeldOK(q), q.pc # "begun", Goto(r, q), UNCHANGED <<now, rows, history>>
  PROVE  IInv'
<1> USE DEF Goto, rows, history
<1>1. TypeOK'
  BY DEF IInv, TypeOK
<1>2. RowsOK' /\ ExchangedOK'
  BY DEF IInv, RowsOK, ExchangedOK, Issued, Exists
<1>3. RequestsOK'
  BY DEF IInv, TypeOK, RequestsOK, HeldOK, Exists
<1>4. SignInsOK'
  BY DEF IInv, TypeOK, SignInsOK
<1>5. OneSuccessor' /\ OneLiveTokenUntilRescue' /\ ExpiryBounded'
  BY DEF IInv, OneSuccessor, OneLiveTokenUntilRescue, ExpiryBounded, Unspent,
         Exists
<1> QED
  BY <1>1, <1>2, <1>3, <1>4, <1>5 DEF IInv

\* A revoked row is a row, dated now or earlier.
LEMMA RevokedIsRow ==
  ASSUME TypeOK, NEW s \in Session, NEW t \in 0..now
  PROVE  Revoked(s, t) \in SessionRow
  BY DEF TypeOK, SessionRow, Revoked, Time

\* Ending sessions: some rows get a revokedAt no later than now, nothing else about them
\* changes, and the request that did it, if any, is done.
LEMMA EndPreserves ==
  ASSUME IInv, NEW t \in 0..now,
         session' \in [Session -> SessionRow],
         \A s \in Session : session'[s] \in {session[s], Revoked(s, t)},
         account' \in Account, provedBy' \in [Session -> Nat], floor' \in Nat,
         slipped' \subseteq Session,
         \/ UNCHANGED request
         \/ \E r \in Request : Goto(r, Idle),
         UNCHANGED <<now, token, exchangedFor>>
  PROVE  IInv'
<1> USE DEF Revoked, Never
<1>1. \A s \in Session :
        /\ session'[s].createdAt = session[s].createdAt
        /\ session'[s].expiresAt = session[s].expiresAt
        /\ session'[s].recoveredAt = session[s].recoveredAt
        /\ session'[s].revokedAt <= now
  BY DEF IInv, TypeOK, SessionRow, Time
<1>2. \A q \in Request : request'[q] \in {request[q], Idle}
  BY DEF Goto, IInv, TypeOK
<1>3. TypeOK'
  <2>1. request' \in [Request -> RequestState]
    BY WindowsAssumption, AbsentAssumption
    DEF IInv, TypeOK, Goto, Idle, RequestState, Step, Time
  <2> QED
    BY <1>1, <2>1 DEF IInv, TypeOK
<1>4. RowsOK' /\ ExchangedOK'
  BY <1>1 DEF IInv, TypeOK, TokenRow, RowsOK, ExchangedOK, Issued, Exists
<1>5. RequestsOK'
  <2> SUFFICES ASSUME NEW q \in Request PROVE HeldOK(request[q])'
    BY DEF RequestsOK
  <2>1. request[q].ending \subseteq Session /\ HeldOK(request[q])
    BY DEF IInv, TypeOK, RequestState, RequestsOK
  <2>2. CASE request'[q] = request[q]
    BY <1>1, <2>1, <2>2 DEF HeldOK, Exists
  <2>3. CASE request'[q] = Idle
    BY <2>3 DEF HeldOK, Idle, Holding, Renewing, Stamped
  <2> QED
    BY <1>2, <2>2, <2>3
<1>6. SignInsOK'
  BY <1>2 DEF IInv, SignInsOK, Idle
<1>7. OneSuccessor' /\ OneLiveTokenUntilRescue' /\ ExpiryBounded'
  BY <1>1 DEF IInv, OneSuccessor, OneLiveTokenUntilRescue, ExpiryBounded,
              Unspent, Exists
<1> QED
  BY <1>3, <1>4, <1>5, <1>6, <1>7 DEF IInv

\* issueSuccessor, by either caller: the tokens it spends are unspent, and one
\* that is not a rescue spends the session's only unspent token.
LEMMA IssuePreserves ==
  ASSUME IInv, NEW r \in Request, NEW spent \in SUBSET Token,
         NEW recovered \in BOOLEAN,
         request[r].pc \in {"spend", "retire"},
         spent \subseteq Unspent(request[r].sid),
         recovered \/ spent = {request[r].token},
         Issue(r, spent, recovered),
         UNCHANGED <<now, account, provedBy, floor, slipped>>
  PROVE  IInv'
<1> DEFINE s == request[r].sid
<1> DEFINE at == request[r].at
<1>1. /\ s \in Session /\ Exists(s)
      /\ at \in 0..now
      /\ ~recovered => request[r].token \in Token
                       /\ token[request[r].token].sid = s
  BY DEF IInv, RequestsOK, HeldOK, Holding, Renewing, Stamped
<1>2. PICK n \in Fresh :
        /\ token' = [t \in Token |->
             IF t = n THEN [sid |-> s, usedAt |-> Never]
             ELSE IF t \in spent THEN [token[t] EXCEPT !.usedAt = at]
             ELSE token[t]]
        /\ session' = [session EXCEPT
             ![s].expiresAt = SlidExpiry(s, at),
             ![s].recoveredAt = IF recovered THEN at ELSE @]
        /\ exchangedFor' = [t \in Token |->
             IF ~recovered /\ t \in spent
               THEN exchangedFor[t] \cup {n} ELSE exchangedFor[t]]
        /\ Goto(r, [Idle EXCEPT !.pc = "account", !.sid = s])
  BY DEF Issue
<1> HIDE DEF s, at
<1>3. /\ now \in Nat /\ at \in Nat /\ at <= now
      /\ session[s].createdAt \in Nat
      /\ s # NoSession
      /\ n \in Token /\ token[n].sid = NoSession /\ token[n].usedAt = Never
      /\ \A t \in spent : token[t].sid = s /\ token[t].usedAt = Never
  BY <1>1, AbsentAssumption
  DEF s, at, IInv, TypeOK, SessionRow, Time, Exists, Never, Fresh, Issued,
      RowsOK, Unspent
<1>4. /\ SlidExpiry(s, at) \in Nat
      /\ SlidExpiry(s, at) <= session[s].createdAt + CAP
      /\ SlidExpiry(s, at) <= now + TTL
  BY <1>3, WindowsAssumption DEF SlidExpiry
<1>5. /\ \A x \in Session : /\ session'[x].createdAt = session[x].createdAt
                            /\ session'[x].revokedAt = session[x].revokedAt
      /\ \A x \in Session \ {s} : session'[x] = session[x]
      /\ session'[s].expiresAt = SlidExpiry(s, at)
      /\ recovered => session'[s].recoveredAt = at
      /\ ~recovered => session'[s].recoveredAt = session[s].recoveredAt
  BY <1>1, <1>2 DEF s, IInv, TypeOK, SessionRow
<1>6. \A t \in Token :
        /\ t = n => token'[t] = [sid |-> s, usedAt |-> Never]
        /\ t # n => token'[t].sid = token[t].sid
        /\ t \in spent => t # n /\ token'[t].usedAt = at
        /\ t # n /\ t \notin spent => token'[t] = token[t]
  BY <1>2, <1>3 DEF IInv, TypeOK, TokenRow
<1>7. /\ request'[r].pc = "account" /\ request'[r].sid = s
      /\ \A q \in Request \ {r} : request'[q] = request[q]
  BY <1>2 DEF Goto, Idle, IInv, TypeOK
<1>8. TypeOK'
  <2>1. session' \in [Session -> SessionRow]
    <3>1. /\ session' = [x \in Session |->
               IF x = s
                 THEN [session[s] EXCEPT
                         !.expiresAt = SlidExpiry(s, at),
                         !.recoveredAt = IF recovered THEN at ELSE @]
                 ELSE session[x]]
      BY <1>1, <1>2 DEF s, IInv, TypeOK, SessionRow
    <3>2. /\ SlidExpiry(s, at) \in Time /\ at \in Time
          /\ session \in [Session -> SessionRow] /\ s \in Session
      BY <1>1, <1>3, <1>4 DEF s, IInv, TypeOK, Time
    <3> HIDE DEF Time
    <3> QED
      BY <3>1, <3>2 DEF SessionRow
  <2>2. token' \in [Token -> TokenRow]
    BY <1>1, <1>2, <1>3 DEF s, IInv, TypeOK, TokenRow, Time, Never
  <2>3. request' \in [Request -> RequestState]
    <3>1. [Idle EXCEPT !.pc = "account", !.sid = s] \in RequestState
      BY <1>1 DEF s, Idle, RequestState, Step, Time
    <3> QED
      BY <1>2, <3>1 DEF Goto, IInv, TypeOK
  <2>4. exchangedFor' \in [Token -> SUBSET Token]
    <3>1. \A t \in Token : exchangedFor[t] \cup {n} \in SUBSET Token
      BY <1>3 DEF IInv, TypeOK
    <3> QED
      BY <1>2, <3>1 DEF IInv, TypeOK
  <2> QED
    BY <1>5, <2>1, <2>2, <2>3, <2>4 DEF IInv, TypeOK
<1>9. RowsOK'
  BY <1>1, <1>3, <1>5, <1>6 DEF s, IInv, TypeOK, TokenRow, RowsOK, Issued, Exists
<1>10. RequestsOK'
  <2> SUFFICES ASSUME NEW q \in Request PROVE HeldOK(request[q])'
    BY DEF RequestsOK
  <2>1. CASE q = r
    <3>1. request'[q].pc = "account" /\ request'[q].sid = s
      BY <2>1, <1>7 DEF s
    <3>2. s \in Session /\ session'[s].createdAt # Never
      BY <1>1, <1>5 DEF s, Exists
    <3> QED
      BY <3>1, <3>2 DEF HeldOK, Renewing, Stamped, Exists
  <2>2. CASE q # r
    <3>1. /\ HeldOK(request[q]) /\ request'[q] = request[q]
          /\ request[q].ending \subseteq Session
      BY <2>2, <1>7 DEF IInv, RequestsOK, TypeOK, RequestState
    <3>2. request[q].pc \in Renewing =>
            /\ request[q].sid \in Session
            /\ request[q].token # n
      BY <3>1, <1>3, AbsentAssumption DEF HeldOK, Holding
    <3> QED
      BY <3>1, <3>2, <1>5, <1>6 DEF HeldOK, Exists
  <2> QED
    BY <2>1, <2>2
<1>11. SignInsOK'
  \* A session a sign-in is still alone with has no token to be renewed by.
  <2>1. \A q \in Request : request[q].pc = "begun" => request[q].sid # s
    BY DEF s, IInv, RequestsOK, HeldOK, SignInsOK, Renewing
  <2> QED
    BY <2>1, <1>6, <1>7 DEF IInv, SignInsOK
<1>12. ExchangedOK' /\ OneSuccessor'
  BY <1>2, <1>3, <1>6 DEF IInv, TypeOK, ExchangedOK, OneSuccessor, Never
<1>13. OneLiveTokenUntilRescue'
  <2> SUFFICES ASSUME NEW x \in Session, session'[x].recoveredAt = Never,
                      NEW t \in Unspent(x)', NEW u \in Unspent(x)'
               PROVE  t = u
    BY DEF OneLiveTokenUntilRescue
  <2>1. CASE x = s
    <3>1. ~recovered /\ session[s].recoveredAt = Never
      BY <2>1, <1>3, <1>5 DEF Never
    <3>2. \A v \in Token : token'[v].sid = s /\ token'[v].usedAt = Never => v = n
      BY <3>1, <1>1, <1>3, <1>6
      DEF s, IInv, OneLiveTokenUntilRescue, Unspent, Never
    <3> QED
      BY <2>1, <3>2 DEF Unspent
  <2>2. CASE x # s
    BY <2>2, <1>3, <1>5, <1>6 DEF IInv, OneLiveTokenUntilRescue, Unspent
  <2> QED
    BY <2>1, <2>2
<1>14. ExpiryBounded'
  BY <1>4, <1>5 DEF IInv, ExpiryBounded, Exists
<1> QED
  BY <1>8, <1>9, <1>10, <1>11, <1>12, <1>13, <1>14 DEF IInv

\* Every step of the gateway and of the account keeps the invariant.
LEMMA StepInv == IInv /\ [Next]_vars => IInv'
<1> SUFFICES ASSUME IInv, [Next]_vars PROVE IInv'
  OBVIOUS
<1>T. TypeOK /\ RequestsOK
  BY DEF IInv
<1>1. ASSUME NEW r \in Request, SignIn(r) PROVE IInv'
  <2> DEFINE q == [Idle EXCEPT !.pc = "verified", !.password = account.password]
  <2>1. q \in RequestState /\ HeldOK(q) /\ q.pc # "begun"
    BY <1>T, AbsentAssumption
    DEF TypeOK, Account, RequestState, Step, Time, Never, Idle, HeldOK, Holding,
        Renewing, Stamped
  <2> QED
    BY <1>1, <2>1, ReadPreserves DEF SignIn
<1>2. ASSUME NEW r \in Request, CreateSession(r) PROVE IInv'
  <2>1. PICK s \in Session :
          /\ ~Exists(s)
          /\ session' = [session EXCEPT ![s] =
               [createdAt |-> now, expiresAt |-> now + TTL,
                revokedAt |-> Never, recoveredAt |-> Never]]
          /\ provedBy' = [provedBy EXCEPT ![s] = request[r].password]
          /\ Goto(r, [Idle EXCEPT !.pc = "begun", !.sid = s])
    BY <1>2 DEF CreateSession
  <2> USE DEF Never
  <2>2. now \in Nat /\ now + TTL \in Nat /\ TTL <= CAP /\ CAP \in Nat /\ TTL \in Nat
    BY <1>T, WindowsAssumption DEF TypeOK
  <2>3. \A x \in Session :
          /\ x # s => session'[x] = session[x]
          /\ Exists(x) => x # s
          /\ x = s => session'[x] = [createdAt |-> now, expiresAt |-> now + TTL,
                                     revokedAt |-> -1, recoveredAt |-> -1]
    BY <2>1, <1>T DEF TypeOK
  <2>4. /\ request'[r] = [Idle EXCEPT !.pc = "begun", !.sid = s]
        /\ request'[r].pc = "begun" /\ request'[r].sid = s
        /\ \A q \in Request : q # r => request'[q] = request[q]
    BY <2>1, <1>T DEF TypeOK, Goto, Idle
  <2>5. TypeOK'
    <3>1. [Idle EXCEPT !.pc = "begun", !.sid = s] \in RequestState
      BY AbsentAssumption DEF RequestState, Step, Time, Idle
    <3>2. request' \in [Request -> RequestState]
      BY <3>1, <2>1, <1>T DEF TypeOK, Goto
    <3>3. session' \in [Session -> SessionRow]
          /\ \A x \in Session : session'[x].revokedAt <= now
      BY <2>1, <2>2, <2>3, <1>T DEF TypeOK, SessionRow, Time
    <3>4. request[r].password \in Nat
      BY <1>T DEF TypeOK, RequestState
    <3>5. provedBy' \in [Session -> Nat]
      BY <2>1, <3>4, <1>T DEF TypeOK
    <3> QED
      BY <1>2, <3>2, <3>3, <3>5, <1>T DEF TypeOK, CreateSession
  <2>6. RowsOK' /\ ExchangedOK'
    BY <1>2, <2>3, <1>T
    DEF CreateSession, IInv, TypeOK, TokenRow, RowsOK, ExchangedOK, Issued, Exists
  <2>7. RequestsOK'
    <3> SUFFICES ASSUME NEW q \in Request PROVE HeldOK(request[q])'
      BY DEF RequestsOK
    <3>1. CASE q = r
      BY <3>1, <2>2, <2>3, <2>4
      DEF HeldOK, Idle, Renewing, Stamped, Exists
    <3>2. CASE q # r
      BY <3>2, <1>2, <1>T, <2>3, <2>4 DEF CreateSession, RequestsOK, HeldOK, Exists
    <3> QED
      BY <3>1, <3>2
  <2>8. SignInsOK'
    <3>1. \A t \in Token : token[t].sid # s
      BY <2>1, AbsentAssumption DEF IInv, RowsOK, Issued
    <3>2. \A q \in Request : request[q].pc = "begun" => request[q].sid # s
      BY <2>1, <1>T DEF RequestsOK, HeldOK, Holding
    <3>3. ASSUME NEW q \in Request, request'[q].pc = "begun"
          PROVE  /\ \A t \in Token : token'[t].sid # request'[q].sid
                 /\ \A p \in Request : p # q /\ request'[p].pc = "begun" =>
                                         request'[p].sid # request'[q].sid
      <4>1. CASE q = r
        BY <1>2, <2>4, <3>1, <3>2, <4>1 DEF CreateSession
      <4>2. CASE q # r
        <5>1. request'[q] = request[q] /\ request[q].pc = "begun" /\ token' = token
          BY <1>2, <2>4, <3>3, <4>2 DEF CreateSession
        <5>2. request[q].sid # s
          BY <3>2, <5>1
        <5>3. \A t \in Token : token[t].sid # request[q].sid
          BY <5>1 DEF IInv, SignInsOK
        <5>4. \A p \in Request : p # q /\ request[p].pc = "begun" =>
                                 request[p].sid # request[q].sid
          BY <5>1 DEF IInv, SignInsOK
        <5> QED
          BY <2>4, <5>1, <5>2, <5>3, <5>4
      <4> QED
        BY <4>1, <4>2
    <3> QED
      BY <3>3 DEF SignInsOK
  <2>9. OneSuccessor' /\ OneLiveTokenUntilRescue' /\ ExpiryBounded'
    <3>1. \A t \in Token : token[t].sid # s
      BY <2>1, AbsentAssumption DEF IInv, RowsOK, Issued
    <3>2. OneSuccessor' /\ OneLiveTokenUntilRescue'
      BY <1>2, <2>3, <3>1
      DEF CreateSession, IInv, OneSuccessor, OneLiveTokenUntilRescue, Unspent
    <3>3. ExpiryBounded'
      BY <1>2, <2>2, <2>3 DEF CreateSession, IInv, ExpiryBounded, Exists
    <3> QED
      BY <3>2, <3>3
  <2> QED
    BY <2>5, <2>6, <2>7, <2>8, <2>9 DEF IInv
<1>3. ASSUME NEW r \in Request, CreateToken(r) PROVE IInv'
  <2> DEFINE s == request[r].sid
  <2>1. PICK n \in Fresh :
          token' = [token EXCEPT ![n] = [sid |-> s, usedAt |-> Never]]
    BY <1>3 DEF CreateToken
  <2>2. /\ s \in Session /\ Exists(s)
        /\ \A t \in Token : token[t].sid # s
        /\ \A q \in Request : q # r /\ request[q].pc = "begun" =>
                                request[q].sid # s
    BY <1>3, <1>T DEF CreateToken, RequestsOK, HeldOK, Holding, IInv, SignInsOK
  <2> HIDE DEF s
  <2>3. /\ n \in Token /\ token[n].sid = NoSession
        /\ \A t \in Token : /\ t # n => token'[t] = token[t]
                            /\ t = n => token'[t] = [sid |-> s, usedAt |-> Never]
    BY <2>1, <1>T DEF TypeOK, Fresh, Issued
  <2>4. Goto(r, Idle) /\ UNCHANGED <<now, account, session, history>>
    BY <1>3 DEF CreateToken
  <2>5. \A q \in Request : /\ q # r => request'[q] = request[q]
                           /\ q = r => request'[q] = Idle
    BY <2>4, <1>T DEF Goto, TypeOK
  <2>6. TypeOK'
    <3>1. Idle \in RequestState
      BY AbsentAssumption DEF RequestState, Step, Time, Never, Idle
    <3>2. request' \in [Request -> RequestState]
      BY <3>1, <2>4, <1>T DEF TypeOK, Goto
    <3>3. token' \in [Token -> TokenRow]
      BY <2>1, <2>2, <1>T DEF TypeOK, TokenRow, Time
    <3> QED
      BY <2>4, <3>2, <3>3, <1>T DEF TypeOK, history
  <2>7. RowsOK' /\ ExchangedOK'
    BY <2>2, <2>3, <2>4, AbsentAssumption
    DEF IInv, RowsOK, ExchangedOK, Issued, Exists, history
  <2>8. RequestsOK'
    <3> SUFFICES ASSUME NEW q \in Request PROVE HeldOK(request[q])'
      BY DEF RequestsOK
    <3>1. CASE q = r
      BY <3>1, <2>5 DEF HeldOK, Idle, Holding, Renewing, Stamped
    <3>2. CASE q # r
      BY <3>2, <1>T, <2>3, <2>4, <2>5, AbsentAssumption
      DEF RequestsOK, HeldOK, Holding, Exists
    <3> QED
      BY <3>1, <3>2
  <2>9. SignInsOK'
    BY <2>2, <2>3, <2>5 DEF IInv, SignInsOK, Idle
  <2>10. OneSuccessor' /\ OneLiveTokenUntilRescue' /\ ExpiryBounded'
    BY <2>2, <2>3, <2>4
    DEF IInv, OneSuccessor, OneLiveTokenUntilRescue, Unspent, ExpiryBounded,
        Exists, history
  <2> QED
    BY <2>6, <2>7, <2>8, <2>9, <2>10 DEF IInv
<1>4. ASSUME NEW r \in Request, ReadToken(r) PROVE IInv'
  <2>1. PICK t \in Token :
          /\ Issued(t)
          /\ Goto(r, [Idle EXCEPT !.pc = "read", !.token = t,
                      !.sid = token[t].sid, !.usedAt = token[t].usedAt])
    BY <1>4 DEF ReadToken
  <2> DEFINE q == [Idle EXCEPT !.pc = "read", !.token = t,
                      !.sid = token[t].sid, !.usedAt = token[t].usedAt]
  <2>2. token[t].sid \in Session /\ Exists(token[t].sid)
    BY <2>1, <1>T DEF IInv, TypeOK, TokenRow, Issued, RowsOK
  <2>3. q \in RequestState /\ HeldOK(q) /\ q.pc # "begun"
    BY <2>2, <1>T
    DEF TypeOK, TokenRow, RequestState, Step, Time, Never, Idle, HeldOK, Holding,
        Renewing, Stamped
  <2> QED
    BY <1>4, <2>1, <2>3, ReadPreserves DEF ReadToken
<1>5. ASSUME NEW r \in Request, ReadSession(r) PROVE IInv'
  <2> DEFINE spend == [request[r] EXCEPT !.pc = "spend", !.at = now]
  <2> DEFINE judge(at) == [request[r] EXCEPT !.pc = "judge", !.at = now,
                                             !.recoveredAt = at]
  <2>1. request[r] \in RequestState /\ HeldOK(request[r]) /\ request[r].pc = "read"
        /\ request[r].sid \in Session /\ now \in Nat
        /\ session[request[r].sid].recoveredAt \in Time
    BY <1>5, <1>T DEF ReadSession, RequestsOK, HeldOK, Holding, Renewing, TypeOK,
                      SessionRow
  <2>2. Idle \in RequestState /\ HeldOK(Idle) /\ Idle.pc # "begun"
    BY AbsentAssumption
    DEF RequestState, Step, Time, Never, Idle, HeldOK, Holding, Renewing, Stamped
  <2>3. now \in Time /\ now \in 0..now
    BY <2>1 DEF Time
  <2>4. spend \in RequestState /\ HeldOK(spend) /\ spend.pc # "begun"
    <3>1. spend \in RequestState
      BY <2>1, <2>3 DEF RequestState, Step
    <3>2. /\ spend.pc = "spend" /\ spend.at = now
          /\ spend.sid = request[r].sid /\ spend.token = request[r].token
      BY <2>1 DEF RequestState
    <3> HIDE DEF spend
    <3> QED
      BY <2>1, <2>3, <3>1, <3>2 DEF HeldOK, Holding, Renewing, Stamped
  <2>5. ASSUME NEW at \in Time
        PROVE  judge(at) \in RequestState /\ HeldOK(judge(at))
               /\ judge(at).pc # "begun"
    <3>1. judge(at) \in RequestState
      BY <2>1, <2>3 DEF RequestState, Step
    <3>2. /\ judge(at).pc = "judge" /\ judge(at).at = now
          /\ judge(at).sid = request[r].sid /\ judge(at).token = request[r].token
      BY <2>1 DEF RequestState
    <3> HIDE DEF judge
    <3> QED
      BY <2>1, <2>3, <3>1, <3>2 DEF HeldOK, Holding, Renewing, Stamped
  <2> HIDE DEF spend, judge
  <2>6. \/ Goto(r, Idle)
        \/ Goto(r, spend)
        \/ Goto(r, judge(session[request[r].sid].recoveredAt))
    BY <1>5 DEF ReadSession, spend, judge
  <2> QED
    BY <1>5, <2>1, <2>2, <2>4, <2>5, <2>6, ReadPreserves DEF ReadSession
<1>6. ASSUME NEW r \in Request, JudgeSpent(r) PROVE IInv'
  <2> DEFINE revoke == [Idle EXCEPT !.pc = "revoke", !.sid = request[r].sid]
  <2> DEFINE rescue == [request[r] EXCEPT !.pc = "rescue"]
  <2>1. request[r] \in RequestState /\ HeldOK(request[r]) /\ request[r].pc = "judge"
    BY <1>6, <1>T DEF JudgeSpent, RequestsOK, TypeOK
  <2>2. revoke \in RequestState /\ HeldOK(revoke) /\ revoke.pc # "begun"
    BY <2>1, AbsentAssumption
    DEF RequestState, Step, Time, Never, Idle, HeldOK, Holding, Renewing, Stamped
  <2>3. rescue \in RequestState /\ HeldOK(rescue) /\ rescue.pc # "begun"
    BY <2>1 DEF RequestState, Step, HeldOK, Holding, Renewing, Stamped
  <2> HIDE DEF revoke, rescue
  <2>4. Goto(r, revoke) \/ Goto(r, rescue)
    BY <1>6 DEF JudgeSpent, revoke, rescue
  <2> QED
    BY <1>6, <2>2, <2>3, <2>4, ReadPreserves DEF JudgeSpent
<1>7. ASSUME NEW r \in Request, SpendToken(r) PROVE IInv'
  <2>1. CASE SpendWon(r) /\ Issue(r, {request[r].token}, FALSE)
    <3>1. {request[r].token} \in SUBSET Token
          /\ {request[r].token} \subseteq Unspent(request[r].sid)
      BY <1>7, <2>1, <1>T
      DEF SpendToken, SpendWon, RequestsOK, HeldOK, Renewing, Unspent
    <3> QED
      BY <1>7, <2>1, <3>1, IssuePreserves DEF SpendToken
  <2>2. CASE Goto(r, Idle) /\ UNCHANGED <<session, token, exchangedFor>>
    <3>1. Idle \in RequestState /\ HeldOK(Idle) /\ Idle.pc # "begun"
      BY AbsentAssumption
      DEF RequestState, Step, Time, Never, Idle, HeldOK, Holding, Renewing, Stamped
    <3> QED
      BY <1>7, <2>2, <3>1, ReadPreserves DEF SpendToken, rows, history
  <2> QED
    BY <1>7, <2>1, <2>2 DEF SpendToken
<1>8. ASSUME NEW r \in Request, BeginRescue(r) PROVE IInv'
  <2> DEFINE q == [request[r] EXCEPT !.pc = "retire",
                                     !.unspent = Unspent(request[r].sid)]
  <2>1. request[r] \in RequestState /\ HeldOK(request[r]) /\ request[r].pc = "rescue"
    BY <1>8, <1>T DEF BeginRescue, RequestsOK, TypeOK
  <2>2. q \in RequestState /\ HeldOK(q) /\ q.pc # "begun"
    BY <2>1 DEF RequestState, Step, HeldOK, Holding, Renewing, Stamped, Unspent
  <2> QED
    BY <1>8, <2>2, ReadPreserves DEF BeginRescue
<1>9. ASSUME NEW r \in Request, Rescue(r) PROVE IInv'
  <2>1. request[r].unspent \cap Unspent(request[r].sid) \in SUBSET Token
    BY DEF Unspent
  <2> QED
    BY <1>9, <2>1, IssuePreserves DEF Rescue
<1>10. ASSUME NEW r \in Request, ReadAccount(r) PROVE IInv'
  <2> DEFINE revoke == [Idle EXCEPT !.pc = "revoke", !.sid = request[r].sid]
  <2>1. request[r] \in RequestState /\ HeldOK(request[r]) /\ request[r].pc = "account"
    BY <1>10, <1>T DEF ReadAccount, RequestsOK, TypeOK
  <2>2. revoke \in RequestState /\ HeldOK(revoke) /\ revoke.pc # "begun"
    BY <2>1, AbsentAssumption
    DEF RequestState, Step, Time, Never, Idle, HeldOK, Holding, Renewing, Stamped
  <2>3. Idle \in RequestState /\ HeldOK(Idle) /\ Idle.pc # "begun"
    BY AbsentAssumption
    DEF RequestState, Step, Time, Never, Idle, HeldOK, Holding, Renewing, Stamped
  <2> HIDE DEF revoke
  <2>4. Goto(r, revoke) \/ Goto(r, Idle)
    BY <1>10 DEF ReadAccount, revoke
  <2> QED
    BY <1>10, <2>2, <2>3, <2>4, ReadPreserves DEF ReadAccount
<1>11. ASSUME NEW r \in Request, Revoke(r) PROVE IInv'
  <2>1. request[r].sid \in Session
    BY <1>11, <1>T DEF Revoke, RequestsOK, HeldOK, Holding
  <2>2. now \in 0..now
    BY <1>T DEF TypeOK
  <2>3. session' \in [Session -> SessionRow]
        /\ \A s \in Session : session'[s] \in {session[s], Revoked(s, now)}
    BY <1>11, <2>1, <2>2, <1>T, RevokedIsRow DEF Revoke, TypeOK
  <2> QED
    BY <1>11, <2>2, <2>3, <1>T, EndPreserves DEF Revoke, TypeOK, history
<1>12. ASSUME NEW r \in Request, SignOut(r) PROVE IInv'
  <2>1. PICK s \in Session :
          Exists(s) /\ Goto(r, [Idle EXCEPT !.pc = "revoke", !.sid = s])
    BY <1>12, <1>T DEF SignOut, FindLive, IsSessionLive, IInv, TypeOK, TokenRow,
                       Issued
  <2> DEFINE q == [Idle EXCEPT !.pc = "revoke", !.sid = s]
  <2>2. q \in RequestState /\ HeldOK(q) /\ q.pc # "begun"
    BY <2>1, AbsentAssumption
    DEF RequestState, Step, Time, Never, Idle, HeldOK, Holding, Renewing, Stamped
  <2> QED
    BY <1>12, <2>1, <2>2, ReadPreserves DEF SignOut
<1>13. ASSUME NEW r \in Request, CheckPassword(r) PROVE IInv'
  <2>1. PICK s \in Session :
          /\ IsSessionLive(s)
          /\ Goto(r, [Idle EXCEPT !.pc = "change", !.sid = s,
                                  !.password = account.password])
    BY <1>13 DEF CheckPassword
  <2> DEFINE q == [Idle EXCEPT !.pc = "change", !.sid = s,
                               !.password = account.password]
  <2>2. q \in RequestState /\ HeldOK(q) /\ q.pc # "begun"
    BY <2>1, <1>T, AbsentAssumption
    DEF TypeOK, Account, RequestState, Step, Time, Never, Idle, HeldOK, Holding,
        Renewing, Stamped, IsSessionLive
  <2> QED
    BY <1>13, <2>1, <2>2, ReadPreserves DEF CheckPassword
<1>U. now \in 0..now
  BY <1>T DEF TypeOK
<1>V. ASSUME NEW t \in 0..now, NEW seen \in SUBSET Session, RevokeAll(seen, t)
      PROVE  /\ session' \in [Session -> SessionRow]
             /\ \A s \in Session : session'[s] \in {session[s], Revoked(s, t)}
  BY <1>V, <1>T, RevokedIsRow DEF RevokeAll, TypeOK
<1>W. Unrevoked \in SUBSET Session
  BY DEF Unrevoked
<1>14. ASSUME NEW r \in Request, ChangePassword(r) PROVE IInv'
  <2>1. request[r] \in RequestState /\ HeldOK(request[r]) /\ request[r].pc = "change"
        /\ request[r].sid \in Session /\ request[r].password \in Nat
    BY <1>14, <1>T DEF ChangePassword, RequestsOK, HeldOK, Holding, TypeOK, RequestState
  <2>2. CASE Goto(r, [request[r] EXCEPT !.pc = "replaced"]) /\ UNCHANGED <<account, provedBy>>
    <3> DEFINE q == [request[r] EXCEPT !.pc = "replaced"]
    <3>1. q \in RequestState /\ HeldOK(q) /\ q.pc # "begun"
      BY <2>1 DEF RequestState, Step, HeldOK, Holding, Renewing, Stamped
    <3> QED
      BY <1>14, <2>2, <3>1, ReadPreserves DEF ChangePassword, rows, history
  <2>3. CASE Goto(r, Idle) /\ account' \in Account /\ provedBy' \in [Session -> Nat]
    <3>1. session' \in [Session -> SessionRow]
          /\ \A s \in Session : session'[s] \in {session[s], Revoked(s, now)}
      BY <1>14, <1>T DEF ChangePassword, TypeOK
    <3> QED
      BY <1>14, <1>T, <1>U, <2>3, <3>1, EndPreserves DEF ChangePassword, TypeOK
  <2>4. account.password + 1 \in Nat /\ account \in Account
    BY <1>T DEF TypeOK, Account
  <2>5. [account EXCEPT !.password = @ + 1] \in Account
    BY <2>4 DEF Account
  <2>6. [provedBy EXCEPT ![request[r].sid] = request[r].password + 1] \in [Session -> Nat]
    BY <2>1, <1>T DEF TypeOK
  <2> QED
    BY <1>14, <1>T, <2>2, <2>3, <2>4, <2>5, <2>6 DEF ChangePassword, TypeOK
<1>15. CASE SignOutEverywhere
  <2>1. account' \in Account /\ floor' \in Nat /\ provedBy' \in [Session -> Nat]
        /\ slipped' \subseteq Session
    BY <1>15, <1>T DEF SignOutEverywhere, TypeOK, history
  <2> QED
    BY <1>15, <1>U, <1>V, <1>W, <2>1, EndPreserves DEF SignOutEverywhere, history
<1>16. ASSUME NEW r \in Request, ResetPassword(r) PROVE IInv'
  <2> DEFINE q == [Idle EXCEPT !.pc = "replaced", !.password = account.password]
  <2>1. q \in RequestState /\ HeldOK(q) /\ q.pc # "begun"
    BY <1>T, AbsentAssumption
    DEF TypeOK, Account, RequestState, Step, Time, Never, Idle, HeldOK, Holding,
        Renewing, Stamped
  <2> QED
    BY <1>16, <2>1, ReadPreserves DEF ResetPassword
<1>17. CASE LockAccount
  <2>1. account' \in Account /\ floor' \in Nat /\ provedBy' \in [Session -> Nat]
        /\ slipped' \subseteq Session
    BY <1>17, <1>T DEF LockAccount, TypeOK, Account, history
  <2> QED
    BY <1>17, <1>U, <1>V, <1>W, <2>1, EndPreserves DEF LockAccount, history
<1>18. CASE UnlockAccount
  <2>1. /\ session' \in [Session -> SessionRow]
        /\ \A s \in Session : session'[s] \in {session[s], Revoked(s, now)}
    BY <1>18, <1>T DEF UnlockAccount, TypeOK
  <2>2. account' \in Account /\ floor' \in Nat /\ provedBy' \in [Session -> Nat]
        /\ slipped' \subseteq Session
    BY <1>18, <1>T DEF UnlockAccount, TypeOK, Account, history
  <2> QED
    BY <1>18, <1>U, <2>1, <2>2, EndPreserves DEF UnlockAccount, history
<1>21. ASSUME NEW r \in Request, EndSessions(r) PROVE IInv'
  <2> DEFINE q == [request[r] EXCEPT !.pc = "ending", !.at = now,
                                     !.ending = Unrevoked \ {request[r].sid}]
  <2>1. request[r] \in RequestState /\ HeldOK(request[r]) /\ now \in Time
    BY <1>21, <1>T DEF EndSessions, RequestsOK, TypeOK, Time
  <2>2. Unrevoked \ {request[r].sid} \in SUBSET Session
    BY <1>W
  <2>3. q \in RequestState
    BY <2>1, <2>2 DEF RequestState, Step
  <2>4. q.pc = "ending" /\ q.at = now /\ q.ending = Unrevoked \ {request[r].sid}
    BY <2>1 DEF RequestState
  <2> HIDE DEF q
  <2>5. HeldOK(q)
    BY <1>U, <2>4 DEF HeldOK, Holding, Renewing, Stamped, Unrevoked
  <2> QED
    BY <1>21, <2>3, <2>4, <2>5, ReadPreserves DEF EndSessions, q
<1>22. ASSUME NEW r \in Request, CommitPassword(r) PROVE IInv'
  <2>1. /\ request[r] \in RequestState /\ request[r].at \in 0..now
        /\ request[r].ending \in SUBSET Session /\ request[r].password + 1 \in Nat
    BY <1>22, <1>T DEF CommitPassword, RequestsOK, HeldOK, Stamped, TypeOK, RequestState
  <2>2. account' \in Account /\ floor' \in Nat /\ provedBy' \in [Session -> Nat]
        /\ slipped' \subseteq Session
    BY <1>22, <2>1, <1>T DEF CommitPassword, TypeOK, Account
  <2> QED
    BY <1>22, <1>V, <2>1, <2>2, EndPreserves DEF CommitPassword
<1>19. CASE Tick
  <2>1. now \in Nat /\ now' = now + 1 /\ UNCHANGED <<rows, request, history>>
    BY <1>19, <1>T DEF Tick, TypeOK
  <2>2. TypeOK'
    BY <2>1, <1>T DEF TypeOK, SessionRow, Time, Never, rows, history
  <2>3. RowsOK' /\ SignInsOK' /\ ExchangedOK'
    BY <2>1 DEF IInv, RowsOK, SignInsOK, ExchangedOK, Issued, Exists, rows, history
  <2>4. RequestsOK'
    BY <2>1, <1>T DEF RequestsOK, HeldOK, Exists, rows
  <2>5. OneSuccessor' /\ OneLiveTokenUntilRescue'
    BY <2>1 DEF IInv, OneSuccessor, OneLiveTokenUntilRescue, Unspent, rows, history
  <2>6. ExpiryBounded'
    BY <2>1, <1>T, WindowsAssumption
    DEF IInv, ExpiryBounded, Exists, TypeOK, SessionRow, Time, Never, rows
  <2> QED
    BY <2>2, <2>3, <2>4, <2>5, <2>6 DEF IInv
<1>20. CASE UNCHANGED vars
  <2> USE <1>20 DEF vars, rows, history
  <2>1. TypeOK' /\ RowsOK' /\ SignInsOK' /\ ExchangedOK'
    BY DEF IInv, TypeOK, RowsOK, SignInsOK, ExchangedOK, Issued, Exists
  <2>2. RequestsOK'
    BY <1>T DEF RequestsOK, HeldOK, Exists
  <2>3. OneSuccessor' /\ OneLiveTokenUntilRescue' /\ ExpiryBounded'
    BY DEF IInv, OneSuccessor, OneLiveTokenUntilRescue, Unspent, ExpiryBounded,
           Exists
  <2> QED
    BY <2>1, <2>2, <2>3 DEF IInv
<1> QED
  BY <1>1, <1>2, <1>3, <1>4, <1>5, <1>6, <1>7, <1>8, <1>9, <1>10, <1>11, <1>12,
     <1>13, <1>14, <1>15, <1>16, <1>17, <1>18, <1>19, <1>20, <1>21, <1>22
  DEF Next, RequestStep, RefreshStep

-----------------------------------------------------------------------------

\* The gateway's rows and its requests in flight always agree: the inductive
\* invariant the theorems below are read off.
THEOREM Invariance == Spec => []IInv
<1>1. IInv /\ [Next]_vars => IInv'
  BY StepInv
<1> QED
  BY <1>1, InitInv, PTL DEF Spec

\* Type correctness, for every number of sessions, tokens and requests.
THEOREM TypeCorrect == Spec => []TypeOK
<1>1. IInv => TypeOK
  BY DEF IInv
<1> QED
  BY <1>1, Invariance, PTL

\* No refresh token is ever exchanged twice, however many requests present it
\* at once and however their statements interleave.
THEOREM AtMostOneSuccessor == Spec => []OneSuccessor
<1>1. IInv => OneSuccessor
  BY DEF IInv
<1> QED
  BY <1>1, Invariance, PTL

\* Until a session is rescued, at most one of its tokens works.
THEOREM SingleLiveToken == Spec => []OneLiveTokenUntilRescue
<1>1. IInv => OneLiveTokenUntilRescue
  BY DEF IInv
<1> QED
  BY <1>1, Invariance, PTL

\* No renewal outlives the cap or reaches further than one window ahead.
THEOREM CapHolds == Spec => []ExpiryBounded
<1>1. IInv => ExpiryBounded
  BY DEF IInv
<1> QED
  BY <1>1, Invariance, PTL

\* Tokens change in three ways only: one is inserted, one is spent, or a rescue
\* retires some; the last two touch none that was spent already.
LEMMA SpentStep ==
  ASSUME IInv, [Next]_vars, NEW t \in Token, token[t].usedAt # Never
  PROVE  token'[t] = token[t]
<1>T. t \notin Fresh
  BY DEF IInv, RowsOK, Fresh
<1>1. ASSUME NEW r \in Request, CreateToken(r) PROVE token'[t] = token[t]
  BY <1>1, <1>T DEF CreateToken, IInv, TypeOK
<1>2. ASSUME NEW r \in Request, NEW spent \in SUBSET Token, NEW b \in BOOLEAN,
             t \notin spent, Issue(r, spent, b)
      PROVE  token'[t] = token[t]
  BY <1>2, <1>T DEF Issue, IInv, TypeOK
<1>3. ASSUME NEW r \in Request, SpendToken(r) PROVE token'[t] = token[t]
  <2>1. request[r].token \in Token
    BY <1>3 DEF SpendToken, IInv, RequestsOK, HeldOK, Renewing
  <2>2. CASE SpendWon(r) /\ Issue(r, {request[r].token}, FALSE)
    BY <1>2, <2>1, <2>2 DEF SpendWon
  <2>3. CASE token' = token
    BY <2>3
  <2> QED
    BY <1>3, <2>2, <2>3 DEF SpendToken
<1>4. ASSUME NEW r \in Request, Rescue(r) PROVE token'[t] = token[t]
  <2>1. t \notin request[r].unspent \cap Unspent(request[r].sid)
        /\ request[r].unspent \cap Unspent(request[r].sid) \in SUBSET Token
    BY DEF Unspent
  <2> QED
    BY <1>2, <1>4, <2>1 DEF Rescue
<1> QED
  BY <1>1, <1>3, <1>4
  DEF Next, RequestStep, RefreshStep, vars, rows, history, SignIn, CreateSession,
      ReadToken, ReadSession, JudgeSpent, BeginRescue, ReadAccount, Revoke,
      SignOut, ResetPassword, CheckPassword, ChangePassword, EndSessions,
      CommitPassword, SignOutEverywhere, LockAccount, UnlockAccount, Tick

\* Once a token is spent, neither a losing request nor a rescue restamps it.
THEOREM SpentForever == Spec => SpentIsFinal
<1> DEFINE Kept == \A t \in Token : token[t].usedAt # Never => token'[t] = token[t]
<1>1. IInv /\ [Next]_vars => [Kept]_vars
  BY SpentStep
<1>2. Spec => [][Kept]_vars
  <2> HIDE DEF Kept
  <2> QED
    BY <1>1, Invariance, PTL DEF Spec
<1> QED
  BY <1>2 DEF SpentIsFinal

\* A session row changes in three ways only: it is inserted, it slides, or it
\* ends; the last two touch none that is not there.
LEMMA SessionStep ==
  ASSUME IInv, [Next]_vars, NEW s \in Session
  PROVE  \/ session'[s] = session[s]
         \/ Exists(s) /\ \E t \in 0..now : session'[s] = Revoked(s, t)
         \/ /\ Exists(s) /\ session'[s].createdAt # Never
            /\ session'[s].revokedAt = session[s].revokedAt
         \/ ~Exists(s) /\ session'[s].createdAt # Never /\ session'[s].revokedAt = Never
<1> DEFINE Goal ==
       \/ session'[s] = session[s]
       \/ Exists(s) /\ \E t \in 0..now : session'[s] = Revoked(s, t)
       \/ /\ Exists(s) /\ session'[s].createdAt # Never
          /\ session'[s].revokedAt = session[s].revokedAt
       \/ ~Exists(s) /\ session'[s].createdAt # Never /\ session'[s].revokedAt = Never
<1>T. TypeOK /\ RequestsOK
  BY DEF IInv
<1>1. ASSUME NEW r \in Request, CreateSession(r) PROVE Goal
  BY <1>1, <1>T DEF CreateSession, TypeOK, Exists, Never
<1>2. ASSUME NEW r \in Request, NEW spent, NEW b \in BOOLEAN,
             request[r].sid \in Session, Exists(request[r].sid), Issue(r, spent, b)
      PROVE  Goal
  BY <1>2, <1>T DEF Issue, TypeOK, SessionRow, Exists
<1>3. ASSUME NEW r \in Request, SpendToken(r) PROVE Goal
  <2>1. request[r].sid \in Session /\ Exists(request[r].sid)
    BY <1>3, <1>T DEF SpendToken, RequestsOK, HeldOK, Holding, Renewing
  <2>2. CASE session' = session
    BY <2>2
  <2>3. CASE Issue(r, {request[r].token}, FALSE)
    BY <1>2, <2>1, <2>3
  <2> QED
    BY <1>3, <2>2, <2>3 DEF SpendToken
<1>4. ASSUME NEW r \in Request, Rescue(r) PROVE Goal
  <2>1. request[r].sid \in Session /\ Exists(request[r].sid)
    BY <1>4, <1>T DEF Rescue, RequestsOK, HeldOK, Holding, Renewing
  <2> QED
    BY <1>2, <1>4, <2>1 DEF Rescue
<1>5. ASSUME NEW r \in Request, Revoke(r) PROVE Goal
  <2>1. request[r].sid \in Session /\ Exists(request[r].sid) /\ now \in 0..now
    BY <1>5, <1>T DEF Revoke, RequestsOK, HeldOK, Holding, TypeOK
  <2> QED
    BY <1>5, <1>T, <2>1 DEF Revoke, TypeOK
<1>6. ASSUME NEW t \in 0..now, NEW seen, \A x \in seen : Exists(x), RevokeAll(seen, t)
      PROVE  Goal
  BY <1>6 DEF RevokeAll
<1>7. ASSUME NEW r \in Request, CommitPassword(r) PROVE Goal
  BY <1>6, <1>7, <1>T DEF CommitPassword, RequestsOK, HeldOK, Stamped
<1>8. CASE SignOutEverywhere \/ LockAccount
  BY <1>6, <1>8, <1>T DEF SignOutEverywhere, LockAccount, Unrevoked, TypeOK
<1>9. CASE session' = session
  BY <1>9
<1> QED
  BY Zenon, <1>1, <1>3, <1>4, <1>5, <1>7, <1>8, <1>9
  DEF Next, RequestStep, RefreshStep, vars, rows, SignIn, CreateToken, ReadToken,
      ReadSession, JudgeSpent, BeginRescue, ReadAccount, SignOut, ResetPassword,
      CheckPassword, ChangePassword, EndSessions, UnlockAccount, Tick

\* A session not yet inserted has no end.
Unborn == \A s \in Session : ~Exists(s) => session[s].revokedAt = Never

\* The first end of a session stays the one recorded, whatever ends it again.
THEOREM EndedForever == Spec => RevocationIsFinal
<1> DEFINE Kept == \A s \in Session :
             session[s].revokedAt # Never => session'[s].revokedAt = session[s].revokedAt
<1>1. Init => Unborn
  BY DEF Init, Unborn, Absent
<1>2. IInv /\ Unborn /\ [Next]_vars => Unborn'
  <2> SUFFICES ASSUME IInv, Unborn, [Next]_vars, NEW s \in Session, ~Exists(s)'
               PROVE  session'[s].revokedAt = Never
    BY DEF Unborn
  <2>1. Exists(s) => \A t \in 0..now : Revoked(s, t).createdAt # Never
    BY DEF Exists, Revoked, IInv, TypeOK, SessionRow
  <2>2. session'[s] = session[s]
    BY <2>1, SessionStep DEF Exists
  <2> QED
    BY <2>2 DEF Unborn, Exists
<1>3. IInv /\ Unborn /\ [Next]_vars => [Kept]_vars
  <2> SUFFICES ASSUME IInv, Unborn, [Next]_vars, NEW s \in Session,
                      session[s].revokedAt # Never
               PROVE  session'[s].revokedAt = session[s].revokedAt
    OBVIOUS
  <2>1. Exists(s)
    BY DEF Unborn
  <2>2. \A t \in 0..now : Revoked(s, t).revokedAt = session[s].revokedAt
    BY DEF Revoked, IInv, TypeOK, SessionRow
  <2> QED
    BY <2>1, <2>2, SessionStep
<1>4. Spec => [][Kept]_vars
  <2> HIDE DEF Kept
  <2> QED
    BY <1>1, <1>2, <1>3, Invariance, PTL DEF Spec
<1> QED
  BY <1>4 DEF RevocationIsFinal
-----------------------------------------------------------------------------
(* Passwords replaced while people sign in.                                *)

\* While a password is being replaced the users row belongs to one request,
\* and it is replacing the version it proved.
Replacing == {"replaced", "ending"}
PasswordsOK ==
  /\ floor <= account.password
  /\ \A r \in Request :
       request[r].pc \in Replacing => request[r].password = account.password
  /\ \A r, q \in Request :
       request[r].pc \in Replacing /\ request[q].pc \in Replacing => r = q

\* A session nobody ended was proved by a password that may stand, or slipped
\* past a change; one under way ends, keeps or missed every such session.
OldSessionsOK ==
  /\ \A s \in Unrevoked : provedBy[s] < floor => s \in slipped
  /\ \A r \in Request : request[r].pc = "ending" =>
       \A s \in Unrevoked :
         s \in request[r].ending \/ s = request[r].sid \/ s \in slipped

PInv == PasswordsOK /\ OldSessionsOK

\* A statement that opens no session and replaces no password.
LEMMA OrdinaryKeeps ==
  ASSUME PInv, Unrevoked' \subseteq Unrevoked,
         account'.password = account.password,
         UNCHANGED <<provedBy, floor, slipped>>,
         \A q \in Request : request'[q].pc \in Replacing => request'[q] = request[q]
  PROVE  PInv'
<1>1. PasswordsOK'
  BY DEF PInv, PasswordsOK
<1>2. \A q \in Request : request'[q].pc = "ending" => request'[q] = request[q]
  BY DEF Replacing
<1>3. OldSessionsOK'
  BY <1>2 DEF PInv, OldSessionsOK
<1> QED
  BY <1>1, <1>3 DEF PInv

\* One request moves on to a state in which it is replacing no password.
LEMMA MovesOn ==
  ASSUME TypeOK, NEW r \in Request, NEW q, q.pc \notin Replacing, Goto(r, q)
  PROVE  \A p \in Request : request'[p].pc \in Replacing => request'[p] = request[p]
  BY DEF Goto, TypeOK

\* Revoking rows, and sliding one, leave nothing live that was not.
LEMMA EndsOnly ==
  ASSUME TypeOK, NEW seen \in SUBSET Session, NEW t \in 0..now, RevokeAll(seen, t)
  PROVE  Unrevoked' = Unrevoked \ seen
<1>1. \A s \in Session : /\ s \in seen => session'[s] = Revoked(s, t)
                         /\ s \notin seen => session'[s] = session[s]
  BY DEF RevokeAll
<1>2. ASSUME NEW s \in Session
      PROVE  /\ Revoked(s, t).createdAt = session[s].createdAt
             /\ Revoked(s, t).revokedAt # Never
  <2>1. session[s] \in SessionRow /\ t # Never
    BY DEF TypeOK, Never
  <2> QED
    BY <2>1 DEF Revoked, SessionRow
<1>3. \A s \in Session :
        /\ session'[s].createdAt = session[s].createdAt
        /\ session'[s].revokedAt = Never <=> session[s].revokedAt = Never /\ s \notin seen
  BY <1>1, <1>2 DEF Revoked, TypeOK, SessionRow
<1> QED
  BY <1>3 DEF Unrevoked, Exists

LEMMA PStep == IInv /\ PInv /\ [Next]_vars => PInv'
<1> SUFFICES ASSUME IInv, PInv, [Next]_vars PROVE PInv'
  OBVIOUS
<1>T. /\ TypeOK /\ RequestsOK /\ PasswordsOK /\ OldSessionsOK
      /\ now \in 0..now /\ account \in Account /\ floor \in Nat
  BY DEF IInv, PInv, TypeOK
<1>Q. \A r \in Request : request[r] \in RequestState
  BY <1>T DEF TypeOK
\* Statements that write no session.
<1>1. ASSUME NEW r \in Request, NEW q, q.pc \notin Replacing, Goto(r, q),
             UNCHANGED <<session, account, provedBy, floor, slipped>>
      PROVE  PInv'
  <2>1. Unrevoked' = Unrevoked
    BY <1>1 DEF Unrevoked, Exists
  <2> QED
    BY <1>1, <1>T, <2>1, MovesOn, OrdinaryKeeps
<1>2. ASSUME NEW r \in Request,
             \/ SignIn(r) \/ CreateToken(r) \/ ReadToken(r) \/ ReadSession(r)
             \/ JudgeSpent(r) \/ BeginRescue(r) \/ ReadAccount(r) \/ SignOut(r)
             \/ CheckPassword(r)
      PROVE  PInv'
  <2>1. \E q : q.pc \notin Replacing /\ Goto(r, q)
    <3>1. CASE SignIn(r)
      BY <3>1 DEF SignIn, Idle, Replacing
    <3>2. CASE CreateToken(r) \/ ReadAccount(r) \/ SignOut(r)
      BY <3>2 DEF CreateToken, ReadAccount, SignOut, Idle, Replacing
    <3>3. CASE ReadToken(r) \/ CheckPassword(r)
      BY <3>3 DEF ReadToken, CheckPassword, Idle, Replacing
    <3>4. CASE ReadSession(r)
      BY <3>4, <1>Q DEF ReadSession, Idle, Replacing, RequestState
    <3>5. CASE JudgeSpent(r) \/ BeginRescue(r)
      BY <3>5, <1>Q DEF JudgeSpent, BeginRescue, Idle, Replacing, RequestState
    <3> QED
      BY <1>2, <3>1, <3>2, <3>3, <3>4, <3>5
  <2>2. UNCHANGED <<session, account, provedBy, floor, slipped>>
    BY <1>2
    DEF SignIn, CreateToken, ReadToken, ReadSession, JudgeSpent, BeginRescue,
        ReadAccount, SignOut, CheckPassword, rows, history
  <2> QED
    BY <1>1, <2>1, <2>2
\* Statements that slide or end sessions.
<1>3. ASSUME NEW r \in Request, NEW spent, NEW b \in BOOLEAN, Issue(r, spent, b),
             UNCHANGED <<account, provedBy, floor, slipped>>
      PROVE  PInv'
  <2>1. Unrevoked' = Unrevoked
    BY <1>3, <1>T DEF Issue, TypeOK, SessionRow, Unrevoked, Exists
  <2>2. \E q : q.pc \notin Replacing /\ Goto(r, q)
    BY <1>3 DEF Issue, Idle, Replacing
  <2> QED
    BY <1>3, <1>T, <2>1, <2>2, MovesOn, OrdinaryKeeps
<1>4. ASSUME NEW r \in Request, SpendToken(r) \/ Rescue(r) PROVE PInv'
  <2>1. CASE Goto(r, Idle) /\ UNCHANGED session
    BY <1>1, <1>4, <2>1 DEF SpendToken, Rescue, Idle, Replacing
  <2> QED
    BY <1>3, <1>4, <2>1 DEF SpendToken, Rescue
<1>5. ASSUME NEW r \in Request, Revoke(r) PROVE PInv'
  <2>1. request[r].sid \in Session
    BY <1>5, <1>T DEF Revoke, RequestsOK, HeldOK, Holding
  <2>2. RevokeAll({request[r].sid}, now)
    BY <1>5, <1>T, <2>1 DEF Revoke, RevokeAll, TypeOK
  <2>3. Idle.pc \notin Replacing
    BY DEF Idle, Replacing
  <2> QED
    BY <1>5, <1>T, <2>1, <2>2, <2>3, EndsOnly, MovesOn, OrdinaryKeeps
    DEF Revoke, history
<1>6. CASE SignOutEverywhere \/ LockAccount
  <2>1. RevokeAll(Unrevoked, now) /\ Unrevoked \in SUBSET Session
    BY <1>6 DEF SignOutEverywhere, LockAccount, Unrevoked
  <2> QED
    BY <1>6, <1>T, <2>1, EndsOnly, OrdinaryKeeps
    DEF SignOutEverywhere, LockAccount, history, Account
<1>7. CASE UnlockAccount \/ Tick \/ UNCHANGED vars
  <2>1. Unrevoked' = Unrevoked
    BY <1>7 DEF UnlockAccount, Tick, vars, rows, Unrevoked, Exists
  <2> QED
    BY <1>7, <1>T, <2>1, OrdinaryKeeps
    DEF UnlockAccount, Tick, vars, rows, history, Account
\* A session opened while a password is replaced, or by one already replaced,
\* is among those that slipped.
<1>8. ASSUME NEW r \in Request, CreateSession(r) PROVE PInv'
  <2>1. PICK s \in Session :
          /\ ~Exists(s)
          /\ session' = [session EXCEPT ![s] =
               [createdAt |-> now, expiresAt |-> now + TTL,
                revokedAt |-> Never, recoveredAt |-> Never]]
          /\ provedBy' = [provedBy EXCEPT ![s] = request[r].password]
          /\ slipped' = IF Slips(r) THEN slipped \cup {s} ELSE slipped
          /\ Goto(r, [Idle EXCEPT !.pc = "begun", !.sid = s])
    BY <1>8 DEF CreateSession
  <2>2. \A p \in Request : request'[p].pc \in Replacing => request'[p] = request[p]
    <3>1. [Idle EXCEPT !.pc = "begun", !.sid = s].pc \notin Replacing
      BY DEF Idle, Replacing
    <3> QED
      BY <2>1, <3>1, <1>T, MovesOn
  <2>3. /\ \A x \in Session : x # s => session'[x] = session[x]
                                       /\ provedBy'[x] = provedBy[x]
        /\ provedBy'[s] = request[r].password
        /\ Unrevoked' \subseteq Unrevoked \cup {s}
    BY <2>1, <1>T DEF TypeOK, Unrevoked, Exists
  <2>4. account' = account /\ floor' = floor /\ slipped \subseteq slipped'
    BY <1>8, <2>1 DEF CreateSession
  <2>5. PasswordsOK'
    BY <1>T, <2>2, <2>4 DEF PasswordsOK
  <2>6. provedBy'[s] < floor => s \in slipped'
    BY <2>1, <2>3 DEF Slips
  <2>7. \A q \in Request : request'[q].pc = "ending" =>
          request'[q] = request[q] /\ s \in slipped'
    BY <2>1, <2>2 DEF Slips, Replacing
  <2>8. OldSessionsOK'
    BY <1>T, <2>3, <2>4, <2>6, <2>7, <2>1 DEF OldSessionsOK, Unrevoked
  <2> QED
    BY <2>5, <2>8 DEF PInv
\* The users row is taken, by one request at a time.
<1>9. ASSUME NEW r \in Request, NEW q, q.pc = "replaced", UsersRowFree, Goto(r, q),
             q.password = account.password,
             UNCHANGED <<account, session, provedBy, floor, slipped>>
      PROVE  PInv'
  <2>1. /\ request'[r] = q
        /\ \A p \in Request : p # r => request'[p] = request[p]
        /\ \A p \in Request : p # r => request'[p].pc \notin Replacing
    BY <1>9, <1>T DEF Goto, TypeOK, UsersRowFree, Replacing
  <2>2. PasswordsOK'
    BY <1>9, <1>T, <2>1 DEF PasswordsOK
  <2>3. OldSessionsOK'
    BY <1>9, <1>T, <2>1 DEF OldSessionsOK, Unrevoked, Exists, Replacing
  <2> QED
    BY <2>2, <2>3 DEF PInv
<1>10. ASSUME NEW r \in Request, ResetPassword(r) PROVE PInv'
  <2> DEFINE q == [Idle EXCEPT !.pc = "replaced", !.password = account.password]
  <2>1. q.pc = "replaced" /\ q.password = account.password
    BY DEF Idle
  <2> QED
    BY <1>9, <1>10, <2>1 DEF ResetPassword, rows, history
<1>11. ASSUME NEW r \in Request, ChangePassword(r) PROVE PInv'
  <2>1. request[r].sid \in Session
    BY <1>11, <1>T DEF ChangePassword, RequestsOK, HeldOK, Holding
  <2>2. CASE HashStands(r) /\ Goto(r, [request[r] EXCEPT !.pc = "replaced"])
             /\ UNCHANGED <<account, provedBy>>
    <3> DEFINE q == [request[r] EXCEPT !.pc = "replaced"]
    <3>1. q.pc = "replaced" /\ q.password = account.password
      BY <1>Q, <2>2 DEF HashStands, RequestState
    <3> QED
      BY <1>9, <1>11, <2>2, <3>1 DEF ChangePassword
  <2>3. CASE HashStands(r) /\ Goto(r, Idle)
             /\ account' = [account EXCEPT !.password = @ + 1]
             /\ provedBy' = [provedBy EXCEPT ![request[r].sid] = request[r].password + 1]
    <3>1. \A p \in Request : request'[p].pc \notin Replacing
      BY <1>11, <1>T, <2>3
      DEF ChangePassword, Goto, TypeOK, UsersRowFree, Idle, Replacing
    <3>2. account'.password = account.password + 1 /\ account.password \in Nat
      BY <1>T, <2>3 DEF Account
    <3>3. \A s \in Session : provedBy'[s] < floor => provedBy[s] < floor
      BY <1>T, <2>3, <3>2 DEF TypeOK, HashStands, PasswordsOK
    <3>4. PasswordsOK'
      BY <1>11, <1>T, <3>1, <3>2 DEF PasswordsOK, ChangePassword
    <3>5. OldSessionsOK'
      BY <1>11, <1>T, <3>1, <3>3
      DEF OldSessionsOK, ChangePassword, Unrevoked, Exists, Replacing
    <3> QED
      BY <3>4, <3>5 DEF PInv
  <2>4. CASE Goto(r, Idle) /\ UNCHANGED <<account, provedBy>>
    BY <1>1, <1>11, <2>4 DEF ChangePassword, Idle, Replacing
  <2> QED
    BY <1>11, <2>2, <2>3, <2>4 DEF ChangePassword
<1>12. ASSUME NEW r \in Request, EndSessions(r) PROVE PInv'
  <2> DEFINE q == [request[r] EXCEPT !.pc = "ending", !.at = now,
                                     !.ending = Unrevoked \ {request[r].sid}]
  <2>1. /\ request'[r] = q
        /\ \A p \in Request : p # r => request'[p] = request[p]
    BY <1>12, <1>T DEF EndSessions, Goto, TypeOK
  <2>2. /\ q.pc = "ending" /\ q.password = request[r].password
        /\ q.sid = request[r].sid /\ q.ending = Unrevoked \ {request[r].sid}
    BY <1>Q DEF RequestState
  <2>3. request[r].pc = "replaced"
        /\ UNCHANGED <<account, session, provedBy, floor, slipped>>
    BY <1>12 DEF EndSessions, rows, history
  <2> HIDE DEF q
  <2>4. PasswordsOK'
    BY <1>T, <2>1, <2>2, <2>3 DEF PasswordsOK, Replacing
  <2>5. Unrevoked' = Unrevoked
    BY <2>3 DEF Unrevoked, Exists
  <2>6. OldSessionsOK'
    BY <1>T, <2>1, <2>2, <2>3, <2>5 DEF OldSessionsOK
  <2> QED
    BY <2>4, <2>6 DEF PInv
\* The change commits: what its snapshot showed is ended, its own session is
\* proved by the new password, and the rest slipped.
<1>13. ASSUME NEW r \in Request, CommitPassword(r) PROVE PInv'
  <2>1. /\ request[r].at \in 0..now /\ request[r].ending \in SUBSET Session
        /\ request[r].pc = "ending" /\ request[r].password = account.password
    BY <1>13, <1>T, <1>Q
    DEF CommitPassword, RequestsOK, HeldOK, Stamped, RequestState, PasswordsOK,
        Replacing
  <2>2. Unrevoked' = Unrevoked \ request[r].ending
    BY <1>13, <1>T, <2>1, EndsOnly DEF CommitPassword
  <2>3. \A p \in Request : request'[p].pc \notin Replacing
    BY <1>13, <1>T, <2>1
    DEF CommitPassword, Goto, TypeOK, PasswordsOK, Idle, Replacing
  <2>4. /\ account.password \in Nat
        /\ account'.password = account.password + 1
        /\ floor' = account.password + 1
    BY <1>13, <1>T DEF CommitPassword, Account
  <2>5. PasswordsOK'
    BY <2>3, <2>4 DEF PasswordsOK
  <2>6. ASSUME NEW s \in Unrevoked', provedBy'[s] < floor' PROVE s \in slipped'
    <3>1. s \in Session /\ s \in Unrevoked /\ s \notin request[r].ending
      BY <2>2 DEF Unrevoked
    <3>2. s # request[r].sid
      BY <1>13, <2>1, <2>4, <2>6, <3>1 DEF CommitPassword
    <3> QED
      BY <1>13, <1>T, <2>1, <3>1, <3>2 DEF OldSessionsOK, CommitPassword
  <2>7. OldSessionsOK'
    BY <2>3, <2>6 DEF OldSessionsOK, Replacing
  <2> QED
    BY <2>5, <2>7 DEF PInv
<1> QED
  BY <1>2, <1>4, <1>5, <1>6, <1>7, <1>8, <1>10, <1>11, <1>12, <1>13
  DEF Next, RequestStep, RefreshStep

\* However sign-ins, changes and resets overlap, a live session that only an
\* old password proved was inserted by a sign-in that overlapped the change.
THEOREM OldSessionsEnd == Spec => []OnlyRacingSignInsStand
<1>1. Init => PInv
  BY DEF Init, Idle, Absent, PInv, PasswordsOK, OldSessionsOK, Unrevoked, Exists,
         Replacing
<1>2. IInv /\ PInv /\ [Next]_vars => PInv'
  BY PStep
<1>3. PInv => OnlyRacingSignInsStand
  BY DEF PInv, OldSessionsOK, OnlyRacingSignInsStand, Unrevoked, IsSessionLive
<1> QED
  BY <1>1, <1>2, <1>3, Invariance, PTL DEF Spec
=============================================================================
