------------------------------ MODULE Sessions ------------------------------
(***************************************************************************)
(* The long-lived half of being signed in, as the API gateway keeps it:    *)
(* session rows, the refresh tokens that renew them, and the requests that *)
(* read and write both.  One account.  Every request is a sequence of      *)
(* separate database statements, so requests interleave between them; each *)
(* transaction of the gateway commits in one step, except where what it    *)
(* has read may be stale as it commits: the rescue's UPDATE, whose READ    *)
(* COMMITTED snapshot of the unspent tokens is taken before it waits for   *)
(* their row locks, and the transactions that replace a password, which    *)
(* hold the users row while they take their snapshot of the sessions.      *)
(*                                                                         *)
(* Time is a count of ticks; the three windows (GRACE, TTL, CAP) keep the  *)
(* order of the real ones: GRACE < TTL <= CAP.                             *)
(***************************************************************************)
EXTENDS Integers

CONSTANTS
  Session,      \* session ids
  Token,        \* refresh tokens
  Request,      \* gateway requests that may be in flight together
  NoSession, NoToken,
  GRACE,        \* REUSE_GRACE_MS
  TTL,          \* REFRESH_TOKEN_TTL_MS
  CAP,          \* ABSOLUTE_SESSION_TTL_MS
  MaxTime,      \* bound: the clock stops here
  MaxPassword   \* bound: password versions

ASSUME WindowsAssumption ==
  /\ GRACE \in Nat /\ TTL \in Nat \ {0} /\ CAP \in Nat
  /\ GRACE < TTL /\ TTL <= CAP
ASSUME AbsentAssumption == NoSession \notin Session /\ NoToken \notin Token

VARIABLES
  now,          \* the clock the gateway and the database share
  account,      \* the users row: password version and disabledAt
  session,      \* auth_sessions
  token,        \* auth_session_tokens
  request,      \* what each request in flight has read so far
  \* History, read by no action:
  exchangedFor, \* the successors each token was spent for
  provedBy,     \* the password version each session's holder last proved
  floor,        \* the oldest password version whose sessions may still stand
  slipped       \* sessions inserted past the snapshot that should end them

rows == <<account, session, token>>
history == <<exchangedFor, provedBy, floor, slipped>>
vars == <<now, rows, request, history>>

\* A null timestamp column.
Never == -1
Time == Nat \cup {Never}

SessionRow ==
  [createdAt: Time, expiresAt: Time, revokedAt: Time, recoveredAt: Time]
TokenRow == [sid: Session \cup {NoSession}, usedAt: Time]
Account == [password: Nat, barred: BOOLEAN]

Step == {"idle", "read", "spend", "judge", "rescue", "retire", "account",
         "revoke", "verified", "begun", "change", "replaced", "ending"}
RequestState ==
  [pc: Step, token: Token \cup {NoToken}, sid: Session \cup {NoSession},
   usedAt: Time, at: Time, recoveredAt: Time, unspent: SUBSET Token,
   password: Nat, ending: SUBSET Session]

Idle == [pc |-> "idle", token |-> NoToken, sid |-> NoSession,
         usedAt |-> Never, at |-> Never, recoveredAt |-> Never,
         unspent |-> {}, password |-> 0, ending |-> {}]

Absent == [createdAt |-> Never, expiresAt |-> Never,
           revokedAt |-> Never, recoveredAt |-> Never]

Init ==
  /\ now = 0
  /\ account = [password |-> 1, barred |-> FALSE]
  /\ session = [s \in Session |-> Absent]
  /\ token = [t \in Token |-> [sid |-> NoSession, usedAt |-> Never]]
  /\ request = [r \in Request |-> Idle]
  /\ exchangedFor = [t \in Token |-> {}]
  /\ provedBy = [s \in Session |-> 0]
  /\ floor = 1
  /\ slipped = {}

-----------------------------------------------------------------------------
(* What the rows say.                                                      *)

Exists(s) == session[s].createdAt # Never
Issued(t) == token[t].sid # NoSession
Unspent(s) == {t \in Token : token[t].sid = s /\ token[t].usedAt = Never}
Fresh == {t \in Token : ~Issued(t)}

\* isSessionLive: the check every service makes before it trusts a credential.
IsSessionLive(s) ==
  Exists(s) /\ session[s].revokedAt = Never /\ session[s].expiresAt > now

\* classifyRotation: the session's own state decides before the token's does.
ClassifyRotation(usedAt, row, t) ==
  IF \/ row.revokedAt # Never
     \/ row.expiresAt <= t
     \/ row.createdAt + CAP <= t
    THEN "invalid"
    ELSE IF usedAt = Never THEN "rotate"
    ELSE IF t - usedAt <= GRACE THEN "raced" ELSE "spent"

\* Mutant of ResolveSpent: only a second rescue counts as reuse.
RescueProgressed(progressed, recoveredAt) ==
  IF recoveredAt # Never THEN "reused" ELSE "recover"

\* resolveSpent: what a spent token coming back means.
ResolveSpent(progressed, recoveredAt) ==
  IF progressed \/ recoveredAt # Never THEN "reused" ELSE "recover"

\* Mutant of SlidExpiry: the cap is forgotten.
SlidPastCap(s, t) == IF Exists(s) THEN t + TTL ELSE Never

\* The window slides to t + TTL, but never past the session's cap.
SlidExpiry(s, t) ==
  LET cap == session[s].createdAt + CAP
  IN  IF t + TTL < cap THEN t + TTL ELSE cap

Goto(r, state) == request' = [request EXCEPT ![r] = state]

\* Mutant of Revoked: the row is stamped with its expiry.
RevokedAtExpiry(s, t) == [session[s] EXCEPT !.revokedAt = session[s].expiresAt]

\* Mutant of Revoked: every end overwrites the one before.
RevokedAgain(s, t) == [session[s] EXCEPT !.revokedAt = t]

\* revokedAt is set only where it is still null: the first end is the one kept.
Revoked(s, t) ==
  [session[s] EXCEPT !.revokedAt = IF @ = Never THEN t ELSE @]

Unrevoked == {s \in Session : Exists(s) /\ session[s].revokedAt = Never}

\* One UPDATE over the sessions its snapshot showed: a row another transaction
\* ended meanwhile is re-checked and left, one inserted meanwhile was not seen.
RevokeAll(seen, t) ==
  session' = [s \in Session |-> IF s \in seen THEN Revoked(s, t) ELSE session[s]]

-----------------------------------------------------------------------------
(* Sign-in: the users row is read and the password compared, then the      *)
(* session row and its first token are inserted by two further statements. *)

SignIn(r) ==
  /\ request[r].pc = "idle"
  /\ ~account.barred
  /\ Goto(r, [Idle EXCEPT !.pc = "verified", !.password = account.password])
  /\ UNCHANGED <<now, rows, history>>

\* A sign-in that verified a password since replaced, or whose session a
\* change of password now ending sessions did not see.
Slips(r) ==
  request[r].password < floor \/ \E q \in Request : request[q].pc = "ending"

CreateSession(r) ==
  /\ request[r].pc = "verified"
  /\ \E s \in Session :
       /\ ~Exists(s)
       /\ session' = [session EXCEPT ![s] =
            [createdAt |-> now, expiresAt |-> now + TTL,
             revokedAt |-> Never, recoveredAt |-> Never]]
       /\ provedBy' = [provedBy EXCEPT ![s] = request[r].password]
       /\ slipped' = IF Slips(r) THEN slipped \cup {s} ELSE slipped
       /\ Goto(r, [Idle EXCEPT !.pc = "begun", !.sid = s])
  /\ UNCHANGED <<now, account, token, exchangedFor, floor>>

CreateToken(r) ==
  /\ request[r].pc = "begun"
  /\ \E n \in Fresh :
       token' = [token EXCEPT ![n] = [sid |-> request[r].sid, usedAt |-> Never]]
  /\ Goto(r, Idle)
  /\ UNCHANGED <<now, account, session, history>>

-----------------------------------------------------------------------------
(* Refresh: rotate() and what AuthService.refresh does with its outcome.   *)

\* The token row, by its hash.
ReadToken(r) ==
  /\ request[r].pc = "idle"
  /\ \E t \in Token :
       /\ Issued(t)
       /\ Goto(r, [Idle EXCEPT !.pc = "read", !.token = t,
                               !.sid = token[t].sid, !.usedAt = token[t].usedAt])
  /\ UNCHANGED <<now, rows, history>>

\* The session row, the clock and the verdict on both.
ReadSession(r) ==
  LET row == session[request[r].sid]
      verdict == ClassifyRotation(request[r].usedAt, row, now)
  IN  /\ request[r].pc = "read"
      /\ \/ /\ verdict \in {"invalid", "raced"}
            /\ Goto(r, Idle)
         \/ /\ verdict = "rotate"
            /\ Goto(r, [request[r] EXCEPT !.pc = "spend", !.at = now])
         \/ /\ verdict = "spent"
            /\ Goto(r, [request[r] EXCEPT !.pc = "judge", !.at = now,
                                          !.recoveredAt = row.recoveredAt])
      /\ UNCHANGED <<now, rows, history>>

\* spentAgain: has any later token of the session been spent?
Progressed(r) ==
  \E u \in Token : /\ token[u].sid = request[r].sid
                   /\ token[u].usedAt > request[r].usedAt

JudgeSpent(r) ==
  /\ request[r].pc = "judge"
  /\ Goto(r, IF ResolveSpent(Progressed(r), request[r].recoveredAt) = "reused"
               THEN [Idle EXCEPT !.pc = "revoke", !.sid = request[r].sid]
               ELSE [request[r] EXCEPT !.pc = "rescue"])
  /\ UNCHANGED <<now, rows, history>>

\* The part of issueSuccessor both callers share, on top of the tokens spent.
Issue(r, spent, recovered) ==
  LET s == request[r].sid IN
  \E n \in Fresh :
    /\ token' = [t \in Token |->
         IF t = n THEN [sid |-> s, usedAt |-> Never]
         ELSE IF t \in spent THEN [token[t] EXCEPT !.usedAt = request[r].at]
         ELSE token[t]]
    /\ session' = [session EXCEPT
         ![s].expiresAt = SlidExpiry(s, request[r].at),
         ![s].recoveredAt = IF recovered THEN request[r].at ELSE @]
    /\ exchangedFor' = [t \in Token |->
         IF ~recovered /\ t \in spent
           THEN exchangedFor[t] \cup {n} ELSE exchangedFor[t]]
    /\ Goto(r, [Idle EXCEPT !.pc = "account", !.sid = s])

\* Mutant of SpendWon: the update no longer asks that the token be unspent.
SpendAnyway(r) == Issued(request[r].token)

\* issueSuccessor with a token id: conditional on it still being unspent, so
\* the database and not the earlier read decides which request is served.
SpendWon(r) == token[request[r].token].usedAt = Never

SpendToken(r) ==
  /\ request[r].pc = "spend"
  /\ \/ SpendWon(r) /\ Issue(r, {request[r].token}, FALSE)
     \/ ~SpendWon(r) /\ Goto(r, Idle)
        /\ UNCHANGED <<session, token, exchangedFor>>
  /\ UNCHANGED <<now, account, provedBy, floor, slipped>>

\* The rescue's UPDATE takes its snapshot of the session's unspent tokens.
BeginRescue(r) ==
  /\ request[r].pc = "rescue"
  /\ Goto(r, [request[r] EXCEPT !.pc = "retire",
                                !.unspent = Unspent(request[r].sid)])
  /\ UNCHANGED <<now, rows, history>>

\* The rescue commits.  A token of the snapshot another transaction spent
\* meanwhile is re-checked and left; one inserted meanwhile was never seen.
Rescue(r) ==
  /\ request[r].pc = "retire"
  /\ Issue(r, request[r].unspent \cap Unspent(request[r].sid), TRUE)
  /\ UNCHANGED <<now, account, provedBy, floor, slipped>>

\* Mutant of ReadAccount: a locked account is let through.
TrustAccount(r) ==
  /\ request[r].pc = "account"
  /\ Goto(r, Idle)
  /\ UNCHANGED <<now, rows, history>>

\* The account is read back once the rotation has committed.
ReadAccount(r) ==
  /\ request[r].pc = "account"
  /\ Goto(r, IF account.barred
               THEN [Idle EXCEPT !.pc = "revoke", !.sid = request[r].sid]
               ELSE Idle)
  /\ UNCHANGED <<now, rows, history>>

Revoke(r) ==
  /\ request[r].pc = "revoke"
  /\ session' = [session EXCEPT ![request[r].sid] = Revoked(request[r].sid, now)]
  /\ Goto(r, Idle)
  /\ UNCHANGED <<now, account, token, history>>

-----------------------------------------------------------------------------
(* Ending sessions.                                                        *)

\* signOut with a refresh token: findLive, which never looks at usedAt, and
\* then revoke.  With only an access token the session is the one it names.
FindLive(t) == Issued(t) /\ IsSessionLive(token[t].sid)

SignOut(r) ==
  /\ request[r].pc = "idle"
  /\ \/ \E t \in Token :
          /\ FindLive(t)
          /\ Goto(r, [Idle EXCEPT !.pc = "revoke", !.sid = token[t].sid])
     \/ \E s \in Session :
          /\ Exists(s)
          /\ Goto(r, [Idle EXCEPT !.pc = "revoke", !.sid = s])
  /\ UNCHANGED <<now, rows, history>>

SignOutEverywhere ==
  /\ RevokeAll(Unrevoked, now)
  /\ UNCHANGED <<now, account, token, request, history>>

\* A transaction that updates the users row keeps others from updating it
\* until it commits; inserting a session needs no such lock.
UsersRowFree == \A q \in Request : request[q].pc \notin {"replaced", "ending"}

\* complete(): the account is asked about again by the UPDATE itself.
ResetPassword(r) ==
  /\ request[r].pc = "idle" /\ UsersRowFree
  /\ ~account.barred /\ account.password < MaxPassword
  /\ Goto(r, [Idle EXCEPT !.pc = "replaced", !.password = account.password])
  /\ UNCHANGED <<now, rows, history>>

\* changePassword: the current password is checked before the transaction,
\* which lands only if the hash is still the one that was checked.
CheckPassword(r) ==
  /\ request[r].pc = "idle" /\ account.password < MaxPassword
  /\ \E s \in Session :
       /\ IsSessionLive(s)
       /\ Goto(r, [Idle EXCEPT !.pc = "change", !.sid = s,
                               !.password = account.password])
  /\ UNCHANGED <<now, rows, history>>

\* Mutant of HashStands: the UPDATE no longer names the hash that was checked.
HashForgotten(r) == TRUE

HashStands(r) == account.password = request[r].password

\* Those who sign nobody else out commit at once.
ChangePassword(r) ==
  /\ request[r].pc = "change" /\ UsersRowFree
  /\ \/ /\ HashStands(r)
        /\ Goto(r, [request[r] EXCEPT !.pc = "replaced"])
        /\ UNCHANGED <<account, provedBy>>
     \/ /\ HashStands(r)
        /\ account' = [account EXCEPT !.password = @ + 1]
        /\ provedBy' = [provedBy EXCEPT ![request[r].sid] = request[r].password + 1]
        /\ Goto(r, Idle)
     \/ /\ ~HashStands(r)
        /\ Goto(r, Idle)
        /\ UNCHANGED <<account, provedBy>>
  /\ UNCHANGED <<now, session, token, exchangedFor, floor, slipped>>

\* revokeAllExcept, or revokeAllFor of a reset, takes its snapshot.
EndSessions(r) ==
  /\ request[r].pc = "replaced"
  /\ Goto(r, [request[r] EXCEPT !.pc = "ending", !.at = now,
                                !.ending = Unrevoked \ {request[r].sid}])
  /\ UNCHANGED <<now, rows, history>>

\* The new password and the ends of the sessions appear together.  Whoever
\* changed it knows the version they put in place of the one they proved.
CommitPassword(r) ==
  /\ request[r].pc = "ending"
  /\ account' = [account EXCEPT !.password = @ + 1]
  /\ RevokeAll(request[r].ending, request[r].at)
  /\ provedBy' = [s \in Session |->
       IF s = request[r].sid THEN request[r].password + 1 ELSE provedBy[s]]
  /\ floor' = account.password + 1
  /\ Goto(r, Idle)
  /\ UNCHANGED <<now, token, exchangedFor, slipped>>

\* requestAccountDeletion locks the account and ends every session at once:
\* its FOR UPDATE of the users row makes inserts of sessions wait as well.
\* cancelAccountDeletion lifts the lock and restores no session.
LockAccount ==
  /\ ~account.barred /\ UsersRowFree
  /\ account' = [account EXCEPT !.barred = TRUE]
  /\ RevokeAll(Unrevoked, now)
  /\ UNCHANGED <<now, token, request, history>>

UnlockAccount ==
  /\ account.barred /\ UsersRowFree
  /\ account' = [account EXCEPT !.barred = FALSE]
  /\ UNCHANGED <<now, session, token, request, history>>

Tick == now < MaxTime /\ now' = now + 1 /\ UNCHANGED <<rows, request, history>>

-----------------------------------------------------------------------------

RefreshStep(r) ==
  \/ ReadSession(r) \/ JudgeSpent(r) \/ SpendToken(r) \/ BeginRescue(r)
  \/ Rescue(r) \/ ReadAccount(r) \/ Revoke(r)

RequestStep(r) ==
  \/ SignIn(r) \/ CreateSession(r) \/ CreateToken(r)
  \/ ReadToken(r) \/ RefreshStep(r) \/ SignOut(r)
  \/ ResetPassword(r) \/ CheckPassword(r) \/ ChangePassword(r)
  \/ EndSessions(r) \/ CommitPassword(r)

Next ==
  \/ \E r \in Request : RequestStep(r)
  \/ SignOutEverywhere \/ LockAccount \/ UnlockAccount
  \/ Tick

Spec == Init /\ [][Next]_vars

\* The gateway finishes what it started: every statement of a request in
\* flight eventually runs.  Nothing is assumed of the people sending requests.
FairSpec == Spec /\ \A r \in Request : WF_vars(RefreshStep(r))

-----------------------------------------------------------------------------
(* Properties.                                                             *)

\* Every variable keeps its shape, and no end of a session is dated ahead.
TypeOK ==
  /\ now \in Nat
  /\ account \in Account
  /\ session \in [Session -> SessionRow]
  /\ \A s \in Session : session[s].revokedAt <= now
  /\ token \in [Token -> TokenRow]
  /\ request \in [Request -> RequestState]
  /\ exchangedFor \in [Token -> SUBSET Token]
  /\ provedBy \in [Session -> Nat]
  /\ floor \in Nat
  /\ slipped \subseteq Session

\* However many requests present one refresh token at once, at most one of
\* them is given a successor for it (issueSuccessor's conditional UPDATE).
OneSuccessor ==
  \A t \in Token : \A m, n \in exchangedFor[t] : m = n

\* A session that has never been rescued has at most one token that still
\* works: a copied credential and its holder cannot both hold a live one.
OneLiveTokenUntilRescue ==
  \A s \in Session : session[s].recoveredAt = Never =>
    \A t, u \in Unspent(s) : t = u

\* No chain of renewals, in any interleaving, carries a session past its
\* absolute cap or further than one window beyond the present.
ExpiryBounded ==
  \A s \in Session : Exists(s) =>
    /\ session[s].expiresAt <= session[s].createdAt + CAP
    /\ session[s].expiresAt <= now + TTL

\* A token that has been spent stays spent, at the instant it first was: the
\* rescue and a losing request never restamp it, so "progressed" keeps its
\* meaning.
SpentIsFinal ==
  [][\A t \in Token : token[t].usedAt # Never => token'[t] = token[t]]_vars

\* The first end of a session is the one recorded, and nothing undoes it.
RevocationIsFinal ==
  [][\A s \in Session : session[s].revokedAt # Never =>
       session'[s].revokedAt = session[s].revokedAt]_vars

\* Once a password has been replaced and the other devices signed out, a
\* session still live was opened or kept with the new password, or inserted by
\* a sign-in that overlapped the change: however two changes and a reset race,
\* nobody who proved only the old password keeps one that was there before.
OnlyRacingSignInsStand ==
  \A s \in Session :
    IsSessionLive(s) /\ provedBy[s] < floor => s \in slipped

\* A spent token that comes back past the grace, after a later token of its
\* session was spent too, always ends that session, whatever the other holder
\* does in the meantime.
ReuseEndsSession ==
  \A r \in Request, s \in Session :
    (request[r].pc = "judge" /\ request[r].sid = s /\ Progressed(r))
      ~> session[s].revokedAt # Never

\* A renewal that finds its account locked ends the session it renewed, unless
\* the account is unlocked first: a lock outlives no refresh window.
LockedRenewalEnds ==
  \A r \in Request, s \in Session :
    (request[r].pc = "account" /\ request[r].sid = s /\ account.barred)
      ~> (session[s].revokedAt # Never \/ ~account.barred)

-----------------------------------------------------------------------------
(* What comments and docs say of these sessions, for runs that test it.    *)

\* "exactly one live credential exists afterwards" (session.service.ts:231-233).
OneLiveToken ==
  \A s \in Session : \A t, u \in Unspent(s) : t = u

\* "no state in which the password changed but an old session survived"
\* (password-reset.service.ts:191-192; account-security.service.ts:128-129).
NoOldSession == \A s \in Session : IsSessionLive(s) => provedBy[s] >= floor

=============================================================================
