------------------------------ MODULE EditorToken ------------------------------
(***************************************************************************)
(* One tab of the editor on one board of an account: the board token it    *)
(* keeps fresh, the socket it keeps open, and what becomes of the page     *)
(* when the person's role changes, the board is taken from them or their   *)
(* session ends.                                                           *)
(*                                                                         *)
(* Mints are asked for by the schedule and by a refused connect (refresh,  *)
(* throttled and never joined to a mint under way) and by what the server  *)
(* reports (refreshNow, tried again and joined).  Callbacks run whole;     *)
(* requests, answers, notices and timers come between them.                *)
(***************************************************************************)
EXTENDS Integers, Sequences

CONSTANTS
  Loop,              \* calls of refreshNow under way
  RETRIES,           \* how often refreshNow tries again (3 in the code)
  MAX_UNAUTHORIZED,  \* refusals in a row that end the session (3 in the code)
  MaxChanges,        \* bound: changes of what the person may do
  MaxBlips           \* bound: failed mints, dropped sockets and reloads

ASSUME BoundsAssumption ==
  /\ RETRIES \in Nat /\ MAX_UNAUTHORIZED \in Nat \ {0}
  /\ MaxChanges \in Nat /\ MaxBlips \in Nat

VARIABLES
  server,    \* what the person may do, by the database, and which change that is
  token,     \* the tab's token: the same, as of its minting
  mint,      \* what each runner has asked for
  again,     \* another mint was asked for while one ran
  recent,    \* an attempt was made in the last five seconds
  tries,     \* how often each refreshNow has failed so far
  timer,     \* the scheduled refresh: "off", "set", or "due"
  refusals,  \* 401s in a row
  socket,    \* "down", "up", or "stopped" for good
  known,     \* the role the server's end of the socket has
  notices,   \* what the server has sent down the socket
  page,      \* "open", "closed": the board is gone, or "left" to sign in
  heard,     \* history: the newest change the tab was told of
  unheard,   \* history: how a change told was lost: "no", "gaveUp", "behind"
  blips

net == <<socket, known, notices>>
vars == <<server, token, mint, again, recent, tries, timer, refusals, socket,
          known, notices, page, heard, unheard, blips>>

Runner == {"refresh"} \cup Loop
\* "archived" is an editor of a board that has been archived.
Role == {"editor", "viewer", "archived"}
NoToken == [ver |-> 0, may |-> "none", lapsed |-> FALSE]
NoMint == [step |-> "none", got |-> NoToken]
Asked == [step |-> "asked", got |-> NoToken]
Failed == [step |-> "answered", got |-> NoToken]

\* A token from the link, or none: then one is asked for at once.
Init ==
  /\ server \in [ver : {1}, may : Role]
  /\ token \in {NoToken, [ver |-> 1, may |-> server.may, lapsed |-> FALSE]}
  /\ mint = [r \in Runner |-> IF r = "refresh" /\ token = NoToken THEN Asked ELSE NoMint]
  /\ again = FALSE /\ recent = (token = NoToken) /\ tries = [l \in Loop |-> 0]
  /\ timer = (IF token = NoToken THEN "off" ELSE "set") /\ refusals = 0
  /\ socket = "down" /\ known = "none" /\ notices = <<>>
  /\ page = "open" /\ heard = 0 /\ unheard = "no" /\ blips = 0

Here == page # "left"
Blip == blips < MaxBlips /\ blips' = blips + 1

-----------------------------------------------------------------------------
(* Asking for a mint.                                                      *)

\* Mutant of InFlight: mints are not kept to one at a time.
NeverInFlight == FALSE

InFlight == \E r \in Runner : mint[r].step # "none"

\* Mutant of JoinMint: the mint under way will do.
ShareMint == UNCHANGED again

\* The mint under way is followed by one that starts after this change.
JoinMint == again' = TRUE

Ask(r) == mint' = [mint EXCEPT ![r] = Asked] /\ again' = FALSE

Refresh ==
  IF recent \/ InFlight THEN UNCHANGED <<mint, again, recent>>
  ELSE Ask("refresh") /\ recent' = TRUE

Resting(l) == tries[l] = 0 /\ mint[l] = NoMint

RefreshNow(l, ver) ==
  /\ Resting(l)
  /\ recent' = TRUE
  /\ heard' = IF ver > heard THEN ver ELSE heard
  /\ IF InFlight THEN JoinMint /\ UNCHANGED mint ELSE Ask(l)

\* refreshNow has waited, and tries again.
Wake(l) ==
  /\ Here /\ tries[l] > 0 /\ mint[l] = NoMint
  /\ recent' = TRUE
  /\ IF InFlight
       THEN JoinMint /\ tries' = [tries EXCEPT ![l] = 0] /\ UNCHANGED mint
       ELSE Ask(l) /\ UNCHANGED tries
  /\ UNCHANGED <<server, token, timer, refusals, net, page, heard, unheard, blips>>

\* The board list says otherwise than the token whether the board is archived:
\* asked about once per change.
HearFromList(l) ==
  /\ page = "open" /\ token # NoToken
  /\ server.may \in Role /\ (server.may = "archived") # (token.may = "archived")
  /\ heard < server.ver
  /\ RefreshNow(l, server.ver)
  /\ UNCHANGED <<server, token, tries, timer, refusals, net, page, unheard, blips>>

-----------------------------------------------------------------------------
(* The mint.                                                               *)

\* The token route re-derives the role: 401 with no session, 404 with no access.
Serve(r) ==
  /\ mint[r].step = "asked"
  /\ mint' = [mint EXCEPT ![r] = [step |-> "answered",
                got |-> [ver |-> server.ver, may |-> server.may, lapsed |-> FALSE]]]
  /\ UNCHANGED <<server, token, again, recent, tries, timer, refusals, net, page,
                 heard, unheard, blips>>

\* Lost on the way there or back, or abandoned after ten seconds.
MintFails(r) ==
  /\ mint[r] \notin {NoMint, Failed} /\ Blip
  /\ mint' = [mint EXCEPT ![r] = Failed]
  /\ UNCHANGED <<server, token, again, recent, tries, timer, refusals, net, page,
                 heard, unheard>>

\* Mutant of GivesUp: refusals are retried for ever.
RetriesForEver(n) == FALSE

GivesUp(n) == n >= MAX_UNAUTHORIZED

\* Mutant of Scheduled: the schedule is made for the first token only.
ScheduledOnce == timer' = timer

\* A new token's expiry restarts the schedule.
Scheduled == timer' = "set"

\* A run that ended with nothing minted: refresh leaves it, refreshNow tries again.
RunFailed(r) ==
  /\ tries' = IF r \in Loop
                THEN [tries EXCEPT ![r] = IF @ < RETRIES THEN @ + 1 ELSE 0] ELSE tries
  /\ unheard' = CASE heard <= token.ver \/ \E l \in Loop : tries'[l] > 0 -> unheard
                  [] r = "refresh" -> "behind"
                  [] OTHER -> "gaveUp"

Settle(r) ==
  LET got == mint[r].got
      refused == IF got.may = "ended" THEN refusals + 1 ELSE refusals
      over == got.may = "ended" /\ GivesUp(refused)
      settled == got.may \in Role \cup {"removed"} \/ over
  IN
  /\ Here /\ mint[r].step = "answered"
  /\ IF got.may \in Role
       THEN token' = got /\ refusals' = 0 /\ Scheduled
       ELSE /\ refusals' = IF refused > MAX_UNAUTHORIZED THEN refusals ELSE refused
            /\ UNCHANGED <<token, timer>>
  /\ page' = IF over THEN "left"
             ELSE IF got.may = "removed" THEN "closed" ELSE page
  /\ again' = FALSE
  /\ mint' = [mint EXCEPT ![r] = IF again THEN Asked ELSE NoMint]
  /\ IF again THEN UNCHANGED <<tries, unheard>>
     ELSE IF settled
       THEN /\ tries' = IF r \in Loop THEN [tries EXCEPT ![r] = 0] ELSE tries
            /\ unheard' = IF heard <= token'.ver THEN "no" ELSE unheard
       ELSE RunFailed(r)
  /\ UNCHANGED <<server, recent, net, heard, blips>>

-----------------------------------------------------------------------------
(* Time.                                                                   *)

\* Five seconds without an attempt; a minute before it expires a token is due.
Lull ==
  /\ Here
  /\ recent \/ timer = "set"
  /\ recent' = FALSE
  /\ timer' = IF timer = "set" THEN "due" ELSE timer
  /\ UNCHANGED <<server, token, mint, again, tries, refusals, net, page, heard,
                 unheard, blips>>

FireTimer ==
  /\ Here /\ timer = "due"
  /\ timer' = "off" /\ Refresh
  /\ UNCHANGED <<server, token, tries, refusals, net, page, heard, unheard, blips>>

\* It expires unrenewed: renewals failed, or the laptop slept.
Lapse ==
  /\ Here /\ token # NoToken /\ ~token.lapsed /\ timer # "set"
  /\ token' = [token EXCEPT !.lapsed = TRUE]
  /\ UNCHANGED <<server, mint, again, recent, tries, timer, refusals, net, page,
                 heard, unheard, blips>>

-----------------------------------------------------------------------------
(* The socket.                                                             *)

\* Told once, whatever it is; the socket never comes back.
Stop(outcome) ==
  /\ socket' = "stopped" /\ known' = "none" /\ notices' = <<>>
  /\ page' = outcome
  /\ UNCHANGED <<server, token, mint, again, recent, tries, timer, refusals, heard,
                 unheard, blips>>

Connecting == Here /\ socket = "down" /\ token # NoToken

\* The live role is used, not the one the token has; nobody is told it differs.
Connect ==
  /\ Connecting /\ ~token.lapsed /\ server.may \in Role
  /\ socket' = "up" /\ known' = server.may /\ notices' = <<>>
  /\ UNCHANGED <<server, token, mint, again, recent, tries, timer, refusals, page,
                 heard, unheard, blips>>

ConnectRefused ==
  /\ Connecting /\ ~token.lapsed
  /\ \/ server.may = "removed" /\ Stop("closed")
     \/ server.may = "ended" /\ Stop("left")

\* The token is judged before the session and the access are.
ConnectLapsed ==
  /\ Connecting /\ token.lapsed
  /\ Refresh
  /\ UNCHANGED <<server, token, tries, timer, refusals, net, page, heard, unheard, blips>>

\* The server re-checks the connection: a changed role is sent, a lost board or
\* session is sent and the socket closed behind it.
Reauthorize ==
  /\ socket = "up" /\ known # "none" /\ known # server.may
  /\ LET notice == [kind |-> server.may, ver |-> server.ver] IN
     IF server.may \in Role
     THEN notices' = Append(notices, notice) /\ known' = server.may
     ELSE notices' = notices \o <<notice, [kind |-> "close", ver |-> 0]>> /\ known' = "none"
  /\ UNCHANGED <<server, token, mint, again, recent, tries, timer, refusals, socket,
                 page, heard, unheard, blips>>

HearChanged(l) ==
  /\ Here /\ notices # <<>> /\ Head(notices).kind \in Role
  /\ RefreshNow(l, Head(notices).ver)
  /\ notices' = Tail(notices)
  /\ UNCHANGED <<server, token, tries, timer, refusals, socket, known, page, unheard, blips>>

HearTheEnd ==
  /\ Here /\ notices # <<>>
  /\ \/ Head(notices).kind = "removed" /\ Stop("closed")
     \/ Head(notices).kind = "ended" /\ Stop("left")

Drop ==
  /\ Here /\ socket = "up" /\ Blip
  /\ socket' = "down" /\ known' = "none" /\ notices' = <<>>
  /\ UNCHANGED <<server, token, mint, again, recent, tries, timer, refusals, page,
                 heard, unheard>>

-----------------------------------------------------------------------------
\* The page is reloaded: the token is kept in sessionStorage, and nothing else.
Reload ==
  /\ Here /\ Blip
  /\ mint' = [r \in Runner |-> IF r = "refresh" /\ token = NoToken THEN Asked ELSE NoMint]
  /\ again' = FALSE /\ recent' = (token = NoToken) /\ tries' = [l \in Loop |-> 0]
  /\ timer' = (IF token = NoToken THEN "off" ELSE "due") /\ refusals' = 0
  /\ socket' = "down" /\ known' = "none" /\ notices' = <<>>
  /\ page' = "open" /\ heard' = 0 /\ unheard' = "no"
  /\ UNCHANGED <<server, token>>

\* A role is changed, the person removed or let back in, the session ended.
Change(may) ==
  /\ server.ver <= MaxChanges /\ server.may \notin {may, "ended"}
  /\ server' = [ver |-> server.ver + 1, may |-> may]
  /\ UNCHANGED <<token, mint, again, recent, tries, timer, refusals, net, page, heard,
                 unheard, blips>>

Hear == (\E l \in Loop : HearChanged(l)) \/ HearTheEnd
Reach == Connect \/ ConnectRefused \/ ConnectLapsed

Next ==
  \/ \E may \in Role \cup {"removed", "ended"} : Change(may)
  \/ \E r \in Runner : Serve(r) \/ MintFails(r) \/ Settle(r)
  \/ \E l \in Loop : Wake(l) \/ HearFromList(l)
  \/ Lull \/ FireTimer \/ Lapse
  \/ Reach \/ Reauthorize \/ Hear \/ Drop \/ Reload

\* Timers fire, requests are answered or abandoned, the provider keeps
\* reconnecting and the server keeps re-checking.
Spec ==
  /\ Init /\ [][Next]_vars
  /\ \A r \in Runner : WF_vars(Serve(r)) /\ WF_vars(Settle(r))
  /\ \A l \in Loop : WF_vars(Wake(l))
  /\ WF_vars(Lull) /\ WF_vars(FireTimer)
  /\ WF_vars(Reach) /\ WF_vars(Reauthorize) /\ WF_vars(Hear)

-----------------------------------------------------------------------------
Quiet == page = "open" /\ ~InFlight /\ \A l \in Loop : tries[l] = 0

\* When nothing is under way any more, the token carries every change the tab
\* was told of, however the reports overlapped the mints; unless every retry
\* failed, or the mint that was to follow a scheduled one did.
HeardIsCarried == Quiet /\ unheard = "no" => token.ver >= heard

\* No late answer puts an older role back.
TokenNeverGoesBack == [][token'.ver >= token.ver]_vars

\* Told or not, the token ends up with the role the person has: a change made
\* while the socket was down is told to nobody and waits for the schedule.
TokenCatchesUp ==
  <>[](\/ page # "open" \/ token = NoToken
       \/ timer = "off" /\ blips > 0
       \/ token.may = server.may)

\* A board that was taken away, or whose session ended, does not stay on the
\* screen: whichever notices are lost, and with a token lapsed or not.
LostBoardCloses ==
  <>[](server.may \in {"removed", "ended"} /\ token # NoToken => page # "open")

(* What the sources say, and the code does not keep.                       *)

\* useAuthToken.ts: "A change the server reported must not be lost to one
\* network blip".
NotLostToOneBlip == Quiet /\ unheard # "gaveUp" => token.ver >= heard

=============================================================================
