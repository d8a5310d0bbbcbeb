----------------------------- MODULE LiveAccess -----------------------------
(***************************************************************************)
(* Keeping live connections in line with the database: what onAuthenticate *)
(* decides when an editor connects, and the re-authorization that revisits *)
(* the decision afterwards, by a sweep every few seconds and by a push the *)
(* moment a route changes something.  One board, one person who does not   *)
(* own it, and that person's connections under several sessions.           *)
(*                                                                         *)
(* Every database read is awaited, so what a sweep or a push applies was   *)
(* read earlier; setInterval starts the next sweep whether or not the last *)
(* one has finished.                                                       *)
(***************************************************************************)
EXTENDS BoardAccess, FiniteSets

CONSTANTS
  Conn,         \* connections; each is made once
  Session,      \* signed-in sessions
  Guest,        \* the session id of a token minted for a guest: null
  Sweep,        \* passes of the sweep that may be under way together
  Push,         \* calls of /internal/board-access under way together
  MaxChanges,   \* bound: changes to the board and the person's grant
  MaxBlips      \* bound: reads the database fails

ASSUME GuestAssumption == Guest \notin Session
ASSUME BoundsAssumption == MaxChanges \in Nat /\ MaxBlips \in Nat

Pass == Sweep \cup Push

VARIABLES
  board,    \* the boards row: deletedAt, archivedAt
  grant,    \* the person's board_members row
  standing, \* the person's role in the board's workspace
  live,     \* the sessions that still stand
  notice,   \* a push the web app or gateway is about to send
  conn,     \* the connections
  pass,     \* the re-authorization passes under way
  changes, blips,
  lost      \* history: connections whose person has been without access

database == <<board, grant, standing, live>>
vars == <<database, notice, conn, pass, changes, blips, lost>>

Truth == ResolveBoardAccess(board, FALSE, grant, standing)

ConnState ==
  [state: {"out", "checked", "admitted", "open", "gone"},
   session: Session \cup {Guest}, role: Role \cup {"none"}, readOnly: BOOLEAN,
   told: {"nothing", "access-revoked", "session-ended"}]
PassState ==
  [step: {"off", "listed", "walking", "awaiting"}, todo: SUBSET Conn,
   sessions: SUBSET Session, checked: BOOLEAN, conn: SUBSET Conn, seen: Access]

Out == [state |-> "out", session |-> Guest, role |-> "none",
        readOnly |-> FALSE, told |-> "nothing"]
Off == [step |-> "off", todo |-> {}, sessions |-> {}, checked |-> FALSE,
        conn |-> {}, seen |-> NoAccess]

Open == {k \in Conn : conn[k].state = "open"}
InLine(k, access) ==
  conn[k].role = access.role /\ conn[k].readOnly = ~CanEdit(access)

Init ==
  /\ board = [deleted |-> FALSE, archived |-> FALSE]
  /\ grant = NoGrant /\ standing = "member"
  /\ live = Session
  /\ notice = FALSE
  /\ conn = [k \in Conn |-> Out]
  /\ pass = [p \in Pass |-> Off]
  /\ changes = 0 /\ blips = 0 /\ lost = {}

-----------------------------------------------------------------------------
(***************************************************************************)
(* The routes that change what the person may do.  Those that touch the    *)
(* person's own standing push; archiving and deleting leave it to the      *)
(* sweep, as ending a session does.                                        *)
(***************************************************************************)
Lingering == {k \in Conn : conn[k].state \in {"checked", "admitted", "open"}}

Change(pushes) ==
  /\ changes < MaxChanges
  /\ changes' = changes + 1
  /\ notice' = (notice \/ pushes)
  /\ lost' = IF Truth' = NoAccess THEN lost \cup Lingering ELSE lost
  /\ UNCHANGED <<live, conn, pass, blips>>

RevokeBoardAccess ==
  /\ grant' = [role |-> IF HasGrant(grant) THEN grant.role ELSE "viewer",
               status |-> "revoked"]
  /\ UNCHANGED <<board, standing>>
  /\ Change(TRUE)

SetBoardMemberRole(role) ==
  /\ HasGrant(grant) /\ role \in {"editor", "viewer"}
  /\ grant' = [role |-> role, status |-> "active"]
  /\ UNCHANGED <<board, standing>>
  /\ Change(TRUE)

\* A share link: never demotes, never lets a removed person back.
RedeemShareLink(role) ==
  /\ role \in {"editor", "viewer"} /\ ~board.deleted
  /\ HasGrant(grant) => ~IsRevoked(grant) /\ Rank(role) > Rank(grant.role)
  /\ grant' = [role |-> role, status |-> "active"]
  /\ UNCHANGED <<board, standing>>
  /\ Change(FALSE)

LeaveWorkspace ==
  /\ standing # "none" /\ ~board.deleted
  /\ standing' = "none"
  /\ grant' = IF IsRevoked(grant) THEN grant ELSE NoGrant
  /\ UNCHANGED board
  /\ Change(TRUE)

RemoveMember ==
  /\ standing # "none" /\ ~board.deleted
  /\ standing' = "none"
  /\ grant' = [role |-> IF HasGrant(grant) THEN grant.role ELSE "editor",
               status |-> "revoked"]
  /\ UNCHANGED board
  /\ Change(TRUE)

SetBoardArchived(archived) ==
  /\ ~board.deleted /\ board.archived # archived
  /\ board' = [board EXCEPT !.archived = archived]
  /\ UNCHANGED <<grant, standing>>
  /\ Change(FALSE)

SoftDeleteBoard ==
  /\ ~board.deleted
  /\ board' = [board EXCEPT !.deleted = TRUE]
  /\ UNCHANGED <<grant, standing>>
  /\ Change(FALSE)

EndSession(s) ==
  /\ s \in live
  /\ live' = live \ {s}
  /\ UNCHANGED <<board, grant, standing, notice, conn, pass, changes, blips, lost>>

-----------------------------------------------------------------------------
(***************************************************************************)
(* Connecting.  onAuthenticate reads the session, then the grant; the      *)
(* connection joins the document's list once the document has loaded.      *)
(***************************************************************************)
Connecting(k, c) ==
  /\ conn' = [conn EXCEPT ![k] = c]
  /\ UNCHANGED <<database, notice, pass, changes, blips, lost>>

CheckSession(k, s) ==
  /\ conn[k].state = "out" /\ s \in Session \cup {Guest}
  /\ Connecting(k, [Out EXCEPT !.session = s,
                      !.state = IF s \in live \cup {Guest} THEN "checked" ELSE "gone"])

\* Mutant of CheckBoardAccess: a null access is not refused.
AdmitAnyone(k) ==
  /\ conn[k].state = "checked"
  /\ Connecting(k, [conn[k] EXCEPT !.state = "admitted", !.role = Truth.role,
                                   !.readOnly = ~CanEdit(Truth)])

CheckBoardAccess(k) ==
  /\ conn[k].state = "checked"
  /\ Connecting(k,
       IF Truth = NoAccess THEN [conn[k] EXCEPT !.state = "gone"]
       ELSE [conn[k] EXCEPT !.state = "admitted", !.role = Truth.role,
                            !.readOnly = ~CanEdit(Truth)])

Register(k) ==
  /\ conn[k].state = "admitted"
  /\ Connecting(k, [conn[k] EXCEPT !.state = "open"])

\* The socket closes from the other end.
Depart(k) ==
  /\ conn[k].state \in {"checked", "admitted", "open"}
  /\ Connecting(k, [conn[k] EXCEPT !.state = "gone"])

-----------------------------------------------------------------------------
(***************************************************************************)
(* Re-authorizing.  A pass lists the connections, a sweep reads which of   *)
(* their sessions stand, and then each connection is judged in turn.       *)
(***************************************************************************)
StartSweep(p) ==
  /\ p \in Sweep /\ pass[p] = Off /\ Open # {}
  /\ pass' = [pass EXCEPT ![p] = [Off EXCEPT !.step = "listed", !.todo = Open]]
  /\ UNCHANGED <<database, notice, conn, changes, blips, lost>>

\* Mutant of LiveSessionIds: the query forgets revokedAt.
AllSessionIds(p) ==
  /\ pass[p].step = "listed"
  /\ pass' = [pass EXCEPT ![p].step = "walking", ![p].checked = TRUE,
                ![p].sessions = Session]
  /\ UNCHANGED <<database, notice, conn, changes, blips, lost>>

LiveSessionIds(p) ==
  /\ pass[p].step = "listed"
  /\ pass' = [pass EXCEPT ![p].step = "walking", ![p].checked = TRUE,
                ![p].sessions = {conn[k].session : k \in pass[p].todo} \cap live]
  /\ UNCHANGED <<database, notice, conn, changes, blips, lost>>

\* "undefined means 'not checked', never 'none live'".
SessionReadFails(p) ==
  /\ pass[p].step = "listed" /\ blips < MaxBlips
  /\ blips' = blips + 1
  /\ pass' = [pass EXCEPT ![p].step = "walking"]
  /\ UNCHANGED <<database, notice, conn, changes, lost>>

StartPush(p) ==
  /\ p \in Push /\ pass[p] = Off /\ notice
  /\ notice' = FALSE
  /\ pass' = [pass EXCEPT ![p] =
       IF Open = {} THEN Off ELSE [Off EXCEPT !.step = "walking", !.todo = Open]]
  /\ UNCHANGED <<database, conn, changes, blips, lost>>

\* Advisory: never retried.
LosePush ==
  /\ notice
  /\ notice' = FALSE
  /\ UNCHANGED <<database, conn, pass, changes, blips, lost>>

Sealed(k, message) ==
  [conn[k] EXCEPT !.state = "gone", !.readOnly = TRUE,
     !.told = IF conn[k].state = "open" THEN message ELSE @]

\* The next connection of the pass, or the pass is over.
Without(p, k) ==
  IF pass[p].todo = {k} THEN Off
  ELSE [pass[p] EXCEPT !.step = "walking", !.todo = @ \ {k}, !.conn = {},
                       !.seen = NoAccess]

\* Mutant of SessionEnded: a failed read is taken for none live.
UnreadMeansEnded(p, k) ==
  conn[k].session # Guest /\ conn[k].session \notin pass[p].sessions

SessionEnded(p, k) ==
  pass[p].checked /\ conn[k].session # Guest /\ conn[k].session \notin pass[p].sessions

CloseForSession(p, k) ==
  /\ pass[p].step = "walking" /\ k \in pass[p].todo /\ SessionEnded(p, k)
  /\ conn' = [conn EXCEPT ![k] = Sealed(k, "session-ended")]
  /\ pass' = [pass EXCEPT ![p] = Without(p, k)]
  /\ UNCHANGED <<database, notice, changes, blips, lost>>

ReadAccess(p, k) ==
  /\ pass[p].step = "walking" /\ k \in pass[p].todo /\ ~SessionEnded(p, k)
  /\ pass' = [pass EXCEPT ![p].step = "awaiting", ![p].conn = {k}, ![p].seen = Truth]
  /\ UNCHANGED <<database, notice, conn, changes, blips, lost>>

AccessReadFails(p, k) ==
  /\ pass[p].step = "walking" /\ k \in pass[p].todo /\ ~SessionEnded(p, k)
  /\ blips < MaxBlips
  /\ blips' = blips + 1
  /\ pass' = [pass EXCEPT ![p] = Without(p, k)]
  /\ UNCHANGED <<database, notice, conn, changes, lost>>

\* Mutant of ApplyAccess: a role that has not changed leaves readOnly as it was.
ApplyRole(p, k) ==
  /\ pass[p].step = "awaiting" /\ pass[p].conn = {k}
  /\ conn' = [conn EXCEPT ![k] =
       IF pass[p].seen = NoAccess THEN Sealed(k, "access-revoked")
       ELSE IF pass[p].seen.role = @.role THEN @
       ELSE [@ EXCEPT !.role = pass[p].seen.role, !.readOnly = ~CanEdit(pass[p].seen)]]
  /\ pass' = [pass EXCEPT ![p] = Without(p, k)]
  /\ UNCHANGED <<database, notice, changes, blips, lost>>

ApplyAccess(p, k) ==
  /\ pass[p].step = "awaiting" /\ pass[p].conn = {k}
  /\ conn' = [conn EXCEPT ![k] =
       IF pass[p].seen = NoAccess THEN Sealed(k, "access-revoked")
       ELSE [@ EXCEPT !.role = pass[p].seen.role, !.readOnly = ~CanEdit(pass[p].seen)]]
  /\ pass' = [pass EXCEPT ![p] = Without(p, k)]
  /\ UNCHANGED <<database, notice, changes, blips, lost>>

-----------------------------------------------------------------------------
DatabaseStep ==
  \/ RevokeBoardAccess \/ LeaveWorkspace \/ RemoveMember \/ SoftDeleteBoard
  \/ \E role \in {"editor", "viewer"} : SetBoardMemberRole(role) \/ RedeemShareLink(role)
  \/ \E archived \in BOOLEAN : SetBoardArchived(archived)
  \/ \E s \in Session : EndSession(s)

ConnectStep(k) ==
  \/ \E s \in Session \cup {Guest} : CheckSession(k, s)
  \/ CheckBoardAccess(k) \/ Register(k) \/ Depart(k)

PassStep(p) ==
  \/ StartSweep(p) \/ LiveSessionIds(p) \/ StartPush(p)
  \/ \E k \in Conn : CloseForSession(p, k) \/ ReadAccess(p, k) \/ ApplyAccess(p, k)

Blip(p) == SessionReadFails(p) \/ \E k \in Conn : AccessReadFails(p, k)

Next ==
  \/ DatabaseStep \/ LosePush
  \/ \E k \in Conn : ConnectStep(k)
  \/ \E p \in Pass : PassStep(p) \/ Blip(p)

Spec == Init /\ [][Next]_vars

\* The interval fires and every awaited query settles.
FairSpec == Spec /\ \A p \in Pass : WF_vars(PassStep(p))

-----------------------------------------------------------------------------
\* Every variable keeps its shape, and nobody is let in without a role.
TypeOK ==
  /\ board \in [deleted: BOOLEAN, archived: BOOLEAN]
  /\ grant \in Grant /\ standing \in Standing /\ live \subseteq Session
  /\ notice \in BOOLEAN
  /\ conn \in [Conn -> ConnState]
  /\ \A k \in Conn : conn[k].state \in {"admitted", "open"} => conn[k].role \in Role
  /\ pass \in [Pass -> PassState]
  /\ changes \in 0..MaxChanges /\ blips \in 0..MaxBlips /\ lost \subseteq Conn

\* "A database blip must not close anybody's board": a person is told their
\* session ended only if it did, and that the board is gone only if, while
\* that connection was being made or stood open, they were without access.
ToldTheTruth ==
  \A k \in Conn :
    /\ conn[k].told = "session-ended" => conn[k].session \in Session \ live
    /\ conn[k].told = "access-revoked" => k \in lost

\* Whatever the person's access settles on is what every connection of
\* theirs settles on: pushes may be lost, reads may fail and passes may
\* overlap and apply what they read before, but the sweep gets there.
SettledAccessIsEnforced ==
  \A access \in Access :
    <>[](Truth = access) =>
      <>[](\A k \in Open : access # NoAccess /\ InLine(k, access))

\* An ended session takes its connections with it, those that were still
\* being admitted when it ended included.
EndedSessionIsDisconnected ==
  \A s \in Session :
    (s \notin live) ~> [](\A k \in Open : conn[k].session # s)

=============================================================================
