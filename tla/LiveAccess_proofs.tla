-------------------------- MODULE LiveAccess_proofs --------------------------
(***************************************************************************)
(* Theorems about LiveAccess, for any number of connections, sessions,     *)
(* overlapping passes, changes and failed reads.                           *)
(***************************************************************************)
EXTENDS LiveAccess, TLAPS

\* A pass has only connections that were open when it listed them.
Listed == \A p \in Pass : \A k \in pass[p].todo : conn[k].state \in {"open", "gone"}

\* What a sweep read of the sessions: one missing from it, of a connection the
\* sweep has yet to judge, has ended.
SessionsRead ==
  \A p \in Pass : pass[p].checked =>
    \A k \in pass[p].todo :
      conn[k].session \in Session \ pass[p].sessions => conn[k].session \notin live

\* What a pass read of the person's access and has yet to apply: if it read
\* none, the connection it read it for has been without.
AccessRead ==
  \A p \in Pass : pass[p].step = "awaiting" =>
    /\ pass[p].conn \subseteq pass[p].todo
    /\ pass[p].seen = NoAccess =>
         \A k \in pass[p].conn : conn[k].state = "open" => k \in lost

\* While the person has no access, every connection of theirs is marked.
LostIsMarked ==
  Truth = NoAccess =>
    \A k \in Conn : conn[k].state \in {"admitted", "open"} => k \in lost

IInv == TypeOK /\ Listed /\ SessionsRead /\ AccessRead /\ LostIsMarked /\ ToldTheTruth

-----------------------------------------------------------------------------
(* The answer to the authorization question.                               *)

\* Whatever the rows hold, the answer is an access, and one with a role.
LEMMA TruthType ==
  ASSUME board \in [deleted: BOOLEAN, archived: BOOLEAN], grant \in Grant,
         standing \in Standing
  PROVE  Truth \in Access
<1>1. RoleOnBoard(FALSE, grant, standing) \in Role \cup {"none"}
  BY DEF RoleOnBoard, Grant, NoGrant, HasGrant, IsRevoked, Role
<1> QED
  BY <1>1 DEF Truth, ResolveBoardAccess, Access, NoAccess

\* An access that is not none comes with a role.
LEMMA AccessRole == \A access \in Access : access # NoAccess => access.role \in Role
  BY DEF Access

\* Rows nobody wrote give the answer they gave.
LEMMA TruthStands ==
  ASSUME UNCHANGED <<board, grant, standing>>
  PROVE  Truth' = Truth
  BY DEF Truth, ResolveBoardAccess, RoleOnBoard, HasGrant, IsRevoked, NoGrant, NoAccess

\* A pass that is not under way has its shape too.
LEMMA OffPass == Off \in PassState
  BY DEF Off, PassState, Access

\* Nobody connected, nothing read.
LEMMA InitInv == Init => IInv
<1> SUFFICES ASSUME Init PROVE IInv
  OBVIOUS
<1>1. conn \in [Conn -> ConnState] /\ \A k \in Conn : conn[k].state = "out"
  BY DEF Init, ConnState, Out
<1>2. pass \in [Pass -> PassState] /\ \A p \in Pass : pass[p] = Off
  BY OffPass DEF Init
<1>3. TypeOK
  <2>1. /\ board \in [deleted: BOOLEAN, archived: BOOLEAN] /\ grant \in Grant
        /\ standing \in Standing
    BY DEF Init, Grant, Standing, WorkspaceRole
  <2>2. changes \in 0..MaxChanges /\ blips \in 0..MaxBlips
    BY BoundsAssumption DEF Init
  <2> QED
    BY <1>1, <1>2, <2>1, <2>2 DEF Init, TypeOK
<1>4. Listed /\ SessionsRead /\ AccessRead
  BY <1>2 DEF Off, Listed, SessionsRead, AccessRead
<1>5. LostIsMarked /\ ToldTheTruth
  BY <1>1 DEF Init, Out, LostIsMarked, ToldTheTruth
<1> QED
  BY <1>3, <1>4, <1>5 DEF IInv

-----------------------------------------------------------------------------
(* Steps of the database.                                                  *)

\* A change that leaves the person without access marks every connection of
\* theirs; nothing else in the invariant speaks of the rows.
LEMMA ChangeStep ==
  ASSUME IInv, NEW pushes \in BOOLEAN, Change(pushes),
         board' \in [deleted: BOOLEAN, archived: BOOLEAN], grant' \in Grant,
         standing' \in Standing
  PROVE  IInv'
<1>1. UNCHANGED <<live, conn, pass, blips>> /\ lost \subseteq lost' /\ lost' \subseteq Conn
  BY DEF Change, IInv, TypeOK, Lingering
<1>2. changes' \in 0..MaxChanges /\ notice' \in BOOLEAN
  BY BoundsAssumption DEF Change, IInv, TypeOK
<1>3. TypeOK'
  BY <1>1, <1>2 DEF IInv, TypeOK
<1>4. Listed' /\ SessionsRead'
  BY <1>1 DEF IInv, Listed, SessionsRead
<1>5. AccessRead'
  BY <1>1 DEF IInv, AccessRead, TypeOK, PassState
<1>6. LostIsMarked'
  BY <1>1 DEF Change, LostIsMarked, Lingering
<1>7. ToldTheTruth'
  BY <1>1 DEF IInv, ToldTheTruth
<1> QED
  BY <1>3, <1>4, <1>5, <1>6, <1>7 DEF IInv

\* The routes and the end of a session, each as one such change.
LEMMA DatabaseStepInv == IInv /\ DatabaseStep => IInv'
<1> SUFFICES ASSUME IInv, DatabaseStep PROVE IInv'
  OBVIOUS
<1> USE DEF IInv
<1>1. CASE RevokeBoardAccess
  <2>1. [role |-> IF HasGrant(grant) THEN grant.role ELSE "viewer", status |-> "revoked"]
          \in Grant
    BY DEF TypeOK, Grant, HasGrant, Role
  <2> QED
    BY <1>1, <2>1, ChangeStep DEF RevokeBoardAccess, TypeOK
<1>2. CASE LeaveWorkspace
  BY <1>2, ChangeStep DEF LeaveWorkspace, TypeOK, Grant, Standing
<1>3. CASE RemoveMember
  <2>1. [role |-> IF HasGrant(grant) THEN grant.role ELSE "editor", status |-> "revoked"]
          \in Grant
    BY DEF TypeOK, Grant, HasGrant, Role
  <2> QED
    BY <1>3, <2>1, ChangeStep DEF RemoveMember, TypeOK, Standing
<1>4. CASE SoftDeleteBoard
  BY <1>4, ChangeStep DEF SoftDeleteBoard, TypeOK
<1>5. ASSUME NEW role \in {"editor", "viewer"},
             SetBoardMemberRole(role) \/ RedeemShareLink(role)
      PROVE  IInv'
  <2>1. [role |-> role, status |-> "active"] \in Grant
    BY DEF Grant, Role
  <2>2. /\ grant' = [role |-> role, status |-> "active"]
        /\ UNCHANGED <<board, standing>>
        /\ Change(TRUE) \/ Change(FALSE)
    BY <1>5 DEF SetBoardMemberRole, RedeemShareLink
  <2> QED
    BY <2>1, <2>2, ChangeStep DEF TypeOK
<1>6. ASSUME NEW archived \in BOOLEAN, SetBoardArchived(archived) PROVE IInv'
  BY <1>6, ChangeStep DEF SetBoardArchived, TypeOK
<1>7. ASSUME NEW s \in Session, EndSession(s) PROVE IInv'
  <2>1. /\ UNCHANGED <<board, grant, standing, notice, conn, pass, changes, blips, lost>>
        /\ live' \subseteq live
    BY <1>7 DEF EndSession
  <2>2. TypeOK'
    BY <2>1 DEF TypeOK
  <2>3. Listed' /\ SessionsRead' /\ AccessRead'
    BY <2>1 DEF Listed, SessionsRead, AccessRead
  <2>4. LostIsMarked' /\ ToldTheTruth'
    BY <2>1, TruthStands DEF LostIsMarked, ToldTheTruth
  <2> QED
    BY <2>2, <2>3, <2>4
<1> QED
  BY <1>1, <1>2, <1>3, <1>4, <1>5, <1>6, <1>7 DEF DatabaseStep

-----------------------------------------------------------------------------
(* Steps of a connection.                                                  *)

\* A connection on its way in is nobody's to judge yet, one that leaves is
\* nobody's to judge any more, and one is let in only with an access in hand.
LEMMA ConnectStepInv == \A k \in Conn : IInv /\ ConnectStep(k) => IInv'
<1> SUFFICES ASSUME NEW k \in Conn, IInv, ConnectStep(k) PROVE IInv'
  OBVIOUS
<1> USE DEF IInv
<1>1. UNCHANGED <<board, grant, standing, live, notice, pass, changes, blips, lost>>
  BY DEF ConnectStep, CheckSession, CheckBoardAccess, Register, Depart, Connecting, database
<1>2. PICK c \in ConnState :
        /\ conn' = [conn EXCEPT ![k] = c]
        /\ c.state \in {"admitted", "open"} =>
             /\ c.role \in Role
             /\ Truth # NoAccess \/ conn[k].state \in {"admitted", "open"}
        /\ \/ conn[k].state = "out" /\ c.told = "nothing"
           \/ c.session = conn[k].session /\ c.told = conn[k].told
        /\ conn[k].state \in {"open", "gone"} => c.state = "gone"
        /\ c.state = "open" => conn[k].state = "admitted"
  <2>1. conn[k] \in ConnState /\ Truth \in Access
    BY TruthType DEF TypeOK
  <2>2. ASSUME NEW s \in Session \cup {Guest}, CheckSession(k, s)
        PROVE  \E c \in ConnState :
          /\ conn' = [conn EXCEPT ![k] = c]
          /\ conn[k].state = "out" /\ c.told = "nothing" /\ c.state \in {"checked", "gone"}
    <3> DEFINE c == [Out EXCEPT !.session = s,
                      !.state = IF s \in live \cup {Guest} THEN "checked" ELSE "gone"]
    <3>1. c \in ConnState /\ c.told = "nothing" /\ c.state \in {"checked", "gone"}
      BY DEF Out, ConnState
    <3>2. conn' = [conn EXCEPT ![k] = c] /\ conn[k].state = "out"
      BY <2>2 DEF CheckSession, Connecting
    <3> QED
      BY <3>1, <3>2
  <2>3. ASSUME CheckBoardAccess(k)
        PROVE  \E c \in ConnState :
          /\ conn' = [conn EXCEPT ![k] = c]
          /\ conn[k].state = "checked" /\ c.session = conn[k].session
          /\ c.told = conn[k].told
          /\ c.state = "gone" \/ (c.state = "admitted" /\ c.role \in Role /\ Truth # NoAccess)
    <3>1. CASE Truth = NoAccess
      <4>1. [conn[k] EXCEPT !.state = "gone"] \in ConnState
        BY <2>1 DEF ConnState
      <4> QED
        BY <2>1, <2>3, <3>1, <4>1 DEF CheckBoardAccess, Connecting, ConnState
    <3>2. CASE Truth # NoAccess
      <4> DEFINE c == [conn[k] EXCEPT !.state = "admitted", !.role = Truth.role,
                                      !.readOnly = ~CanEdit(Truth)]
      <4>1. Truth.role \in Role /\ CanEdit(Truth) \in BOOLEAN
        BY <2>1, <3>2, AccessRole DEF CanEdit, Access, NoAccess
      <4>2. /\ c \in ConnState /\ c.state = "admitted" /\ c.role \in Role
            /\ c.session = conn[k].session /\ c.told = conn[k].told
        BY <2>1, <4>1 DEF ConnState
      <4>3. conn' = [conn EXCEPT ![k] = c] /\ conn[k].state = "checked"
        BY <2>3, <3>2 DEF CheckBoardAccess, Connecting
      <4> HIDE DEF c
      <4> QED
        BY <3>2, <4>2, <4>3
    <3> QED
      BY <3>1, <3>2
  <2>4. CASE Register(k)
    BY <2>1, <2>4 DEF Register, Connecting, ConnState, TypeOK
  <2>5. CASE Depart(k)
    <3> DEFINE c == [conn[k] EXCEPT !.state = "gone"]
    <3>1. /\ c \in ConnState /\ c.state = "gone"
          /\ c.session = conn[k].session /\ c.told = conn[k].told
      BY <2>1 DEF ConnState
    <3>2. conn' = [conn EXCEPT ![k] = c]
      BY <2>5 DEF Depart, Connecting
    <3> HIDE DEF c
    <3> QED
      BY <3>1, <3>2
  <2> QED
    BY <2>2, <2>3, <2>4, <2>5 DEF ConnectStep
<1>3. conn'[k] = c /\ \A j \in Conn \ {k} : conn'[j] = conn[j]
  BY <1>2 DEF TypeOK
<1>4. TypeOK'
  BY <1>1, <1>2, <1>3 DEF TypeOK
<1>5. \A p \in Pass : pass[p] \in PassState /\ pass[p].todo \subseteq Conn
  BY DEF TypeOK, PassState
<1>6. Listed' /\ SessionsRead' /\ AccessRead'
  BY <1>1, <1>2, <1>3, <1>5 DEF Listed, SessionsRead, AccessRead
<1>7. LostIsMarked' /\ ToldTheTruth'
  BY <1>1, <1>2, <1>3, TruthStands DEF LostIsMarked, ToldTheTruth
<1> QED
  BY <1>4, <1>6, <1>7

-----------------------------------------------------------------------------
(* Steps of a pass.                                                        *)

\* A pass moves on, perhaps closing connections: what it now holds is what the
\* invariant says a pass may hold.
LEMMA Advance ==
  ASSUME IInv, TypeOK', ToldTheTruth', NEW p \in Pass, NEW q \in PassState,
         pass' = [pass EXCEPT ![p] = q],
         UNCHANGED <<board, grant, standing, live, lost>>,
         \A k \in Conn : /\ conn'[k].session = conn[k].session
                         /\ conn'[k].state \in {conn[k].state, "gone"},
         \A k \in q.todo : conn[k].state \in {"open", "gone"},
         q.checked => \A k \in q.todo :
           conn[k].session \in Session \ q.sessions => conn[k].session \notin live,
         q.step = "awaiting" =>
           /\ q.conn \subseteq q.todo
           /\ q.seen = NoAccess => \A k \in q.conn : conn[k].state = "open" => k \in lost
  PROVE  IInv'
<1> USE DEF IInv
<1>1. pass'[p] = q /\ \A r \in Pass \ {p} : pass'[r] = pass[r]
  BY DEF TypeOK
<1>2. \A r \in Pass : /\ pass[r].todo \subseteq Conn /\ pass[r].conn \subseteq Conn
                      /\ q.todo \subseteq Conn /\ q.conn \subseteq Conn
  BY DEF TypeOK, PassState
<1>3. Listed'
  BY <1>1, <1>2 DEF Listed
<1>4. SessionsRead'
  BY <1>1, <1>2 DEF SessionsRead
<1>5. AccessRead'
  BY <1>1, <1>2 DEF AccessRead
<1>6. LostIsMarked'
  BY TruthStands DEF LostIsMarked
<1> QED
  BY <1>3, <1>4, <1>5, <1>6

\* Starting, failing to read sessions, and the push: connections stand.
LEMMA StartStepInv ==
  \A p \in Pass : IInv /\ (StartSweep(p) \/ StartPush(p)) => IInv'
<1> SUFFICES ASSUME NEW p \in Pass, IInv, StartSweep(p) \/ StartPush(p) PROVE IInv'
  OBVIOUS
<1>1. PICK q \in PassState :
        /\ pass' = [pass EXCEPT ![p] = q]
        /\ q.todo \subseteq Open /\ ~q.checked /\ q.step # "awaiting"
  <2> DEFINE swept == [Off EXCEPT !.step = "listed", !.todo = Open]
             pushed == [Off EXCEPT !.step = "walking", !.todo = Open]
  <2>1. \A q \in {Off, swept, pushed} :
             q \in PassState /\ q.todo \subseteq Open /\ ~q.checked /\ q.step # "awaiting"
    <3>1. Off.todo \subseteq Open /\ ~Off.checked /\ Off.step # "awaiting"
      BY DEF Off
    <3>2. /\ swept \in PassState /\ swept.todo = Open
          /\ ~swept.checked /\ swept.step # "awaiting"
      BY DEF Off, PassState, Open, Access
    <3>3. /\ pushed \in PassState /\ pushed.todo = Open
          /\ ~pushed.checked /\ pushed.step # "awaiting"
      BY DEF Off, PassState, Open, Access
    <3> HIDE DEF swept, pushed
    <3> QED
      BY <3>1, <3>2, <3>3, OffPass
  <2>2. \E q \in {Off, swept, pushed} : pass' = [pass EXCEPT ![p] = q]
    <3>1. StartSweep(p) => pass' = [pass EXCEPT ![p] = swept]
      BY DEF StartSweep
    <3>2. StartPush(p) => pass' = [pass EXCEPT ![p] = Off] \/ pass' = [pass EXCEPT ![p] = pushed]
      BY DEF StartPush
    <3> HIDE DEF swept, pushed
    <3> QED
      BY <3>1, <3>2
  <2> HIDE DEF swept, pushed
  <2> QED
    BY <2>1, <2>2
<1>2. /\ UNCHANGED <<board, grant, standing, live, conn, changes, blips, lost>>
      /\ notice' \in BOOLEAN
  BY DEF StartSweep, StartPush, database, IInv, TypeOK
<1>3. TypeOK' /\ ToldTheTruth'
  BY <1>1, <1>2 DEF IInv, TypeOK, ToldTheTruth
<1> QED
  BY <1>1, <1>2, <1>3, Advance DEF Open

\* What is read of the sessions is what stands.
LEMMA SessionReadInv ==
  \A p \in Pass : IInv /\ (LiveSessionIds(p) \/ SessionReadFails(p)) => IInv'
<1> SUFFICES ASSUME NEW p \in Pass, IInv, LiveSessionIds(p) \/ SessionReadFails(p)
             PROVE  IInv'
  OBVIOUS
<1>1. pass[p] \in PassState /\ live \subseteq Session
  BY DEF IInv, TypeOK
<1>2. PICK q \in PassState :
        /\ pass' = [pass EXCEPT ![p] = q]
        /\ q.todo = pass[p].todo /\ q.step = "walking"
        /\ \/ q.checked = pass[p].checked /\ q.sessions = pass[p].sessions
           \/ q.sessions = {conn[k].session : k \in pass[p].todo} \cap live
  <2>1. CASE LiveSessionIds(p)
    <3> DEFINE found == {conn[k].session : k \in pass[p].todo} \cap live
               q == [pass[p] EXCEPT !.step = "walking", !.checked = TRUE, !.sessions = found]
    <3>1. found \in SUBSET Session
      BY <1>1
    <3>2. pass' = [pass EXCEPT ![p] = q]
      BY <2>1 DEF LiveSessionIds, IInv, TypeOK
    <3> HIDE DEF found
    <3>3. q \in PassState /\ q.todo = pass[p].todo /\ q.step = "walking" /\ q.sessions = found
      BY <1>1, <3>1 DEF PassState
    <3> HIDE DEF q
    <3> QED
      BY <3>2, <3>3 DEF found
  <2>2. CASE SessionReadFails(p)
    <3> DEFINE q == [pass[p] EXCEPT !.step = "walking"]
    <3>1. pass' = [pass EXCEPT ![p] = q]
      BY <2>2 DEF SessionReadFails, IInv, TypeOK
    <3>2. /\ q \in PassState /\ q.todo = pass[p].todo /\ q.step = "walking"
          /\ q.checked = pass[p].checked /\ q.sessions = pass[p].sessions
      BY <1>1 DEF PassState
    <3> HIDE DEF q
    <3> QED
      BY <3>1, <3>2
  <2> QED
    BY <2>1, <2>2
<1>3. /\ UNCHANGED <<board, grant, standing, live, notice, conn, changes, lost>>
      /\ blips' \in 0..MaxBlips
  BY BoundsAssumption DEF LiveSessionIds, SessionReadFails, database, IInv, TypeOK
<1>4. TypeOK' /\ ToldTheTruth'
  BY <1>2, <1>3 DEF IInv, TypeOK, ToldTheTruth
<1>5. \A k \in q.todo : conn[k].state \in {"open", "gone"}
  BY <1>2 DEF IInv, Listed
<1>6. q.checked => \A k \in q.todo :
        conn[k].session \in Session \ q.sessions => conn[k].session \notin live
  BY <1>2 DEF IInv, SessionsRead
<1> QED
  BY <1>2, <1>3, <1>4, <1>5, <1>6, Advance

\* A pass that leaves a connection behind keeps what it read of the sessions.
LEMMA WithoutPass ==
  ASSUME NEW p \in Pass, NEW k \in Conn, pass[p] \in PassState
  PROVE  /\ Without(p, k) \in PassState
         /\ Without(p, k).todo \subseteq pass[p].todo
         /\ Without(p, k).step # "awaiting"
         /\ Without(p, k).checked =>
              pass[p].checked /\ Without(p, k).sessions = pass[p].sessions
<1>1. CASE pass[p].todo = {k}
  BY <1>1, OffPass DEF Without, Off
<1>2. CASE pass[p].todo # {k}
  <2> DEFINE q == [pass[p] EXCEPT !.step = "walking", !.todo = @ \ {k}, !.conn = {},
                                  !.seen = NoAccess]
  <2>1. /\ q \in PassState /\ q.todo \subseteq pass[p].todo /\ q.step = "walking"
        /\ q.checked = pass[p].checked /\ q.sessions = pass[p].sessions
    BY DEF PassState, Access
  <2>2. Without(p, k) = q
    BY <1>2 DEF Without
  <2> HIDE DEF q
  <2> QED
    BY <2>1, <2>2
<1> QED
  BY <1>1, <1>2

\* A connection judged, or passed over because its read failed, is behind.
LEMMA LeaveBehind ==
  ASSUME IInv, TypeOK', ToldTheTruth', NEW p \in Pass, NEW k \in Conn,
         pass' = [pass EXCEPT ![p] = Without(p, k)],
         UNCHANGED <<board, grant, standing, live, lost>>,
         \A j \in Conn : /\ conn'[j].session = conn[j].session
                         /\ conn'[j].state \in {conn[j].state, "gone"}
  PROVE  IInv'
<1>1. pass[p] \in PassState
  BY DEF IInv, TypeOK
<1>2. PICK q \in PassState : q = Without(p, k)
  BY <1>1, WithoutPass
<1>3. /\ q.todo \subseteq pass[p].todo /\ q.step # "awaiting"
      /\ q.checked => pass[p].checked /\ q.sessions = pass[p].sessions
  BY <1>1, <1>2, WithoutPass
<1>4. \A j \in q.todo : conn[j].state \in {"open", "gone"}
  BY <1>3 DEF IInv, Listed
<1>5. q.checked => \A j \in q.todo :
        conn[j].session \in Session \ q.sessions => conn[j].session \notin live
  BY <1>3 DEF IInv, SessionsRead
<1> QED
  BY <1>2, <1>3, <1>4, <1>5, Advance

\* Sealing a connection: it is gone, and told only if it was open.
LEMMA SealedConn ==
  ASSUME NEW k \in Conn, conn[k] \in ConnState,
         NEW message \in {"access-revoked", "session-ended"}
  PROVE  /\ Sealed(k, message) \in ConnState
         /\ Sealed(k, message).state = "gone"
         /\ Sealed(k, message).session = conn[k].session
         /\ Sealed(k, message).told =
              IF conn[k].state = "open" THEN message ELSE conn[k].told
  BY DEF Sealed, ConnState

\* A session a checked pass does not find has ended.
LEMMA CloseForSessionInv ==
  \A p \in Pass, k \in Conn : IInv /\ CloseForSession(p, k) => IInv'
<1> SUFFICES ASSUME NEW p \in Pass, NEW k \in Conn, IInv, CloseForSession(p, k)
             PROVE  IInv'
  OBVIOUS
<1>1. conn[k] \in ConnState /\ pass[p] \in PassState
  BY DEF IInv, TypeOK
<1>2. PICK c \in ConnState : c = Sealed(k, "session-ended")
  BY <1>1, SealedConn
<1>3. /\ conn' = [conn EXCEPT ![k] = c] /\ pass' = [pass EXCEPT ![p] = Without(p, k)]
      /\ UNCHANGED <<board, grant, standing, live, notice, changes, blips, lost>>
  BY <1>2 DEF CloseForSession, database
<1>4. conn'[k] = c /\ \A j \in Conn \ {k} : conn'[j] = conn[j]
  BY <1>3 DEF IInv, TypeOK
<1>5. /\ c.state = "gone" /\ c.session = conn[k].session
      /\ c.told = "session-ended" \/ c.told = conn[k].told
  BY <1>1, <1>2, SealedConn
<1>6. conn[k].session \in Session \ live
  BY <1>1 DEF CloseForSession, SessionEnded, IInv, SessionsRead, ConnState
<1>7. TypeOK'
  BY <1>1, <1>3, <1>4, <1>5, WithoutPass DEF IInv, TypeOK
<1>8. ToldTheTruth'
  BY <1>3, <1>4, <1>5, <1>6 DEF IInv, ToldTheTruth
<1> QED
  BY <1>3, <1>4, <1>5, <1>7, <1>8, LeaveBehind

\* Access is taken from an open connection only if its person was without.
LEMMA ApplyAccessInv ==
  \A p \in Pass, k \in Conn : IInv /\ ApplyAccess(p, k) => IInv'
<1> SUFFICES ASSUME NEW p \in Pass, NEW k \in Conn, IInv, ApplyAccess(p, k)
             PROVE  IInv'
  OBVIOUS
<1>1. conn[k] \in ConnState /\ pass[p] \in PassState
  BY DEF IInv, TypeOK
<1>2. PICK c \in ConnState :
        /\ conn' = [conn EXCEPT ![k] = c]
        /\ c.session = conn[k].session /\ c.state \in {conn[k].state, "gone"}
        /\ c.state \in {"admitted", "open"} => c.role \in Role
        /\ \/ c.told = conn[k].told
           \/ c.told = "access-revoked" /\ conn[k].state = "open" /\ pass[p].seen = NoAccess
  <2>1. CASE pass[p].seen = NoAccess
    <3>1. PICK c \in ConnState : c = Sealed(k, "access-revoked")
      BY <1>1, SealedConn
    <3>2. conn' = [conn EXCEPT ![k] = c]
      BY <2>1, <3>1 DEF ApplyAccess
    <3>3. /\ c.state = "gone" /\ c.session = conn[k].session
          /\ c.told = IF conn[k].state = "open" THEN "access-revoked" ELSE conn[k].told
      BY <1>1, <3>1, SealedConn
    <3> QED
      BY <2>1, <3>2, <3>3
  <2>2. CASE pass[p].seen # NoAccess
    <3> DEFINE c == [conn[k] EXCEPT !.role = pass[p].seen.role,
                                    !.readOnly = ~CanEdit(pass[p].seen)]
    <3>1. pass[p].seen.role \in Role /\ CanEdit(pass[p].seen) \in BOOLEAN
      BY <1>1, <2>2, AccessRole DEF PassState, CanEdit, Access
    <3>2. /\ c \in ConnState /\ c.session = conn[k].session /\ c.state = conn[k].state
          /\ c.role \in Role /\ c.told = conn[k].told
      BY <1>1, <3>1 DEF ConnState
    <3>3. conn' = [conn EXCEPT ![k] = c]
      BY <2>2 DEF ApplyAccess, IInv, TypeOK
    <3> HIDE DEF c
    <3> QED
      BY <3>2, <3>3
  <2> QED
    BY <2>1, <2>2
<1>3. /\ pass' = [pass EXCEPT ![p] = Without(p, k)]
      /\ UNCHANGED <<board, grant, standing, live, notice, changes, blips, lost>>
  BY DEF ApplyAccess, database
<1>4. conn'[k] = c /\ \A j \in Conn \ {k} : conn'[j] = conn[j]
  BY <1>2 DEF IInv, TypeOK
<1>5. conn[k].state = "open" /\ pass[p].seen = NoAccess => k \in lost
  BY DEF ApplyAccess, IInv, AccessRead
<1>6. TypeOK'
  BY <1>1, <1>2, <1>3, <1>4, WithoutPass DEF IInv, TypeOK
<1>7. ToldTheTruth'
  BY <1>2, <1>3, <1>4, <1>5 DEF IInv, ToldTheTruth
<1> QED
  BY <1>2, <1>3, <1>4, <1>6, <1>7, LeaveBehind

\* What is read of the access is the truth, and marks are up to date with it.
LEMMA ReadAccessInv ==
  \A p \in Pass, k \in Conn : IInv /\ ReadAccess(p, k) => IInv'
<1> SUFFICES ASSUME NEW p \in Pass, NEW k \in Conn, IInv, ReadAccess(p, k)
             PROVE  IInv'
  OBVIOUS
<1>1. pass[p] \in PassState /\ Truth \in Access /\ k \in pass[p].todo
  BY TruthType DEF IInv, TypeOK, ReadAccess
<1>2. PICK q \in PassState :
        /\ pass' = [pass EXCEPT ![p] = q]
        /\ q.todo = pass[p].todo /\ q.conn = {k} /\ q.seen = Truth
        /\ q.checked = pass[p].checked /\ q.sessions = pass[p].sessions
  <2> DEFINE read == [pass[p] EXCEPT !.step = "awaiting", !.conn = {k}, !.seen = Truth]
  <2>1. pass' = [pass EXCEPT ![p] = read]
    BY DEF ReadAccess, IInv, TypeOK
  <2>2. /\ read \in PassState
        /\ read.todo = pass[p].todo /\ read.conn = {k} /\ read.seen = Truth
        /\ read.checked = pass[p].checked /\ read.sessions = pass[p].sessions
    BY <1>1 DEF PassState
  <2> HIDE DEF read
  <2> QED
    BY <2>1, <2>2
<1>3. UNCHANGED <<board, grant, standing, live, notice, conn, changes, blips, lost>>
  BY DEF ReadAccess, database
<1>4. TypeOK' /\ ToldTheTruth'
  BY <1>2, <1>3 DEF IInv, TypeOK, ToldTheTruth
<1>5. \A j \in q.todo : conn[j].state \in {"open", "gone"}
  BY <1>2 DEF IInv, Listed
<1>6. q.checked => \A j \in q.todo :
        conn[j].session \in Session \ q.sessions => conn[j].session \notin live
  BY <1>2 DEF IInv, SessionsRead
<1>7. q.conn \subseteq q.todo /\ (q.seen = NoAccess =>
        \A j \in q.conn : conn[j].state = "open" => j \in lost)
  BY <1>1, <1>2 DEF IInv, LostIsMarked
<1> QED
  BY <1>2, <1>3, <1>4, <1>5, <1>6, <1>7, Advance

\* Whatever a pass does, a failed read of the grants included.
LEMMA PassStepInv == \A p \in Pass : IInv /\ (PassStep(p) \/ Blip(p)) => IInv'
<1> SUFFICES ASSUME NEW p \in Pass, IInv, PassStep(p) \/ Blip(p) PROVE IInv'
  OBVIOUS
<1>1. ASSUME NEW k \in Conn, AccessReadFails(p, k) PROVE IInv'
  <2>1. /\ pass' = [pass EXCEPT ![p] = Without(p, k)] /\ pass[p] \in PassState
        /\ UNCHANGED <<board, grant, standing, live, notice, conn, changes, lost>>
        /\ blips' \in 0..MaxBlips
    BY <1>1, BoundsAssumption DEF AccessReadFails, database, IInv, TypeOK
  <2>2. TypeOK' /\ ToldTheTruth'
    BY <2>1, WithoutPass DEF IInv, TypeOK, ToldTheTruth
  <2> QED
    BY <2>1, <2>2, LeaveBehind
<1> QED
  BY <1>1, StartStepInv, SessionReadInv, CloseForSessionInv, ReadAccessInv, ApplyAccessInv
  DEF PassStep, Blip

\* Every step keeps the invariant.
LEMMA StepInv == IInv /\ [Next]_vars => IInv'
<1> SUFFICES ASSUME IInv, [Next]_vars PROVE IInv'
  OBVIOUS
<1>1. CASE LosePush
  <2>1. /\ UNCHANGED <<board, grant, standing, live, conn, pass, changes, blips, lost>>
        /\ notice' \in BOOLEAN
    BY <1>1 DEF LosePush, database
  <2> QED
    BY <2>1, TruthStands
    DEF IInv, TypeOK, Listed, SessionsRead, AccessRead, LostIsMarked, ToldTheTruth
<1>2. CASE UNCHANGED vars
  <2>1. UNCHANGED <<board, grant, standing, live, conn, pass, changes, blips, lost, notice>>
    BY <1>2 DEF vars, database
  <2> QED
    BY <2>1, TruthStands
    DEF IInv, TypeOK, Listed, SessionsRead, AccessRead, LostIsMarked, ToldTheTruth
<1> QED
  BY <1>1, <1>2, DatabaseStepInv, ConnectStepInv, PassStepInv DEF Next

-----------------------------------------------------------------------------
\* The invariant the theorems below read their statements off.
THEOREM Invariant == Spec => []IInv
  BY InitInv, StepInv, PTL DEF Spec

\* Every variable keeps its shape, and nobody is let in without a role.
THEOREM TypeCorrect == Spec => []TypeOK
<1>1. IInv => TypeOK
  BY DEF IInv
<1> QED
  BY <1>1, Invariant, PTL

\* However passes overlap, whatever they read before and whichever reads fail,
\* a person is told their session ended only if it did, and that the board is
\* gone only if they were without access while that connection stood.
THEOREM NoticesAreTrue == Spec => []ToldTheTruth
<1>1. IInv => ToldTheTruth
  BY DEF IInv
<1> QED
  BY <1>1, Invariant, PTL
=============================================================================
