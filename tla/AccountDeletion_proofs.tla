------------------------ MODULE AccountDeletion_proofs ------------------------
(***************************************************************************)
(* Theorems about AccountDeletion, for any people, boards, invitations,    *)
(* requests for deletion and calls in flight: rows go only after files,    *)
(* nobody loses what they had when the transaction looked, only what a     *)
(* request hid comes back, and it comes back whole.  What carries them is  *)
(* that a job works on a request that is due, and that nothing an account  *)
(* began before its month of grace can still be under way after it.        *)
(***************************************************************************)
EXTENDS AccountDeletion, TLAPS

\* The variables of Workspace that the rest speaks of.
WsTypeOK ==
  /\ ws \in [state: {"live", "deleted", "erased"}, offeredTo: Person \cup {Nobody}]
  /\ member \in [Person -> Standing]
  /\ board \in [Board -> [owner: Person \cup {Nobody}, deletedAt: Stamp]]
  /\ invite \in [Invite -> [to: Person \cup {Nobody}, role: {"admin", "member"},
                            state: {"none", "pending", "accepted", "revoked"},
                            expired: BOOLEAN]]
  /\ call \in [Call -> CallState]

\* The request and the job keep their shape.
AdTypeOK ==
  /\ request \in [Request -> [user: Person \cup {Nobody},
                              state: {"none", "scheduled", "cancelled", "completed"},
                              due: BOOLEAN]]
  /\ job \in [step: {"idle", "list", "empty", "erase", "delete"},
              request: Request \cup {NoRequest},
              left: SUBSET Folder, listed: SUBSET Folder]

\* A role somebody is given is one somebody may be given.
CallsFit ==
  \A c \in Call :
    /\ call[c].op \in {"role", "invite"} => call[c].role \in {"admin", "member"}
    /\ call[c].op = "join" => call[c].invite \in Invite

\* An account asks to be deleted once at a time, and is locked from then on.
AskedOnce ==
  \A r \in Request : IsScheduled(r) =>
    /\ request[r].user \in Person
    /\ request[r].user \in disabled
    /\ \A q \in Request : IsScheduled(q) /\ request[q].user = request[r].user => q = r

\* Who is asking has not asked yet.
AskersAreFree == \A p \in asking : p \in Person \ disabled /\ ~Scheduled(p)

\* After its grace an account is not taking an ownership up.
NoneTakesUp ==
  \A r \in Request : IsDue(r) =>
    \A c \in Call : call[c].op = "accept" => call[c].person # request[r].user

\* A job works on a request that is due, for as long as it works.
JobIsDue == job.step # "idle" => job.request \in Request /\ IsDue(job.request)

\* What is no longer left to empty is empty.
EmptiedIsLost ==
  /\ job.step \in {"empty", "erase", "delete"} =>
       job.listed # {} /\ job.listed \ job.left \subseteq lost
  /\ job.step \in {"erase", "delete"} => job.left = {}

\* What the transaction saw stands, but for what came in since.
NothingElse ==
  LET p == request[job.request].user IN
  /\ job.step \in {"erase", "delete"} /\ p \in Owners =>
       \A q \in Person \ {p} : IsMember(q) => q \in late
  /\ job.step = "delete" /\ p \in Owners =>
       \A b \in Board : Exists(b) => board[b].owner = p \/ b \in late

IInv ==
  /\ WsTypeOK /\ CallsFit
  /\ AdTypeOK /\ AskedOnce /\ AskersAreFree /\ NoneTakesUp /\ JobIsDue /\ EmptiedIsLost /\ NothingElse

-----------------------------------------------------------------------------
(* What a step of the workspace may do, whoever's it is.                   *)

\* Nobody comes to own the workspace but by taking up an offer begun before,
\* nobody locked out begins to, and nothing deleted comes back.
Moves ==
  /\ WsTypeOK' /\ CallsFit'
  /\ disabled' = disabled
  /\ \A p \in Person : member'[p] = "owner" =>
       \/ member[p] = "owner"
       \/ \E c \in Call : call[c].op = "accept" /\ call[c].person = p
  /\ \A c \in Call : call'[c].op = "accept" =>
       call'[c] = call[c] \/ call'[c].person \notin disabled
  /\ \A b \in Board : Exists(b) /\ board[b].deletedAt # Never =>
       board'[b].deletedAt = board[b].deletedAt

\* A call not started is a call's record.
LEMMA IdleRecord == Idle \in CallState /\ Idle.op = "idle"
  BY DEF CallState, Idle, Role, WorkspaceRole

\* A call starts, and no table changes.
LEMMA Starts ==
  ASSUME WsTypeOK, CallsFit, NEW c \in Call,
         NEW new \in CallState, call' = [call EXCEPT ![c] = new],
         UNCHANGED <<ws, member, board, invite, disabled>>,
         new.op \in {"role", "invite"} => new.role \in {"admin", "member"},
         new.op = "join" => new.invite \in Invite,
         new.op = "accept" => new.person \notin disabled
  PROVE  Moves
<1>1. \A d \in Call : call'[d] = IF d = c THEN new ELSE call[d]
  BY DEF WsTypeOK
<1>2. call' \in [Call -> CallState]
  BY DEF WsTypeOK
<1>3. WsTypeOK'
  BY <1>2 DEF WsTypeOK
<1>4. CallsFit'
  BY <1>1 DEF CallsFit
<1>5. \A d \in Call : call'[d].op = "accept" =>
        call'[d] = call[d] \/ call'[d].person \notin disabled
  BY <1>1
<1> QED
  BY <1>3, <1>4, <1>5 DEF Moves

\* A call ends, whatever it has written.
LEMMA Ends ==
  ASSUME WsTypeOK, CallsFit, NEW c \in Call, Goto(c, Idle)
  PROVE  /\ call' \in [Call -> CallState] /\ CallsFit'
         /\ \A d \in Call : call'[d].op = "accept" => call'[d] = call[d]
<1>1. \A d \in Call : call'[d] = IF d = c THEN Idle ELSE call[d]
  BY DEF WsTypeOK, Goto
<1>2. call' \in [Call -> CallState]
  BY IdleRecord DEF WsTypeOK, Goto
<1> QED
  BY <1>1, <1>2, IdleRecord DEF CallsFit

\* A call that locks the workspace begins.
LEMMA BeginMoves ==
  ASSUME WsTypeOK, CallsFit, NEW c \in Call, NEW op \in Locking, NEW p \in Person,
         NEW q \in Person \cup {Nobody}, NEW role \in Role \cup WorkspaceRole,
         Begin(c, op, p, q, role),
         op = "role" => role \in {"admin", "member"},
         op = "accept" => q = p
  PROVE  Moves
<1>0. PICK bs : bs = IF op \in OnGuest THEN GuestGrants(q) ELSE {}
  OBVIOUS
<1>1. PICK owner \in Owners :
        call' = [call EXCEPT ![c] = [Idle EXCEPT !.op = op, !.person = q, !.role = role,
                     !.owner = owner, !.offeredTo = ws.offeredTo, !.boards = bs]]
  BY <1>0 DEF Begin, Goto
<1>2. PICK new : new = [Idle EXCEPT !.op = op, !.person = q, !.role = role,
                  !.owner = owner, !.offeredTo = ws.offeredTo, !.boards = bs]
  OBVIOUS
<1>3. call' = [call EXCEPT ![c] = new]
  BY <1>1, <1>2
<1>4. new = [op |-> op, person |-> q, role |-> role, owner |-> owner,
         offeredTo |-> ws.offeredTo, invite |-> NoInvite, boards |-> bs]
  BY <1>2 DEF Idle
<1>5. /\ owner \in Person \cup {Nobody} /\ ws.offeredTo \in Person \cup {Nobody}
      /\ NoInvite \in Invite \cup {NoInvite} /\ op \in Locking \cup Reading
  BY DEF Owners, WsTypeOK
<1>9. bs \in SUBSET Board
  BY <1>0 DEF GuestGrants, LiveBoards
<1>6. /\ new \in CallState
      /\ new.op = op /\ new.person = q /\ new.role = role /\ new.invite = NoInvite
  BY <1>4, <1>5, <1>9 DEF CallState
<1>7. UNCHANGED <<ws, member, board, invite, disabled>> /\ p \notin disabled
  BY DEF Begin, Active
<1>8. op \notin {"join", "invite"}
  BY DEF Locking
<1> QED
  BY <1>7, <1>8, <1>3, <1>6, Starts

\* Each of the calls that lock begins so.
LEMMA BeginLockingMoves ==
  ASSUME WsTypeOK, CallsFit, NEW c \in Call, BeginLocking(c)
  PROVE  Moves
<1>1. /\ {"role", "remove", "leave", "offer", "withdraw", "accept", "guestRole", "guestOff"}
           = Locking
      /\ {"owner", "admin", "member", "editor", "viewer"} \subseteq Role \cup WorkspaceRole
      /\ OnGuest = {"guestRole", "guestOff"}
  BY DEF Locking, Role, WorkspaceRole, OnGuest
<1>2. PICK p \in Person :
        \/ BeginLeave(c, p) \/ BeginWithdraw(c, p) \/ BeginAccept(c, p)
        \/ \E q \in Person :
             \/ BeginRemove(c, p, q) \/ BeginOffer(c, p, q)
             \/ \E role \in {"admin", "member"} : BeginChangeRole(c, p, q, role)
             \/ \E op \in OnGuest, role \in {"editor", "viewer"} :
                  BeginGuest(c, op, p, q, role)
  BY DEF BeginLocking
<1>3. CASE BeginLeave(c, p)
  BY <1>1, <1>3, BeginMoves DEF BeginLeave
<1>4. CASE BeginWithdraw(c, p)
  BY <1>1, <1>4, BeginMoves DEF BeginWithdraw
<1>5. CASE BeginAccept(c, p)
  BY <1>1, <1>5, BeginMoves DEF BeginAccept
<1>6. ASSUME NEW q \in Person, BeginRemove(c, p, q) \/ BeginOffer(c, p, q)
      PROVE  Moves
  BY <1>1, <1>6, BeginMoves DEF BeginRemove, BeginOffer
<1>7. ASSUME NEW q \in Person, NEW role \in {"admin", "member"}, BeginChangeRole(c, p, q, role)
      PROVE  Moves
  BY <1>1, <1>7, BeginMoves DEF BeginChangeRole
<1>8. ASSUME NEW q \in Person, NEW op \in OnGuest,
             NEW role \in {"editor", "viewer"}, BeginGuest(c, op, p, q, role)
      PROVE  Moves
  BY <1>1, <1>8, BeginMoves DEF BeginGuest
<1> QED
  BY <1>2, <1>3, <1>4, <1>5, <1>6, <1>7, <1>8

\* A call that locks nothing begins.
LEMMA BeginReadingMoves ==
  ASSUME WsTypeOK, CallsFit, NEW c \in Call, BeginReading(c)
  PROVE  Moves
<1>1. /\ {"create", "redeem", "invite", "manage", "join", "delete"} = Reading
      /\ "member" \in Role \cup WorkspaceRole /\ InviteRole \subseteq Role \cup WorkspaceRole
      /\ InviteRole \subseteq {"admin", "member"}
      /\ {} \in SUBSET Board /\ Reading \subseteq {"idle"} \cup Locking \cup Reading
      /\ Nobody \in Person \cup {Nobody} /\ NoInvite \in Invite \cup {NoInvite}
      /\ Person \subseteq Person \cup {Nobody} /\ Invite \subseteq Invite \cup {NoInvite}
  BY InviteRoleAssumption DEF Reading, Role, WorkspaceRole
<1>2. ASSUME NEW p \in Person, BeginCreate(c, p) PROVE Moves
  <2>1. PICK new : new = [Idle EXCEPT !.op = "create", !.person = p]
    OBVIOUS
  <2>2. call' = [call EXCEPT ![c] = new]
    BY <1>2, <2>1 DEF BeginCreate, Goto
  <2>3. new = [op |-> "create", person |-> p, role |-> "member", owner |-> Nobody,
               offeredTo |-> Nobody, invite |-> NoInvite, boards |-> {}]
    BY <2>1 DEF Idle
  <2>5. new \in CallState /\ new.op = "create"
    BY <1>1, <2>3 DEF CallState
  <2>6. UNCHANGED <<ws, member, board, invite, disabled>>
    BY <1>2 DEF BeginCreate
  <2> QED
    BY <2>2, <2>5, <2>6, Starts
<1>3. ASSUME NEW p \in Person, BeginDelete(c, p) PROVE Moves
  <2>1. PICK new : new = [Idle EXCEPT !.op = "delete"]
    OBVIOUS
  <2>2. call' = [call EXCEPT ![c] = new]
    BY <1>3, <2>1 DEF BeginDelete, Goto
  <2>3. new = [op |-> "delete", person |-> Nobody, role |-> "member", owner |-> Nobody,
               offeredTo |-> Nobody, invite |-> NoInvite, boards |-> {}]
    BY <2>1 DEF Idle
  <2>5. new \in CallState /\ new.op = "delete"
    BY <1>1, <2>3 DEF CallState
  <2>6. UNCHANGED <<ws, member, board, invite, disabled>>
    BY <1>3 DEF BeginDelete
  <2> QED
    BY <2>2, <2>5, <2>6, Starts
<1>4. ASSUME NEW p \in Person, BeginManage(c, p) PROVE Moves
  <2>1. PICK new : new = [Idle EXCEPT !.op = "manage"]
    OBVIOUS
  <2>2. call' = [call EXCEPT ![c] = new]
    BY <1>4, <2>1 DEF BeginManage, Goto
  <2>3. new = [op |-> "manage", person |-> Nobody, role |-> "member", owner |-> Nobody,
               offeredTo |-> Nobody, invite |-> NoInvite, boards |-> {}]
    BY <2>1 DEF Idle
  <2>5. new \in CallState /\ new.op = "manage"
    BY <1>1, <2>3 DEF CallState
  <2>6. UNCHANGED <<ws, member, board, invite, disabled>>
    BY <1>4 DEF BeginManage
  <2> QED
    BY <2>2, <2>5, <2>6, Starts
<1>5. ASSUME NEW b \in Board, NEW p \in Person, BeginRedeem(c, b, p) PROVE Moves
  <2>1. PICK new : new = [Idle EXCEPT !.op = "redeem", !.person = p, !.boards = {b}]
    OBVIOUS
  <2>2. call' = [call EXCEPT ![c] = new]
    BY <1>5, <2>1 DEF BeginRedeem, Goto
  <2>3. new = [op |-> "redeem", person |-> p, role |-> "member", owner |-> Nobody,
               offeredTo |-> Nobody, invite |-> NoInvite, boards |-> {b}]
    BY <2>1 DEF Idle
  <2>4. {b} \in SUBSET Board
    OBVIOUS
  <2>5. new \in CallState /\ new.op = "redeem"
    BY <1>1, <2>4, <2>3 DEF CallState
  <2>6. UNCHANGED <<ws, member, board, invite, disabled>>
    BY <1>5 DEF BeginRedeem
  <2> QED
    BY <2>2, <2>5, <2>6, Starts
<1>6. ASSUME NEW p \in Person, NEW q \in Person, NEW role \in InviteRole,
             BeginInvite(c, p, q, role)
      PROVE  Moves
  <2>1. PICK new : new = [Idle EXCEPT !.op = "invite", !.person = q, !.role = role]
    OBVIOUS
  <2>2. call' = [call EXCEPT ![c] = new]
    BY <1>6, <2>1 DEF BeginInvite, Goto
  <2>3. new = [op |-> "invite", person |-> q, role |-> role, owner |-> Nobody,
               offeredTo |-> Nobody, invite |-> NoInvite, boards |-> {}]
    BY <2>1 DEF Idle
  <2>5. new \in CallState /\ new.op = "invite" /\ new.role = role
    BY <1>1, <2>3 DEF CallState
  <2>6. UNCHANGED <<ws, member, board, invite, disabled>>
    BY <1>6 DEF BeginInvite
  <2> QED
    BY <1>1, <2>2, <2>5, <2>6, Starts
<1>7. ASSUME NEW i \in Invite, BeginJoin(c, i) PROVE Moves
  <2>1. PICK new : new = [Idle EXCEPT !.op = "join", !.person = invite[i].to, !.invite = i]
    OBVIOUS
  <2>2. call' = [call EXCEPT ![c] = new]
    BY <1>7, <2>1 DEF BeginJoin, Goto
  <2>3. new = [op |-> "join", person |-> invite[i].to, role |-> "member", owner |-> Nobody,
               offeredTo |-> Nobody, invite |-> i, boards |-> {}]
    BY <2>1 DEF Idle
  <2>4. invite[i].to \in Person \cup {Nobody}
    BY DEF WsTypeOK
  <2>5. new \in CallState /\ new.op = "join" /\ new.invite = i
    BY <1>1, <2>4, <2>3 DEF CallState
  <2>6. UNCHANGED <<ws, member, board, invite, disabled>>
    BY <1>7 DEF BeginJoin
  <2> QED
    BY <2>2, <2>5, <2>6, Starts
<1> QED
  BY <1>2, <1>3, <1>4, <1>5, <1>6, <1>7 DEF BeginReading

\* Somebody goes: their boards pass on, deleted ones still deleted.
LEMMA DepartMoves ==
  ASSUME WsTypeOK, CallsFit, NEW c \in Call,
         Goto(c, Idle), Depart(call[c].person, call[c].owner, call[c].offeredTo),
         UNCHANGED <<invite, disabled>>
  PROVE  Moves
<1>1. /\ call' \in [Call -> CallState] /\ CallsFit'
      /\ \A d \in Call : call'[d].op = "accept" => call'[d] = call[d]
  BY Ends
<1>2. call[c].owner \in Person \cup {Nobody}
  BY DEF WsTypeOK, CallState
<1>3. /\ member' \in [Person -> Standing]
      /\ \A p \in Person : member'[p] = "owner" => member[p] = "owner"
  BY DEF Depart, WsTypeOK, Standing
<1>4. ws' \in [state: {"live", "deleted", "erased"}, offeredTo: Person \cup {Nobody}]
  BY DEF Depart, WithdrawOfferTo, WsTypeOK
<1>5. \A b \in Board :
        board'[b] = [owner |-> board'[b].owner, deletedAt |-> board[b].deletedAt]
  BY DEF Depart, PassBoards, WsTypeOK
<1>6. board' \in [Board -> [owner: Person \cup {Nobody}, deletedAt: Stamp]]
  BY <1>2 DEF Depart, PassBoards, WsTypeOK
<1> QED
  BY <1>1, <1>3, <1>4, <1>5, <1>6 DEF Moves, WsTypeOK

\* A call that changes no board, no member's role but to one below the owner's,
\* and no invitation, ends.
LEMMA CommitLockingMoves ==
  ASSUME WsTypeOK, CallsFit, NEW c \in Call, CommitLocking(c)
  PROVE  Moves
<1>1. CASE RemoveMember(c) \/ LeaveWorkspace(c)
  BY <1>1, DepartMoves DEF RemoveMember, LeaveWorkspace, Commit
<1>2. CASE ~(RemoveMember(c) \/ LeaveWorkspace(c))
  <2>1. Goto(c, Idle) /\ UNCHANGED <<board, invite, disabled>>
    BY <1>2 DEF CommitLocking, Commit, ChangeMemberRole, OfferOwnership,
       WithdrawOwnershipOffer, AcceptOwnership, SetGuestRole, RemoveGuest
  <2>2. /\ call' \in [Call -> CallState] /\ CallsFit'
        /\ \A d \in Call : call'[d].op = "accept" => call'[d] = call[d]
    BY <2>1, Ends
  <2>3. /\ ws' \in [state: {"live", "deleted", "erased"}, offeredTo: Person \cup {Nobody}]
        /\ member' \in [Person -> Standing]
        /\ \A p \in Person : member'[p] = "owner" =>
             member[p] = "owner" \/ (call[c].op = "accept" /\ call[c].person = p)
    <3>1. CASE ChangeMemberRole(c)
      BY <3>1 DEF ChangeMemberRole, Commit, CallsFit, WithRole, WsTypeOK, Standing, WorkspaceRole
    <3>2. CASE OfferOwnership(c)
      <4>1. call[c].person \in Person \cup {Nobody}
        BY DEF WsTypeOK, CallState
      <4> QED
        BY <3>2, <4>1 DEF OfferOwnership, WsTypeOK
    <3>3. CASE WithdrawOwnershipOffer(c) \/ SetGuestRole(c) \/ RemoveGuest(c)
      BY <3>3 DEF WithdrawOwnershipOffer, SetGuestRole, RemoveGuest, WsTypeOK
    <3>4. CASE AcceptOwnership(c)
      BY <3>4 DEF AcceptOwnership, Commit, HandOver, WsTypeOK, Standing, WorkspaceRole
    <3> QED
      BY <1>2, <3>1, <3>2, <3>3, <3>4 DEF CommitLocking
  <2> QED
    BY <2>1, <2>2, <2>3 DEF Moves, WsTypeOK
<1> QED
  BY <1>1, <1>2

\* An invitation written in part is an invitation.
LEMMA InviteKept ==
  ASSUME WsTypeOK, NEW i \in Invite, NEW new, invite' = [invite EXCEPT ![i] = new],
         \/ new = [invite[i] EXCEPT !.expired = FALSE]
         \/ new = [invite[i] EXCEPT !.expired = TRUE]
         \/ new = [invite[i] EXCEPT !.state = "revoked"]
  PROVE  invite' \in [Invite -> [to: Person \cup {Nobody}, role: {"admin", "member"},
                            state: {"none", "pending", "accepted", "revoked"},
                            expired: BOOLEAN]]
<1>1. invite[i] \in [to: Person \cup {Nobody}, role: {"admin", "member"},
                     state: {"none", "pending", "accepted", "revoked"},
                     expired: BOOLEAN]
  BY DEF WsTypeOK
<1>2. new \in [to: Person \cup {Nobody}, role: {"admin", "member"},
               state: {"none", "pending", "accepted", "revoked"},
               expired: BOOLEAN]
  BY <1>1
<1> QED
  BY <1>2 DEF WsTypeOK

\* A call that locked nothing ends: a board made, an invitation made or used,
\* the workspace deleted.
LEMMA CommitReadingMoves ==
  ASSUME WsTypeOK, CallsFit, NEW c \in Call, CommitReading(c)
  PROVE  Moves
<1>1. Goto(c, Idle) /\ disabled' = disabled
  BY DEF CommitReading, CreateBoard, CreateInvite, AcceptInvite, DeleteWorkspace,
     RedeemShareLink, ResendInvite, RevokeInvite
<1>2. /\ call' \in [Call -> CallState] /\ CallsFit'
      /\ \A d \in Call : call'[d].op = "accept" => call'[d] = call[d]
  BY <1>1, Ends
<1>3. call[c].person \in Person \cup {Nobody}
  BY DEF WsTypeOK, CallState
<1>4. CASE CreateBoard(c)
  <2>1. PICK b \in Board :
          /\ board[b] = NoBoard
          /\ board' = [board EXCEPT ![b] = [owner |-> call[c].person, deletedAt |-> Never]]
    BY <1>4 DEF CreateBoard
  <2>2. board' \in [Board -> [owner: Person \cup {Nobody}, deletedAt: Stamp]]
    BY <1>3, <2>1 DEF WsTypeOK, Stamp
  <2>3. \A d \in Board : Exists(d) => board'[d] = board[d]
    BY <2>1 DEF Exists, NoBoard, WsTypeOK
  <2>4. UNCHANGED <<ws, member, invite>>
    BY <1>4 DEF CreateBoard
  <2> QED
    BY <1>1, <1>2, <2>2, <2>3, <2>4 DEF Moves, WsTypeOK
<1>5. CASE CreateInvite(c)
  <2>1. UNCHANGED <<ws, member, board>>
    BY <1>5 DEF CreateInvite
  <2>2. call[c].role \in {"admin", "member"}
    BY <1>5 DEF CreateInvite, CallsFit
  <2>3. invite' \in [Invite -> [to: Person \cup {Nobody}, role: {"admin", "member"},
                            state: {"none", "pending", "accepted", "revoked"},
                            expired: BOOLEAN]]
    <3>1. CASE invite' = invite
      BY <3>1 DEF WsTypeOK
    <3>2. CASE \E i \in Invite : invite' = [invite EXCEPT ![i] =
                 [to |-> call[c].person, role |-> call[c].role,
                  state |-> "pending", expired |-> FALSE]]
      BY <1>3, <2>2, <3>2 DEF WsTypeOK
    <3> QED
      BY <1>5, <3>1, <3>2 DEF CreateInvite
  <2> QED
    BY <1>1, <1>2, <2>1, <2>3 DEF Moves, WsTypeOK
<1>6. CASE AcceptInvite(c)
  <2>1. UNCHANGED <<ws, board>>
    BY <1>6 DEF AcceptInvite
  <2>2. call[c].invite \in Invite
    BY <1>6 DEF AcceptInvite, CallsFit
  <2>3. invite' \in [Invite -> [to: Person \cup {Nobody}, role: {"admin", "member"},
                            state: {"none", "pending", "accepted", "revoked"},
                            expired: BOOLEAN]]
    BY <1>6 DEF AcceptInvite, WsTypeOK
  <2>4. /\ member' \in [Person -> Standing]
        /\ \A p \in Person : member'[p] = "owner" => member[p] = "owner"
    <3>1. invite[call[c].invite].role \in {"admin", "member"}
      BY <2>2 DEF WsTypeOK
    <3> QED
      BY <1>6, <3>1 DEF AcceptInvite, WsTypeOK, Standing, WorkspaceRole
  <2> QED
    BY <1>1, <1>2, <2>1, <2>3, <2>4 DEF Moves, WsTypeOK
<1>7. CASE DeleteWorkspace(c)
  <2>1. UNCHANGED <<member, invite>>
    BY <1>7 DEF DeleteWorkspace
  <2>2. ws' \in [state: {"live", "deleted", "erased"}, offeredTo: Person \cup {Nobody}]
    BY <1>7 DEF DeleteWorkspace, WsTypeOK
  <2>3. /\ board' \in [Board -> [owner: Person \cup {Nobody}, deletedAt: Stamp]]
        /\ \A b \in Board : Exists(b) /\ board[b].deletedAt # Never => board'[b] = board[b]
    BY <1>7 DEF DeleteWorkspace, LiveBoards, WsTypeOK, Stamp
  <2> QED
    BY <1>1, <1>2, <2>1, <2>2, <2>3 DEF Moves, WsTypeOK
<1>8. CASE RedeemShareLink(c)
  <2>1. UNCHANGED <<ws, member, board, invite>>
    BY <1>8 DEF RedeemShareLink
  <2> QED
    BY <1>1, <1>2, <2>1 DEF Moves, WsTypeOK
<1>9. ASSUME NEW i \in Invite, ResendInvite(c, i) \/ RevokeInvite(c, i)
      PROVE  Moves
  <2>1. UNCHANGED <<ws, member, board>>
    BY <1>9 DEF ResendInvite, RevokeInvite
  <2>2. PICK new : /\ invite' = [invite EXCEPT ![i] = new]
                   /\ \/ new = [invite[i] EXCEPT !.expired = FALSE]
                      \/ new = [invite[i] EXCEPT !.state = "revoked"]
    <3>1. CASE ResendInvite(c, i)
      BY <3>1 DEF ResendInvite
    <3>2. CASE RevokeInvite(c, i)
      BY <3>2 DEF RevokeInvite
    <3> QED
      BY <1>9, <3>1, <3>2
  <2>3. invite' \in [Invite -> [to: Person \cup {Nobody}, role: {"admin", "member"},
                            state: {"none", "pending", "accepted", "revoked"},
                            expired: BOOLEAN]]
    BY <2>2, InviteKept
  <2> QED
    BY <1>1, <1>2, <2>1, <2>3 DEF Moves, WsTypeOK
<1> QED
  BY <1>4, <1>5, <1>6, <1>7, <1>8, <1>9 DEF CommitReading

\* What is done besides the calls: boards to the trash, people let back on them,
\* invitations run out.
LEMMA ActMoves ==
  ASSUME WsTypeOK, CallsFit,
         \/ \E b \in Board : SoftDeleteBoard(b) \/ \E p \in Person : SetBoardMemberRole(b, p)
         \/ \E i \in Invite : ExpireInvite(i)
  PROVE  Moves
<1>1. UNCHANGED <<ws, member, call, disabled>>
  BY DEF SoftDeleteBoard, SetBoardMemberRole, ExpireInvite
<1>2. CallsFit'
  BY <1>1 DEF CallsFit
<1>3. ASSUME NEW b \in Board, SoftDeleteBoard(b)
      PROVE  Moves
  <2>1. invite' = invite
    BY <1>3 DEF SoftDeleteBoard
  <2>2. /\ board' \in [Board -> [owner: Person \cup {Nobody}, deletedAt: Stamp]]
        /\ \A d \in Board : Exists(d) /\ board[d].deletedAt # Never => board'[d] = board[d]
    BY <1>3 DEF SoftDeleteBoard, LiveBoards, WsTypeOK, Stamp
  <2> QED
    BY <1>1, <1>2, <2>1, <2>2 DEF Moves, WsTypeOK
<1>4. ASSUME NEW b \in Board, NEW p \in Person, SetBoardMemberRole(b, p)
      PROVE  Moves
  <2>1. UNCHANGED <<board, invite>>
    BY <1>4 DEF SetBoardMemberRole
  <2> QED
    BY <1>1, <1>2, <2>1 DEF Moves, WsTypeOK
<1>5. ASSUME NEW i \in Invite, ExpireInvite(i)
      PROVE  Moves
  <2>1. board' = board /\ invite' = [invite EXCEPT ![i] = [invite[i] EXCEPT !.expired = TRUE]]
    BY <1>5 DEF ExpireInvite
  <2>2. invite' \in [Invite -> [to: Person \cup {Nobody}, role: {"admin", "member"},
                            state: {"none", "pending", "accepted", "revoked"},
                            expired: BOOLEAN]]
    BY <2>1, InviteKept
  <2> QED
    BY <1>1, <1>2, <2>1, <2>2 DEF Moves, WsTypeOK
<1> QED
  BY <1>3, <1>4, <1>5

\* A call that comes to nothing ends.
LEMMA AbandonMoves ==
  ASSUME WsTypeOK, CallsFit, NEW c \in Call, Abandon(c)
  PROVE  Moves
<1>1. Goto(c, Idle) /\ UNCHANGED <<ws, member, board, invite, disabled>>
  BY DEF Abandon
<1>2. /\ call' \in [Call -> CallState] /\ CallsFit'
      /\ \A d \in Call : call'[d].op = "accept" => call'[d] = call[d]
  BY <1>1, Ends
<1> QED
  BY <1>1, <1>2 DEF Moves, WsTypeOK

\* Whatever the workspace does, it is one of these.
LEMMA WorkspaceMoves ==
  ASSUME WsTypeOK, CallsFit, WsNext
  PROVE  Moves
<1>1. CASE \E c \in Call : BeginLocking(c)
  BY <1>1, BeginLockingMoves
<1>2. CASE \E c \in Call : CommitLocking(c)
  BY <1>2, CommitLockingMoves
<1>3. CASE \E c \in Call : BeginReading(c)
  BY <1>3, BeginReadingMoves
<1>4. CASE \E c \in Call : CommitReading(c)
  BY <1>4, CommitReadingMoves
<1>5. CASE \E c \in Call : Abandon(c)
  BY <1>5, AbandonMoves
<1> QED
  BY <1>1, <1>2, <1>3, <1>4, <1>5, ActMoves DEF WsNext

-----------------------------------------------------------------------------
(* The invariant.                                                          *)

\* Nobody has asked, and no job runs.
LEMMA InitInv == AdInit => IInv
<1> SUFFICES ASSUME AdInit PROVE IInv
  OBVIOUS
<1> USE DEF AdInit, Init
<1>1. \A c \in Call : call[c] = Idle /\ call[c].op = "idle"
  BY IdleRecord
<1>2. call \in [Call -> CallState] /\ CallsFit
  BY <1>1, IdleRecord DEF CallsFit
<1>3. WsTypeOK
  <2>1. board \in [Board -> [owner: Person \cup {Nobody}, deletedAt: Stamp]]
    BY DEF NoBoard, Stamp
  <2>2. invite \in [Invite -> [to: Person \cup {Nobody}, role: {"admin", "member"},
                            state: {"none", "pending", "accepted", "revoked"},
                            expired: BOOLEAN]]
    BY DEF NoInvitation
  <2>3. member \in [Person -> Standing]
    BY DEF Standing, WorkspaceRole
  <2> QED
    BY <1>2, <2>1, <2>2, <2>3 DEF WsTypeOK
<1>4. AdTypeOK
  BY DEF AdTypeOK, NoDeletion, NoJob
<1>5. \A r \in Request : ~IsScheduled(r)
  BY DEF IsScheduled, NoDeletion
<1>6. job.step = "idle"
  BY DEF NoJob
<1> QED
  BY <1>2, <1>3, <1>4, <1>5, <1>6 DEF IInv, AskedOnce, NoneTakesUp, IsDue, JobIsDue,
     EmptiedIsLost, NothingElse, AskersAreFree

\* Whatever the workspace does, an account past its grace comes to own nothing,
\* and what comes in under the transaction is noted.
LEMMA InWorkspaceInv ==
  ASSUME IInv, InWorkspace
  PROVE  IInv'
<1> USE DEF IInv
<1>1. Moves
  BY WorkspaceMoves DEF InWorkspace
<1>2. UNCHANGED <<request, asking, job, lost>> /\ late' = late \cup Came
  BY DEF InWorkspace
<1>7. AskersAreFree'
  BY <1>1, <1>2 DEF AskersAreFree, Moves, Scheduled, IsScheduled
<1>3. AdTypeOK' /\ EmptiedIsLost' /\ JobIsDue'
  BY <1>2 DEF AdTypeOK, EmptiedIsLost, JobIsDue, IsDue, IsScheduled
<1>4. AskedOnce'
  BY <1>1, <1>2 DEF AskedOnce, Moves, IsScheduled
<1>5. NoneTakesUp'
  <2> SUFFICES ASSUME NEW r \in Request, IsDue(r), NEW c \in Call, call'[c].op = "accept"
               PROVE  call'[c].person # request[r].user
    BY <1>2 DEF NoneTakesUp, IsDue, IsScheduled
  <2>1. request[r].user \in disabled
    BY DEF AskedOnce, IsDue
  <2>2. call'[c] = call[c] \/ call'[c].person \notin disabled
    BY <1>1 DEF Moves
  <2> QED
    BY <2>1, <2>2 DEF NoneTakesUp
<1>6. NothingElse'
  <2>1. PICK p : p = request[job.request].user
    OBVIOUS
  <2> SUFFICES ASSUME job.step \in {"erase", "delete"}, p \in Owners'
               PROVE  /\ \A q \in Person \ {p} : IsMember(q)' => q \in late'
                      /\ job.step = "delete" =>
                           \A b \in Board : Exists(b)' => board'[b].owner = p \/ b \in late'
    BY <1>2, <2>1 DEF NothingElse
  <2>2. job.request \in Request /\ IsDue(job.request)
    BY DEF JobIsDue
  <2>3. p \in Person /\ member'[p] = "owner"
    BY DEF Owners
  <2>4. p \in Owners
    <3>1. \A c \in Call : call[c].op = "accept" => call[c].person # p
      BY <2>1, <2>2 DEF NoneTakesUp
    <3> QED
      BY <1>1, <2>3, <3>1 DEF Moves, Owners
  <2>5. ASSUME NEW q \in Person \ {p}, IsMember(q)'
        PROVE  q \in late'
    <3>1. CASE IsMember(q)
      BY <1>2, <2>1, <2>4, <3>1 DEF NothingElse
    <3>2. CASE ~IsMember(q)
      BY <1>2, <2>5, <3>2 DEF Came, IsMember
    <3> QED
      BY <3>1, <3>2
  <2>6. ASSUME job.step = "delete", NEW b \in Board, Exists(b)'
        PROVE  board'[b].owner = p \/ b \in late'
    <3>1. CASE board'[b] = board[b]
      BY <1>2, <2>1, <2>4, <2>6, <3>1 DEF NothingElse, Exists
    <3>2. CASE board'[b] # board[b]
      BY <1>2, <2>6, <3>2 DEF Came
    <3> QED
      BY <3>1, <3>2
  <2> QED
    BY <2>5, <2>6
<1> QED
  BY <1>1, <1>3, <1>4, <1>5, <1>6, <1>7 DEF Moves

\* Boards are hidden or shown: who owns what is as it was.
LEMMA HidesInv ==
  ASSUME IInv, NEW S, NEW stamp \in Stamp,
         board' = [b \in Board |-> IF b \in S THEN [board[b] EXCEPT !.deletedAt = stamp]
                                   ELSE board[b]],
         UNCHANGED <<ws, member, invite, call>>
  PROVE  /\ WsTypeOK' /\ CallsFit'
         /\ \A b \in Board : board'[b].owner = board[b].owner
<1> USE DEF IInv
<1>1. board' \in [Board -> [owner: Person \cup {Nobody}, deletedAt: Stamp]]
  BY DEF WsTypeOK
<1> QED
  BY <1>1 DEF WsTypeOK, CallsFit

\* While nobody's place or board changes hands, what the transaction saw stands.
LEMMA NothingElseStands ==
  ASSUME IInv, UNCHANGED <<member, job, late>>,
         \A b \in Board : board'[b].owner = board[b].owner,
         job.step # "idle" => request'[job.request].user = request[job.request].user
  PROVE  NothingElse'
<1>1. Owners' = Owners /\ \A q \in Person : IsMember(q)' <=> IsMember(q)
  BY DEF Owners, IsMember
<1>2. \A b \in Board : Exists(b)' <=> Exists(b)
  BY DEF Exists
<1> QED
  BY <1>1, <1>2 DEF IInv, NothingElse

\* An account that asks has no request standing, and is locked with it.
LEMMA RequestInv ==
  ASSUME IInv, NEW p \in Person, NEW r \in Request, RequestAccountDeletion(p, r)
  PROVE  IInv'
<1> USE DEF IInv
<1>1. PICK new : new = [user |-> p, state |-> "scheduled", due |-> FALSE]
  OBVIOUS
<1>2. request' = [request EXCEPT ![r] = new]
  BY <1>1 DEF RequestAccountDeletion
<1>3. /\ new \in [user: Person \cup {Nobody},
                  state: {"none", "scheduled", "cancelled", "completed"}, due: BOOLEAN]
      /\ new.user = p /\ new.state = "scheduled" /\ ~new.due
  BY <1>1
<1>4. /\ ~Scheduled(p) /\ ~IsScheduled(r)
      /\ UNCHANGED <<ws, member, invite, call, job, lost, late>>
      /\ disabled' = disabled \cup {p} /\ asking' = asking \ {p}
  BY DEF RequestAccountDeletion, NoDeletion, IsScheduled, AskersAreFree
<1>5. \A q \in Request : request'[q] = IF q = r THEN new ELSE request[q]
  BY <1>2 DEF AdTypeOK
<1>6. AdTypeOK'
  BY <1>2, <1>3, <1>4 DEF AdTypeOK
<1>7. /\ \A q \in Request : IsScheduled(q)' <=> (q = r \/ IsScheduled(q))
      /\ \A q \in Request : IsDue(q)' <=> (q # r /\ IsDue(q))
  BY <1>3, <1>4, <1>5 DEF IsScheduled, IsDue
<1>8. AskedOnce'
  BY <1>3, <1>4, <1>5, <1>7 DEF AskedOnce, Scheduled
<1>9. NoneTakesUp'
  BY <1>4, <1>5, <1>7 DEF NoneTakesUp
<1>10. job.step # "idle" => job.request \in Request /\ job.request # r
  BY <1>4 DEF JobIsDue, IsDue
<1>11. JobIsDue' /\ EmptiedIsLost'
  BY <1>4, <1>7, <1>10 DEF JobIsDue, EmptiedIsLost
<1>12. r \in Stamp
  BY DEF Stamp
<1>13. /\ WsTypeOK' /\ CallsFit'
       /\ \A b \in Board : board'[b].owner = board[b].owner
  BY <1>4, <1>12, HidesInv DEF RequestAccountDeletion
<1>14. NothingElse'
  BY <1>4, <1>5, <1>10, <1>13, NothingElseStands
<1>15. AskersAreFree'
  BY <1>3, <1>4, <1>5, <1>7 DEF AskersAreFree, Scheduled
<1> QED
  BY <1>6, <1>8, <1>9, <1>11, <1>13, <1>14, <1>15

\* Who looks at what they own before asking has not asked yet.
LEMMA AskInv ==
  ASSUME IInv, NEW p \in Person, AskDeletion(p)
  PROVE  IInv'
<1> USE DEF IInv
<1>1. /\ asking' = asking \cup {p} /\ p \notin disabled /\ ~Scheduled(p)
      /\ UNCHANGED <<ws, member, board, invite, call, disabled, request, late, job, lost>>
  BY DEF AskDeletion, Active, wsVars
<1>2. AskersAreFree'
  BY <1>1 DEF AskersAreFree, Scheduled, IsScheduled
<1> QED
  BY <1>1, <1>2 DEF WsTypeOK, CallsFit, AdTypeOK, AskedOnce, NoneTakesUp, JobIsDue,
     EmptiedIsLost, NothingElse, IsDue, IsScheduled, Owners, IsMember, Exists

\* Taking back is refused once the request is due, so never under a job.
LEMMA CancelInv ==
  ASSUME IInv, NEW r \in Request, CancelAccountDeletion(r)
  PROVE  IInv'
<1> USE DEF IInv
<1>1. PICK new : new = [request[r] EXCEPT !.state = "cancelled"]
  OBVIOUS
<1>2. request' = [request EXCEPT ![r] = new]
  BY <1>1 DEF CancelAccountDeletion
<1>3. /\ new \in [user: Person \cup {Nobody},
                  state: {"none", "scheduled", "cancelled", "completed"}, due: BOOLEAN]
      /\ new.state = "cancelled"
  BY <1>1 DEF AdTypeOK
<1>4. /\ IsScheduled(r) /\ ~IsDue(r)
      /\ UNCHANGED <<ws, member, invite, call, job, lost, late>>
      /\ disabled' = disabled \ {request[r].user} /\ asking' = asking
  BY DEF CancelAccountDeletion, InGrace, IsDue
<1>5. \A q \in Request : request'[q] = IF q = r THEN new ELSE request[q]
  BY <1>2 DEF AdTypeOK
<1>6. AdTypeOK'
  BY <1>2, <1>3, <1>4 DEF AdTypeOK
<1>7. /\ \A q \in Request : IsScheduled(q)' <=> (q # r /\ IsScheduled(q))
      /\ \A q \in Request : IsDue(q)' <=> (q # r /\ IsDue(q))
  BY <1>3, <1>5 DEF IsScheduled, IsDue
<1>8. AskedOnce'
  BY <1>4, <1>5, <1>7 DEF AskedOnce
<1>9. NoneTakesUp'
  BY <1>4, <1>5, <1>7 DEF NoneTakesUp
<1>10. job.step # "idle" => job.request \in Request /\ job.request # r
  BY <1>4 DEF JobIsDue
<1>11. JobIsDue' /\ EmptiedIsLost'
  BY <1>4, <1>7, <1>10 DEF JobIsDue, EmptiedIsLost
<1>12. Never \in Stamp
  BY DEF Stamp
<1>13. /\ WsTypeOK' /\ CallsFit'
       /\ \A b \in Board : board'[b].owner = board[b].owner
  BY <1>4, <1>12, HidesInv DEF CancelAccountDeletion
<1>14. NothingElse'
  BY <1>4, <1>5, <1>10, <1>13, NothingElseStands
<1>15. AskersAreFree'
  BY <1>3, <1>4, <1>5, <1>7 DEF AskersAreFree, Scheduled
<1> QED
  BY <1>6, <1>8, <1>9, <1>11, <1>13, <1>14, <1>15

\* A month on, nothing is in flight that could make the account an owner.
LEMMA GraceInv ==
  ASSUME IInv, NEW r \in Request, GraceEnds(r)
  PROVE  IInv'
<1> USE DEF IInv
<1>1. PICK new : new = [request[r] EXCEPT !.due = TRUE]
  OBVIOUS
<1>2. request' = [request EXCEPT ![r] = new]
  BY <1>1 DEF GraceEnds
<1>3. /\ new \in [user: Person \cup {Nobody},
                  state: {"none", "scheduled", "cancelled", "completed"}, due: BOOLEAN]
      /\ new.state = request[r].state /\ new.user = request[r].user /\ new.due
  BY <1>1 DEF AdTypeOK
<1>4. /\ UNCHANGED <<ws, member, board, invite, call, disabled, asking, job, lost, late>>
      /\ \A c \in Call : call[c] = Idle
  BY DEF GraceEnds, wsVars
<1>5. \A q \in Request : request'[q] = IF q = r THEN new ELSE request[q]
  BY <1>2 DEF AdTypeOK
<1>6. AdTypeOK'
  BY <1>2, <1>3, <1>4 DEF AdTypeOK
<1>7. /\ \A q \in Request : request'[q].user = request[q].user
      /\ \A q \in Request : IsScheduled(q)' <=> IsScheduled(q)
      /\ \A q \in Request : IsDue(q) => IsDue(q)'
  BY <1>3, <1>5 DEF IsScheduled, IsDue
<1>8. AskedOnce'
  BY <1>4, <1>7 DEF AskedOnce
<1>9. NoneTakesUp'
  BY <1>4, IdleRecord DEF NoneTakesUp
<1>10. JobIsDue' /\ EmptiedIsLost'
  BY <1>4, <1>7 DEF JobIsDue, EmptiedIsLost
<1>11. WsTypeOK' /\ CallsFit'
  BY <1>4 DEF WsTypeOK, CallsFit
<1>12. NothingElse'
  BY <1>4, <1>7, NothingElseStands DEF JobIsDue
<1>13. AskersAreFree'
  BY <1>4, <1>7 DEF AskersAreFree, Scheduled
<1> QED
  BY <1>6, <1>8, <1>9, <1>10, <1>11, <1>12, <1>13

\* The job moves on, and no row changes.
LEMMA JobInv ==
  ASSUME IInv, UNCHANGED <<ws, member, board, invite, call, disabled, request, asking, late>>,
         job' \in [step: {"idle", "list", "empty", "erase", "delete"},
                   request: Request \cup {NoRequest},
                   left: SUBSET Folder, listed: SUBSET Folder],
         JobIsDue', EmptiedIsLost', NothingElse'
  PROVE  IInv'
<1> USE DEF IInv
<1>1. WsTypeOK' /\ CallsFit' /\ AdTypeOK'
  BY DEF WsTypeOK, CallsFit, AdTypeOK
<1>2. AskedOnce' /\ NoneTakesUp' /\ AskersAreFree'
  BY DEF AskedOnce, NoneTakesUp, AskersAreFree, Scheduled, IsDue, IsScheduled
<1> QED
  BY <1>1, <1>2

\* Starting, listing what to empty, emptying it, giving up, and looking again
\* at what stands in the way.
LEMMA PurgeInv ==
  ASSUME IInv,
         \/ \E r \in Request : StartPurge(r)
         \/ ListFolders \/ (\E f \in Folder : EmptyFolder(f)) \/ StopPurge
         \/ BeginErase \/ RefuseErase \/ CheckRemaining
  PROVE  IInv'
<1> USE DEF IInv
<1>1. UNCHANGED <<ws, member, board, invite, call, disabled, request, asking, late>>
  BY DEF StartPurge, ListFolders, EmptyFolder, StopPurge, BeginErase, RefuseErase,
     CheckRemaining, PurgeStep, wsVars
<1>2. /\ \A r : IsDue(r)' <=> IsDue(r)
      /\ Owners' = Owners /\ \A q : IsMember(q)' <=> IsMember(q)
      /\ \A b : Exists(b)' <=> Exists(b)
  BY <1>1 DEF IsDue, IsScheduled, Owners, IsMember, Exists
<1>3. job \in [step: {"idle", "list", "empty", "erase", "delete"},
               request: Request \cup {NoRequest},
               left: SUBSET Folder, listed: SUBSET Folder]
  BY DEF AdTypeOK
<1>4. CASE job' = NoJob
  BY <1>1, <1>4, JobInv DEF NoJob, JobIsDue, EmptiedIsLost, NothingElse
<1>5. ASSUME NEW r \in Request, StartPurge(r)
      PROVE  IInv'
  <2>1. job' = [step |-> "list", request |-> r, left |-> {}, listed |-> {}]
    BY <1>5 DEF StartPurge, PurgeStep, NoJob
  <2>2. IsDue(r)
    BY <1>5 DEF StartPurge
  <2> QED
    BY <1>1, <1>2, <2>1, <2>2, JobInv DEF JobIsDue, EmptiedIsLost, NothingElse
<1>6. CASE ListFolders
  <2>1. PICK folders : folders = AccountStorage(request[job.request].user)
    OBVIOUS
  <2>2. job' = [job EXCEPT !.step = "empty", !.left = folders, !.listed = folders]
    BY <1>6, <2>1 DEF ListFolders, PurgeStep
  <2>3. job.request \in Request /\ IsDue(job.request)
    BY <1>6 DEF ListFolders, JobIsDue
  <2>4. folders # {} /\ folders \subseteq Folder
    BY <2>1, <2>3 DEF AccountStorage, OwnedBoards, Folder, AskedOnce, IsDue
  <2> QED
    BY <1>1, <1>2, <1>3, <2>2, <2>3, <2>4, JobInv
    DEF JobIsDue, EmptiedIsLost, NothingElse
<1>7. ASSUME NEW f \in Folder, EmptyFolder(f)
      PROVE  IInv'
  <2>1. job' = [job EXCEPT !.left = @ \ {f}] /\ job.step = "empty" /\ lost' = lost \cup {f}
    BY <1>7 DEF EmptyFolder, PurgeStep
  <2> QED
    BY <1>1, <1>2, <1>3, <2>1, JobInv DEF JobIsDue, EmptiedIsLost, NothingElse
<1>8. CASE StopPurge \/ RefuseErase
  BY <1>4, <1>8 DEF StopPurge, RefuseErase, PurgeStep
<1>9. CASE BeginErase
  <2>1. /\ job' = [job EXCEPT !.step = "erase"] /\ lost' = lost
        /\ job.step = "empty" /\ job.left = {}
        /\ ~PurgeBlocker(request[job.request].user)
    BY <1>9 DEF BeginErase, PurgeStep, FilesGone
  <2>2. /\ job'.step = "erase" /\ job'.request = job.request
        /\ job'.left = job.left /\ job'.listed = job.listed
    BY <1>3, <2>1
  <2>3. NothingElse'
    BY <1>1, <1>2, <2>1, <2>2 DEF NothingElse, PurgeBlocker, SharesWorkspace
  <2> QED
    BY <1>1, <1>2, <1>3, <2>1, <2>2, <2>3, JobInv DEF JobIsDue, EmptiedIsLost
<1>10. CASE CheckRemaining
  <2>1. /\ job' = [job EXCEPT !.step = "delete"] /\ lost' = lost
        /\ job.step = "erase" /\ NothingRemains(request[job.request].user)
    BY <1>10 DEF CheckRemaining, PurgeStep
  <2>2. /\ job'.step = "delete" /\ job'.request = job.request
        /\ job'.left = job.left /\ job'.listed = job.listed
    BY <1>3, <2>1
  <2>3. NothingElse'
    BY <1>1, <1>2, <2>1, <2>2 DEF NothingElse, NothingRemains
  <2> QED
    BY <1>1, <1>2, <1>3, <2>1, <2>2, <2>3, JobInv DEF JobIsDue, EmptiedIsLost
<1> QED
  BY <1>5, <1>6, <1>7, <1>8, <1>9, <1>10

\* Erasing ends the request and the job together.
LEMMA EraseInv ==
  ASSUME IInv, EraseAccount
  PROVE  IInv'
<1> USE DEF IInv
<1>1. PICK p : p = request[job.request].user
  OBVIOUS
<1>2. PICK new : new = [request[job.request] EXCEPT !.state = "completed"]
  OBVIOUS
<1>3. /\ job' = NoJob /\ UNCHANGED <<call, disabled, asking, lost>>
      /\ request' = [request EXCEPT ![job.request] = new]
      /\ job.step = "delete"
  BY <1>2 DEF EraseAccount
<1>4. job.request \in Request
  BY <1>3 DEF JobIsDue
<1>5. /\ new \in [user: Person \cup {Nobody},
                  state: {"none", "scheduled", "cancelled", "completed"}, due: BOOLEAN]
      /\ new.state = "completed"
  BY <1>2, <1>4 DEF AdTypeOK
<1>6. \A q \in Request : request'[q] = IF q = job.request THEN new ELSE request[q]
  BY <1>3 DEF AdTypeOK
<1>7. AdTypeOK'
  BY <1>3, <1>5 DEF AdTypeOK, NoJob
<1>8. \A q \in Request : IsScheduled(q)' <=> (q # job.request /\ IsScheduled(q))
  BY <1>5, <1>6 DEF IsScheduled
<1>9. AskedOnce' /\ NoneTakesUp'
  BY <1>3, <1>6, <1>8 DEF AskedOnce, NoneTakesUp, IsDue
<1>16. AskersAreFree'
  BY <1>3, <1>6, <1>8 DEF AskersAreFree, Scheduled
<1>10. JobIsDue' /\ EmptiedIsLost' /\ NothingElse'
  BY <1>3 DEF NoJob, JobIsDue, EmptiedIsLost, NothingElse
<1>11. board' \in [Board -> [owner: Person \cup {Nobody}, deletedAt: Stamp]]
  <2>1. ErasedBoard \in [owner: Person \cup {Nobody}, deletedAt: Stamp]
    BY DEF ErasedBoard, Stamp
  <2> QED
    BY <2>1 DEF EraseAccount, WsTypeOK
<1>12. invite' \in [Invite -> [to: Person \cup {Nobody}, role: {"admin", "member"},
                            state: {"none", "pending", "accepted", "revoked"},
                            expired: BOOLEAN]]
  <2>1. NoInvitation \in [to: Person \cup {Nobody}, role: {"admin", "member"},
                          state: {"none", "pending", "accepted", "revoked"},
                          expired: BOOLEAN]
    BY DEF NoInvitation
  <2> QED
    BY <2>1 DEF EraseAccount, WsTypeOK
<1>13. member' \in [Person -> Standing]
  BY DEF EraseAccount, WsTypeOK, Standing
<1>14. ws' \in [state: {"live", "deleted", "erased"}, offeredTo: Person \cup {Nobody}]
  BY DEF EraseAccount, WsTypeOK
<1>15. WsTypeOK' /\ CallsFit'
  BY <1>3, <1>11, <1>12, <1>13, <1>14 DEF WsTypeOK, CallsFit
<1> QED
  BY <1>7, <1>9, <1>10, <1>15, <1>16

\* Every step keeps the invariant.
LEMMA NextInv ==
  ASSUME IInv, [AdNext]_vars
  PROVE  IInv'
<1>1. CASE UNCHANGED vars
  <2>1. UNCHANGED <<ws, member, board, invite, call, disabled, request, asking, late, job,
                    lost>>
    BY <1>1 DEF vars, wsVars, adVars
  <2> QED
    BY <2>1 DEF IInv, AskersAreFree, Scheduled, WsTypeOK, CallsFit, AdTypeOK, AskedOnce, NoneTakesUp, JobIsDue,
       EmptiedIsLost, NothingElse, IsDue, IsScheduled, Owners, IsMember, Exists
<1> QED
  BY <1>1, InWorkspaceInv, AskInv, RequestInv, CancelInv, GraceInv, PurgeInv, EraseInv DEF AdNext

\* The invariant of every state, whoever asks, cancels, joins or leaves between
\* the job's steps.
THEOREM Invariance == AdSpec => []IInv
<1>1. AdInit => IInv
  BY InitInv
<1>2. IInv /\ [AdNext]_vars => IInv'
  BY NextInv
<1> QED
  BY <1>1, <1>2, PTL DEF AdSpec

-----------------------------------------------------------------------------
(* What the purge takes, and what comes back.                              *)

\* An account is erased by the last statement of the job that works on it.
LEMMA OnlyTheJobErases ==
  ASSUME IInv, [AdNext]_vars, NEW r \in Request,
         IsScheduled(r), request'[r].state = "completed"
  PROVE  EraseAccount /\ r = job.request /\ job.step = "delete"
<1>1. request[r].state = "scheduled" /\ request \in [Request ->
        [user: Person \cup {Nobody},
         state: {"none", "scheduled", "cancelled", "completed"}, due: BOOLEAN]]
  BY DEF IInv, AdTypeOK, IsScheduled
<1>2. request' # request
  BY <1>1
<1>3. ASSUME NEW p \in Person, NEW q \in Request, RequestAccountDeletion(p, q)
      PROVE  FALSE
  BY <1>1, <1>3 DEF RequestAccountDeletion
<1>4. ASSUME NEW q \in Request, CancelAccountDeletion(q) \/ GraceEnds(q)
      PROVE  FALSE
  BY <1>1, <1>4 DEF CancelAccountDeletion, GraceEnds
<1>5. EraseAccount
  BY <1>2, <1>3, <1>4 DEF AdNext, vars, adVars, InWorkspace, AskDeletion, StartPurge, ListFolders,
     EmptyFolder, StopPurge, BeginErase, RefuseErase, CheckRemaining, PurgeStep
<1>6. r = job.request
  BY <1>1, <1>5 DEF EraseAccount
<1> QED
  BY <1>5, <1>6 DEF EraseAccount

\* account-purge.ts: rows go only once every folder they were the only list of
\* is empty, whatever the store refuses and wherever the process dies.
THEOREM FilesFirst == AdSpec => FilesGoBeforeRows
<1>1. IInv /\ [AdNext]_vars =>
        [\A r \in Request : IsScheduled(r) /\ request'[r].state = "completed" =>
           job.listed # {} /\ job.listed \subseteq lost]_vars
  <2> SUFFICES ASSUME IInv, [AdNext]_vars, NEW r \in Request,
                      IsScheduled(r), request'[r].state = "completed"
               PROVE  job.listed # {} /\ job.listed \subseteq lost
    OBVIOUS
  <2>1. job.step = "delete"
    BY OnlyTheJobErases
  <2> QED
    BY <2>1 DEF IInv, EmptiedIsLost
<1> QED
  BY <1>1, Invariance, PTL DEF AdSpec, FilesGoBeforeRows

\* account-purge.ts: erasing an account takes nobody else's board and nobody
\* else's place, but what came in after the transaction had looked.
THEOREM OthersAreSpared == AdSpec => EraseSparesOthers
<1>1. IInv /\ [AdNext]_vars =>
        [\A r \in Request : IsScheduled(r) /\ request'[r].state = "completed" =>
           /\ \A b \in Board : Exists(b) /\ board'[b] = ErasedBoard =>
                board[b].owner = request[r].user \/ b \in late
           /\ \A p \in Person : IsMember(p) /\ member'[p] = "none" =>
                p = request[r].user \/ p \in late]_vars
  <2> SUFFICES ASSUME IInv, [AdNext]_vars, NEW r \in Request,
                      IsScheduled(r), request'[r].state = "completed"
               PROVE  /\ \A b \in Board : Exists(b) /\ board'[b] = ErasedBoard =>
                           board[b].owner = request[r].user \/ b \in late
                      /\ \A p \in Person : IsMember(p) /\ member'[p] = "none" =>
                           p = request[r].user \/ p \in late
    OBVIOUS
  <2>1. EraseAccount /\ r = job.request /\ job.step = "delete"
    BY OnlyTheJobErases
  <2>2. PICK p : p = request[r].user
    OBVIOUS
  <2>3. p \in Owners =>
          /\ \A q \in Person \ {p} : IsMember(q) => q \in late
          /\ \A b \in Board : Exists(b) => board[b].owner = p \/ b \in late
    BY <2>1, <2>2 DEF IInv, NothingElse
  <2>4. \A b \in Board : Exists(b) /\ board'[b] = ErasedBoard =>
          p \in Owners \/ board[b].owner = p
    BY <2>1, <2>2 DEF EraseAccount, ErasedBoard, Exists
  <2>5. \A q \in Person : IsMember(q) /\ member'[q] = "none" => p \in Owners \/ q = p
    BY <2>1, <2>2 DEF EraseAccount, IsMember
  <2> QED
    BY <2>2, <2>3, <2>4, <2>5
<1> QED
  BY <1>1, Invariance, PTL DEF AdSpec, EraseSparesOthers

\* What became of a deleted board in a step.
Stays(b) ==
  \/ board'[b].deletedAt = board[b].deletedAt
  \/ board'[b] = ErasedBoard
  \/ \E r \in Request : /\ board[b].deletedAt = r /\ InGrace(r)
                        /\ request[r].user = board[b].owner
                        /\ request'[r].state = "cancelled"

\* account-restore.ts: nothing deleted comes back but what a request hid, in its
\* grace, for the person who made it.
THEOREM OnlyTheHiddenReturn == AdSpec => OnlyTheHiddenComeBack
<1>1. IInv /\ [AdNext]_vars =>
        [\A b \in Board : Exists(b) /\ board[b].deletedAt # Never =>
           \/ board'[b].deletedAt = board[b].deletedAt
           \/ board'[b] = ErasedBoard
           \/ \E r \in Request : /\ board[b].deletedAt = r /\ InGrace(r)
                                 /\ request[r].user = board[b].owner
                                 /\ request'[r].state = "cancelled"]_vars
  <2> SUFFICES ASSUME IInv, [AdNext]_vars, NEW b \in Board,
                      Exists(b), board[b].deletedAt # Never
               PROVE  Stays(b)
    BY DEF Stays
  <2>1. CASE board' = board
    BY <2>1 DEF Stays
  <2>2. CASE InWorkspace
    <3>1. Moves
      BY <2>2, WorkspaceMoves DEF InWorkspace, IInv
    <3> QED
      BY <3>1 DEF Moves, Stays
  <2>3. ASSUME NEW p \in Person, NEW r \in Request, RequestAccountDeletion(p, r)
        PROVE  Stays(b)
    <3>1. board'[b] = board[b]
      BY <2>3 DEF RequestAccountDeletion, LiveBoards
    <3> QED
      BY <3>1 DEF Stays
  <2>4. ASSUME NEW r \in Request, CancelAccountDeletion(r)
        PROVE  Stays(b)
    <3>1. request'[r].state = "cancelled" /\ InGrace(r)
      BY <2>4 DEF CancelAccountDeletion, IInv, AdTypeOK
    <3>2. CASE b \in Restored(request[r].user, r)
      <4>1. board[b].deletedAt = r /\ board[b].owner = request[r].user
        BY <3>2 DEF Restored, OwnedBoards
      <4> QED
        BY <3>1, <4>1 DEF Stays
    <3>3. CASE b \notin Restored(request[r].user, r)
      <4>1. board'[b] = board[b]
        BY <2>4, <3>3 DEF CancelAccountDeletion
      <4> QED
        BY <4>1 DEF Stays
    <3> QED
      BY <3>2, <3>3
  <2>5. CASE EraseAccount
    <3>1. board'[b] = ErasedBoard \/ board'[b] = board[b]
      BY <2>5 DEF EraseAccount
    <3> QED
      BY <3>1 DEF Stays
  <2>6. ASSUME board' # board, NEW r \in Request, GraceEnds(r) \/ StartPurge(r)
        PROVE  FALSE
    BY <2>6 DEF GraceEnds, StartPurge, PurgeStep, wsVars
  <2>7. ASSUME board' # board,
               \/ \E f \in Folder : EmptyFolder(f)
               \/ ListFolders \/ StopPurge \/ BeginErase \/ RefuseErase \/ CheckRemaining
               \/ \E p \in Person : AskDeletion(p)
               \/ UNCHANGED vars
        PROVE  FALSE
    BY <2>7 DEF AskDeletion, EmptyFolder, ListFolders, StopPurge, BeginErase, RefuseErase,
       CheckRemaining, PurgeStep, vars, wsVars
  <2> QED
    BY <2>1, <2>2, <2>3, <2>4, <2>5, <2>6, <2>7 DEF AdNext
<1> QED
  BY <1>1, Invariance, PTL DEF AdSpec, OnlyTheHiddenComeBack

-----------------------------------------------------------------------------
(***************************************************************************)
(* Nothing with holes comes back.  What a call holding the workspace's row *)
(* has read stands, an account past its request neither loses a workspace  *)
(* it owns nor gets boards of one it does not, and what hides a board can  *)
(* be taken back only by the account it still belongs to.                  *)
(***************************************************************************)

\* An account erased, which no call can start for.
Gone(q) == \E r \in Request : request[r].state = "completed" /\ request[r].user = q

\* A call holds the row alone, and what it read stands.
Held(c) ==
  call[c].op \in Locking =>
    /\ lock = c /\ call[c].owner \in Owners /\ call[c].offeredTo = ws.offeredTo
    /\ call[c].op \in {"role", "remove", "leave", "offer", "accept"} =>
         call[c].person \in Person \ Owners
    /\ call[c].op = "offer" => IsMember(call[c].person) \/ Gone(call[c].person)
    /\ call[c].op = "accept" =>
         call[c].person = ws.offeredTo /\ IsMember(call[c].person)

\* The request for erasing an account outlives it: it is gone for good.
GoneStays == \A q \in Person : Gone(q) => q \in disabled /\ ~Scheduled(q)

LockInv ==
  /\ \A c \in Call : Held(c)
  /\ \A p, q \in Owners : p = q
  /\ ws.offeredTo # Nobody =>
       /\ ws.offeredTo \in Person \ Owners
       /\ IsMember(ws.offeredTo) \/ Gone(ws.offeredTo)
  /\ GoneStays

\* An owner who asked was alone then: nobody who can answer is offered the
\* workspace, so they own it until they are erased or take the request back.
OwnersStay ==
  \A p \in Owners : Scheduled(p) =>
    /\ ws.offeredTo # Nobody => Gone(ws.offeredTo)
    /\ \A c \in Call : /\ call[c].op # "accept"
                       /\ call[c].op = "offer" => Gone(call[c].person)

\* An account that asked and owns no workspace has nothing live in one.
NothingLive ==
  \A p \in Person \ Owners : Scheduled(p) =>
    \A b \in LiveBoards : board[b].owner = p => b \in strays

\* A board a request hid is still its account's, or passed to whoever owns the
\* workspace, which that account then does not and will not.
HiddenOrPassed ==
  \A r \in Request, b \in Board :
    IsScheduled(r) /\ Exists(b) /\ board[b].deletedAt = r =>
      \/ board[b].owner = request[r].user
      \/ /\ request[r].user \notin Owners
         /\ \A c \in Call : call[c].op = "accept" => call[c].person # request[r].user

NotYetAsked ==
  \A r \in Request, b \in Board : request[r].state = "none" => board[b].deletedAt # r

\* A request still in its grace would bring the board back.
Restorable(b) ==
  \E r \in Request : /\ InGrace(r) /\ board[b].deletedAt = r
                     /\ board[b].owner = request[r].user

\* What is left to empty, or has been, is hidden for good, or it belongs to an
\* account that is to go.
LeftIsDoomed ==
  /\ job.step # "empty" => job.left = {}
  /\ \A b \in Board \cap job.left : board[b] # NoBoard /\
       (b \notin strays => /\ ~Restorable(b)
                           /\ b \in LiveBoards => board[b].owner = request[job.request].user)

LostIsDoomed ==
  \A b \in Board \cap lost : board[b] # NoBoard /\
    (b \notin strays => /\ ~Restorable(b)
                        /\ b \in LiveBoards => \E r \in Request :
                             IsDue(r) /\ request[r].user = board[b].owner)

HolesInv ==
  /\ IInv /\ LockInv /\ OwnersStay /\ NothingLive /\ HiddenOrPassed /\ NotYetAsked
  /\ LeftIsDoomed /\ LostIsDoomed

-----------------------------------------------------------------------------
(* The calls under the lock, and what a step of the workspace may do.      *)

\* What a step of the workspace may do to boards, to who owns it and to who may.
Turn ==
  /\ strays \subseteq strays'
  /\ \A b \in Board :
       \/ board'[b] = board[b]
       \/ /\ board[b] = NoBoard /\ board'[b].deletedAt = Never
          /\ board'[b].owner \in Person
          /\ b \in strays' \/ board'[b].owner \notin disabled
       \/ /\ b \in LiveBoards /\ board'[b].owner = board[b].owner
          /\ board'[b].deletedAt \in {"byHand", "withWorkspace"}
       \/ /\ board[b].owner \in Person \ Owners /\ board'[b].owner \in Owners
          /\ board'[b].deletedAt = board[b].deletedAt
          /\ \A c \in Call : call[c].op # "accept"
  /\ \/ Owners' = Owners
     \/ /\ \E c \in Call : call[c].op = "accept" /\ Owners' = {call[c].person}
        /\ ws'.offeredTo = Nobody /\ \A d \in Call : call'[d].op \notin Locking
  /\ \A c \in Call : call'[c] # call[c] =>
       /\ call'[c].op = "accept" =>
            call'[c].person = ws.offeredTo /\ call'[c].person \in Person \ disabled
       /\ call'[c].op = "offer" => \E p \in Owners : p \notin disabled
  /\ \/ ws'.offeredTo \in {ws.offeredTo, Nobody}
     \/ \E c \in Call : call[c].op = "offer" /\ ws'.offeredTo = call[c].person

\* While the row is free nobody is between a read under it and a write.
LEMMA FreeIsFree ==
  ASSUME LockInv, RowFree
  PROVE  \A c \in Call : call[c].op \notin Locking
  BY CallsAssumption DEF LockInv, Held, RowFree

\* A call under the lock is the only one.
LEMMA AloneUnderLock ==
  ASSUME LockInv, NEW c \in Call, call[c].op \in Locking
  PROVE  \A d \in Call : call[d].op \in Locking => d = c
  BY DEF LockInv, Held

\* What was read under the lock stands while nobody writes what it is about.
LEMMA LockKept ==
  ASSUME LockInv, lock' = lock, Owners' = Owners, ws'.offeredTo = ws.offeredTo,
         \A q \in Person : Gone(q) => Gone(q)',
         \A q \in Person : IsMember(q) => IsMember(q)' \/ Gone(q)',
         \A q \in Person : IsMember(q) /\ ~IsMember(q)' =>
            \A c \in Call : call[c].op # "accept" \/ call[c].person # q,
         \A c \in Call : call'[c] = call[c] \/ call'[c].op \notin Locking,
         GoneStays'
  PROVE  LockInv'
<1>1. ASSUME NEW c \in Call, call'[c].op \in Locking
      PROVE  Held(c)'
  <2>1. call'[c] = call[c] /\ Held(c)
    BY <1>1 DEF LockInv
  <2>2. PICK q : q = call[c].person
    OBVIOUS
  <2>3. /\ lock = c /\ call[c].owner \in Owners /\ call[c].offeredTo = ws.offeredTo
        /\ call[c].op \in {"role", "remove", "leave", "offer", "accept"} =>
             q \in Person \ Owners
        /\ call[c].op = "offer" => IsMember(q) \/ Gone(q)
        /\ call[c].op = "accept" => q = ws.offeredTo /\ IsMember(q)
    BY <1>1, <2>1, <2>2 DEF Held
  <2>4. call[c].op = "offer" => IsMember(q)' \/ Gone(q)'
    BY <2>3
  <2>5. call[c].op = "accept" => IsMember(q)'
    BY <2>2, <2>3
  <2>6. call'[c].op = "offer" => IsMember(call[c].person)' \/ Gone(call[c].person)'
    BY <2>1, <2>2, <2>4 DEF IsMember, Gone
  <2>7. call'[c].op = "accept" => IsMember(call[c].person)'
    BY <2>1, <2>2, <2>5 DEF IsMember
  <2> QED
    BY <2>1, <2>2, <2>3, <2>6, <2>7 DEF Held
<1>2. \A c \in Call : Held(c)'
  BY <1>1 DEF Held
<1>3. \A p, q \in Owners' : p = q
  BY DEF LockInv
<1>4. PICK q : q = ws.offeredTo
  OBVIOUS
<1>5. q # Nobody => q \in Person \ Owners' /\ (IsMember(q)' \/ Gone(q)')
  BY <1>4 DEF LockInv
<1>6. ws'.offeredTo # Nobody =>
        /\ ws'.offeredTo \in Person \ Owners'
        /\ IsMember(ws.offeredTo)' \/ Gone(ws.offeredTo)'
  BY <1>4, <1>5 DEF IsMember, Gone
<1> QED
  BY <1>2, <1>3, <1>6 DEF LockInv

\* With nobody under the lock, what is left to hold is of the owner and the offer.
LEMMA LockFree ==
  ASSUME \A c \in Call : call'[c].op \notin Locking,
         \A p, q \in Owners' : p = q,
         NEW q, ws'.offeredTo = q,
         q # Nobody => q \in Person \ Owners' /\ (IsMember(q)' \/ Gone(q)'),
         GoneStays'
  PROVE  LockInv'
<1>1. \A c \in Call : Held(c)'
  BY DEF Held
<1>2. ws'.offeredTo # Nobody =>
        /\ ws'.offeredTo \in Person \ Owners'
        /\ IsMember(ws.offeredTo)' \/ Gone(ws.offeredTo)'
  BY DEF IsMember, Gone
<1> QED
  BY <1>1, <1>2 DEF LockInv

\* Nobody asks, cancels or is erased in a step of the workspace.
LEMMA GoneInWorkspace ==
  ASSUME request' = request, disabled' = disabled
  PROVE  /\ \A q : Gone(q)' <=> Gone(q)
         /\ \A q : Scheduled(q)' <=> Scheduled(q)
         /\ GoneStays => GoneStays'
  BY DEF Gone, GoneStays, Scheduled, IsScheduled

\* A call takes the lock, and has read what is so.
LEMMA BeginHolds ==
  ASSUME WsTypeOK, LockInv, request' = request,
         NEW c \in Call, NEW op \in Locking, NEW p \in Person,
         NEW q \in Person \cup {Nobody}, NEW role \in Role \cup WorkspaceRole,
         Begin(c, op, p, q, role),
         op \in {"role", "remove", "leave", "offer", "accept"} => q \in Person \ Owners,
         op = "offer" => IsMember(q) /\ p \in Owners,
         op = "accept" => q = p /\ q = ws.offeredTo /\ IsMember(q)
  PROVE  Turn /\ LockInv'
<1>0. PICK bs : bs = IF op \in OnGuest THEN GuestGrants(q) ELSE {}
  OBVIOUS
<1>1. PICK owner \in Owners :
        call' = [call EXCEPT ![c] = [Idle EXCEPT !.op = op, !.person = q, !.role = role,
                     !.owner = owner, !.offeredTo = ws.offeredTo, !.boards = bs]]
  BY <1>0 DEF Begin, Goto
<1>2. PICK new : new = [Idle EXCEPT !.op = op, !.person = q, !.role = role,
                  !.owner = owner, !.offeredTo = ws.offeredTo, !.boards = bs]
  OBVIOUS
<1>3. /\ new.op = op /\ new.person = q /\ new.owner = owner
      /\ new.offeredTo = ws.offeredTo
  BY <1>2 DEF Idle
<1>4. \A d \in Call : call'[d] = IF d = c THEN new ELSE call[d]
  BY <1>1, <1>2 DEF WsTypeOK
<1>5. /\ UNCHANGED <<ws, member, board, disabled, strays>>
      /\ RowFree /\ lock' = c /\ p \notin disabled
  BY DEF Begin, Active, LockWorkspace, history
<1>6. Owners' = Owners /\ \A d : IsMember(d)' <=> IsMember(d)
  BY <1>5 DEF Owners, IsMember
<1>7. (\A d : Gone(d)' <=> Gone(d)) /\ GoneStays'
  BY <1>5, GoneInWorkspace DEF LockInv
<1>8. \A d \in Call : d # c => call'[d].op \notin Locking
  BY <1>4, <1>5, FreeIsFree
<1>9. Held(c)'
  <2>1. call'[c] = new
    BY <1>4
  <2>2. op = "offer" \/ op = "accept" => member'[q] # "none"
    BY <1>5 DEF IsMember
  <2> QED
    BY <1>3, <1>5, <1>6, <2>1, <2>2 DEF Held, IsMember
<1>10. LockInv'
  <2>1. \A d \in Call : Held(d)'
    BY <1>8, <1>9 DEF Held
  <2>2. ws'.offeredTo # Nobody =>
          /\ ws'.offeredTo \in Person \ Owners'
          /\ IsMember(ws.offeredTo)' \/ Gone(ws.offeredTo)'
    BY <1>5, <1>6 DEF LockInv, Gone, IsMember
  <2> QED
    BY <1>6, <1>7, <2>1, <2>2 DEF LockInv
<1>11. Turn
  <2>1. \A d \in Call : call'[d] # call[d] =>
          /\ call'[d].op = "accept" =>
               call'[d].person = ws.offeredTo /\ call'[d].person \in Person \ disabled
          /\ call'[d].op = "offer" => \E o \in Owners : o \notin disabled
    BY <1>3, <1>4, <1>5
  <2> QED
    BY <1>5, <1>6, <2>1 DEF Turn
<1> QED
  BY <1>10, <1>11

\* Each of the calls that lock begins so.
LEMMA BeginLockingTurns ==
  ASSUME WsTypeOK, LockInv, request' = request, NEW c \in Call, BeginLocking(c)
  PROVE  Turn /\ LockInv'
<1>1. /\ {"role", "remove", "leave", "offer", "withdraw", "accept", "guestRole", "guestOff"}
           = Locking
      /\ {"owner", "admin", "member", "editor", "viewer"} \subseteq Role \cup WorkspaceRole
      /\ OnGuest = {"guestRole", "guestOff"}
  BY DEF Locking, Role, WorkspaceRole, OnGuest
<1>2. PICK p \in Person :
        \/ BeginLeave(c, p) \/ BeginWithdraw(c, p) \/ BeginAccept(c, p)
        \/ \E q \in Person :
             \/ BeginRemove(c, p, q) \/ BeginOffer(c, p, q)
             \/ \E role \in {"admin", "member"} : BeginChangeRole(c, p, q, role)
             \/ \E op \in OnGuest, role \in {"editor", "viewer"} :
                  BeginGuest(c, op, p, q, role)
  BY DEF BeginLocking
<1>3. CASE BeginLeave(c, p)
  <2>1. p \notin Owners
    BY <1>3 DEF BeginLeave, Can, Owners
  <2> QED
    BY <1>1, <1>3, <2>1, BeginHolds DEF BeginLeave
<1>4. CASE BeginWithdraw(c, p)
  BY <1>1, <1>4, BeginHolds DEF BeginWithdraw
<1>5. CASE BeginAccept(c, p)
  <2>1. p \notin Owners
    BY <1>5, FounderAssumption DEF BeginAccept, LockInv
  <2> QED
    BY <1>1, <1>5, <2>1, BeginHolds DEF BeginAccept
<1>6. ASSUME NEW q \in Person, BeginRemove(c, p, q)
      PROVE  Turn /\ LockInv'
  <2>1. q \notin Owners
    BY <1>6 DEF BeginRemove, CheckManage, CanManageMember, Owners
  <2> QED
    BY <1>1, <1>6, <2>1, BeginHolds DEF BeginRemove
<1>7. ASSUME NEW q \in Person, BeginOffer(c, p, q)
      PROVE  Turn /\ LockInv'
  <2>1. p \in Owners /\ IsMember(q)
    BY <1>7 DEF BeginOffer, Can, Owners
  <2>2. q \notin Owners
    BY <1>7, <2>1 DEF BeginOffer, LockInv
  <2> QED
    BY <1>1, <1>7, <2>1, <2>2, BeginHolds DEF BeginOffer
<1>8. ASSUME NEW q \in Person, NEW role \in {"admin", "member"}, BeginChangeRole(c, p, q, role)
      PROVE  Turn /\ LockInv'
  <2>1. q \notin Owners
    BY <1>8 DEF BeginChangeRole, CheckManage, CanManageMember, Owners
  <2> QED
    BY <1>1, <1>8, <2>1, BeginHolds DEF BeginChangeRole
<1>9. ASSUME NEW q \in Person, NEW op \in OnGuest,
             NEW role \in {"editor", "viewer"}, BeginGuest(c, op, p, q, role)
      PROVE  Turn /\ LockInv'
  BY <1>1, <1>9, BeginHolds DEF BeginGuest
<1> QED
  BY <1>2, <1>3, <1>4, <1>5, <1>6, <1>7, <1>8, <1>9

\* A step that only reads, or writes nothing of the owner and the offer.
LEMMA BesideTheLock ==
  ASSUME LockInv, request' = request, disabled' = disabled, lock' = lock,
         ws'.offeredTo = ws.offeredTo,
         Owners' = Owners, \A q \in Person : IsMember(q) => IsMember(q)',
         \A c \in Call : call'[c] = call[c] \/ call'[c].op \notin Locking
  PROVE  LockInv'
<1>1. (\A q : Gone(q)' <=> Gone(q)) /\ GoneStays'
  BY GoneInWorkspace DEF LockInv
<1> QED
  BY <1>1, LockKept

\* A call that locks nothing begins.
LEMMA BeginReadingTurns ==
  ASSUME WsTypeOK, LockInv, request' = request, NEW c \in Call, BeginReading(c)
  PROVE  Turn /\ LockInv'
<1>1. PICK new : call' = [call EXCEPT ![c] = new] /\ new.op \in Reading
  <2>1. {"create", "redeem", "invite", "manage", "join", "delete"} = Reading
    BY DEF Reading
  <2>2. ASSUME NEW p \in Person, BeginCreate(c, p)
        PROVE  \E n : call' = [call EXCEPT ![c] = n] /\ n.op \in Reading
    <3>1. PICK n : n = [Idle EXCEPT !.op = "create", !.person = p]
      OBVIOUS
    <3>2. n.op = "create" /\ call' = [call EXCEPT ![c] = n]
      BY <2>2, <3>1 DEF Idle, BeginCreate, Goto
    <3> QED
      BY <2>1, <3>2
  <2>3. ASSUME NEW p \in Person, BeginDelete(c, p)
        PROVE  \E n : call' = [call EXCEPT ![c] = n] /\ n.op \in Reading
    <3>1. PICK n : n = [Idle EXCEPT !.op = "delete"]
      OBVIOUS
    <3>2. n.op = "delete" /\ call' = [call EXCEPT ![c] = n]
      BY <2>3, <3>1 DEF Idle, BeginDelete, Goto
    <3> QED
      BY <2>1, <3>2
  <2>4. ASSUME NEW p \in Person, BeginManage(c, p)
        PROVE  \E n : call' = [call EXCEPT ![c] = n] /\ n.op \in Reading
    <3>1. PICK n : n = [Idle EXCEPT !.op = "manage"]
      OBVIOUS
    <3>2. n.op = "manage" /\ call' = [call EXCEPT ![c] = n]
      BY <2>4, <3>1 DEF Idle, BeginManage, Goto
    <3> QED
      BY <2>1, <3>2
  <2>5. ASSUME NEW b \in Board, NEW p \in Person, BeginRedeem(c, b, p)
        PROVE  \E n : call' = [call EXCEPT ![c] = n] /\ n.op \in Reading
    <3>1. PICK n : n = [Idle EXCEPT !.op = "redeem", !.person = p, !.boards = {b}]
      OBVIOUS
    <3>2. n.op = "redeem" /\ call' = [call EXCEPT ![c] = n]
      BY <2>5, <3>1 DEF Idle, BeginRedeem, Goto
    <3> QED
      BY <2>1, <3>2
  <2>6. ASSUME NEW p \in Person, NEW q \in Person, NEW role \in InviteRole,
               BeginInvite(c, p, q, role)
        PROVE  \E n : call' = [call EXCEPT ![c] = n] /\ n.op \in Reading
    <3>1. PICK n : n = [Idle EXCEPT !.op = "invite", !.person = q, !.role = role]
      OBVIOUS
    <3>2. n.op = "invite" /\ call' = [call EXCEPT ![c] = n]
      BY <2>6, <3>1 DEF Idle, BeginInvite, Goto
    <3> QED
      BY <2>1, <3>2
  <2>7. ASSUME NEW i \in Invite, BeginJoin(c, i)
        PROVE  \E n : call' = [call EXCEPT ![c] = n] /\ n.op \in Reading
    <3>1. PICK n : n = [Idle EXCEPT !.op = "join", !.person = invite[i].to, !.invite = i]
      OBVIOUS
    <3>2. n.op = "join" /\ call' = [call EXCEPT ![c] = n]
      BY <2>7, <3>1 DEF Idle, BeginJoin, Goto
    <3> QED
      BY <2>1, <3>2
  <2> QED
    BY <2>2, <2>3, <2>4, <2>5, <2>6, <2>7 DEF BeginReading
<1>2. UNCHANGED <<ws, member, board, disabled, lock, strays>>
  BY DEF BeginReading, BeginCreate, BeginDelete, BeginManage, BeginRedeem, BeginInvite,
     BeginJoin, history
<1>3. \A d \in Call : call'[d] = call[d] \/ call'[d].op \in Reading
  BY <1>1 DEF WsTypeOK
<1>4. \A op \in Reading : op \notin Locking /\ op # "accept" /\ op # "offer"
  BY DEF Reading, Locking
<1>5. Owners' = Owners /\ \A q : IsMember(q)' <=> IsMember(q)
  BY <1>2 DEF Owners, IsMember
<1>6. LockInv'
  BY <1>2, <1>3, <1>4, <1>5, BesideTheLock
<1> QED
  BY <1>2, <1>3, <1>4, <1>5, <1>6 DEF Turn

\* The call that held the lock has let it go, and nobody has it.
LEMMA LetsGo ==
  ASSUME WsTypeOK, LockInv, NEW c \in Call, call[c].op \in Locking, Goto(c, Idle)
  PROVE  /\ \A d \in Call : call'[d].op \notin Locking
         /\ \A d \in Call : call'[d].op # "accept" /\ call'[d].op # "offer"
<1>1. \A d \in Call : call'[d] = IF d = c THEN Idle ELSE call[d]
  BY DEF WsTypeOK, Goto
<1>2. Idle.op \notin Locking
  BY IdleRecord DEF Locking
<1>3. \A d \in Call : call'[d].op \notin Locking
  BY <1>1, <1>2, AloneUnderLock
<1> QED
  BY <1>3 DEF Locking

\* Somebody goes: not the owner, who gets their boards, and an offer to them
\* goes with them.
LEMMA DepartTurns ==
  ASSUME WsTypeOK, LockInv, request' = request, NEW c \in Call,
         call[c].op \in {"remove", "leave"}, Goto(c, Idle),
         Depart(call[c].person, call[c].owner, call[c].offeredTo),
         UNCHANGED <<disabled, strays>>
  PROVE  Turn /\ LockInv'
<1>1. PICK q, owner, offered :
        q = call[c].person /\ owner = call[c].owner /\ offered = call[c].offeredTo
  OBVIOUS
<1>2. call[c].op \in Locking
  BY DEF Locking
<1>3. /\ q \in Person \ Owners /\ owner \in Owners /\ offered = ws.offeredTo
  BY <1>1, <1>2 DEF LockInv, Held
<1>4. /\ \A d \in Call : call'[d].op \notin Locking
      /\ \A d \in Call : call'[d].op # "accept" /\ call'[d].op # "offer"
  BY <1>2, LetsGo
<1>5. \A d \in Call : call[d].op # "accept"
  <2>1. \A d \in Call : call[d].op = "accept" => call[d].op \in Locking
    BY DEF Locking
  <2> QED
    BY <1>2, <2>1, AloneUnderLock
<1>6. \A p \in Person : member'[p] = IF p = q THEN "none" ELSE member[p]
  BY <1>1 DEF Depart, WsTypeOK
<1>7. Owners' = Owners
  BY <1>3, <1>6 DEF Owners
<1>8. ws'.offeredTo = IF ws.offeredTo = q THEN Nobody ELSE ws.offeredTo
  BY <1>1, <1>3 DEF Depart, WithdrawOfferTo, WsTypeOK
<1>9. (\A d : Gone(d)' <=> Gone(d)) /\ GoneStays'
  BY GoneInWorkspace DEF LockInv
<1>10. LockInv'
  <2>1. PICK o : o = ws'.offeredTo
    OBVIOUS
  <2>2. o # Nobody => o = ws.offeredTo /\ o # q
    BY <1>8, <2>1
  <2>3. o # Nobody => o \in Person \ Owners' /\ (IsMember(o) \/ Gone(o))
    BY <1>7, <2>2 DEF LockInv
  <2>4. o # Nobody => IsMember(o)' \/ Gone(o)'
    BY <1>6, <1>9, <2>2, <2>3 DEF IsMember
  <2>5. \A x, y \in Owners' : x = y
    BY <1>7 DEF LockInv
  <2> QED
    BY <1>4, <1>9, <2>1, <2>3, <2>4, <2>5, LockFree
<1>11. \A b \in Board :
         board'[b] = IF board[b].owner = q THEN [board[b] EXCEPT !.owner = owner] ELSE board[b]
  BY <1>1 DEF Depart, PassBoards
<1>12. ASSUME NEW b \in Board, board'[b] # board[b]
       PROVE  /\ board[b].owner \in Person \ Owners /\ board'[b].owner \in Owners
              /\ board'[b].deletedAt = board[b].deletedAt
  <2>1. board[b].owner = q /\ board'[b] = [board[b] EXCEPT !.owner = owner]
    BY <1>11, <1>12
  <2>2. board[b] \in [owner: Person \cup {Nobody}, deletedAt: Stamp]
    BY DEF WsTypeOK
  <2> QED
    BY <1>3, <2>1, <2>2
<1> QED
  BY <1>4, <1>5, <1>7, <1>8, <1>10, <1>12 DEF Turn

\* A call under the lock that moves no board ends.
LEMMA CommitLockingTurns ==
  ASSUME WsTypeOK, CallsFit, LockInv, request' = request, NEW c \in Call, CommitLocking(c)
  PROVE  Turn /\ LockInv'
<1>1. CASE RemoveMember(c) \/ LeaveWorkspace(c)
  BY <1>1, DepartTurns DEF RemoveMember, LeaveWorkspace, Commit, history
<1>2. CASE ~(RemoveMember(c) \/ LeaveWorkspace(c))
  <2>1. /\ UNCHANGED <<board, disabled, strays>> /\ Goto(c, Idle) /\ call[c].op \in Locking
    BY <1>2 DEF CommitLocking, Commit, ChangeMemberRole, OfferOwnership,
       WithdrawOwnershipOffer, AcceptOwnership, SetGuestRole, RemoveGuest, history, Locking
  <2>2. /\ \A d \in Call : call'[d].op \notin Locking
        /\ \A d \in Call : call'[d].op # "accept" /\ call'[d].op # "offer"
    BY <2>1, LetsGo
  <2>3. (\A d : Gone(d)' <=> Gone(d)) /\ GoneStays'
    BY <2>1, GoneInWorkspace DEF LockInv
  <2>4. PICK q : q = call[c].person
    OBVIOUS
  <2>5. Held(c)
    BY DEF LockInv
  <2>6. \A x, y \in Owners : x = y
    BY DEF LockInv
  <2>7. CASE AcceptOwnership(c)
    <3>1. call[c].op = "accept"
      BY <2>7 DEF AcceptOwnership, Commit
    <3>2. q \in Person /\ call[c].owner \in Owners
      BY <2>1, <2>4, <2>5, <3>1 DEF Held
    <3>3. Owners' = {q}
      BY <2>4, <2>6, <2>7, <3>2 DEF AcceptOwnership, HandOver, Owners, WsTypeOK
    <3>4. ws'.offeredTo = Nobody
      BY <2>7 DEF AcceptOwnership, WsTypeOK
    <3>5. LockInv'
      BY <2>2, <2>3, <3>3, <3>4, LockFree
    <3> QED
      BY <2>1, <2>2, <2>4, <3>1, <3>3, <3>4, <3>5 DEF Turn
  <2>8. CASE ~AcceptOwnership(c)
    <3>1. Owners' = Owners /\ \A p \in Person : IsMember(p)' <=> IsMember(p)
      <4>1. CASE ChangeMemberRole(c)
        <5>1. call[c].op = "role" /\ q \notin Owners /\ call[c].role \in {"admin", "member"}
          BY <2>1, <2>4, <2>5, <4>1 DEF ChangeMemberRole, Commit, CallsFit, Held
        <5>2. \A p \in Person : member'[p] = IF p = q /\ member[p] # "none"
                                               THEN call[c].role ELSE member[p]
          BY <2>4, <4>1 DEF ChangeMemberRole, WithRole, WsTypeOK
        <5> QED
          BY <5>1, <5>2 DEF Owners, IsMember
      <4>2. CASE member' = member
        BY <4>2 DEF Owners, IsMember
      <4> QED
        BY <1>2, <2>8, <4>1, <4>2 DEF CommitLocking, OfferOwnership,
           WithdrawOwnershipOffer, SetGuestRole, RemoveGuest
    <3>2. PICK o : o = ws'.offeredTo
      OBVIOUS
    <3>3. \/ o = ws.offeredTo \/ o = Nobody
          \/ call[c].op = "offer" /\ o = q
      <4>1. CASE OfferOwnership(c)
        BY <2>4, <3>2, <4>1 DEF OfferOwnership, Commit, WsTypeOK
      <4>2. CASE WithdrawOwnershipOffer(c)
        BY <3>2, <4>2 DEF WithdrawOwnershipOffer, WsTypeOK
      <4>3. CASE ws' = ws
        BY <3>2, <4>3
      <4> QED
        BY <1>2, <2>8, <4>1, <4>2, <4>3 DEF CommitLocking, ChangeMemberRole,
           SetGuestRole, RemoveGuest
    <3>4. o # Nobody => o \in Person \ Owners /\ (IsMember(o) \/ Gone(o))
      <4>1. CASE o = ws.offeredTo
        BY <4>1 DEF LockInv
      <4>2. CASE call[c].op = "offer" /\ o = q
        BY <2>1, <2>4, <2>5, <4>2 DEF Held
      <4> QED
        BY <3>3, <4>1, <4>2
    <3>5. LockInv'
      BY <2>2, <2>3, <2>6, <3>1, <3>2, <3>4, LockFree
    <3>6. \/ ws'.offeredTo \in {ws.offeredTo, Nobody}
          \/ \E d \in Call : call[d].op = "offer" /\ ws'.offeredTo = call[d].person
      BY <2>4, <3>2, <3>3
    <3> QED
      BY <2>1, <2>2, <3>1, <3>5, <3>6 DEF Turn
  <2> QED
    BY <2>7, <2>8
<1> QED
  BY <1>1, <1>2

\* A call that locked nothing ends: a board made, an invitation made or used,
\* the workspace deleted.
LEMMA CommitReadingTurns ==
  ASSUME WsTypeOK, CallsFit, LockInv, request' = request, NEW c \in Call, CommitReading(c)
  PROVE  Turn /\ LockInv'
<1>1. Goto(c, Idle) /\ disabled' = disabled /\ lock' = lock
  BY DEF CommitReading, CreateBoard, CreateInvite, AcceptInvite, DeleteWorkspace,
     RedeemShareLink, ResendInvite, RevokeInvite
<1>2. \A d \in Call : call'[d] = call[d] \/ call'[d] = Idle
  BY <1>1 DEF WsTypeOK, Goto
<1>3. Idle.op \notin Locking /\ Idle.op # "accept" /\ Idle.op # "offer"
  BY IdleRecord DEF Locking
<1>4. ws'.offeredTo = ws.offeredTo
  BY DEF CommitReading, CreateBoard, CreateInvite, AcceptInvite, DeleteWorkspace,
     RedeemShareLink, ResendInvite, RevokeInvite, WsTypeOK
<1>5. Owners' = Owners /\ \A p \in Person : IsMember(p) => IsMember(p)'
  <2>1. CASE member' = member
    BY <2>1 DEF Owners, IsMember
  <2>2. CASE AcceptInvite(c) /\ member' # member
    <3>1. PICK p, role : p = call[c].person /\ role = invite[call[c].invite].role
      OBVIOUS
    <3>2. ~IsMember(p) /\ member' = [member EXCEPT ![p] = role]
      BY <2>2, <3>1 DEF AcceptInvite
    <3>3. role \in {"admin", "member"}
      BY <2>2, <3>1 DEF AcceptInvite, CallsFit, WsTypeOK
    <3>4. \A d \in Person : member'[d] = IF d = p THEN role ELSE member[d]
      BY <3>2 DEF WsTypeOK
    <3> QED
      BY <3>2, <3>3, <3>4 DEF Owners, IsMember
  <2> QED
    BY <2>1, <2>2 DEF CommitReading, CreateBoard, CreateInvite, DeleteWorkspace,
       RedeemShareLink, ResendInvite, RevokeInvite
<1>6. LockInv'
  BY <1>1, <1>2, <1>3, <1>4, <1>5, BesideTheLock
<1>7. /\ strays \subseteq strays'
      /\ \A b \in Board :
           \/ board'[b] = board[b]
           \/ /\ board[b] = NoBoard /\ board'[b].deletedAt = Never
              /\ board'[b].owner \in Person
              /\ b \in strays' \/ board'[b].owner \notin disabled
           \/ /\ b \in LiveBoards /\ board'[b].owner = board[b].owner
              /\ board'[b].deletedAt \in {"byHand", "withWorkspace"}
  <2>1. CASE CreateBoard(c)
    <3>1. PICK p : p = call[c].person
      OBVIOUS
    <3>2. PICK b \in Board :
            /\ board[b] = NoBoard
            /\ board' = [board EXCEPT ![b] = [owner |-> p, deletedAt |-> Never]]
            /\ strays' = IF IsMember(p) /\ Active(p) /\ ws.state = "live"
                           THEN strays ELSE strays \cup {b}
      BY <2>1, <3>1 DEF CreateBoard
    <3>3. p \in Person \cup {Nobody}
      BY <3>1 DEF WsTypeOK, CallState
    <3>4. \A d \in Board : d # b => board'[d] = board[d]
      BY <3>2 DEF WsTypeOK
    <3>5. board'[b] = [owner |-> p, deletedAt |-> Never]
      BY <3>2 DEF WsTypeOK
    <3>6. p = Nobody => board'[b] = board[b]
      BY <3>2, <3>5 DEF NoBoard
    <3>7. strays \subseteq strays' /\ (b \in strays' \/ p \notin disabled)
      BY <3>2 DEF Active
    <3>8. \/ board'[b] = board[b]
          \/ /\ board[b] = NoBoard /\ board'[b].deletedAt = Never
             /\ board'[b].owner \in Person
             /\ b \in strays' \/ board'[b].owner \notin disabled
      BY <3>2, <3>3, <3>5, <3>6, <3>7
    <3> QED
      BY <3>4, <3>7, <3>8
  <2>2. CASE DeleteWorkspace(c)
    <3>1. strays' = strays
      BY <2>2 DEF DeleteWorkspace, history
    <3>2. \A b \in Board : board'[b] = IF b \in LiveBoards
            THEN [board[b] EXCEPT !.deletedAt = "withWorkspace"] ELSE board[b]
      BY <2>2 DEF DeleteWorkspace
    <3>3. ASSUME NEW b \in LiveBoards
          PROVE  board'[b].owner = board[b].owner /\ board'[b].deletedAt = "withWorkspace"
      BY <3>2 DEF LiveBoards, WsTypeOK
    <3>4. \A b \in Board : b \notin LiveBoards => board'[b] = board[b]
      BY <3>2
    <3> QED
      BY <3>1, <3>3, <3>4
  <2>3. CASE \/ CreateInvite(c) \/ AcceptInvite(c) \/ RedeemShareLink(c)
             \/ \E i \in Invite : ResendInvite(c, i) \/ RevokeInvite(c, i)
    <3>1. board' = board /\ strays' = strays
      BY <2>3 DEF CreateInvite, AcceptInvite, RedeemShareLink, ResendInvite, RevokeInvite,
         history
    <3> QED
      BY <3>1
  <2> QED
    BY <2>1, <2>2, <2>3 DEF CommitReading
<1>8. \A d \in Call : call'[d] # call[d] => call'[d].op # "accept" /\ call'[d].op # "offer"
  BY <1>2, <1>3
<1> QED
  BY <1>4, <1>5, <1>6, <1>7, <1>8 DEF Turn

\* What is done besides the calls throws a board away at most.
LEMMA ActTurns ==
  ASSUME WsTypeOK, LockInv, request' = request,
         \/ \E b \in Board : SoftDeleteBoard(b) \/ \E p \in Person : SetBoardMemberRole(b, p)
         \/ \E i \in Invite : ExpireInvite(i)
  PROVE  Turn /\ LockInv'
<1>1. UNCHANGED <<ws, member, call, disabled, lock, strays>>
  BY DEF SoftDeleteBoard, SetBoardMemberRole, ExpireInvite, history
<1>2. Owners' = Owners /\ \A p \in Person : IsMember(p)' <=> IsMember(p)
  BY <1>1 DEF Owners, IsMember
<1>3. LockInv'
  BY <1>1, <1>2, BesideTheLock
<1>4. \A b \in Board :
        \/ board'[b] = board[b]
        \/ /\ b \in LiveBoards /\ board'[b].owner = board[b].owner
           /\ board'[b].deletedAt = "byHand"
  <2>1. CASE \E b \in Board : SoftDeleteBoard(b)
    BY <2>1 DEF SoftDeleteBoard, WsTypeOK
  <2>2. CASE board' = board
    BY <2>2
  <2> QED
    BY <2>1, <2>2 DEF SetBoardMemberRole, ExpireInvite
<1> QED
  BY <1>1, <1>2, <1>3, <1>4 DEF Turn

\* A call that comes to nothing lets the row go if it held it.
LEMMA AbandonTurns ==
  ASSUME WsTypeOK, LockInv, request' = request, NEW c \in Call, Abandon(c)
  PROVE  Turn /\ LockInv'
<1>1. /\ Goto(c, Idle) /\ UNCHANGED <<ws, member, board, disabled, strays>>
      /\ lock' = IF lock = c THEN NoCall ELSE lock
  BY DEF Abandon, history
<1>2. \A d \in Call : call'[d] = IF d = c THEN Idle ELSE call[d]
  BY <1>1 DEF WsTypeOK, Goto
<1>3. Idle.op \notin Locking /\ Idle.op # "accept" /\ Idle.op # "offer"
  BY IdleRecord DEF Locking
<1>4. Owners' = Owners /\ \A q : IsMember(q)' <=> IsMember(q)
  BY <1>1 DEF Owners, IsMember
<1>5. ASSUME lock # c PROVE LockInv'
  BY <1>1, <1>2, <1>3, <1>4, <1>5, BesideTheLock
<1>6. ASSUME lock = c PROVE LockInv'
  <2>1. \A d \in Call : call'[d].op \notin Locking
    BY <1>2, <1>3, <1>6 DEF LockInv, Held
  <2>2. (\A d : Gone(d)' <=> Gone(d)) /\ GoneStays'
    BY <1>1, GoneInWorkspace DEF LockInv
  <2>3. PICK o : o = ws'.offeredTo
    OBVIOUS
  <2>4. o # Nobody => o \in Person \ Owners' /\ (IsMember(o)' \/ Gone(o)')
    BY <1>1, <1>4, <2>2, <2>3 DEF LockInv
  <2>5. \A x, y \in Owners' : x = y
    BY <1>4 DEF LockInv
  <2> QED
    BY <2>1, <2>2, <2>3, <2>4, <2>5, LockFree
<1>7. \A d \in Call : call'[d] # call[d] => call'[d].op # "accept" /\ call'[d].op # "offer"
  BY <1>2, <1>3
<1>8. Turn
  BY <1>1, <1>4, <1>7 DEF Turn
<1> QED
  BY <1>5, <1>6, <1>8

\* Whatever the workspace does, it is one of these.
LEMMA WorkspaceTurns ==
  ASSUME WsTypeOK, CallsFit, LockInv, request' = request, WsNext
  PROVE  Turn /\ LockInv'
<1>1. CASE \E c \in Call : BeginLocking(c)
  BY <1>1, BeginLockingTurns
<1>2. CASE \E c \in Call : CommitLocking(c)
  BY <1>2, CommitLockingTurns
<1>3. CASE \E c \in Call : BeginReading(c)
  BY <1>3, BeginReadingTurns
<1>4. CASE \E c \in Call : CommitReading(c)
  BY <1>4, CommitReadingTurns
<1>5. CASE \E c \in Call : Abandon(c)
  BY <1>5, AbandonTurns
<1> QED
  BY <1>1, <1>2, <1>3, <1>4, <1>5, ActTurns DEF WsNext

-----------------------------------------------------------------------------
(* Each step keeps what no restore may bring back away from it.            *)

\* A board that is hidden, or whose owner's account is to go, is not moved to
\* somebody who would see it again.
LEMMA BoardStays ==
  ASSUME HolesInv, Turn, request' = request, NEW b \in Board,
         board[b] # NoBoard, b \notin strays, ~Restorable(b),
         b \in LiveBoards => \E r \in Request : IsScheduled(r) /\ request[r].user = board[b].owner
  PROVE  /\ board'[b] # NoBoard /\ ~Restorable(b)'
         /\ b \in LiveBoards' => b \in LiveBoards /\ board'[b].owner = board[b].owner
<1>1. CASE board'[b] = board[b]
  BY <1>1 DEF Restorable, InGrace, IsScheduled, LiveBoards, Exists
<1>2. CASE /\ b \in LiveBoards /\ board'[b].owner = board[b].owner
           /\ board'[b].deletedAt \in {"byHand", "withWorkspace"}
  <2>1. board'[b].deletedAt \notin Request /\ board'[b].deletedAt # Never
    BY <1>2, StampsAssumption DEF Never
  <2> QED
    BY <2>1 DEF Restorable, LiveBoards, NoBoard
<1>3. CASE /\ board[b].owner \in Person \ Owners /\ board'[b].owner \in Owners
           /\ board'[b].deletedAt = board[b].deletedAt
  <2>1. board'[b] # NoBoard
    BY <1>3, FounderAssumption DEF Owners, NoBoard
  <2>2. b \notin LiveBoards
    BY <1>3 DEF HolesInv, NothingLive, Scheduled
  <2>3. b \notin LiveBoards'
    BY <1>3, <2>2, FounderAssumption DEF LiveBoards, Exists
  <2>4. ASSUME NEW r \in Request, InGrace(r), board[b].deletedAt = r,
               board'[b].owner = request[r].user
        PROVE  FALSE
    <3>1. IsScheduled(r) /\ Exists(b)
      BY <1>3, <2>4, FounderAssumption DEF InGrace, Exists
    <3> QED
      BY <1>3, <2>4, <3>1 DEF HolesInv, HiddenOrPassed
  <2>5. ~Restorable(b)'
    BY <1>3, <2>4 DEF Restorable, InGrace, IsScheduled
  <2> QED
    BY <2>1, <2>3, <2>5
<1> QED
  BY <1>1, <1>2, <1>3 DEF Turn

\* An account locked has no part in what a step of the workspace begins.
LEMMA OwnersStayInWorkspace ==
  ASSUME HolesInv, Turn, request' = request
  PROVE  OwnersStay'
<1> SUFFICES ASSUME NEW p \in Owners', Scheduled(p)
             PROVE  /\ ws'.offeredTo # Nobody => Gone(ws'.offeredTo)
                    /\ \A c \in Call : /\ call'[c].op # "accept"
                                       /\ call'[c].op = "offer" => Gone(call'[c].person)
  BY GoneInWorkspace DEF OwnersStay, Gone, Scheduled, IsScheduled
<1>1. CASE /\ ws'.offeredTo = Nobody /\ \A d \in Call : call'[d].op \notin Locking
  BY <1>1 DEF Locking
<1>2. CASE Owners' = Owners
  <2>1. /\ ws.offeredTo # Nobody => Gone(ws.offeredTo)
        /\ \A c \in Call : /\ call[c].op # "accept"
                           /\ call[c].op = "offer" => Gone(call[c].person)
    BY <1>2 DEF HolesInv, OwnersStay
  <2>2. p \in disabled /\ \A q \in Owners : q = p
    BY <1>2 DEF HolesInv, IInv, AskedOnce, Scheduled, LockInv
  <2>3. ws'.offeredTo # Nobody => Gone(ws'.offeredTo)
    BY <2>1 DEF Turn
  <2>4. ASSUME NEW c \in Call, call'[c] # call[c]
        PROVE  call'[c].op # "accept" /\ call'[c].op # "offer"
    <3>1. call'[c].op # "offer"
      BY <2>2, <2>4 DEF Turn
    <3>2. ASSUME call'[c].op = "accept" PROVE FALSE
      <4>1. ws.offeredTo \in Person \ disabled
        BY <2>4, <3>2 DEF Turn
      <4>2. Gone(ws.offeredTo)
        BY <2>1, <4>1, FounderAssumption
      <4> QED
        BY <4>1, <4>2 DEF HolesInv, LockInv, GoneStays
    <3> QED
      BY <3>1, <3>2
  <2> QED
    BY <2>1, <2>3, <2>4
<1> QED
  BY <1>1, <1>2 DEF Turn

\* Whatever the workspace does, no board of an account that asked is live
\* again, and none it hid passes to somebody who could bring it back.
LEMMA WorkspaceHoles ==
  ASSUME HolesInv, InWorkspace
  PROVE  HolesInv'
<1>1. UNCHANGED <<request, job, lost>>
  BY DEF InWorkspace
<1>2. Turn /\ LockInv'
  BY <1>1, WorkspaceTurns DEF InWorkspace, HolesInv, IInv
<1>3. IInv'
  BY InWorkspaceInv DEF HolesInv
<1>4. OwnersStay'
  BY <1>1, <1>2, OwnersStayInWorkspace
<1>5. \A r \in Request : IsScheduled(r) =>
        request[r].user \in disabled /\ request[r].user \in Person
  BY DEF HolesInv, IInv, AskedOnce
<1>6. NothingLive'
  <2> SUFFICES ASSUME NEW p \in Person \ Owners', Scheduled(p),
                      NEW b \in LiveBoards', board'[b].owner = p
               PROVE  b \in strays'
    BY <1>1, GoneInWorkspace DEF NothingLive, Scheduled, IsScheduled
  <2>1. p \notin Owners
    BY <1>2 DEF Turn, HolesInv, OwnersStay
  <2>2. p \in disabled
    BY <1>5 DEF Scheduled
  <2>3. b \in Board /\ board'[b].deletedAt = Never
    BY DEF LiveBoards
  <2>4. board'[b] = board[b] => b \in strays
    BY <2>1 DEF HolesInv, NothingLive, LiveBoards, Exists
  <2>5. Never \notin {"byHand", "withWorkspace"}
    BY DEF Never
  <2> QED
    BY <1>2, <2>1, <2>2, <2>3, <2>4, <2>5 DEF Turn
<1>7. ASSUME NEW b \in Board, NEW r \in Request, board'[b].deletedAt = r
      PROVE  board[b].deletedAt = r /\ (board'[b] = board[b] \/
               /\ board[b].owner \in Person \ Owners /\ \A c \in Call : call[c].op # "accept")
  <2>1. r \notin {Never, "byHand", "withWorkspace"}
    BY StampsAssumption
  <2> QED
    BY <1>2, <1>7, <2>1 DEF Turn
<1>8. HiddenOrPassed'
  <2> SUFFICES ASSUME NEW r \in Request, NEW b \in Board, IsScheduled(r), Exists(b)',
                      board'[b].deletedAt = r, board'[b].owner # request[r].user
               PROVE  /\ request[r].user \notin Owners'
                      /\ \A c \in Call : call'[c].op = "accept" =>
                                           call'[c].person # request[r].user
    BY <1>1 DEF HiddenOrPassed, IsScheduled
  <2>1. Exists(b)
    BY <1>7, FounderAssumption DEF Exists
  <2>2. /\ request[r].user \notin Owners
        /\ \A c \in Call : call[c].op = "accept" => call[c].person # request[r].user
    BY <1>7, <2>1 DEF HolesInv, HiddenOrPassed
  <2>3. request[r].user \in disabled
    BY <1>5
  <2> QED
    BY <1>2, <2>2, <2>3 DEF Turn
<1>9. NotYetAsked'
  BY <1>1, <1>7 DEF HolesInv, NotYetAsked
<1>10. job.left # {} => job.request \in Request /\ IsDue(job.request)
  BY DEF HolesInv, IInv, JobIsDue, LeftIsDoomed
<1>11. LeftIsDoomed'
  <2> SUFFICES ASSUME NEW b \in Board, b \in job.left
               PROVE  board'[b] # NoBoard /\
                 (b \notin strays' => /\ ~Restorable(b)'
                                      /\ b \in LiveBoards' =>
                                           board'[b].owner = request[job.request].user)
    BY <1>1 DEF HolesInv, LeftIsDoomed
  <2>1. board[b] # NoBoard
    BY DEF HolesInv, LeftIsDoomed
  <2>2. CASE b \in strays
    BY <1>2, <2>1, <2>2, FounderAssumption DEF Turn, NoBoard, Owners, Never
  <2>3. CASE b \notin strays
    <3>1. /\ ~Restorable(b)
          /\ b \in LiveBoards => board[b].owner = request[job.request].user
      BY <2>3 DEF HolesInv, LeftIsDoomed
    <3>2. b \in LiveBoards =>
            \E r \in Request : IsScheduled(r) /\ request[r].user = board[b].owner
      BY <1>10, <3>1 DEF IsDue
    <3> QED
      BY <1>1, <1>2, <2>1, <2>3, <3>1, <3>2, BoardStays
  <2> QED
    BY <2>2, <2>3
<1>12. LostIsDoomed'
  <2> SUFFICES ASSUME NEW b \in Board, b \in lost
               PROVE  board'[b] # NoBoard /\
                 (b \notin strays' => /\ ~Restorable(b)'
                                      /\ b \in LiveBoards' => \E r \in Request :
                                           IsDue(r) /\ request[r].user = board'[b].owner)
    BY <1>1 DEF LostIsDoomed, IsDue, IsScheduled
  <2>1. board[b] # NoBoard
    BY DEF HolesInv, LostIsDoomed
  <2>2. CASE b \in strays
    BY <1>2, <2>1, <2>2, FounderAssumption DEF Turn, NoBoard, Owners, Never
  <2>3. CASE b \notin strays
    <3>1. /\ ~Restorable(b)
          /\ b \in LiveBoards => \E r \in Request : IsDue(r) /\ request[r].user = board[b].owner
      BY <2>3 DEF HolesInv, LostIsDoomed
    <3>2. b \in LiveBoards =>
            \E r \in Request : IsScheduled(r) /\ request[r].user = board[b].owner
      BY <3>1 DEF IsDue
    <3> QED
      BY <1>1, <1>2, <2>1, <2>3, <3>1, <3>2, BoardStays
  <2> QED
    BY <2>2, <2>3
<1> QED
  BY <1>2, <1>3, <1>4, <1>6, <1>8, <1>9, <1>11, <1>12 DEF HolesInv

\* A step beside the workspace leaves what was read under the lock as it was.
LEMMA LockStands ==
  ASSUME LockInv, UNCHANGED <<ws, member, lock, call>>,
         \A q \in Person : Gone(q) => Gone(q)', GoneStays'
  PROVE  LockInv'
<1>1. Owners' = Owners /\ \A q \in Person : IsMember(q)' <=> IsMember(q)
  BY DEF Owners, IsMember
<1> QED
  BY <1>1, LockKept

\* An account asks: if it owns the workspace it is still alone in it, and all that
\* is its own and live is hidden.
LEMMA RequestHoles ==
  ASSUME HolesInv, NEW p \in Person, NEW r \in Request, RequestAccountDeletion(p, r),
         raced' = {}
  PROVE  HolesInv'
<1>1. IInv'
  BY RequestInv DEF HolesInv
<1>2. /\ ~Scheduled(p) /\ p \notin disabled /\ request[r].state = "none"
      /\ ~SharesWorkspace(p)
      /\ UNCHANGED <<ws, member, lock, call, strays, job, lost>>
      /\ disabled' = disabled \cup {p}
  BY DEF RequestAccountDeletion, NoDeletion, HolesInv, IInv, AskersAreFree, history
<1>3. PICK new : new = [user |-> p, state |-> "scheduled", due |-> FALSE]
  OBVIOUS
<1>4. \A q \in Request : request'[q] = IF q = r THEN new ELSE request[q]
  BY <1>3 DEF RequestAccountDeletion, HolesInv, IInv, AdTypeOK
<1>5. /\ \A q \in Request : IsScheduled(q)' <=> (q = r \/ IsScheduled(q))
      /\ \A q \in Request : InGrace(q)' <=> (q = r \/ InGrace(q))
      /\ \A q \in Request : IsDue(q) => q # r /\ IsDue(q)'
      /\ \A x : Scheduled(x)' <=> (x = p \/ Scheduled(x))
      /\ \A x : Gone(x)' <=> Gone(x)
  BY <1>2, <1>3, <1>4 DEF IsScheduled, InGrace, IsDue, Scheduled, Gone
<1>6. Owners' = Owners /\ \A q \in Person : IsMember(q)' <=> IsMember(q)
  BY <1>2 DEF Owners, IsMember
<1>7. \A b \in Board :
        \/ /\ board'[b] = board[b] /\ ~(b \in LiveBoards /\ board[b].owner = p)
        \/ /\ b \in LiveBoards /\ board[b].owner = p
           /\ board'[b].deletedAt = r /\ board'[b].owner = p
  BY DEF RequestAccountDeletion, OwnedBoards, LiveBoards, HolesInv, IInv, WsTypeOK
<1>8. LockInv'
  <2>1. GoneStays'
    BY <1>2, <1>5 DEF GoneStays, HolesInv, LockInv
  <2> QED
    BY <1>2, <1>5, <2>1, LockStands DEF HolesInv
<1>9. OwnersStay'
  <2> SUFFICES ASSUME NEW x \in Owners, Scheduled(x) \/ x = p
               PROVE  /\ ws.offeredTo # Nobody => Gone(ws.offeredTo)
                      /\ \A c \in Call : /\ call[c].op # "accept"
                                         /\ call[c].op = "offer" => Gone(call[c].person)
    BY <1>2, <1>5, <1>6 DEF OwnersStay, Gone
  <2>1. CASE Scheduled(x)
    BY <2>1 DEF HolesInv, OwnersStay
  <2>2. CASE x = p
    <3>1. \A q \in Person \ Owners : ~IsMember(q)
      BY <1>2, <2>2 DEF SharesWorkspace
    <3>2. ws.offeredTo # Nobody => Gone(ws.offeredTo)
      BY <3>1 DEF HolesInv, LockInv
    <3>3. ASSUME NEW c \in Call
          PROVE  /\ call[c].op # "accept"
                 /\ call[c].op = "offer" => Gone(call[c].person)
      BY <3>1 DEF HolesInv, LockInv, Held, Locking
    <3> QED
      BY <3>2, <3>3
  <2> QED
    BY <2>1, <2>2
<1>10. r # Never
  BY StampsAssumption
<1>11. NothingLive'
  <2> SUFFICES ASSUME NEW x \in Person \ Owners, Scheduled(x) \/ x = p,
                      NEW b \in LiveBoards', board'[b].owner = x
               PROVE  b \in strays
    BY <1>2, <1>5, <1>6 DEF NothingLive
  <2>1. b \in Board /\ board'[b].deletedAt = Never /\ Exists(b)'
    BY DEF LiveBoards
  <2>2. board'[b] = board[b] /\ ~(b \in LiveBoards /\ board[b].owner = p)
    BY <1>7, <1>10, <2>1
  <2>3. b \in LiveBoards
    BY <2>1, <2>2 DEF LiveBoards, Exists
  <2> QED
    BY <2>2, <2>3 DEF HolesInv, NothingLive
<1>12. \A b \in Board : board[b].deletedAt # r
  BY <1>2 DEF HolesInv, NotYetAsked
<1>13. HiddenOrPassed'
  <2> SUFFICES ASSUME NEW q \in Request, NEW b \in Board, IsScheduled(q)', Exists(b)',
                      board'[b].deletedAt = q, board'[b].owner # request'[q].user
               PROVE  /\ request'[q].user \notin Owners
                      /\ \A c \in Call : call[c].op = "accept" =>
                                           call[c].person # request'[q].user
    BY <1>2, <1>6 DEF HiddenOrPassed
  <2>1. board'[b] = board[b] /\ q # r
    BY <1>3, <1>4, <1>7, <1>12
  <2>2. IsScheduled(q) /\ Exists(b) /\ request'[q] = request[q]
    BY <1>4, <1>5, <2>1 DEF Exists
  <2> QED
    BY <2>1, <2>2 DEF HolesInv, HiddenOrPassed
<1>14. NotYetAsked'
  BY <1>3, <1>4, <1>7 DEF HolesInv, NotYetAsked
<1>15. ASSUME NEW b \in Board, board'[b] = board[b], ~Restorable(b)
       PROVE  ~Restorable(b)'
  BY <1>4, <1>5, <1>12, <1>15 DEF Restorable
<1>16. ASSUME NEW b \in Board, b \in LiveBoards,
              \E q \in Request : IsDue(q) /\ request[q].user = board[b].owner
       PROVE  board'[b] = board[b]
  BY <1>2, <1>7, <1>16 DEF Scheduled, IsDue
<1>17. ASSUME NEW b \in Board, board[b] # NoBoard
       PROVE  board'[b] # NoBoard
  BY <1>7, <1>10, <1>17 DEF NoBoard
<1>18. LeftIsDoomed'
  <2>1. job.left # {} => job.request \in Request /\ IsDue(job.request)
    BY DEF HolesInv, IInv, JobIsDue, LeftIsDoomed
  <2> SUFFICES ASSUME NEW b \in Board, b \in job.left
               PROVE  board'[b] # NoBoard /\
                 (b \notin strays => /\ ~Restorable(b)'
                                     /\ b \in LiveBoards' =>
                                          board'[b].owner = request'[job.request].user)
    BY <1>2 DEF HolesInv, LeftIsDoomed
  <2>2. /\ board[b] # NoBoard
        /\ b \notin strays => /\ ~Restorable(b)
                              /\ b \in LiveBoards => board[b].owner = request[job.request].user
    BY DEF HolesInv, LeftIsDoomed
  <2>3. request'[job.request] = request[job.request]
    BY <1>4, <1>5, <2>1
  <2>4. b \notin strays => board'[b] = board[b]
    BY <1>7, <1>16, <2>1, <2>2
  <2>5. b \notin strays /\ b \in LiveBoards' => b \in LiveBoards
    BY <2>4 DEF LiveBoards, Exists
  <2> QED
    BY <1>15, <1>17, <2>2, <2>3, <2>4, <2>5
<1>19. LostIsDoomed'
  <2> SUFFICES ASSUME NEW b \in Board, b \in lost
               PROVE  board'[b] # NoBoard /\
                 (b \notin strays => /\ ~Restorable(b)'
                                     /\ b \in LiveBoards' => \E q \in Request :
                                          IsDue(q)' /\ request'[q].user = board'[b].owner)
    BY <1>2 DEF LostIsDoomed
  <2>1. /\ board[b] # NoBoard
        /\ b \notin strays =>
             /\ ~Restorable(b)
             /\ b \in LiveBoards => \E q \in Request : IsDue(q) /\ request[q].user = board[b].owner
    BY DEF HolesInv, LostIsDoomed
  <2>2. b \notin strays => board'[b] = board[b]
    BY <1>7, <1>16, <2>1
  <2>3. b \notin strays /\ b \in LiveBoards' => b \in LiveBoards
    BY <2>2 DEF LiveBoards, Exists
  <2> QED
    BY <1>4, <1>5, <1>15, <1>17, <2>1, <2>2, <2>3
<1> QED
  BY <1>1, <1>8, <1>9, <1>11, <1>13, <1>14, <1>18, <1>19 DEF HolesInv

\* Looking before asking changes nothing yet.
LEMMA AskHoles ==
  ASSUME HolesInv, NEW p \in Person, AskDeletion(p)
  PROVE  HolesInv'
<1>1. IInv'
  BY AskInv DEF HolesInv
<1>2. UNCHANGED <<wsVars, request, job, lost>>
  BY DEF AskDeletion
<1> QED
  BY <1>1, <1>2 DEF wsVars, history, HolesInv, LockInv, Held, GoneStays, OwnersStay,
     NothingLive, HiddenOrPassed, NotYetAsked, LeftIsDoomed, LostIsDoomed, Restorable,
     InGrace, IsDue, Scheduled, IsScheduled, Gone, Owners, IsMember, LiveBoards, Exists

\* A request is taken back: nothing that was emptied is among what returns.
LEMMA CancelHoles ==
  ASSUME HolesInv, NEW r \in Request, CancelAccountDeletion(r)
  PROVE  HolesInv'
<1>1. IInv'
  BY CancelInv DEF HolesInv
<1>2. PICK p : p = request[r].user
  OBVIOUS
<1>3. /\ InGrace(r) /\ IsScheduled(r) /\ ~IsDue(r)
      /\ UNCHANGED <<ws, member, lock, call, strays, job, lost>>
      /\ disabled' = disabled \ {p}
  BY <1>2 DEF CancelAccountDeletion, InGrace, IsDue, history
<1>4. /\ p \in Person
      /\ \A q \in Request : IsScheduled(q) /\ request[q].user = p => q = r
  BY <1>2, <1>3 DEF HolesInv, IInv, AskedOnce
<1>5. /\ \A q \in Request : q # r => request'[q] = request[q]
      /\ request'[r].state = "cancelled"
  BY DEF CancelAccountDeletion, HolesInv, IInv, AdTypeOK
<1>6. /\ \A q \in Request : IsScheduled(q)' <=> (q # r /\ IsScheduled(q))
      /\ \A q \in Request : InGrace(q)' <=> (q # r /\ InGrace(q))
      /\ \A q \in Request : IsDue(q) => q # r /\ IsDue(q)'
  BY <1>3, <1>5 DEF IsScheduled, InGrace, IsDue
<1>7. \A x : Scheduled(x)' <=> (x # p /\ Scheduled(x))
  BY <1>2, <1>3, <1>4, <1>5, <1>6 DEF Scheduled
<1>8. \A x : Gone(x)' <=> Gone(x)
  BY <1>3, <1>5 DEF Gone, IsScheduled
<1>9. Owners' = Owners
  BY <1>3 DEF Owners
<1>10. \A b \in Board :
         \/ board'[b] = board[b]
         \/ /\ board[b].owner = p /\ board'[b].owner = p /\ board[b].deletedAt = r
            /\ board'[b].deletedAt = Never
  BY <1>2 DEF CancelAccountDeletion, Restored, OwnedBoards, HolesInv, IInv, WsTypeOK
<1>11. LockInv'
  <2>1. GoneStays'
    BY <1>2, <1>3, <1>7, <1>8 DEF GoneStays, HolesInv, LockInv, Scheduled
  <2> QED
    BY <1>3, <1>8, <2>1, LockStands DEF HolesInv
<1>12. OwnersStay'
  <2> SUFFICES ASSUME NEW x \in Owners, Scheduled(x)
               PROVE  /\ ws.offeredTo # Nobody => Gone(ws.offeredTo)
                      /\ \A c \in Call : /\ call[c].op # "accept"
                                         /\ call[c].op = "offer" => Gone(call[c].person)
    BY <1>3, <1>5, <1>7, <1>8, <1>9 DEF OwnersStay, Gone
  <2> QED
    BY DEF HolesInv, OwnersStay
<1>13. NothingLive'
  <2> SUFFICES ASSUME NEW x \in Person \ Owners, Scheduled(x), x # p,
                      NEW b \in LiveBoards', board'[b].owner = x
               PROVE  b \in strays
    BY <1>3, <1>7, <1>9 DEF NothingLive
  <2>1. b \in Board /\ board'[b] = board[b]
    BY <1>10 DEF LiveBoards
  <2>2. b \in LiveBoards
    BY <2>1 DEF LiveBoards, Exists
  <2> QED
    BY <2>1, <2>2 DEF HolesInv, NothingLive
<1>14. \A q \in Request : q # Never
  BY StampsAssumption
<1>15. HiddenOrPassed'
  <2> SUFFICES ASSUME NEW q \in Request, NEW b \in Board, IsScheduled(q)', Exists(b)',
                      board'[b].deletedAt = q, board'[b].owner # request'[q].user
               PROVE  /\ request'[q].user \notin Owners
                      /\ \A c \in Call : call[c].op = "accept" =>
                                           call[c].person # request'[q].user
    BY <1>3, <1>9 DEF HiddenOrPassed
  <2>1. board'[b] = board[b] /\ q # r
    BY <1>6, <1>10, <1>14
  <2>2. IsScheduled(q) /\ Exists(b) /\ request'[q] = request[q]
    BY <1>5, <1>6, <2>1 DEF Exists
  <2> QED
    BY <2>1, <2>2 DEF HolesInv, HiddenOrPassed
<1>16. NotYetAsked'
  BY <1>5, <1>10, <1>14 DEF HolesInv, NotYetAsked
<1>17. ASSUME NEW b \in Board, ~Restorable(b)
       PROVE  board'[b] = board[b] /\ ~Restorable(b)'
  <2>1. board'[b] = board[b]
    BY <1>2, <1>3, <1>10, <1>17 DEF Restorable
  <2> QED
    BY <1>5, <1>6, <1>17, <2>1 DEF Restorable
<1>18. ASSUME NEW b \in Board, board[b] # NoBoard
       PROVE  board'[b] # NoBoard
  BY <1>4, <1>10, <1>18, FounderAssumption DEF NoBoard
<1>19. LeftIsDoomed'
  <2>1. job.left # {} => job.request \in Request /\ IsDue(job.request)
    BY DEF HolesInv, IInv, JobIsDue, LeftIsDoomed
  <2> SUFFICES ASSUME NEW b \in Board, b \in job.left
               PROVE  board'[b] # NoBoard /\
                 (b \notin strays => /\ ~Restorable(b)'
                                     /\ b \in LiveBoards' =>
                                          board'[b].owner = request'[job.request].user)
    BY <1>3 DEF HolesInv, LeftIsDoomed
  <2>2. /\ board[b] # NoBoard
        /\ b \notin strays => /\ ~Restorable(b)
                              /\ b \in LiveBoards => board[b].owner = request[job.request].user
    BY DEF HolesInv, LeftIsDoomed
  <2>3. request'[job.request] = request[job.request]
    BY <1>5, <1>6, <2>1
  <2>4. b \notin strays => board'[b] = board[b]
    BY <1>17, <2>2
  <2>5. b \notin strays /\ b \in LiveBoards' => b \in LiveBoards
    BY <2>4 DEF LiveBoards, Exists
  <2> QED
    BY <1>17, <1>18, <2>2, <2>3, <2>4, <2>5
<1>20. LostIsDoomed'
  <2> SUFFICES ASSUME NEW b \in Board, b \in lost
               PROVE  board'[b] # NoBoard /\
                 (b \notin strays => /\ ~Restorable(b)'
                                     /\ b \in LiveBoards' => \E q \in Request :
                                          IsDue(q)' /\ request'[q].user = board'[b].owner)
    BY <1>3 DEF LostIsDoomed
  <2>1. /\ board[b] # NoBoard
        /\ b \notin strays =>
             /\ ~Restorable(b)
             /\ b \in LiveBoards => \E q \in Request : IsDue(q) /\ request[q].user = board[b].owner
    BY DEF HolesInv, LostIsDoomed
  <2>2. b \notin strays => board'[b] = board[b]
    BY <1>17, <2>1
  <2>3. b \notin strays /\ b \in LiveBoards' => b \in LiveBoards
    BY <2>2 DEF LiveBoards, Exists
  <2> QED
    BY <1>5, <1>6, <1>17, <1>18, <2>1, <2>2, <2>3
<1> QED
  BY <1>1, <1>11, <1>12, <1>13, <1>15, <1>16, <1>19, <1>20 DEF HolesInv

\* A month passes: a request past its grace brings nothing back.
LEMMA GraceHoles ==
  ASSUME HolesInv, NEW r \in Request, GraceEnds(r)
  PROVE  HolesInv'
<1>1. IInv'
  BY GraceInv DEF HolesInv
<1>2. UNCHANGED <<ws, member, board, lock, call, strays, disabled, job, lost>>
  BY DEF GraceEnds, wsVars
<1>3. /\ \A q \in Request : /\ request'[q].user = request[q].user
                            /\ request'[q].state = request[q].state
      /\ \A q \in Request : InGrace(q)' => InGrace(q)
      /\ \A q \in Request : IsDue(q) => IsDue(q)'
  <2>1. PICK new : new = [request[r] EXCEPT !.due = TRUE]
    OBVIOUS
  <2>2. new.user = request[r].user /\ new.state = request[r].state /\ new.due
    BY <2>1 DEF HolesInv, IInv, AdTypeOK
  <2>3. \A q \in Request : request'[q] = IF q = r THEN new ELSE request[q]
    BY <2>1 DEF GraceEnds, HolesInv, IInv, AdTypeOK
  <2> QED
    BY <2>2, <2>3 DEF InGrace, IsDue, IsScheduled
<1>4. /\ \A q \in Request : IsScheduled(q)' <=> IsScheduled(q)
      /\ \A x : Scheduled(x)' <=> Scheduled(x)
      /\ \A x : Gone(x)' <=> Gone(x)
  BY <1>3 DEF IsScheduled, Scheduled, Gone
<1>5. LockInv'
  <2>1. GoneStays'
    BY <1>2, <1>4 DEF GoneStays, HolesInv, LockInv
  <2> QED
    BY <1>2, <1>4, <2>1, LockStands DEF HolesInv
<1>6. Owners' = Owners /\ LiveBoards' = LiveBoards /\ \A b : Exists(b)' <=> Exists(b)
  BY <1>2 DEF Owners, LiveBoards, Exists
<1>7. OwnersStay'
  <2> SUFFICES ASSUME NEW x \in Owners, Scheduled(x)
               PROVE  /\ ws.offeredTo # Nobody => Gone(ws.offeredTo)
                      /\ \A c \in Call : /\ call[c].op # "accept"
                                         /\ call[c].op = "offer" => Gone(call[c].person)
    BY <1>2, <1>3, <1>4, <1>6 DEF OwnersStay, Gone
  <2> QED
    BY DEF HolesInv, OwnersStay
<1>8. NothingLive'
  BY <1>2, <1>4, <1>6 DEF HolesInv, NothingLive
<1>9. HiddenOrPassed' /\ NotYetAsked'
  BY <1>2, <1>3, <1>4, <1>6 DEF HolesInv, HiddenOrPassed, NotYetAsked
<1>10. \A b \in Board : Restorable(b)' => Restorable(b)
  BY <1>2, <1>3 DEF Restorable
<1>11. job.left # {} => job.request \in Request
  BY DEF HolesInv, IInv, JobIsDue, LeftIsDoomed
<1>12. LeftIsDoomed' /\ LostIsDoomed'
  BY <1>2, <1>3, <1>6, <1>10, <1>11 DEF HolesInv, LeftIsDoomed, LostIsDoomed
<1> QED
  BY <1>1, <1>5, <1>7, <1>8, <1>9, <1>12 DEF HolesInv

\* The job moves on: what it empties was listed as the account's own.
LEMMA PurgeHoles ==
  ASSUME HolesInv,
         \/ \E r \in Request : StartPurge(r)
         \/ ListFolders \/ (\E f \in Folder : EmptyFolder(f)) \/ StopPurge
         \/ BeginErase \/ RefuseErase \/ CheckRemaining
  PROVE  HolesInv'
<1>1. IInv'
  BY PurgeInv DEF HolesInv
<1>2. UNCHANGED <<ws, member, board, lock, call, strays, disabled, request>>
  BY DEF StartPurge, ListFolders, EmptyFolder, StopPurge, BeginErase, RefuseErase,
     CheckRemaining, PurgeStep, wsVars, history
<1>3. /\ \A q : /\ IsScheduled(q)' <=> IsScheduled(q)
                /\ InGrace(q)' <=> InGrace(q)
                /\ IsDue(q)' <=> IsDue(q)
      /\ \A x : Scheduled(x)' <=> Scheduled(x)
      /\ \A x : Gone(x)' <=> Gone(x)
      /\ \A b : Exists(b)' <=> Exists(b)
      /\ \A b : Restorable(b)' <=> Restorable(b)
      /\ Owners' = Owners /\ LiveBoards' = LiveBoards
  BY <1>2 DEF IsScheduled, InGrace, IsDue, Scheduled, Gone, Exists, Restorable, Owners,
     LiveBoards
<1>4. LockInv'
  <2>1. GoneStays'
    BY <1>2, <1>3 DEF GoneStays, HolesInv, LockInv
  <2> QED
    BY <1>2, <1>3, <2>1, LockStands DEF HolesInv
<1>5. OwnersStay'
  <2> SUFFICES ASSUME NEW x \in Owners, Scheduled(x)
               PROVE  /\ ws.offeredTo # Nobody => Gone(ws.offeredTo)
                      /\ \A c \in Call : /\ call[c].op # "accept"
                                         /\ call[c].op = "offer" => Gone(call[c].person)
    BY <1>2, <1>3 DEF OwnersStay, Gone
  <2> QED
    BY DEF HolesInv, OwnersStay
<1>6. NothingLive' /\ HiddenOrPassed' /\ NotYetAsked'
  BY <1>2, <1>3 DEF HolesInv, NothingLive, HiddenOrPassed, NotYetAsked
<1>7. job \in [step: {"idle", "list", "empty", "erase", "delete"},
               request: Request \cup {NoRequest},
               left: SUBSET Folder, listed: SUBSET Folder]
  BY DEF HolesInv, IInv, AdTypeOK
<1>8. ASSUME job'.left = {}, lost' = lost
      PROVE  LeftIsDoomed' /\ LostIsDoomed'
  BY <1>2, <1>3, <1>8 DEF HolesInv, LeftIsDoomed, LostIsDoomed
<1>9. ASSUME NEW r \in Request, StartPurge(r)
      PROVE  LeftIsDoomed' /\ LostIsDoomed'
  BY <1>8, <1>9 DEF StartPurge, PurgeStep, NoJob
<1>10. ASSUME RefuseErase \/ BeginErase \/ CheckRemaining
       PROVE  LeftIsDoomed' /\ LostIsDoomed'
  <2>1. lost' = lost /\ (job' = NoJob \/ job'.left = job.left)
    BY <1>7, <1>10 DEF RefuseErase, BeginErase, CheckRemaining, PurgeStep
  <2>2. job' # NoJob => job.left = {}
    BY <1>10 DEF RefuseErase, BeginErase, CheckRemaining, PurgeStep, FilesGone,
       HolesInv, LeftIsDoomed
  <2> QED
    BY <1>8, <2>1, <2>2 DEF NoJob
<1>11. ASSUME ListFolders
       PROVE  LeftIsDoomed' /\ LostIsDoomed'
  <2>1. PICK p : p = request[job.request].user
    OBVIOUS
  <2>2. /\ job' = [job EXCEPT !.step = "empty", !.left = AccountStorage(p),
                              !.listed = AccountStorage(p)]
        /\ job.step = "list" /\ lost' = lost
    BY <1>11, <2>1 DEF ListFolders, PurgeStep
  <2>3. job'.step = "empty" /\ job'.left = AccountStorage(p) /\ job'.request = job.request
    BY <1>7, <2>2
  <2>4. job.request \in Request /\ IsDue(job.request)
    BY <2>2 DEF HolesInv, IInv, JobIsDue
  <2>5. p \in Person /\ \A q \in Request : IsScheduled(q) /\ request[q].user = p => q = job.request
    BY <2>1, <2>4 DEF HolesInv, IInv, AskedOnce, IsDue
  <2>6. ASSUME NEW b \in Board, b \in AccountStorage(p)
        PROVE  board[b] # NoBoard /\ ~Restorable(b) /\ board[b].owner = p
    <3>1. board[b].owner = p
      BY <2>5, <2>6, FolderAssumption DEF AccountStorage, OwnedBoards
    <3>2. board[b] # NoBoard
      BY <2>5, <3>1, FounderAssumption DEF NoBoard
    <3>3. ~Restorable(b)
      BY <2>4, <2>5, <3>1 DEF Restorable, InGrace, IsDue
    <3> QED
      BY <3>1, <3>2, <3>3
  <2>7. LeftIsDoomed'
    BY <1>2, <1>3, <2>1, <2>3, <2>6 DEF LeftIsDoomed
  <2>8. LostIsDoomed'
    BY <1>2, <1>3, <2>2 DEF HolesInv, LostIsDoomed
  <2> QED
    BY <2>7, <2>8
<1>12. ASSUME lost' \subseteq lost \cup job.left
       PROVE  LostIsDoomed'
  <2>1. job.left # {} => job.request \in Request /\ IsDue(job.request)
    BY DEF HolesInv, IInv, JobIsDue, LeftIsDoomed
  <2> SUFFICES ASSUME NEW b \in Board, b \in lost'
               PROVE  board[b] # NoBoard /\
                 (b \notin strays => /\ ~Restorable(b)
                                     /\ b \in LiveBoards => \E r \in Request :
                                          IsDue(r) /\ request[r].user = board[b].owner)
    BY <1>2, <1>3 DEF LostIsDoomed
  <2>2. CASE b \in lost
    BY <2>2 DEF HolesInv, LostIsDoomed
  <2>3. CASE b \in job.left
    BY <2>1, <2>3 DEF HolesInv, LeftIsDoomed
  <2> QED
    BY <1>12, <2>2, <2>3
<1>13. ASSUME NEW f \in Folder, EmptyFolder(f)
       PROVE  LeftIsDoomed' /\ LostIsDoomed'
  <2>1. /\ job' = [job EXCEPT !.left = @ \ {f}] /\ lost' = lost \cup {f}
        /\ f \in job.left
    BY <1>13 DEF EmptyFolder, PurgeStep
  <2>2. /\ job'.left = job.left \ {f} /\ job'.request = job.request
        /\ job'.step = job.step
    BY <1>7, <2>1
  <2>3. LeftIsDoomed'
    BY <1>2, <1>3, <2>2 DEF HolesInv, LeftIsDoomed
  <2> QED
    BY <1>12, <2>1, <2>3
<1>14. ASSUME StopPurge
       PROVE  LeftIsDoomed' /\ LostIsDoomed'
  <2>1. lost' \subseteq lost \cup job.left /\ job' = NoJob
    BY <1>14 DEF StopPurge
  <2>2. LeftIsDoomed'
    BY <2>1 DEF LeftIsDoomed, NoJob
  <2> QED
    BY <1>12, <2>1, <2>2
<1>15. LeftIsDoomed' /\ LostIsDoomed'
  BY <1>9, <1>10, <1>11, <1>13, <1>14
<1> QED
  BY <1>1, <1>4, <1>5, <1>6, <1>15 DEF HolesInv

\* An account is erased: its boards with it, and nobody else is given any.
LEMMA EraseHoles ==
  ASSUME HolesInv, EraseAccount
  PROVE  HolesInv'
<1>1. IInv'
  BY EraseInv DEF HolesInv
<1>2. PICK r, p : r = job.request /\ p = request[r].user
  OBVIOUS
<1>3. r \in Request /\ IsDue(r) /\ job.step = "delete"
  BY <1>2 DEF EraseAccount, HolesInv, IInv, JobIsDue
<1>4. /\ p \in Person /\ p \in disabled
      /\ \A q \in Request : IsScheduled(q) /\ request[q].user = p => q = r
  BY <1>2, <1>3 DEF HolesInv, IInv, AskedOnce, IsDue
<1>5. /\ job' = NoJob /\ UNCHANGED <<lock, call, disabled, strays, lost>>
      /\ \A q \in Request : q # r => request'[q] = request[q]
      /\ request'[r].state = "completed" /\ request'[r].user = p
  BY <1>2, <1>3 DEF EraseAccount, HolesInv, IInv, AdTypeOK
<1>6. \A q \in Request : /\ IsScheduled(q)' <=> (q # r /\ IsScheduled(q))
                         /\ InGrace(q)' => q # r /\ InGrace(q)
                         /\ IsDue(q) /\ q # r => IsDue(q)'
  BY <1>5 DEF IsScheduled, InGrace, IsDue
<1>7. /\ \A x : Scheduled(x)' => x # p /\ Scheduled(x)
      /\ \A x : Gone(x)' <=> (x = p \/ Gone(x))
  <2>1. \A q \in Request : request[q].state = "completed" => q # r
    BY <1>3 DEF IsDue, IsScheduled
  <2> QED
    BY <1>3, <1>4, <1>5, <1>6, <2>1 DEF Scheduled, Gone
<1>8. GoneStays'
  BY <1>4, <1>5, <1>7 DEF GoneStays, HolesInv, LockInv
<1>9. /\ \A q \in Person : member'[q] = IF p \in Owners \/ q = p THEN "none" ELSE member[q]
      /\ p \in Owners \/ ws.offeredTo = p => RowFree
      /\ ws'.offeredTo = IF p \in Owners \/ ws.offeredTo = p THEN Nobody ELSE ws.offeredTo
  BY <1>2 DEF EraseAccount, HolesInv, IInv, WsTypeOK
<1>10. \A b \in Board :
         \/ board'[b] = ErasedBoard /\ Exists(b)
         \/ board'[b] = board[b] /\ ~(Exists(b) /\ board[b].owner = p)
  BY <1>2 DEF EraseAccount
<1>11. Owners' = IF p \in Owners THEN {} ELSE Owners
  BY <1>9 DEF Owners
<1>12. LockInv'
  <2>1. CASE p \in Owners \/ ws.offeredTo = p
    <3>1. \A c \in Call : call'[c].op \notin Locking
      BY <1>5, <1>9, <2>1, FreeIsFree DEF HolesInv
    <3>2. \A x, y \in Owners' : x = y
      BY <1>11 DEF HolesInv, LockInv
    <3> QED
      BY <1>8, <1>9, <2>1, <3>1, <3>2, LockFree
  <2>2. CASE ~(p \in Owners \/ ws.offeredTo = p)
    <3>1. Owners' = Owners /\ ws'.offeredTo = ws.offeredTo
      BY <1>9, <1>11, <2>2
    <3>2. \A q \in Person : q # p /\ IsMember(q) => IsMember(q)'
      BY <1>9, <2>2 DEF IsMember
    <3>3. \A c \in Call : call[c].op # "accept" \/ call[c].person # p
      BY <1>2, <1>3 DEF HolesInv, IInv, NoneTakesUp
    <3> QED
      BY <1>5, <1>7, <1>8, <3>1, <3>2, <3>3, LockKept DEF HolesInv
  <2> QED
    BY <2>1, <2>2
<1>13. OwnersStay'
  <2>1. ASSUME NEW x \in Owners', Scheduled(x)'
        PROVE  /\ ws.offeredTo # Nobody => Gone(ws.offeredTo)
               /\ \A c \in Call : /\ call[c].op # "accept"
                                  /\ call[c].op = "offer" => Gone(call[c].person)
    <3>1. x \in Owners /\ Scheduled(x)
      BY <1>7, <1>11, <2>1
    <3> QED
      BY <3>1 DEF HolesInv, OwnersStay
  <2>2. ASSUME NEW x, Gone(x) PROVE Gone(x)'
    BY <1>7, <2>2
  <2>3. PICK o : o = ws'.offeredTo
    OBVIOUS
  <2>4. ASSUME NEW x \in Owners', Scheduled(x)', o # Nobody
        PROVE  Gone(o)'
    BY <1>9, <2>1, <2>2, <2>3, <2>4
  <2>5. ASSUME NEW x \in Owners', Scheduled(x)', ws'.offeredTo # Nobody
        PROVE  Gone(ws.offeredTo)'
    BY <2>3, <2>4, <2>5 DEF Gone
  <2>6. ASSUME NEW x \in Owners', Scheduled(x)', NEW c \in Call
        PROVE  /\ call'[c].op # "accept"
               /\ call'[c].op = "offer" => Gone(call[c].person)'
    <3>1. PICK q : q = call[c].person
      OBVIOUS
    <3>2. call[c].op # "accept" /\ (call[c].op = "offer" => Gone(q))
      BY <2>1, <2>6, <3>1
    <3>3. call[c].op = "offer" => Gone(q)'
      BY <2>2, <3>2
    <3> QED
      BY <1>5, <3>1, <3>2, <3>3 DEF Gone
  <2> QED
    BY <2>5, <2>6 DEF OwnersStay
<1>14. \A b \in Board : Exists(b)' => board'[b] = board[b] /\ Exists(b) /\ board[b].owner # p
  BY <1>10 DEF Exists, ErasedBoard
<1>15. NothingLive'
  <2> SUFFICES ASSUME NEW x \in Person \ Owners', Scheduled(x)',
                      NEW b \in LiveBoards', board'[b].owner = x
               PROVE  b \in strays
    BY <1>5 DEF NothingLive
  <2>1. x # p /\ Scheduled(x)
    BY <1>7
  <2>2. b \in LiveBoards /\ board'[b] = board[b]
    BY <1>14 DEF LiveBoards
  <2>3. x \notin Owners
    BY <1>11, <2>1 DEF HolesInv, LockInv
  <2> QED
    BY <2>1, <2>2, <2>3 DEF HolesInv, NothingLive
<1>16. HiddenOrPassed'
  <2> SUFFICES ASSUME NEW q \in Request, NEW b \in Board, IsScheduled(q)', Exists(b)',
                      board'[b].deletedAt = q, board'[b].owner # request'[q].user
               PROVE  /\ request'[q].user \notin Owners'
                      /\ \A c \in Call : call'[c].op = "accept" =>
                                           call'[c].person # request'[q].user
    BY DEF HiddenOrPassed
  <2>1. /\ board'[b] = board[b] /\ Exists(b) /\ IsScheduled(q) /\ request'[q] = request[q]
    BY <1>5, <1>6, <1>14
  <2>2. Owners' \subseteq Owners
    BY <1>11
  <2> QED
    BY <1>5, <2>1, <2>2 DEF HolesInv, HiddenOrPassed
<1>17. "byHand" \notin Request
  BY StampsAssumption
<1>18. NotYetAsked'
  <2>1. \A q \in Request : request'[q].state = "none" => request[q].state = "none"
    BY <1>5
  <2> QED
    BY <1>10, <1>17, <2>1 DEF HolesInv, NotYetAsked, ErasedBoard
<1>19. LeftIsDoomed'
  BY <1>5 DEF LeftIsDoomed, NoJob
<1>20. LostIsDoomed'
  <2> SUFFICES ASSUME NEW b \in Board, b \in lost
               PROVE  board'[b] # NoBoard /\
                 (b \notin strays => /\ ~Restorable(b)'
                                     /\ b \in LiveBoards' => \E q \in Request :
                                          IsDue(q)' /\ request'[q].user = board'[b].owner)
    BY <1>5 DEF LostIsDoomed
  <2>1. /\ board[b] # NoBoard
        /\ b \notin strays =>
             /\ ~Restorable(b)
             /\ b \in LiveBoards => \E q \in Request : IsDue(q) /\ request[q].user = board[b].owner
    BY DEF HolesInv, LostIsDoomed
  <2>2. CASE board'[b] = ErasedBoard
    BY <1>17, <2>2 DEF Restorable, LiveBoards, NoBoard, ErasedBoard, Never
  <2>3. CASE board'[b] = board[b]
    <3>1. ~Restorable(b) => ~Restorable(b)'
      BY <1>5, <1>6, <2>3 DEF Restorable
    <3>2. b \in LiveBoards' => b \in LiveBoards /\ board[b].owner # p
      BY <1>14 DEF LiveBoards
    <3> QED
      BY <1>2, <1>5, <1>6, <2>1, <2>3, <3>1, <3>2
  <2> QED
    BY <1>10, <2>2, <2>3
<1> QED
  BY <1>1, <1>12, <1>13, <1>15, <1>16, <1>18, <1>19, <1>20 DEF HolesInv

\* At first there are no boards, no requests and nothing in flight.
LEMMA InitHoles == AdInit => HolesInv
<1> SUFFICES ASSUME AdInit PROVE HolesInv
  OBVIOUS
<1>1. IInv
  BY InitInv
<1>2. \A r \in Request : request[r].state = "none" /\ request[r].user = Nobody
  BY DEF AdInit, NoDeletion
<1>3. (\A x : ~Scheduled(x) /\ ~Gone(x)) /\ \A r \in Request : ~IsScheduled(r)
  BY <1>2 DEF Scheduled, IsScheduled, Gone
<1>4. \A c \in Call : call[c].op = "idle"
  BY IdleRecord DEF AdInit, Init
<1>5. ws.offeredTo = Nobody /\ \A p, q \in Owners : p = q
  BY DEF AdInit, Init, Owners
<1>6. LockInv
  BY <1>3, <1>4, <1>5 DEF LockInv, Held, Locking, GoneStays
<1>7. OwnersStay /\ NothingLive /\ HiddenOrPassed
  BY <1>3 DEF OwnersStay, NothingLive, HiddenOrPassed
<1>8. NotYetAsked
  BY StampsAssumption DEF AdInit, Init, NotYetAsked, NoBoard, Never
<1>9. LeftIsDoomed /\ LostIsDoomed
  BY DEF AdInit, NoJob, LeftIsDoomed, LostIsDoomed
<1> QED
  BY <1>1, <1>6, <1>7, <1>8, <1>9 DEF HolesInv

\* Every step, the workspace's, the account's or the job's.
LEMMA NextHoles ==
  ASSUME HolesInv, [AdNext]_vars, raced' = {}
  PROVE  HolesInv'
<1>1. CASE UNCHANGED vars
  <2>1. IInv'
    BY <1>1, NextInv DEF HolesInv
  <2> QED
    BY <1>1, <2>1 DEF vars, wsVars, adVars, history, HolesInv, LockInv, Held, GoneStays, OwnersStay,
       NothingLive, HiddenOrPassed, NotYetAsked, LeftIsDoomed, LostIsDoomed, Restorable,
       InGrace, IsDue, Scheduled, IsScheduled, Gone, Owners, IsMember, LiveBoards, Exists
<1> QED
  BY <1>1, WorkspaceHoles, AskHoles, RequestHoles, CancelHoles, GraceHoles, PurgeHoles, EraseHoles
  DEF AdNext

\* Who joined under a request stays on record.
LEMMA RacedGrows ==
  ASSUME [AdNext]_vars, raced' = {}
  PROVE  raced = {}
  BY DEF AdNext, vars, adVars, InWorkspace, AskDeletion, RequestAccountDeletion,
     CancelAccountDeletion, GraceEnds, StartPurge, ListFolders, EmptyFolder, StopPurge,
     BeginErase, RefuseErase, CheckRemaining, EraseAccount, PurgeStep

\* account-purge.ts deletes files before rows, so that a restore never hands
\* back "boards with holes in them": a board anybody can open has lost its
\* images only if its owner's account is past its grace, as long as nobody
\* joined an owner's workspace within the transaction of their request.
THEOREM NothingWithHoles == AdSpec => []NoHoles
<1> DEFINE Inv == raced = {} => HolesInv
<1>1. AdInit => Inv
  BY InitHoles
<1>2. Inv /\ [AdNext]_vars => Inv'
  BY NextHoles, RacedGrows
<1>3. Inv => NoHoles
  BY DEF HolesInv, LostIsDoomed, NoHoles, LiveBoards
<1> QED
  BY <1>1, <1>2, <1>3, PTL DEF AdSpec

=============================================================================
