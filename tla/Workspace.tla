------------------------------ MODULE Workspace ------------------------------
(***************************************************************************)
(* One workspace: who is in it, its boards and the grants on them, its     *)
(* invitations, and the ownership changing hands.                          *)
(*                                                                         *)
(* Everything in workspace-members.ts is a transaction that begins with    *)
(* SELECT ... FOR UPDATE on the workspace's row: here a Begin action,      *)
(* which takes the lock and reads what the rest decides by, and an action  *)
(* that writes and lets go.  Making a board, inviting and joining take no  *)
(* lock; they read first and insert later, and the insert waits for the    *)
(* lock because its foreign key locks the same row.  So do the UPDATE that *)
(* deletes the workspace and the audit rows of sending an invitation again *)
(* and of taking one back.  Redeeming a share link, a viewer's here, reads *)
(* and writes grants alone, and waits for nobody.                          *)
(***************************************************************************)
EXTENDS BoardAccess, FiniteSets

CONSTANTS
  Person,    \* accounts; what each is invited by stands for its address
  Founder,   \* who made the workspace
  Board, Invite,
  InviteRole, \* bound: the roles people are invited as
  Guest,     \* bound: the people who use share links
  Request,   \* account deletions, whose instant can be a board's deletedAt
  Call,      \* requests in flight together
  Nobody, NoCall, NoInvite,
  MaxActs    \* bound: what is done besides the requests in flight

ASSUME FounderAssumption == Founder \in Person /\ Nobody \notin Person
ASSUME CallsAssumption == NoCall \notin Call /\ NoInvite \notin Invite
ASSUME InviteRoleAssumption == InviteRole \subseteq {"admin", "member"}
ASSUME MaxActsAssumption == MaxActs \in Nat

VARIABLES
  ws,        \* the workspaces row
  member,    \* memberships
  board,     \* boards in the workspace
  grant,     \* board_members, per board and person
  invite,    \* workspace_invites
  disabled,  \* accounts locked by users.disabledAt
  lock,      \* the request holding the workspace's row FOR UPDATE
  call,      \* requests in flight
  acts,
  strays,    \* history: boards inserted for somebody no longer a member
  out        \* history: per removed person, the boards that were shut to them

wsVars == <<ws, member, board, grant, invite, disabled, lock, call, acts, strays, out>>
history == <<strays, out>>

Never == "never"
Stamp == {Never, "byHand", "withWorkspace"} \cup Request

NoBoard == [owner |-> Nobody, deletedAt |-> Never]
ErasedBoard == [owner |-> Nobody, deletedAt |-> "byHand"]  \* an id is not used again
NoInvitation == [to |-> Nobody, role |-> "member", state |-> "none", expired |-> FALSE]

Locking == {"role", "remove", "leave", "offer", "withdraw", "accept", "guestRole", "guestOff"}
OnGuest == {"guestRole", "guestOff"}
Reading == {"create", "redeem", "invite", "manage", "join", "delete"}
CallState ==
  [op: {"idle"} \cup Locking \cup Reading, person: Person \cup {Nobody},
   role: Role \cup WorkspaceRole, owner: Person \cup {Nobody},
   offeredTo: Person \cup {Nobody}, invite: Invite \cup {NoInvite},
   boards: SUBSET Board]
Idle == [op |-> "idle", person |-> Nobody, role |-> "member",
         owner |-> Nobody, offeredTo |-> Nobody, invite |-> NoInvite, boards |-> {}]

Exists(b) == board[b].owner # Nobody
LiveBoards == {b \in Board : Exists(b) /\ board[b].deletedAt = Never}
IsMember(p) == member[p] # "none"
Owners == {p \in Person : member[p] = "owner"}

Init ==
  /\ ws = [state |-> "live", offeredTo |-> Nobody]
  /\ member = [p \in Person |-> IF p = Founder THEN "owner" ELSE "none"]
  /\ board = [b \in Board |-> NoBoard]
  /\ grant = [b \in Board |-> [p \in Person |-> NoGrant]]
  /\ invite = [i \in Invite |-> NoInvitation]
  /\ disabled = {}
  /\ lock = NoCall
  /\ call = [c \in Call |-> Idle]
  /\ acts = 0
  /\ strays = {}
  /\ out = [p \in Person |-> {}]

Goto(c, state) == call' = [call EXCEPT ![c] = state]

\* What a signed-in person can still start: a locked account has no session.
Active(p) == p \notin disabled

-----------------------------------------------------------------------------
(* The lock, and who may do what under it.                                 *)

Can(role, capability) ==
  CASE capability = "manage-members" -> role \in {"owner", "admin"}
    [] capability = "invite" -> role \in {"owner", "admin"}
    [] capability = "hand-over" -> role = "owner"
    [] capability = "delete" -> role = "owner"
    [] capability = "leave" -> role \in {"admin", "member"}

CanManageMember(actor, target) == Can(actor, "manage-members") /\ target # "owner"

\* The foreign key of an insert, or an update of the row, waits here too.
RowFree == lock = NoCall

\* Mutant of LockWorkspace: the row is read without FOR UPDATE.
ReadWorkspace(c) == ws.state = "live" /\ lock' = c

LockWorkspace(c) == RowFree /\ ws.state = "live" /\ lock' = c

CheckManage(p, q) ==
  /\ p # q
  /\ Can(member[p], "manage-members")
  /\ IsMember(q)
  /\ CanManageMember(member[p], member[q])

\* The boards a guest is on: live, granted, not their own.
GuestGrants(p) ==
  {b \in LiveBoards : board[b].owner # p /\ grant[b][p].status = "active"}

\* A locking request reads the owner and the offer once it has the lock, and
\* one about a guest the boards it is to change.
Begin(c, op, p, q, role) ==
  /\ call[c] = Idle /\ Active(p)
  /\ LockWorkspace(c)
  /\ \E owner \in Owners :
       Goto(c, [Idle EXCEPT !.op = op, !.person = q, !.role = role,
                            !.owner = owner, !.offeredTo = ws.offeredTo,
                            !.boards = IF op \in OnGuest THEN GuestGrants(q) ELSE {}])
  /\ UNCHANGED <<ws, member, board, grant, invite, disabled, acts, history>>

BeginChangeRole(c, p, q, role) ==
  /\ CheckManage(p, q) /\ role \in {"admin", "member"} /\ role # member[q]
  /\ Begin(c, "role", p, q, role)
BeginRemove(c, p, q) == CheckManage(p, q) /\ Begin(c, "remove", p, q, "member")
BeginLeave(c, p) ==
  IsMember(p) /\ Can(member[p], "leave") /\ Begin(c, "leave", p, p, "member")
BeginOffer(c, p, q) ==
  /\ p # q /\ IsMember(p) /\ Can(member[p], "hand-over") /\ IsMember(q)
  /\ Begin(c, "offer", p, q, "member")
BeginWithdraw(c, p) ==
  /\ ws.offeredTo # Nobody
  /\ p \in Owners \cup {ws.offeredTo}
  /\ Begin(c, "withdraw", p, Nobody, "member")
BeginAccept(c, p) ==
  /\ ws.offeredTo = p /\ IsMember(p)
  /\ Begin(c, "accept", p, p, "owner")

BeginGuest(c, op, p, q, role) ==
  /\ op \in OnGuest /\ role \in {"editor", "viewer"}
  /\ IsMember(p) /\ Can(member[p], "manage-members")
  /\ ~IsMember(q) /\ GuestGrants(q) # {}
  /\ Begin(c, op, p, q, role)

\* A locking request commits: its writes appear and the row is let go.
Commit(c, op) ==
  /\ call[c].op = op
  /\ Goto(c, Idle)
  /\ lock' = NoCall

-----------------------------------------------------------------------------
(* What the locking requests write.                                        *)

\* An UPDATE of memberships finds the row or changes nothing.
WithRole(p, role) == [member EXCEPT ![p] = IF @ = "none" THEN @ ELSE role]

ChangeMemberRole(c) ==
  /\ Commit(c, "role")
  /\ member' = WithRole(call[c].person, call[c].role)
  /\ UNCHANGED <<ws, board, grant, invite, disabled, acts, history>>

\* Mutant of PassBoards: only the boards not deleted pass.
PassLiveBoards(p, owner) ==
  board' = [b \in Board |-> IF b \in LiveBoards /\ board[b].owner = p
                              THEN [board[b] EXCEPT !.owner = owner] ELSE board[b]]

\* Boards pass to the owner, deleted ones too.
PassBoards(p, owner) ==
  board' = [b \in Board |-> IF board[b].owner = p
                              THEN [board[b] EXCEPT !.owner = owner] ELSE board[b]]

WithdrawOfferTo(p, offeredTo) ==
  ws' = IF offeredTo = p THEN [ws EXCEPT !.offeredTo = Nobody] ELSE ws

Depart(p, owner, offeredTo) ==
  /\ member' = [member EXCEPT ![p] = "none"]
  /\ PassBoards(p, owner)
  /\ WithdrawOfferTo(p, offeredTo)

\* No invitation will bring p back, and none is being accepted.
NotAskedIn(p) ==
  /\ \A i \in Invite : invite[i].state = "pending" => invite[i].to # p
  /\ \A k \in Call : call[k].op = "join" => call[k].person # p

\* Boards q is being let onto by a link redeemed before they were shut out.
Redeeming(q) == {b \in Board : \E k \in Call :
  call[k].op = "redeem" /\ call[k].person = q /\ b \in call[k].boards}

\* Mutant of Shut: an update where there may be no row.
ShutRows(p) == [b \in Board |->
  IF b \in LiveBoards THEN [grant[b] EXCEPT ![p].status = "revoked"] ELSE grant[b]]

\* Mutant of Shut: the grants of somebody removed are deleted, as on leaving.
ShutNothing(p) == [b \in Board |->
  IF b \in LiveBoards THEN [grant[b] EXCEPT ![p] = NoGrant] ELSE grant[b]]

\* A revoked grant on every live board; one they had keeps its role.
Shut(p) == [b \in Board |->
  IF b \in LiveBoards
    THEN [grant[b] EXCEPT ![p] =
            [role |-> IF HasGrant(@) THEN @.role ELSE "editor", status |-> "revoked"]]
    ELSE grant[b]]

RemoveMember(c) ==
  LET q == call[c].person IN
  /\ Commit(c, "remove")
  /\ Depart(q, call[c].owner, call[c].offeredTo)
  /\ grant' = Shut(q)
  /\ out' = IF NotAskedIn(q) THEN [out EXCEPT ![q] = LiveBoards \ Redeeming(q)] ELSE out
  /\ UNCHANGED <<invite, disabled, acts, strays>>

LeaveWorkspace(c) ==
  LET p == call[c].person IN
  /\ Commit(c, "leave")
  /\ Depart(p, call[c].owner, call[c].offeredTo)
  /\ grant' = [b \in Board |->
       IF b \in LiveBoards /\ grant[b][p].status = "active"
         THEN [grant[b] EXCEPT ![p] = NoGrant] ELSE grant[b]]
  /\ UNCHANGED <<invite, disabled, acts, history>>

OfferOwnership(c) ==
  /\ Commit(c, "offer")
  /\ ws' = [ws EXCEPT !.offeredTo = call[c].person]
  /\ UNCHANGED <<member, board, grant, invite, disabled, acts, history>>

WithdrawOwnershipOffer(c) ==
  /\ Commit(c, "withdraw")
  /\ ws' = [ws EXCEPT !.offeredTo = Nobody]
  /\ UNCHANGED <<member, board, grant, invite, disabled, acts, history>>

\* Mutant of HandOver: the previous owner keeps their role.
CoOwn(owner, p) == member' = [member EXCEPT ![p] = "owner"]

HandOver(owner, p) == member' = [member EXCEPT ![owner] = "admin", ![p] = "owner"]

AcceptOwnership(c) ==
  /\ Commit(c, "accept")
  /\ HandOver(call[c].owner, call[c].person)
  /\ ws' = [ws EXCEPT !.offeredTo = Nobody]
  /\ UNCHANGED <<board, grant, invite, disabled, acts, history>>

\* The grants found as the request began, those that are still there.
StillGranted(c) == {b \in call[c].boards : HasGrant(grant[b][call[c].person])}

SetGuestRole(c) ==
  /\ Commit(c, "guestRole")
  /\ grant' = [b \in Board |-> IF b \in StillGranted(c)
       THEN [grant[b] EXCEPT ![call[c].person].role = call[c].role] ELSE grant[b]]
  /\ UNCHANGED <<ws, member, board, invite, disabled, acts, history>>

RemoveGuest(c) ==
  /\ Commit(c, "guestOff")
  /\ grant' = [b \in Board |-> IF b \in StillGranted(c)
       THEN [grant[b] EXCEPT ![call[c].person].status = "revoked"] ELSE grant[b]]
  /\ UNCHANGED <<ws, member, board, invite, disabled, acts, history>>

-----------------------------------------------------------------------------
(* Boards and the grants on them.                                          *)

\* INSERT ... SELECT sees the membership in its snapshot, then waits for the
\* workspace's row.
BeginCreate(c, p) ==
  /\ call[c] = Idle /\ Active(p)
  /\ ws.state = "live" /\ IsMember(p)
  /\ Goto(c, [Idle EXCEPT !.op = "create", !.person = p])
  /\ UNCHANGED <<ws, member, board, grant, invite, disabled, lock, acts, history>>

CreateBoard(c) ==
  LET p == call[c].person IN
  /\ call[c].op = "create" /\ RowFree /\ ws.state # "erased"
  /\ \E b \in Board :
       /\ board[b] = NoBoard
       /\ board' = [board EXCEPT ![b] = [owner |-> p, deletedAt |-> Never]]
       /\ strays' = IF IsMember(p) /\ Active(p) /\ ws.state = "live"
                      THEN strays ELSE strays \cup {b}
  /\ Goto(c, Idle)
  /\ UNCHANGED <<ws, member, grant, invite, disabled, lock, acts, out>>

Act == acts < MaxActs /\ acts' = acts + 1

SoftDeleteBoard(b) ==
  /\ b \in LiveBoards /\ Act
  /\ board' = [board EXCEPT ![b].deletedAt = "byHand"]
  /\ UNCHANGED <<ws, member, grant, invite, disabled, lock, call, history>>

\* A share link lets in anyone but somebody removed from the board: the grant
\* is read, and no lock taken.
BeginRedeem(c, b, p) ==
  /\ call[c] = Idle /\ Active(p) /\ p \in Guest
  /\ b \in LiveBoards /\ board[b].owner # p /\ ~HasGrant(grant[b][p])
  /\ Goto(c, [Idle EXCEPT !.op = "redeem", !.person = p, !.boards = {b}])
  /\ UNCHANGED <<ws, member, board, grant, invite, disabled, lock, acts, history>>

\* The upsert makes the grant active whatever was written to it since.
RedeemShareLink(c) ==
  /\ call[c].op = "redeem"
  /\ \E b \in call[c].boards :
       /\ board[b] # ErasedBoard
       /\ grant' = [grant EXCEPT ![b][call[c].person] =
                       [role |-> "viewer", status |-> "active"]]
  /\ Goto(c, Idle)
  /\ UNCHANGED <<ws, member, board, invite, disabled, lock, acts, history>>

\* Whoever runs the board's sharing lets somebody back on.
SetBoardMemberRole(b, p) ==
  /\ b \in LiveBoards /\ IsRevoked(grant[b][p]) /\ Act
  /\ grant' = [grant EXCEPT ![b][p].status = "active"]
  /\ out' = [out EXCEPT ![p] = @ \ {b}]
  /\ UNCHANGED <<ws, member, board, invite, disabled, lock, call, strays>>

-----------------------------------------------------------------------------
(* Invitations.                                                            *)

IsPendingTo(i, p) == invite[i].state = "pending" /\ invite[i].to = p

\* The route asks for the role, the transaction for the membership.
BeginInvite(c, p, q, role) ==
  /\ call[c] = Idle /\ Active(p)
  /\ Can(member[p], "invite") /\ role \in InviteRole
  /\ ws.state = "live" /\ ~IsMember(q)
  /\ Goto(c, [Idle EXCEPT !.op = "invite", !.person = q, !.role = role])
  /\ UNCHANGED <<ws, member, board, grant, invite, disabled, lock, acts, history>>

\* The partial unique index keeps one open invitation to an address.
CreateInvite(c) ==
  LET q == call[c].person IN
  /\ call[c].op = "invite" /\ RowFree /\ ws.state # "erased"
  /\ IF \E i \in Invite : IsPendingTo(i, q)
       THEN UNCHANGED <<invite, out>>
       ELSE \E i \in Invite :
              /\ invite[i].state = "none"
              /\ invite' = [invite EXCEPT ![i] =
                   [to |-> q, role |-> call[c].role, state |-> "pending", expired |-> FALSE]]
              /\ out' = [out EXCEPT ![q] = {}]
  /\ Goto(c, Idle)
  /\ UNCHANGED <<ws, member, board, grant, disabled, lock, acts, strays>>

\* Mutant of InviteFree: the row is not locked while somebody joins by it.
InviteRead(i) == invite[i].state = "pending"

InviteFree(i) ==
  /\ invite[i].state = "pending"
  /\ \A c \in Call : call[c].invite # i

\* The route asks for the role, and what it then does does not ask again.
BeginManage(c, p) ==
  /\ call[c] = Idle /\ Active(p)
  /\ ws.state = "live" /\ Can(member[p], "invite")
  /\ Goto(c, [Idle EXCEPT !.op = "manage"])
  /\ UNCHANGED <<ws, member, board, grant, invite, disabled, lock, acts, history>>

ResendInvite(c, i) ==
  /\ call[c].op = "manage" /\ RowFree
  /\ InviteFree(i) /\ invite[i].expired
  /\ invite' = [invite EXCEPT ![i].expired = FALSE]
  /\ Goto(c, Idle)
  /\ UNCHANGED <<ws, member, board, grant, disabled, lock, acts, history>>

RevokeInvite(c, i) ==
  /\ call[c].op = "manage" /\ RowFree
  /\ InviteFree(i)
  /\ invite' = [invite EXCEPT ![i].state = "revoked"]
  /\ Goto(c, Idle)
  /\ UNCHANGED <<ws, member, board, grant, disabled, lock, acts, history>>

ExpireInvite(i) ==
  /\ invite[i].state = "pending" /\ ~invite[i].expired /\ Act
  /\ invite' = [invite EXCEPT ![i].expired = TRUE]
  /\ UNCHANGED <<ws, member, board, grant, disabled, lock, call, history>>

\* The invitation is locked, then the workspace and the account are read.
BeginJoin(c, i) ==
  LET p == invite[i].to IN
  /\ call[c] = Idle
  /\ InviteFree(i) /\ ~invite[i].expired
  /\ ws.state = "live" /\ Active(p)
  /\ Goto(c, [Idle EXCEPT !.op = "join", !.person = p, !.invite = i])
  /\ UNCHANGED <<ws, member, board, grant, invite, disabled, lock, acts, history>>

\* Somebody already in keeps the role they have; somebody coming back finds
\* the boards that were shut to them open.
AcceptInvite(c) ==
  LET p == call[c].person
      i == call[c].invite
  IN /\ call[c].op = "join" /\ ws.state # "erased"
     /\ IsMember(p) \/ RowFree
     /\ invite' = [invite EXCEPT ![i].state = "accepted"]
     /\ IF IsMember(p) THEN UNCHANGED <<member, grant, out>>
        ELSE /\ member' = [member EXCEPT ![p] = invite[i].role]
             /\ grant' = [b \in Board |->
                  IF IsRevoked(grant[b][p]) THEN [grant[b] EXCEPT ![p] = NoGrant]
                  ELSE grant[b]]
             /\ out' = [out EXCEPT ![p] = {}]
     /\ Goto(c, Idle)
     /\ UNCHANGED <<ws, board, disabled, lock, acts, strays>>

-----------------------------------------------------------------------------
\* The route reads the role; the transaction only that it is not gone yet.
BeginDelete(c, p) ==
  /\ call[c] = Idle /\ Active(p)
  /\ ws.state = "live" /\ Can(member[p], "delete")
  /\ Goto(c, [Idle EXCEPT !.op = "delete"])
  /\ UNCHANGED <<ws, member, board, grant, invite, disabled, lock, acts, history>>

DeleteWorkspace(c) ==
  /\ call[c].op = "delete" /\ RowFree /\ ws.state = "live"
  /\ ws' = [ws EXCEPT !.state = "deleted"]
  /\ board' = [b \in Board |-> IF b \in LiveBoards
                 THEN [board[b] EXCEPT !.deletedAt = "withWorkspace"] ELSE board[b]]
  /\ Goto(c, Idle)
  /\ UNCHANGED <<member, grant, invite, disabled, lock, acts, history>>

-----------------------------------------------------------------------------
BeginLocking(c) ==
  \E p \in Person :
    \/ BeginLeave(c, p) \/ BeginWithdraw(c, p) \/ BeginAccept(c, p)
    \/ \E q \in Person :
         \/ BeginRemove(c, p, q) \/ BeginOffer(c, p, q)
         \/ \E role \in {"admin", "member"} : BeginChangeRole(c, p, q, role)
         \/ \E op \in OnGuest, role \in {"editor", "viewer"} :
              BeginGuest(c, op, p, q, role)

CommitLocking(c) ==
  \/ ChangeMemberRole(c) \/ RemoveMember(c) \/ LeaveWorkspace(c)
  \/ OfferOwnership(c) \/ WithdrawOwnershipOffer(c) \/ AcceptOwnership(c)
  \/ SetGuestRole(c) \/ RemoveGuest(c)

BeginReading(c) ==
  \/ \E p \in Person :
       \/ BeginCreate(c, p) \/ BeginDelete(c, p) \/ BeginManage(c, p)
       \/ \E b \in Board : BeginRedeem(c, b, p)
  \/ \E p, q \in Person, role \in InviteRole : BeginInvite(c, p, q, role)
  \/ \E i \in Invite : BeginJoin(c, i)

CommitReading(c) ==
  \/ CreateBoard(c) \/ CreateInvite(c) \/ AcceptInvite(c) \/ DeleteWorkspace(c)
  \/ RedeemShareLink(c)
  \/ \E i \in Invite : ResendInvite(c, i) \/ RevokeInvite(c, i)

\* A request is refused by what it finds, or its process dies: nothing it did
\* remains.
Abandon(c) ==
  /\ call[c] # Idle
  /\ Goto(c, Idle)
  /\ lock' = IF lock = c THEN NoCall ELSE lock
  /\ UNCHANGED <<ws, member, board, grant, invite, disabled, acts, history>>

WsNext ==
  \/ \E c \in Call :
       \/ BeginLocking(c) \/ CommitLocking(c) \/ BeginReading(c) \/ CommitReading(c)
       \/ Abandon(c)
  \/ \E b \in Board :
       \/ SoftDeleteBoard(b)
       \/ \E p \in Person : SetBoardMemberRole(b, p)
  \/ \E i \in Invite : ExpireInvite(i)

WsSpec == Init /\ [][WsNext]_wsVars

-----------------------------------------------------------------------------
\* Every variable keeps its shape.
TypeOK ==
  /\ ws \in [state: {"live", "deleted", "erased"}, offeredTo: Person \cup {Nobody}]
  /\ member \in [Person -> Standing]
  /\ board \in [Board -> [owner: Person \cup {Nobody}, deletedAt: Stamp]]
  /\ grant \in [Board -> [Person -> Grant]]
  /\ invite \in [Invite -> [to: Person \cup {Nobody}, role: {"admin", "member"},
                            state: {"none", "pending", "accepted", "revoked"},
                            expired: BOOLEAN]]
  /\ disabled \subseteq Person
  /\ lock \in Call \cup {NoCall}
  /\ call \in [Call -> CallState]
  /\ acts \in 0..MaxActs
  /\ strays \subseteq Board
  /\ out \in [Person -> SUBSET Board]

\* workspace-members.ts: "A workspace has one owner, always.  Nothing here
\* changes who it is except the person offered the ownership accepting it."
Own == INSTANCE Ownership WITH
  owners <- Owners, members <- {p \in Person : IsMember(p)}, offered <- ws.offeredTo
OwnershipIsKept == Own!Spec

\* An offer stands only to somebody in the workspace who does not own it,
\* whatever is done to them between the offer and their answer.
OfferStands ==
  ws.offeredTo # Nobody => member[ws.offeredTo] \in {"admin", "member"}

\* Boards follow the workspace: every board is owned by somebody in it, and
\* none outlives it, except one whose insert was under way as they went.
BoardsFollowTheWorkspace ==
  \A b \in Board \ strays : Exists(b) =>
    /\ IsMember(board[b].owner)
    /\ ws.state = "deleted" => board[b].deletedAt # Never

\* Somebody removed cannot open any board that was there, by workspace, share
\* link or guest role, until let back on it or asked into the workspace again;
\* supposing no invitation to them was open as they were removed, and but for
\* a board whose link they were redeeming at that moment.
RemovedStayOut ==
  \A p \in Person : \A b \in out[p] :
    ResolveBoardAccess([deleted |-> FALSE, archived |-> FALSE],
      board[b].owner = p, grant[b][p], member[p]) = NoAccess

\* An invitation is answered once, by the person it is to, and taking it back
\* is final: nobody joins but by an invitation open until that moment.
InvitesAreSpentOnce ==
  [][/\ \A i \in Invite : invite[i].state \in {"accepted", "revoked"} =>
          invite'[i] = invite[i]
     /\ \A p \in Person : ~IsMember(p) /\ member'[p] # "none" =>
          \E i \in Invite : IsPendingTo(i, p) /\ invite'[i].state = "accepted"]_wsVars

(* What the sources say, and the code does not keep.                       *)

\* workspaces.ts: checking the membership and inserting the board "cannot be
\* split by a removal landing in between".
CreationIsNotSplit ==
  [][\A b \in Board : ~Exists(b) /\ board'[b].owner # Nobody =>
       IsMember(board'[b].owner)]_wsVars

=============================================================================
