-------------------------- MODULE Workspace_proofs --------------------------
(***************************************************************************)
(* Theorems about Workspace, for any number of people, boards, invitations *)
(* and requests in flight.  What a request read under the lock still       *)
(* stands when it writes; from that, and from the hold a person joining    *)
(* has on their invitation, everything else follows.                       *)
(***************************************************************************)
EXTENDS Workspace, TLAPS

\* Requests that act on somebody, and those that act on somebody in the
\* workspace other than its owner.
OnSomebody == (Locking \ {"withdraw"}) \cup {"create", "redeem", "invite", "join"}
OnMember == {"role", "remove", "leave", "offer"}

CallsAreOn ==
  \A c \in Call :
    /\ call[c].op \in OnSomebody => call[c].person \in Person
    /\ call[c].op = "invite" => call[c].role \in InviteRole

\* The workspace's row is locked by the one request that goes on to write.
LockIsHeld == \A c \in Call : call[c].op \in Locking <=> lock = c

OneOwner == \E p \in Person : Owners = {p}

\* What a locking request read and checked is still so.
ReadsStand ==
  \A c \in Call : call[c].op \in Locking =>
    /\ Owners = {call[c].owner}
    /\ call[c].offeredTo = ws.offeredTo
    /\ call[c].op \in OnMember => member[call[c].person] \in {"admin", "member"}
    /\ call[c].op = "accept" => ws.offeredTo = call[c].person
    /\ call[c].op = "role" => call[c].role \in {"admin", "member"}
    /\ call[c].op = "guestRole" => call[c].role \in {"editor", "viewer"}

\* Whoever is joining holds an invitation to them, and nobody else does.
JoinsHold ==
  \A c \in Call : call[c].op = "join" =>
    /\ call[c].invite \in Invite
    /\ IsPendingTo(call[c].invite, call[c].person)
    /\ \A d \in Call \ {c} : call[d].invite # call[c].invite

\* Whoever is redeeming a link to a board is not shut out of it.
RedeemsStand ==
  \A c \in Call : call[c].op = "redeem" =>
    \A b \in call[c].boards : b \notin out[call[c].person]

InvitesAreTo ==
  \A i \in Invite : invite[i].state = "pending" => invite[i].to \in Person

\* A board shut to somebody removed is not theirs, and nobody is asking them in.
ShutIsShut ==
  \A p \in Person : \A b \in out[p] :
    /\ ~IsMember(p)
    /\ Exists(b) /\ board[b].owner # p
    /\ IsRevoked(grant[b][p])
    /\ \A i \in Invite : ~IsPendingTo(i, p)

NotErased == ws.state # "erased"

IInv ==
  /\ TypeOK /\ CallsAreOn /\ LockIsHeld /\ OneOwner /\ ReadsStand /\ JoinsHold
  /\ RedeemsStand /\ InvitesAreTo /\ ShutIsShut /\ NotErased
  /\ OfferStands /\ BoardsFollowTheWorkspace

-----------------------------------------------------------------------------
(* Shapes.                                                                 *)

\* A request that has started is a request's record.
LEMMA CallRecord ==
  ASSUME NEW op \in Locking \cup Reading, NEW q \in Person \cup {Nobody},
         NEW role \in Role \cup WorkspaceRole, NEW owner \in Person \cup {Nobody},
         NEW offeredTo \in Person \cup {Nobody}, NEW i \in Invite \cup {NoInvite},
         NEW bs \in SUBSET Board, NEW new,
         new = [op |-> op, person |-> q, role |-> role, owner |-> owner,
                offeredTo |-> offeredTo, invite |-> i, boards |-> bs]
  PROVE  /\ new \in CallState
         /\ new.op = op /\ new.person = q /\ new.role = role /\ new.owner = owner
         /\ new.offeredTo = offeredTo /\ new.invite = i /\ new.boards = bs
<1>1. op \in {"idle"} \cup Locking \cup Reading
  OBVIOUS
<1> QED
  BY <1>1 DEF CallState

\* So is one that has not.
LEMMA IdleRecord ==
  Idle \in CallState /\ Idle.op = "idle" /\ Idle.invite = NoInvite
  BY DEF CallState, Idle, Role, WorkspaceRole

LEMMA NoGrantIsGrant == NoGrant \in Grant /\ ~IsRevoked(NoGrant)
  BY DEF Grant, NoGrant, IsRevoked

\* A grant is none, or a role that is active or revoked.
LEMMA GrantShape ==
  ASSUME NEW g \in Grant
  PROVE  /\ g = NoGrant \/ (g.role \in Role /\ g.status \in {"active", "revoked"})
         /\ IsRevoked(g) => HasGrant(g)
  BY DEF Grant, NoGrant, IsRevoked, HasGrant

\* The founder owns the workspace and nothing is in it.
LEMMA InitInv == Init => IInv
<1> SUFFICES ASSUME Init PROVE IInv
  OBVIOUS
<1> USE DEF Init
<1>1. \A c \in Call : call[c] = Idle /\ call[c].op = "idle"
  BY IdleRecord
<1>2. TypeOK
  <2>1. NoBoard \in [owner: Person \cup {Nobody}, deletedAt: Stamp]
    BY DEF NoBoard, Stamp
  <2>2. NoInvitation \in [to: Person \cup {Nobody}, role: {"admin", "member"},
                          state: {"none", "pending", "accepted", "revoked"},
                          expired: BOOLEAN]
    BY DEF NoInvitation
  <2>3. member \in [Person -> Standing]
    BY DEF Standing, WorkspaceRole
  <2>4. acts \in 0..MaxActs
    BY MaxActsAssumption
  <2> QED
    BY <2>1, <2>2, <2>3, <2>4, IdleRecord, NoGrantIsGrant DEF TypeOK
<1>3. Owners = {Founder}
  BY FounderAssumption DEF Owners
<1>4. CallsAreOn /\ LockIsHeld /\ ReadsStand /\ JoinsHold /\ RedeemsStand
  BY <1>1, CallsAssumption
  DEF CallsAreOn, LockIsHeld, ReadsStand, JoinsHold, RedeemsStand, OnSomebody, Locking
<1>5. InvitesAreTo /\ ShutIsShut /\ NotErased /\ OfferStands
  BY DEF InvitesAreTo, ShutIsShut, NotErased, OfferStands, NoInvitation
<1>6. BoardsFollowTheWorkspace
  BY DEF BoardsFollowTheWorkspace, Exists, NoBoard
<1> QED
  BY <1>2, <1>3, <1>4, <1>5, <1>6, FounderAssumption DEF IInv, OneOwner

-----------------------------------------------------------------------------
(* Steps that leave the tables alone, and those that start a request.      *)

\* What is said of the tables alone stands while nobody writes them.
LEMMA TablesStand ==
  ASSUME IInv, UNCHANGED <<ws, member, board, grant, invite, disabled, strays, out>>
  PROVE  /\ OneOwner' /\ InvitesAreTo' /\ ShutIsShut' /\ NotErased'
         /\ OfferStands' /\ BoardsFollowTheWorkspace'
<1> USE DEF IInv
<1>1. Owners' = Owners /\ \A p : IsMember(p)' <=> IsMember(p)
  BY DEF Owners, IsMember
<1>2. \A b : Exists(b)' <=> Exists(b)
  BY DEF Exists
<1>3. \A i, p : IsPendingTo(i, p)' <=> IsPendingTo(i, p)
  BY DEF IsPendingTo
<1>4. OneOwner' /\ InvitesAreTo' /\ NotErased' /\ OfferStands'
  BY <1>1 DEF OneOwner, InvitesAreTo, NotErased, OfferStands
<1>5. ShutIsShut'
  BY <1>1, <1>2, <1>3 DEF ShutIsShut
<1>6. BoardsFollowTheWorkspace'
  BY <1>1, <1>2 DEF BoardsFollowTheWorkspace
<1> QED
  BY <1>4, <1>5, <1>6

\* Nobody is shut out of a board they are being let onto, while requests only
\* end and boards are only opened.
LEMMA RedeemsKeep ==
  ASSUME RedeemsStand, CallsAreOn,
         \A d \in Call : call'[d] = call[d] \/ call'[d].op # "redeem",
         \A p \in Person : out'[p] \subseteq out[p]
  PROVE  RedeemsStand'
  BY DEF RedeemsStand, CallsAreOn, OnSomebody

\* A request starts: only what is in flight changes, and perhaps the lock.
LEMMA StartInv ==
  ASSUME IInv, NEW c \in Call, NEW new \in CallState,
         call[c] = Idle, call' = [call EXCEPT ![c] = new],
         UNCHANGED <<ws, member, board, grant, invite, disabled, acts, strays, out>>,
         new.op \in OnSomebody => new.person \in Person,
         new.op = "invite" => new.role \in InviteRole,
         \/ new.op \in Locking /\ lock = NoCall /\ lock' = c
         \/ new.op \notin Locking /\ lock' = lock,
         new.op \in Locking =>
           /\ Owners = {new.owner}
           /\ new.offeredTo = ws.offeredTo
           /\ new.op \in OnMember => member[new.person] \in {"admin", "member"}
           /\ new.op = "accept" => ws.offeredTo = new.person
           /\ new.op = "role" => new.role \in {"admin", "member"}
           /\ new.op = "guestRole" => new.role \in {"editor", "viewer"},
         new.op = "join" => /\ new.invite \in Invite
                            /\ IsPendingTo(new.invite, new.person),
         new.invite # NoInvite => \A d \in Call : call[d].invite # new.invite,
         new.op = "redeem" => \A b \in new.boards : b \notin out[new.person]
  PROVE  IInv'
<1> USE DEF IInv
<1>1. /\ call' \in [Call -> CallState]
      /\ \A d \in Call : call'[d] = IF d = c THEN new ELSE call[d]
  BY DEF TypeOK
<1>2. call[c].op = "idle" /\ call[c].invite = NoInvite
  BY IdleRecord
<1>3. TypeOK'
  BY <1>1 DEF TypeOK
<1>4. CallsAreOn'
  BY <1>1 DEF CallsAreOn
<1>5. LockIsHeld'
  <2>1. "idle" \notin Locking
    BY DEF Locking
  <2>2. CASE new.op \in Locking /\ lock = NoCall /\ lock' = c
    BY <1>1, <2>2, CallsAssumption DEF LockIsHeld
  <2>3. CASE new.op \notin Locking /\ lock' = lock
    BY <1>1, <1>2, <2>1, <2>3 DEF LockIsHeld
  <2> QED
    BY <2>2, <2>3
<1>6. ReadsStand'
  <2>1. Owners' = Owners
    BY DEF Owners
  <2> QED
    BY <1>1, <2>1 DEF ReadsStand
<1>7. JoinsHold'
  <2>1. \A i, p : IsPendingTo(i, p)' <=> IsPendingTo(i, p)
    BY DEF IsPendingTo
  <2> SUFFICES ASSUME NEW e \in Call, call'[e].op = "join"
               PROVE  /\ call'[e].invite \in Invite
                      /\ IsPendingTo(call'[e].invite, call'[e].person)
                      /\ \A d \in Call \ {e} : call'[d].invite # call'[e].invite
    BY <2>1 DEF JoinsHold
  <2>2. CASE e = c
    BY <1>1, <2>2, CallsAssumption
  <2>3. CASE e # c
    <3>1. call'[e] = call[e]
      BY <1>1, <2>3
    <3>2. /\ call[e].invite \in Invite /\ IsPendingTo(call[e].invite, call[e].person)
          /\ \A d \in Call \ {e} : call[d].invite # call[e].invite
      BY <3>1 DEF JoinsHold
    <3>3. new.invite # call[e].invite
      BY <3>2, CallsAssumption
    <3> QED
      BY <1>1, <3>1, <3>2, <3>3
  <2> QED
    BY <2>2, <2>3
<1>8. RedeemsStand'
  BY <1>1 DEF RedeemsStand
<1> QED
  BY <1>3, <1>4, <1>5, <1>6, <1>7, <1>8, TablesStand

\* A request that locks the workspace, having checked what it is to do.
LEMMA BeginInv ==
  ASSUME IInv, NEW c \in Call, NEW op \in Locking, NEW p, NEW q \in Person \cup {Nobody},
         NEW role \in Role \cup WorkspaceRole, Begin(c, op, p, q, role),
         op # "withdraw" => q \in Person,
         op \in OnMember => member[q] \in {"admin", "member"},
         op = "accept" => ws.offeredTo = q,
         op = "role" => role \in {"admin", "member"},
         op = "guestRole" => role \in {"editor", "viewer"}
  PROVE  IInv'
<1> DEFINE bs == IF op \in OnGuest THEN GuestGrants(q) ELSE {}
<1>1. PICK owner \in Owners :
        call' = [call EXCEPT ![c] = [Idle EXCEPT !.op = op, !.person = q, !.role = role,
                                       !.owner = owner, !.offeredTo = ws.offeredTo,
                                       !.boards = bs]]
  BY DEF Begin, Goto
<1>9. bs \in SUBSET Board
  BY DEF GuestGrants, LiveBoards
<1> HIDE DEF bs
<1>2. PICK new : new = [Idle EXCEPT !.op = op, !.person = q, !.role = role,
                          !.owner = owner, !.offeredTo = ws.offeredTo,
                          !.boards = bs]
  OBVIOUS
<1>3. owner \in Person /\ Owners = {owner}
  BY DEF IInv, OneOwner, Owners
<1>4. ws.offeredTo \in Person \cup {Nobody}
  BY DEF IInv, TypeOK
<1>5. new = [op |-> op, person |-> q, role |-> role, owner |-> owner,
             offeredTo |-> ws.offeredTo, invite |-> NoInvite, boards |-> bs]
  BY <1>2 DEF Idle
<1>6. /\ new \in CallState
      /\ new.op = op /\ new.person = q /\ new.role = role /\ new.owner = owner
      /\ new.offeredTo = ws.offeredTo /\ new.invite = NoInvite
  BY <1>3, <1>4, <1>5, <1>9, CallRecord
<1>7. /\ call[c] = Idle /\ lock = NoCall /\ lock' = c
      /\ UNCHANGED <<ws, member, board, grant, invite, disabled, acts, strays, out>>
  BY DEF Begin, LockWorkspace, RowFree, history
<1>8. op # "join" /\ op # "invite" /\ op # "redeem" /\ (op \in OnSomebody => op # "withdraw")
  BY DEF Locking, OnSomebody
<1> QED
  BY <1>1, <1>2, <1>3, <1>6, <1>7, <1>8, StartInv

LEMMA BeginLockingInv ==
  ASSUME IInv, NEW c \in Call, BeginLocking(c)
  PROVE  IInv'
<1> USE DEF IInv
<1>1. /\ {"role", "remove", "leave", "offer", "withdraw", "accept", "guestRole", "guestOff"}
           = Locking
      /\ OnMember = {"role", "remove", "leave", "offer"}
      /\ {"owner", "admin", "member", "editor", "viewer"} \subseteq Role \cup WorkspaceRole
  BY DEF Locking, OnMember, Role, WorkspaceRole
<1>2. \A x \in Person : member[x] \in {"owner", "admin", "member", "none"}
  BY DEF TypeOK, Standing, WorkspaceRole
<1>3. PICK p \in Person :
        \/ BeginLeave(c, p) \/ BeginWithdraw(c, p) \/ BeginAccept(c, p)
        \/ \E q \in Person :
             \/ BeginRemove(c, p, q) \/ BeginOffer(c, p, q)
             \/ \E role \in {"admin", "member"} : BeginChangeRole(c, p, q, role)
             \/ \E op \in OnGuest, role \in {"editor", "viewer"} :
                  BeginGuest(c, op, p, q, role)
  BY DEF BeginLocking
<1>4. CASE BeginLeave(c, p)
  <2>1. member[p] \in {"admin", "member"}
    BY <1>2, <1>4 DEF BeginLeave, Can
  <2> QED
    BY <1>1, <1>4, <2>1, BeginInv DEF BeginLeave
<1>5. CASE BeginWithdraw(c, p)
  BY <1>1, <1>5, BeginInv DEF BeginWithdraw
<1>6. CASE BeginAccept(c, p)
  BY <1>1, <1>6, BeginInv DEF BeginAccept
<1>7. ASSUME NEW q \in Person, CheckManage(p, q)
      PROVE  member[q] \in {"admin", "member"}
  BY <1>2, <1>7 DEF CheckManage, CanManageMember, IsMember
<1>8. ASSUME NEW q \in Person, BeginRemove(c, p, q)
      PROVE  IInv'
  BY <1>1, <1>7, <1>8, BeginInv DEF BeginRemove
<1>9. ASSUME NEW q \in Person, BeginOffer(c, p, q)
      PROVE  IInv'
  <2>1. p \in Owners
    BY <1>9 DEF BeginOffer, Can, Owners
  <2>2. member[q] \in {"admin", "member"}
    BY <1>2, <1>9, <2>1 DEF BeginOffer, IsMember, OneOwner, Owners
  <2> QED
    BY <1>1, <1>9, <2>2, BeginInv DEF BeginOffer
<1>10. ASSUME NEW q \in Person, NEW role \in {"admin", "member"}, BeginChangeRole(c, p, q, role)
       PROVE  IInv'
  BY <1>1, <1>7, <1>10, BeginInv DEF BeginChangeRole
<1>11. ASSUME NEW q \in Person, NEW op \in OnGuest,
              NEW role \in {"editor", "viewer"}, BeginGuest(c, op, p, q, role)
       PROVE  IInv'
  BY <1>1, <1>11, BeginInv DEF BeginGuest, OnGuest
<1> QED
  BY <1>3, <1>4, <1>5, <1>6, <1>8, <1>9, <1>10, <1>11

\* A request that reads, and takes the hold on an invitation if it is joining.
LEMMA BeginReadingInv ==
  ASSUME IInv, NEW c \in Call, BeginReading(c)
  PROVE  IInv'
<1> USE DEF IInv
<1>1. /\ {"create", "redeem", "invite", "manage", "join", "delete"} = Reading
      /\ "member" \in Role \cup WorkspaceRole /\ InviteRole \subseteq Role \cup WorkspaceRole
      /\ \A op \in Reading : op \notin Locking
      /\ "delete" \notin OnSomebody /\ "manage" \notin OnSomebody
      /\ {} \in SUBSET Board /\ Reading \subseteq Locking \cup Reading
      /\ Nobody \in Person \cup {Nobody} /\ NoInvite \in Invite \cup {NoInvite}
      /\ Person \subseteq Person \cup {Nobody}
  BY InviteRoleAssumption DEF Reading, Role, WorkspaceRole, Locking, OnSomebody
<1>2. ASSUME NEW p \in Person, BeginCreate(c, p) PROVE IInv'
  <2>1. PICK new : new = [Idle EXCEPT !.op = "create", !.person = p]
    OBVIOUS
  <2>2. call' = [call EXCEPT ![c] = new]
    BY <1>2, <2>1 DEF BeginCreate, Goto
  <2>3. new = [op |-> "create", person |-> p, role |-> "member", owner |-> Nobody,
               offeredTo |-> Nobody, invite |-> NoInvite, boards |-> {}]
    BY <2>1 DEF Idle
  <2>4. /\ new \in CallState /\ new.op = "create"
        /\ new.person = p /\ new.invite = NoInvite
    BY <1>1, <2>3, CallRecord
  <2> QED
    BY <1>1, <1>2, <2>2, <2>4, StartInv DEF BeginCreate, history
<1>3. ASSUME NEW p \in Person, BeginDelete(c, p) PROVE IInv'
  <2>1. PICK new : new = [Idle EXCEPT !.op = "delete"]
    OBVIOUS
  <2>2. call' = [call EXCEPT ![c] = new]
    BY <1>3, <2>1 DEF BeginDelete, Goto
  <2>3. new = [op |-> "delete", person |-> Nobody, role |-> "member", owner |-> Nobody,
               offeredTo |-> Nobody, invite |-> NoInvite, boards |-> {}]
    BY <2>1 DEF Idle
  <2>4. /\ new \in CallState /\ new.op = "delete"
        /\ new.person = Nobody /\ new.invite = NoInvite
    BY <1>1, <2>3 DEF CallState
  <2> QED
    BY <1>1, <1>3, <2>2, <2>4, StartInv DEF BeginDelete, history
<1>4. ASSUME NEW p \in Person, NEW q \in Person, NEW role \in InviteRole,
             BeginInvite(c, p, q, role)
      PROVE  IInv'
  <2>1. PICK new : new = [Idle EXCEPT !.op = "invite", !.person = q, !.role = role]
    OBVIOUS
  <2>2. call' = [call EXCEPT ![c] = new]
    BY <1>4, <2>1 DEF BeginInvite, Goto
  <2>3. new = [op |-> "invite", person |-> q, role |-> role, owner |-> Nobody,
               offeredTo |-> Nobody, invite |-> NoInvite, boards |-> {}]
    BY <2>1 DEF Idle
  <2>4. "invite" \in Locking \cup Reading /\ role \in Role \cup WorkspaceRole
    BY <1>1
  <2>5. /\ new \in CallState /\ new.op = "invite"
        /\ new.person = q /\ new.role = role /\ new.invite = NoInvite
    BY <1>1, <2>3, <2>4 DEF CallState
  <2> QED
    BY <1>1, <1>4, <2>2, <2>5, StartInv DEF BeginInvite, history
<1>5. ASSUME NEW i \in Invite, BeginJoin(c, i) PROVE IInv'
  <2>1. PICK new : new = [Idle EXCEPT !.op = "join", !.person = invite[i].to, !.invite = i]
    OBVIOUS
  <2>2. call' = [call EXCEPT ![c] = new]
    BY <1>5, <2>1 DEF BeginJoin, Goto
  <2>3. new = [op |-> "join", person |-> invite[i].to, role |-> "member", owner |-> Nobody,
               offeredTo |-> Nobody, invite |-> i, boards |-> {}]
    BY <2>1 DEF Idle
  <2>4. invite[i].to \in Person /\ IsPendingTo(i, invite[i].to)
    BY <1>5 DEF BeginJoin, InviteFree, InvitesAreTo, IsPendingTo
  <2>5. /\ new \in CallState /\ new.op = "join"
        /\ new.person = invite[i].to /\ new.invite = i
    <3>1. /\ "join" \in Locking \cup Reading /\ "member" \in Role \cup WorkspaceRole
          /\ invite[i].to \in Person \cup {Nobody} /\ i \in Invite \cup {NoInvite}
          /\ Nobody \in Person \cup {Nobody}
      BY <1>1, <2>4
    <3> QED
      BY <1>1, <2>3, <3>1 DEF CallState
  <2>6. \A d \in Call : call[d].invite # i
    BY <1>5 DEF BeginJoin, InviteFree
  <2> QED
    BY <1>1, <1>5, <2>2, <2>4, <2>5, <2>6, StartInv DEF BeginJoin, history
<1>6. ASSUME NEW p \in Person, BeginManage(c, p) PROVE IInv'
  <2>1. PICK new : new = [Idle EXCEPT !.op = "manage"]
    OBVIOUS
  <2>2. call' = [call EXCEPT ![c] = new]
    BY <1>6, <2>1 DEF BeginManage, Goto
  <2>3. new = [op |-> "manage", person |-> Nobody, role |-> "member", owner |-> Nobody,
               offeredTo |-> Nobody, invite |-> NoInvite, boards |-> {}]
    BY <2>1 DEF Idle
  <2>4. /\ new \in CallState /\ new.op = "manage"
        /\ new.person = Nobody /\ new.invite = NoInvite
    BY <1>1, <2>3, CallRecord
  <2> QED
    BY <1>1, <1>6, <2>2, <2>4, StartInv DEF BeginManage, history
<1>7. ASSUME NEW b \in Board, NEW p \in Person, BeginRedeem(c, b, p) PROVE IInv'
  <2>1. PICK new : new = [Idle EXCEPT !.op = "redeem", !.person = p, !.boards = {b}]
    OBVIOUS
  <2>2. call' = [call EXCEPT ![c] = new]
    BY <1>7, <2>1 DEF BeginRedeem, Goto
  <2>3. new = [op |-> "redeem", person |-> p, role |-> "member", owner |-> Nobody,
               offeredTo |-> Nobody, invite |-> NoInvite, boards |-> {b}]
    BY <2>1 DEF Idle
  <2>4. /\ new \in CallState /\ new.op = "redeem"
        /\ new.person = p /\ new.invite = NoInvite /\ new.boards = {b}
    BY <1>1, <2>3, CallRecord
  <2>5. b \notin out[p]
    BY <1>7, GrantShape DEF BeginRedeem, ShutIsShut, TypeOK
  <2> QED
    BY <1>1, <1>7, <2>2, <2>4, <2>5, StartInv DEF BeginRedeem, history
<1> QED
  BY <1>2, <1>3, <1>4, <1>5, <1>6, <1>7 DEF BeginReading

-----------------------------------------------------------------------------
(* What the locking requests write.                                        *)

\* A locking request that commits leaves nobody holding the row.
LEMMA CommitFrees ==
  ASSUME IInv, NEW c \in Call, NEW op \in Locking, Commit(c, op), invite' = invite
  PROVE  /\ call' \in [Call -> CallState] /\ lock' \in Call \cup {NoCall}
         /\ CallsAreOn' /\ LockIsHeld' /\ ReadsStand' /\ JoinsHold' /\ InvitesAreTo'
         /\ (\A p \in Person : out'[p] \subseteq out[p]) => RedeemsStand'
<1> USE DEF IInv
<1>1. /\ call' = [call EXCEPT ![c] = Idle] /\ lock' = NoCall
      /\ call[c].op = op /\ lock = c
  BY DEF Commit, Goto, LockIsHeld
<1>2. /\ call' \in [Call -> CallState]
      /\ \A d \in Call : call'[d] = IF d = c THEN Idle ELSE call[d]
  BY <1>1, IdleRecord DEF TypeOK
<1>3. Idle.op \notin Locking /\ Idle.op \notin OnSomebody
      /\ Idle.op # "join" /\ Idle.op # "invite"
  BY IdleRecord DEF Locking, OnSomebody
<1>4. \A d \in Call : call'[d].op \notin Locking
  BY <1>1, <1>2, <1>3 DEF LockIsHeld
<1>5. CallsAreOn'
  BY <1>2, <1>3 DEF CallsAreOn
<1>6. LockIsHeld' /\ ReadsStand'
  BY <1>1, <1>4, CallsAssumption DEF LockIsHeld, ReadsStand
<1>7. JoinsHold'
  BY <1>2, <1>3, IdleRecord, CallsAssumption DEF JoinsHold, IsPendingTo
<1>8. (\A p \in Person : out'[p] \subseteq out[p]) => RedeemsStand'
  BY <1>2, IdleRecord, RedeemsKeep
<1> QED
  BY <1>1, <1>2, <1>5, <1>6, <1>7, <1>8 DEF InvitesAreTo

LEMMA ChangeMemberRoleInv ==
  ASSUME IInv, NEW c \in Call, ChangeMemberRole(c)
  PROVE  IInv'
<1> USE DEF IInv
<1> DEFINE q == call[c].person
<1>1. /\ Commit(c, "role") /\ "role" \in Locking
      /\ UNCHANGED <<ws, board, grant, invite, disabled, acts, strays, out>>
  BY DEF ChangeMemberRole, history, Locking
<1>2. /\ q \in Person /\ member[q] \in {"admin", "member"}
      /\ call[c].role \in {"admin", "member"}
  BY <1>1 DEF Commit, CallsAreOn, ReadsStand, OnSomebody, OnMember, Locking
<1>3. \A p \in Person : member'[p] = IF p = q THEN call[c].role ELSE member[p]
  BY <1>2 DEF ChangeMemberRole, WithRole, TypeOK
<1>4. member' \in [Person -> Standing]
  BY <1>2 DEF ChangeMemberRole, WithRole, TypeOK, Standing, WorkspaceRole
<1>5. Owners' = Owners /\ \A p \in Person : IsMember(p)' <=> IsMember(p)
  BY <1>2, <1>3 DEF Owners, IsMember
<1>6. TypeOK'
  BY <1>1, <1>4, CommitFrees DEF TypeOK
<1>7. OneOwner' /\ NotErased'
  BY <1>1, <1>5 DEF OneOwner, NotErased
<1>8. OfferStands'
  BY <1>1, <1>2, <1>3 DEF OfferStands, TypeOK
<1>9. ShutIsShut' /\ BoardsFollowTheWorkspace'
  BY <1>1, <1>5 DEF ShutIsShut, BoardsFollowTheWorkspace, Exists, IsPendingTo, TypeOK
<1> QED
  BY <1>1, <1>6, <1>7, <1>8, <1>9, CommitFrees

\* Somebody other than the owner goes; their boards are the owner's.
LEMMA DepartStep ==
  ASSUME IInv, NEW p \in Person, NEW owner, Owners = {owner},
         member[p] \in {"admin", "member"}, Depart(p, owner, ws.offeredTo),
         strays' = strays
  PROVE  /\ member' \in [Person -> Standing]
         /\ board' \in [Board -> [owner: Person \cup {Nobody}, deletedAt: Stamp]]
         /\ ws' \in [state: {"live", "deleted", "erased"}, offeredTo: Person \cup {Nobody}]
         /\ OneOwner' /\ NotErased' /\ OfferStands' /\ BoardsFollowTheWorkspace'
         /\ owner \in Person /\ owner # p
         /\ \A q \in Person : IsMember(q)' <=> IsMember(q) /\ q # p
         /\ \A b \in Board : /\ Exists(b)' <=> Exists(b)
                             /\ board'[b].owner = IF board[b].owner = p THEN owner
                                                  ELSE board[b].owner
<1> USE DEF IInv
<1>1. owner \in Person /\ member[owner] = "owner" /\ owner # p /\ owner # Nobody
  BY FounderAssumption DEF Owners
<1>2. \A q \in Person : member'[q] = IF q = p THEN "none" ELSE member[q]
  BY DEF Depart, TypeOK
<1>3. member' \in [Person -> Standing]
  BY DEF Depart, TypeOK, Standing
<1>4. \A b \in Board : /\ board'[b].owner = IF board[b].owner = p THEN owner
                                            ELSE board[b].owner
                       /\ board'[b].deletedAt = board[b].deletedAt
                       /\ board'[b] \in [owner: Person \cup {Nobody}, deletedAt: Stamp]
  BY <1>1 DEF Depart, PassBoards, TypeOK
<1>5. board' \in [Board -> [owner: Person \cup {Nobody}, deletedAt: Stamp]]
  BY <1>4 DEF Depart, PassBoards
<1>6. /\ ws' \in [state: {"live", "deleted", "erased"}, offeredTo: Person \cup {Nobody}]
      /\ ws'.state = ws.state
      /\ ws'.offeredTo = IF ws.offeredTo = p THEN Nobody ELSE ws.offeredTo
  BY DEF Depart, WithdrawOfferTo, TypeOK
<1>7. Owners' = {owner}
  BY <1>2 DEF Owners
<1>8. \A q \in Person : IsMember(q)' <=> IsMember(q) /\ q # p
  BY <1>2 DEF IsMember
<1>9. \A b \in Board : Exists(b)' <=> Exists(b)
  BY <1>1, <1>4, FounderAssumption DEF Exists
<1>10. OneOwner' /\ NotErased'
  BY <1>1, <1>6, <1>7 DEF OneOwner, NotErased
<1>11. OfferStands'
  BY <1>2, <1>6 DEF OfferStands, TypeOK
<1>12. BoardsFollowTheWorkspace'
  <2> SUFFICES ASSUME NEW b \in Board \ strays, Exists(b)
               PROVE  /\ member'[board'[b].owner] # "none"
                      /\ ws'.state = "deleted" => board'[b].deletedAt # Never
    BY <1>9 DEF BoardsFollowTheWorkspace, IsMember
  <2>1. /\ member[board[b].owner] # "none" /\ board[b].owner \in Person
        /\ ws.state = "deleted" => board[b].deletedAt # Never
    BY DEF BoardsFollowTheWorkspace, Exists, IsMember, TypeOK
  <2>2. board'[b].owner # p
    BY <1>1, <1>4
  <2> QED
    BY <1>1, <1>2, <1>4, <1>6, <2>1, <2>2
<1> QED
  BY <1>1, <1>3, <1>4, <1>5, <1>6, <1>8, <1>9, <1>10, <1>11, <1>12

\* What a request under way read of the owner, the offer and its target.
LEMMA ReadUnderLock ==
  ASSUME IInv, NEW c \in Call, call[c].op \in OnMember
  PROVE  /\ call[c].person \in Person
         /\ Owners = {call[c].owner} /\ call[c].offeredTo = ws.offeredTo
         /\ member[call[c].person] \in {"admin", "member"}
  BY DEF IInv, CallsAreOn, ReadsStand, OnMember, OnSomebody, Locking

LEMMA RemoveMemberInv ==
  ASSUME IInv, NEW c \in Call, RemoveMember(c)
  PROVE  IInv'
<1> USE DEF IInv
<1> DEFINE p == call[c].person
           owner == call[c].owner
<1>1. /\ Commit(c, "remove") /\ "remove" \in Locking /\ call[c].op = "remove"
      /\ Depart(p, owner, call[c].offeredTo)
      /\ grant' = Shut(p)
      /\ out' = IF NotAskedIn(p)
                  THEN [out EXCEPT ![p] = LiveBoards \ Redeeming(p)] ELSE out
      /\ UNCHANGED <<invite, disabled, acts, strays>>
  BY DEF RemoveMember, Commit, Locking
<1>2. /\ p \in Person /\ Owners = {owner} /\ call[c].offeredTo = ws.offeredTo
      /\ member[p] \in {"admin", "member"}
  BY <1>1, ReadUnderLock DEF OnMember
<1>3. /\ member' \in [Person -> Standing]
      /\ board' \in [Board -> [owner: Person \cup {Nobody}, deletedAt: Stamp]]
      /\ ws' \in [state: {"live", "deleted", "erased"}, offeredTo: Person \cup {Nobody}]
      /\ OneOwner' /\ NotErased' /\ OfferStands' /\ BoardsFollowTheWorkspace'
      /\ owner \in Person /\ owner # p
      /\ \A q \in Person : IsMember(q)' <=> IsMember(q) /\ q # p
      /\ \A b \in Board : /\ Exists(b)' <=> Exists(b)
                          /\ board'[b].owner = IF board[b].owner = p THEN owner
                                               ELSE board[b].owner
  BY <1>1, <1>2, DepartStep
<1>4. /\ grant' \in [Board -> [Person -> Grant]]
      /\ \A b \in Board, q \in Person : q # p => grant'[b][q] = grant[b][q]
      /\ \A b \in LiveBoards : IsRevoked(grant'[b][p])
  <2>1. \A b \in Board : grant[b] \in [Person -> Grant] /\ grant[b][p] \in Grant
    BY <1>2 DEF TypeOK
  <2> DEFINE shut(b) == [role |-> IF HasGrant(grant[b][p]) THEN grant[b][p].role ELSE "editor",
                         status |-> "revoked"]
  <2>2. \A b \in Board : shut(b) \in Grant /\ IsRevoked(shut(b))
    BY <2>1, GrantShape DEF Grant, Role, IsRevoked, HasGrant
  <2>3. grant' = [b \in Board |->
                    IF b \in LiveBoards THEN [grant[b] EXCEPT ![p] = shut(b)] ELSE grant[b]]
    BY <1>1 DEF Shut
  <2> HIDE DEF shut, p
  <2>4. \A b \in LiveBoards : b \in Board
    BY DEF LiveBoards
  <2> QED
    BY <1>2, <2>1, <2>2, <2>3, <2>4
<1>5. out' \in [Person -> SUBSET Board]
  BY <1>1 DEF TypeOK, LiveBoards
<1>6. TypeOK'
  BY <1>1, <1>3, <1>4, <1>5, CommitFrees DEF TypeOK
<1>7. ShutIsShut'
  <2> SUFFICES ASSUME NEW q \in Person, NEW b \in out'[q]
               PROVE  /\ ~IsMember(q)' /\ Exists(b)' /\ board'[b].owner # q
                      /\ IsRevoked(grant'[b][q])
                      /\ \A i \in Invite : ~IsPendingTo(i, q)'
    BY DEF ShutIsShut, IsRevoked
  <2>1. \A i \in Invite : IsPendingTo(i, q)' <=> IsPendingTo(i, q)
    BY <1>1 DEF IsPendingTo
  <2>2. out[p] = {}
    BY <1>2 DEF ShutIsShut, IsMember, TypeOK
  <2>3. CASE q # p
    <3>1. b \in out[q] /\ b \in Board
      BY <1>1, <1>2, <2>3 DEF TypeOK
    <3>2. /\ ~IsMember(q) /\ Exists(b) /\ board[b].owner # q /\ IsRevoked(grant[b][q])
          /\ \A i \in Invite : ~IsPendingTo(i, q)
      BY <3>1 DEF ShutIsShut
    <3>3. q # owner
      BY <1>2, <3>2 DEF Owners, IsMember
    <3> QED
      BY <1>3, <1>4, <2>1, <2>3, <3>1, <3>2, <3>3
  <2>4. CASE q = p
    <3>1. NotAskedIn(p) /\ b \in LiveBoards
      BY <1>1, <1>2, <2>2, <2>4 DEF TypeOK
    <3>2. \A i \in Invite : ~IsPendingTo(i, p)
      BY <3>1 DEF NotAskedIn, IsPendingTo
    <3>3. b \in Board /\ Exists(b)
      BY <3>1 DEF LiveBoards
    <3> QED
      BY <1>2, <1>3, <1>4, <2>1, <2>4, <3>1, <3>2, <3>3
  <2> QED
    BY <2>3, <2>4
<1>8. RedeemsStand'
  <2> SUFFICES ASSUME NEW d \in Call, call'[d].op = "redeem", NEW b \in call'[d].boards
               PROVE  b \notin out'[call'[d].person]
    BY DEF RedeemsStand
  <2>1. call'[d] = call[d] /\ call[d].person \in Person
    BY <1>1, IdleRecord DEF Commit, Goto, TypeOK, CallsAreOn, OnSomebody
  <2>2. b \notin out[call[d].person]
    BY <2>1 DEF RedeemsStand
  <2>3. call[d].person = p => b \notin LiveBoards \ Redeeming(p)
    BY <2>1 DEF Redeeming, LiveBoards
  <2> HIDE DEF p
  <2> QED
    BY <1>1, <1>2, <2>1, <2>2, <2>3 DEF TypeOK
<1> QED
  BY <1>1, <1>3, <1>6, <1>7, <1>8, CommitFrees

LEMMA LeaveWorkspaceInv ==
  ASSUME IInv, NEW c \in Call, LeaveWorkspace(c)
  PROVE  IInv'
<1> USE DEF IInv
<1> DEFINE p == call[c].person
           owner == call[c].owner
<1>1. /\ Commit(c, "leave") /\ "leave" \in Locking /\ call[c].op = "leave"
      /\ Depart(p, owner, call[c].offeredTo)
      /\ grant' = [b \in Board |->
           IF b \in LiveBoards /\ grant[b][p].status = "active"
             THEN [grant[b] EXCEPT ![p] = NoGrant] ELSE grant[b]]
      /\ UNCHANGED <<invite, disabled, acts, strays, out>>
  BY DEF LeaveWorkspace, Commit, Locking, history
<1>2. /\ p \in Person /\ Owners = {owner} /\ call[c].offeredTo = ws.offeredTo
      /\ member[p] \in {"admin", "member"}
  BY <1>1, ReadUnderLock DEF OnMember
<1>3. /\ member' \in [Person -> Standing]
      /\ board' \in [Board -> [owner: Person \cup {Nobody}, deletedAt: Stamp]]
      /\ ws' \in [state: {"live", "deleted", "erased"}, offeredTo: Person \cup {Nobody}]
      /\ OneOwner' /\ NotErased' /\ OfferStands' /\ BoardsFollowTheWorkspace'
      /\ owner \in Person /\ owner # p
      /\ \A q \in Person : IsMember(q)' <=> IsMember(q) /\ q # p
      /\ \A b \in Board : /\ Exists(b)' <=> Exists(b)
                          /\ board'[b].owner = IF board[b].owner = p THEN owner
                                               ELSE board[b].owner
  BY <1>1, <1>2, DepartStep
<1>4. /\ grant' \in [Board -> [Person -> Grant]]
      /\ \A b \in Board, q \in Person : q # p => grant'[b][q] = grant[b][q]
  <2> HIDE DEF p
  <2> QED
    BY <1>1, <1>2, NoGrantIsGrant DEF TypeOK
<1>5. TypeOK'
  BY <1>1, <1>3, <1>4, CommitFrees DEF TypeOK
<1>6. ShutIsShut'
  <2> SUFFICES ASSUME NEW q \in Person, NEW b \in out[q]
               PROVE  /\ ~IsMember(q)' /\ Exists(b)' /\ board'[b].owner # q
                      /\ IsRevoked(grant'[b][q])
                      /\ \A i \in Invite : ~IsPendingTo(i, q)'
    BY <1>1 DEF ShutIsShut, IsRevoked
  <2>1. \A i \in Invite : IsPendingTo(i, q)' <=> IsPendingTo(i, q)
    BY <1>1 DEF IsPendingTo
  <2>2. /\ b \in Board /\ ~IsMember(q) /\ Exists(b) /\ board[b].owner # q
        /\ IsRevoked(grant[b][q]) /\ \A i \in Invite : ~IsPendingTo(i, q)
    BY DEF ShutIsShut, TypeOK
  <2>3. q # owner /\ q # p
    BY <1>2, <2>2 DEF Owners, IsMember
  <2> QED
    BY <1>3, <1>4, <2>1, <2>2, <2>3
<1> QED
  BY <1>1, <1>3, <1>5, <1>6, CommitFrees

LEMMA OfferOwnershipInv ==
  ASSUME IInv, NEW c \in Call, OfferOwnership(c)
  PROVE  IInv'
<1> USE DEF IInv
<1> DEFINE p == call[c].person
<1>1. /\ Commit(c, "offer") /\ "offer" \in Locking /\ call[c].op = "offer"
      /\ ws' = [ws EXCEPT !.offeredTo = p]
      /\ UNCHANGED <<member, board, grant, invite, disabled, acts, strays, out>>
  BY DEF OfferOwnership, Commit, Locking, history
<1>2. p \in Person /\ member[p] \in {"admin", "member"}
  BY <1>1, ReadUnderLock DEF OnMember
<1>3. /\ ws' \in [state: {"live", "deleted", "erased"}, offeredTo: Person \cup {Nobody}]
      /\ ws'.state = ws.state /\ ws'.offeredTo = p
  BY <1>1, <1>2 DEF TypeOK
<1>4. TypeOK'
  BY <1>1, <1>3, CommitFrees DEF TypeOK
<1>5. OneOwner' /\ NotErased' /\ OfferStands'
  BY <1>1, <1>2, <1>3 DEF OneOwner, Owners, NotErased, OfferStands
<1>6. ShutIsShut' /\ BoardsFollowTheWorkspace'
  BY <1>1, <1>3 DEF ShutIsShut, BoardsFollowTheWorkspace, Exists, IsMember, IsPendingTo
<1> QED
  BY <1>1, <1>4, <1>5, <1>6, CommitFrees

LEMMA WithdrawOwnershipOfferInv ==
  ASSUME IInv, NEW c \in Call, WithdrawOwnershipOffer(c)
  PROVE  IInv'
<1> USE DEF IInv
<1>1. /\ Commit(c, "withdraw") /\ "withdraw" \in Locking
      /\ ws' = [ws EXCEPT !.offeredTo = Nobody]
      /\ UNCHANGED <<member, board, grant, invite, disabled, acts, strays, out>>
  BY DEF WithdrawOwnershipOffer, Locking, history
<1>2. /\ ws' \in [state: {"live", "deleted", "erased"}, offeredTo: Person \cup {Nobody}]
      /\ ws'.state = ws.state /\ ws'.offeredTo = Nobody
  BY <1>1 DEF TypeOK
<1>3. TypeOK'
  BY <1>1, <1>2, CommitFrees DEF TypeOK
<1>4. OneOwner' /\ NotErased' /\ OfferStands'
  BY <1>1, <1>2 DEF OneOwner, Owners, NotErased, OfferStands
<1>5. ShutIsShut' /\ BoardsFollowTheWorkspace'
  BY <1>1, <1>2 DEF ShutIsShut, BoardsFollowTheWorkspace, Exists, IsMember, IsPendingTo
<1> QED
  BY <1>1, <1>3, <1>4, <1>5, CommitFrees

\* The person the ownership is offered to is in the workspace and not its
\* owner, so accepting it leaves one owner.
LEMMA AcceptOwnershipStep ==
  ASSUME IInv, NEW c \in Call, AcceptOwnership(c)
  PROVE  LET p == call[c].person
             owner == call[c].owner
         IN  /\ p \in Person /\ owner \in Person /\ p # owner
             /\ ws.offeredTo = p /\ Owners = {owner} /\ IsMember(p)
             /\ \A q \in Person : member'[q] = IF q = p THEN "owner"
                                               ELSE IF q = owner THEN "admin" ELSE member[q]
             /\ member' \in [Person -> Standing]
             /\ ws' \in [state: {"live", "deleted", "erased"}, offeredTo: Person \cup {Nobody}]
             /\ ws'.state = ws.state /\ ws'.offeredTo = Nobody
             /\ Owners' = {p}
             /\ \A q \in Person : IsMember(q)' <=> IsMember(q)
<1> USE DEF IInv
<1> DEFINE p == call[c].person
           owner == call[c].owner
<1>1. /\ call[c].op = "accept" /\ HandOver(owner, p)
      /\ ws' = [ws EXCEPT !.offeredTo = Nobody]
  BY DEF AcceptOwnership, Commit
<1>2. /\ p \in Person /\ ws.offeredTo = p /\ Owners = {owner}
  BY <1>1 DEF ReadsStand, CallsAreOn, Locking, OnSomebody
<1>3. member[p] \in {"admin", "member"} /\ owner \in Person /\ member[owner] = "owner"
  BY <1>2, FounderAssumption DEF OfferStands, Owners
<1>4. p # owner
  BY <1>3
<1>5. /\ \A q \in Person : member'[q] = IF q = p THEN "owner"
                                        ELSE IF q = owner THEN "admin" ELSE member[q]
      /\ member' \in [Person -> Standing]
  <2> HIDE DEF p, owner
  <2> QED
    BY <1>1, <1>2, <1>3, <1>4 DEF HandOver, TypeOK, Standing, WorkspaceRole
<1>6. /\ ws' \in [state: {"live", "deleted", "erased"}, offeredTo: Person \cup {Nobody}]
      /\ ws'.state = ws.state /\ ws'.offeredTo = Nobody
  BY <1>1 DEF TypeOK
<1>7. Owners' = {p}
  <2> HIDE DEF p, owner
  <2> QED
    BY <1>2, <1>3, <1>5 DEF Owners
<1>8. \A q \in Person : IsMember(q)' <=> IsMember(q)
  <2> HIDE DEF p, owner
  <2> QED
    BY <1>3, <1>5 DEF IsMember
<1> QED
  BY <1>2, <1>3, <1>4, <1>5, <1>6, <1>7, <1>8 DEF IsMember

LEMMA AcceptOwnershipInv ==
  ASSUME IInv, NEW c \in Call, AcceptOwnership(c)
  PROVE  IInv'
<1> USE DEF IInv
<1>1. /\ Commit(c, "accept") /\ "accept" \in Locking
      /\ UNCHANGED <<board, grant, invite, disabled, acts, strays, out>>
  BY DEF AcceptOwnership, Locking, history
<1>2. /\ call[c].person \in Person /\ Owners' = {call[c].person}
      /\ member' \in [Person -> Standing]
      /\ ws' \in [state: {"live", "deleted", "erased"}, offeredTo: Person \cup {Nobody}]
      /\ ws'.state = ws.state /\ ws'.offeredTo = Nobody
      /\ \A q \in Person : IsMember(q)' <=> IsMember(q)
  BY AcceptOwnershipStep
<1>3. TypeOK'
  BY <1>1, <1>2, CommitFrees DEF TypeOK
<1>4. OneOwner' /\ NotErased' /\ OfferStands'
  BY <1>2 DEF OneOwner, NotErased, OfferStands
<1>5. ShutIsShut' /\ BoardsFollowTheWorkspace'
  BY <1>1, <1>2 DEF ShutIsShut, BoardsFollowTheWorkspace, Exists, IsPendingTo, TypeOK
<1> QED
  BY <1>1, <1>3, <1>4, <1>5, CommitFrees

\* A write of grants, in which nobody shut out is let back in.
LEMMA GrantsStand ==
  ASSUME IInv, UNCHANGED <<ws, member, board, invite, disabled, strays>>,
         \A p \in Person : out'[p] \subseteq out[p],
         \A p \in Person : \A b \in out'[p] : IsRevoked(grant'[b][p])
  PROVE  /\ OneOwner' /\ InvitesAreTo' /\ ShutIsShut' /\ NotErased'
         /\ OfferStands' /\ BoardsFollowTheWorkspace'
<1> USE DEF IInv
<1>1. Owners' = Owners /\ \A p : IsMember(p)' <=> IsMember(p)
  BY DEF Owners, IsMember
<1>2. \A b : Exists(b)' <=> Exists(b)
  BY DEF Exists
<1>3. \A i, p : IsPendingTo(i, p)' <=> IsPendingTo(i, p)
  BY DEF IsPendingTo
<1>4. OneOwner' /\ InvitesAreTo' /\ NotErased' /\ OfferStands'
  BY <1>1 DEF OneOwner, InvitesAreTo, NotErased, OfferStands
<1>5. ShutIsShut'
  <2> SUFFICES ASSUME NEW p \in Person, NEW b \in out'[p]
               PROVE  /\ ~IsMember(p)' /\ Exists(b)' /\ board'[b].owner # p
                      /\ IsRevoked(grant'[b][p])
                      /\ \A i \in Invite : ~IsPendingTo(i, p)'
    BY DEF ShutIsShut, IsRevoked
  <2> QED
    BY <1>1, <1>2, <1>3 DEF ShutIsShut
<1>6. BoardsFollowTheWorkspace'
  BY <1>1, <1>2 DEF BoardsFollowTheWorkspace
<1> QED
  BY <1>4, <1>5, <1>6

\* A request about a guest writes only grants that are there, and lets nobody
\* back in.
LEMMA GuestInv ==
  ASSUME IInv, NEW c \in Call, NEW op \in OnGuest, Commit(c, op),
         NEW new \in [Board -> Grant],
         \A b \in Board : IsRevoked(grant[b][call[c].person]) => IsRevoked(new[b]),
         grant' = [b \in Board |->
           IF b \in call[c].boards /\ HasGrant(grant[b][call[c].person])
             THEN [grant[b] EXCEPT ![call[c].person] = new[b]] ELSE grant[b]],
         UNCHANGED <<ws, member, board, invite, disabled, acts, strays, out>>
  PROVE  IInv'
<1> USE DEF IInv
<1> DEFINE p == call[c].person
<1>1. op \in Locking /\ p \in Person
  BY DEF Commit, CallsAreOn, OnSomebody, Locking, OnGuest
<1>2. /\ grant' \in [Board -> [Person -> Grant]]
      /\ \A b \in Board, q \in Person :
           IsRevoked(grant[b][q]) => IsRevoked(grant'[b][q])
  BY <1>1 DEF TypeOK, IsRevoked
<1>3. \A q \in Person : \A b \in out[q] : IsRevoked(grant'[b][q])
  BY <1>2 DEF ShutIsShut, TypeOK
<1>4. TypeOK'
  BY <1>1, <1>2, CommitFrees DEF TypeOK
<1> QED
  BY <1>1, <1>3, <1>4, CommitFrees, GrantsStand DEF TypeOK

LEMMA SetGuestRoleInv ==
  ASSUME IInv, NEW c \in Call, SetGuestRole(c)
  PROVE  IInv'
<1> DEFINE p == call[c].person
<1>1. Commit(c, "guestRole") /\ call[c].op = "guestRole" /\ "guestRole" \in OnGuest
  BY DEF SetGuestRole, Commit, OnGuest
<1>2. p \in Person /\ call[c].role \in {"editor", "viewer"}
  BY <1>1 DEF IInv, CallsAreOn, ReadsStand, OnSomebody, Locking
<1> DEFINE new == [b \in Board |->
             IF HasGrant(grant[b][p]) THEN [grant[b][p] EXCEPT !.role = call[c].role]
             ELSE NoGrant]
<1>3. ASSUME NEW b \in Board, HasGrant(grant[b][p])
      PROVE  /\ [grant[b][p] EXCEPT !.role = call[c].role] \in Grant
             /\ IsRevoked(grant[b][p]) =>
                  IsRevoked([grant[b][p] EXCEPT !.role = call[c].role])
  <2>1. grant[b][p] \in [role: Role, status: {"active", "revoked"}]
    BY <1>2, <1>3 DEF IInv, TypeOK, Grant, HasGrant
  <2> QED
    BY <1>2, <2>1 DEF Grant, Role, IsRevoked
<1>4. /\ new \in [Board -> Grant]
      /\ \A b \in Board : IsRevoked(grant[b][p]) => IsRevoked(new[b])
  BY <1>2, <1>3, NoGrantIsGrant, GrantShape DEF IInv, TypeOK
<1>5. grant' = [b \in Board |-> IF b \in call[c].boards /\ HasGrant(grant[b][p])
                  THEN [grant[b] EXCEPT ![p] = new[b]] ELSE grant[b]]
  BY <1>2 DEF SetGuestRole, StillGranted, IInv, TypeOK
<1> HIDE DEF new
<1> QED
  BY <1>1, <1>4, <1>5, GuestInv DEF SetGuestRole, history

LEMMA RemoveGuestInv ==
  ASSUME IInv, NEW c \in Call, RemoveGuest(c)
  PROVE  IInv'
<1> DEFINE p == call[c].person
<1>1. Commit(c, "guestOff") /\ call[c].op = "guestOff" /\ "guestOff" \in OnGuest
  BY DEF RemoveGuest, Commit, OnGuest
<1>2. p \in Person
  BY <1>1 DEF IInv, CallsAreOn, ReadsStand, OnSomebody, Locking
<1> DEFINE new == [b \in Board |->
             IF HasGrant(grant[b][p]) THEN [grant[b][p] EXCEPT !.status = "revoked"]
             ELSE NoGrant]
<1>3. ASSUME NEW b \in Board, HasGrant(grant[b][p])
      PROVE  /\ [grant[b][p] EXCEPT !.status = "revoked"] \in Grant
             /\ IsRevoked(grant[b][p]) =>
                  IsRevoked([grant[b][p] EXCEPT !.status = "revoked"])
  <2>1. grant[b][p] \in [role: Role, status: {"active", "revoked"}]
    BY <1>2, <1>3 DEF IInv, TypeOK, Grant, HasGrant
  <2> QED
    BY <1>2, <2>1 DEF Grant, Role, IsRevoked
<1>4. /\ new \in [Board -> Grant]
      /\ \A b \in Board : IsRevoked(grant[b][p]) => IsRevoked(new[b])
  BY <1>2, <1>3, NoGrantIsGrant, GrantShape DEF IInv, TypeOK
<1>5. grant' = [b \in Board |-> IF b \in call[c].boards /\ HasGrant(grant[b][p])
                  THEN [grant[b] EXCEPT ![p] = new[b]] ELSE grant[b]]
  BY <1>2 DEF RemoveGuest, StillGranted, IInv, TypeOK
<1> HIDE DEF new
<1> QED
  BY <1>1, <1>4, <1>5, GuestInv DEF RemoveGuest, history

LEMMA CommitLockingInv ==
  ASSUME IInv, NEW c \in Call, CommitLocking(c)
  PROVE  IInv'
  BY ChangeMemberRoleInv, RemoveMemberInv, LeaveWorkspaceInv, OfferOwnershipInv,
     WithdrawOwnershipOfferInv, AcceptOwnershipInv, SetGuestRoleInv, RemoveGuestInv
  DEF CommitLocking

-----------------------------------------------------------------------------
(* What the requests that take no lock write.                              *)

\* One such request is over, and has not disturbed what others go by.
LEMMA FinishReads ==
  ASSUME IInv, NEW c \in Call, call[c].op \notin Locking,
         call' = [call EXCEPT ![c] = Idle], lock' = lock,
         Owners' = Owners, ws'.offeredTo = ws.offeredTo,
         \A p \in Person : IsMember(p) => member'[p] = member[p],
         \A p \in Person : out'[p] \subseteq out[p],
         \A d \in Call \ {c} : call[d].op = "join" =>
           /\ invite'[call[d].invite].state = "pending"
           /\ invite'[call[d].invite].to = call[d].person
  PROVE  /\ call' \in [Call -> CallState]
         /\ CallsAreOn' /\ LockIsHeld' /\ ReadsStand' /\ JoinsHold' /\ RedeemsStand'
<1> USE DEF IInv
<1>1. /\ call' \in [Call -> CallState]
      /\ \A d \in Call : call'[d] = IF d = c THEN Idle ELSE call[d]
  BY IdleRecord DEF TypeOK
<1>2. Idle.op \notin Locking /\ Idle.op \notin OnSomebody
      /\ Idle.op # "join" /\ Idle.op # "invite"
  BY IdleRecord DEF Locking, OnSomebody
<1>3. CallsAreOn' /\ LockIsHeld'
  BY <1>1, <1>2 DEF CallsAreOn, LockIsHeld
<1>4. ReadsStand'
  <2> SUFFICES ASSUME NEW d \in Call, call'[d].op \in Locking
               PROVE  /\ Owners' = {call'[d].owner}
                      /\ call'[d].offeredTo = ws'.offeredTo
                      /\ call'[d].op \in OnMember =>
                           member'[call'[d].person] \in {"admin", "member"}
                      /\ call'[d].op = "accept" => ws'.offeredTo = call'[d].person
                      /\ call'[d].op = "role" => call'[d].role \in {"admin", "member"}
                      /\ call'[d].op = "guestRole" => call'[d].role \in {"editor", "viewer"}
    BY DEF ReadsStand
  <2>1. call'[d] = call[d]
    BY <1>1, <1>2
  <2>2. call[d].op \in OnMember => call[d].person \in Person /\ IsMember(call[d].person)
    BY <2>1, ReadUnderLock DEF IsMember
  <2> QED
    BY <2>1, <2>2 DEF ReadsStand
<1>5. JoinsHold'
  BY <1>1, <1>2, IdleRecord, CallsAssumption DEF JoinsHold, IsPendingTo
<1>6. RedeemsStand'
  BY <1>1, IdleRecord, RedeemsKeep
<1> QED
  BY <1>1, <1>3, <1>4, <1>5, <1>6

LEMMA CreateBoardInv ==
  ASSUME IInv, NEW c \in Call, CreateBoard(c)
  PROVE  IInv'
<1> USE DEF IInv
<1> DEFINE p == call[c].person
<1>1. PICK b \in Board :
        /\ board[b] = NoBoard
        /\ board' = [board EXCEPT ![b] = [owner |-> p, deletedAt |-> Never]]
        /\ strays' = IF IsMember(p) /\ Active(p) /\ ws.state = "live"
                       THEN strays ELSE strays \cup {b}
  BY DEF CreateBoard
<1>2. /\ call[c].op = "create" /\ call' = [call EXCEPT ![c] = Idle]
      /\ UNCHANGED <<ws, member, grant, invite, disabled, lock, acts, out>>
  BY DEF CreateBoard, Goto
<1>3. p \in Person /\ call[c].op \notin Locking
  BY <1>2 DEF CallsAreOn, OnSomebody, Locking
<1>4. Owners' = Owners
  BY <1>2 DEF Owners
<1>5. /\ call' \in [Call -> CallState]
      /\ CallsAreOn' /\ LockIsHeld' /\ ReadsStand' /\ JoinsHold' /\ RedeemsStand'
  BY <1>2, <1>3, <1>4, FinishReads DEF JoinsHold, IsPendingTo
<1>6. ~Exists(b) /\ p # Nobody
  BY <1>1, <1>3, FounderAssumption DEF Exists, NoBoard
<1>7. \A x \in Board : /\ x # b => board'[x] = board[x]
                       /\ x = b => board'[x].owner = p /\ board'[x].deletedAt = Never
  BY <1>1 DEF TypeOK
<1>8. TypeOK'
  <2>1. [owner |-> p, deletedAt |-> Never] \in [owner: Person \cup {Nobody}, deletedAt: Stamp]
    BY <1>3 DEF Stamp
  <2>2. board' \in [Board -> [owner: Person \cup {Nobody}, deletedAt: Stamp]]
    BY <1>1, <2>1 DEF TypeOK
  <2> QED
    BY <1>1, <1>2, <1>5, <2>2 DEF TypeOK
<1>9. OneOwner' /\ InvitesAreTo' /\ NotErased' /\ OfferStands'
  BY <1>2, <1>4 DEF OneOwner, InvitesAreTo, NotErased, OfferStands
<1>10. ShutIsShut'
  BY <1>2, <1>6, <1>7 DEF ShutIsShut, Exists, IsMember, IsPendingTo, TypeOK
<1>11. BoardsFollowTheWorkspace'
  <2> SUFFICES ASSUME NEW x \in Board \ strays', board'[x].owner # Nobody
               PROVE  /\ member[board'[x].owner] # "none"
                      /\ ws.state = "deleted" => board'[x].deletedAt # Never
    BY <1>2 DEF BoardsFollowTheWorkspace, Exists, IsMember
  <2>1. CASE x = b
    BY <1>1, <1>7, <2>1 DEF IsMember
  <2>2. CASE x # b
    BY <1>1, <1>7, <2>2 DEF BoardsFollowTheWorkspace, Exists, IsMember
  <2> QED
    BY <2>1, <2>2
<1> QED
  BY <1>5, <1>8, <1>9, <1>10, <1>11

LEMMA CreateInviteInv ==
  ASSUME IInv, NEW c \in Call, CreateInvite(c)
  PROVE  IInv'
<1> USE DEF IInv
<1> DEFINE q == call[c].person
<1>1. /\ call[c].op = "invite" /\ call' = [call EXCEPT ![c] = Idle]
      /\ UNCHANGED <<ws, member, board, grant, disabled, lock, acts, strays>>
  BY DEF CreateInvite, Goto
<1>2. q \in Person /\ call[c].op \notin Locking
  BY <1>1 DEF CallsAreOn, OnSomebody, Locking
<1>3. Owners' = Owners
  BY <1>1 DEF Owners
<1>4. CASE UNCHANGED <<invite, out>>
  <2>1. /\ call' \in [Call -> CallState]
        /\ CallsAreOn' /\ LockIsHeld' /\ ReadsStand' /\ JoinsHold' /\ RedeemsStand'
    BY <1>1, <1>2, <1>3, <1>4, FinishReads DEF JoinsHold, IsPendingTo
  <2>2. TypeOK'
    BY <1>1, <1>4, <2>1 DEF TypeOK
  <2> QED
    BY <1>1, <1>4, <2>1, <2>2, TablesStand
<1>5. ASSUME NEW i \in Invite, invite[i].state = "none",
             invite' = [invite EXCEPT ![i] =
               [to |-> q, role |-> call[c].role, state |-> "pending", expired |-> FALSE]],
             out' = [out EXCEPT ![q] = {}], call[c].role \in {"admin", "member"}
      PROVE  IInv'
  <2>1. /\ invite' \in [Invite -> [to: Person \cup {Nobody}, role: {"admin", "member"},
                                   state: {"none", "pending", "accepted", "revoked"},
                                   expired: BOOLEAN]]
        /\ invite'[i].to = q
        /\ \A j \in Invite : j # i => invite'[j] = invite[j]
    BY <1>2, <1>5 DEF TypeOK
  <2>2. /\ call' \in [Call -> CallState]
        /\ CallsAreOn' /\ LockIsHeld' /\ ReadsStand' /\ JoinsHold' /\ RedeemsStand'
    <3>1. \A d \in Call : call[d].op = "join" =>
            /\ invite'[call[d].invite].state = "pending"
            /\ invite'[call[d].invite].to = call[d].person
      BY <1>5, <2>1 DEF JoinsHold, IsPendingTo
    <3>2. \A p \in Person : out'[p] \subseteq out[p]
      BY <1>5 DEF TypeOK
    <3> QED
      BY <1>1, <1>2, <1>3, <3>1, <3>2, FinishReads
  <2>3. TypeOK'
    BY <1>1, <1>2, <1>5, <2>1, <2>2 DEF TypeOK
  <2>4. OneOwner' /\ InvitesAreTo' /\ NotErased' /\ OfferStands'
    BY <1>1, <1>2, <1>3, <2>1 DEF OneOwner, InvitesAreTo, NotErased, OfferStands
  <2>5. \A p \in Person : /\ p = q => out'[p] = {}
                          /\ p # q => out'[p] = out[p]
    BY <1>5 DEF TypeOK
  <2>6. ShutIsShut'
    BY <1>1, <2>1, <2>5 DEF ShutIsShut, Exists, IsMember, IsPendingTo
  <2>7. BoardsFollowTheWorkspace'
    BY <1>1 DEF BoardsFollowTheWorkspace, Exists, IsMember
  <2> QED
    BY <2>2, <2>3, <2>4, <2>6, <2>7
<1>6. call[c].role \in {"admin", "member"}
  BY <1>1, InviteRoleAssumption DEF CallsAreOn
<1> QED
  BY <1>4, <1>5, <1>6 DEF CreateInvite

\* Somebody joins by an invitation nobody else could answer meanwhile.
LEMMA JoinStep ==
  ASSUME IInv, NEW c \in Call, AcceptInvite(c)
  PROVE  LET p == call[c].person
             i == call[c].invite
         IN  /\ p \in Person /\ i \in Invite /\ IsPendingTo(i, p)
             /\ call[c].op = "join" /\ call' = [call EXCEPT ![c] = Idle]
             /\ UNCHANGED <<ws, board, disabled, lock, acts, strays>>
             /\ \A j \in Invite : j # i => invite'[j] = invite[j]
             /\ invite'[i].state = "accepted" /\ invite'[i].to = p
             /\ invite' \in [Invite -> [to: Person \cup {Nobody}, role: {"admin", "member"},
                              state: {"none", "pending", "accepted", "revoked"},
                              expired: BOOLEAN]]
             /\ member' \in [Person -> Standing]
             /\ \A q \in Person : q # p => member'[q] = member[q]
             /\ IsMember(p) => member'[p] = member[p]
             /\ ~IsMember(p) => member'[p] \in {"admin", "member"}
             /\ Owners' = Owners
             /\ \A q \in Person : IsMember(q)' <=> IsMember(q) \/ q = p
<1> USE DEF IInv
<1> DEFINE p == call[c].person
           i == call[c].invite
<1>1. /\ call[c].op = "join" /\ call' = [call EXCEPT ![c] = Idle]
      /\ invite' = [invite EXCEPT ![i].state = "accepted"]
      /\ IF IsMember(p) THEN member' = member
         ELSE member' = [member EXCEPT ![p] = invite[i].role]
      /\ UNCHANGED <<ws, board, disabled, lock, acts, strays>>
  BY DEF AcceptInvite, Goto
<1>2. p \in Person /\ i \in Invite /\ IsPendingTo(i, p)
  BY <1>1 DEF CallsAreOn, OnSomebody, JoinsHold
<1>3. invite[i].role \in {"admin", "member"}
  BY <1>2 DEF TypeOK
<1> HIDE DEF p, i
<1>4. /\ invite'[i].state = "accepted" /\ invite'[i].to = p
      /\ \A j \in Invite : j # i => invite'[j] = invite[j]
      /\ invite' \in [Invite -> [to: Person \cup {Nobody}, role: {"admin", "member"},
                       state: {"none", "pending", "accepted", "revoked"},
                       expired: BOOLEAN]]
  <2>1. /\ invite[i] \in [to: Person \cup {Nobody}, role: {"admin", "member"},
                           state: {"none", "pending", "accepted", "revoked"},
                           expired: BOOLEAN]
        /\ invite[i].to = p
    BY <1>2 DEF TypeOK, IsPendingTo
  <2>2. PICK new : new = [invite[i] EXCEPT !.state = "accepted"]
    OBVIOUS
  <2>3. /\ new \in [to: Person \cup {Nobody}, role: {"admin", "member"},
                    state: {"none", "pending", "accepted", "revoked"}, expired: BOOLEAN]
        /\ new.state = "accepted" /\ new.to = p
    BY <2>1, <2>2
  <2>4. invite' = [invite EXCEPT ![i] = new]
    BY <1>1, <2>2
  <2> QED
    BY <1>2, <2>3, <2>4 DEF TypeOK
<1>5. /\ member' \in [Person -> Standing]
      /\ \A q \in Person : q # p => member'[q] = member[q]
      /\ IsMember(p) => member'[p] = member[p]
      /\ ~IsMember(p) => member'[p] \in {"admin", "member"}
  BY <1>1, <1>2, <1>3 DEF TypeOK, Standing, WorkspaceRole
<1>6. Owners' = Owners
  BY <1>2, <1>5 DEF Owners, IsMember
<1>7. \A q \in Person : IsMember(q)' <=> IsMember(q) \/ q = p
  BY <1>2, <1>5 DEF IsMember
<1> QED
  BY <1>1, <1>2, <1>4, <1>5, <1>6, <1>7 DEF p, i

LEMMA AcceptInviteInv ==
  ASSUME IInv, NEW c \in Call, AcceptInvite(c)
  PROVE  IInv'
<1> USE DEF IInv
<1> DEFINE p == call[c].person
           i == call[c].invite
<1>1. /\ p \in Person /\ i \in Invite /\ IsPendingTo(i, p)
      /\ call[c].op = "join" /\ call' = [call EXCEPT ![c] = Idle]
      /\ UNCHANGED <<ws, board, disabled, lock, acts, strays>>
      /\ \A j \in Invite : j # i => invite'[j] = invite[j]
      /\ invite'[i].state = "accepted" /\ invite'[i].to = p
      /\ invite' \in [Invite -> [to: Person \cup {Nobody}, role: {"admin", "member"},
                       state: {"none", "pending", "accepted", "revoked"},
                       expired: BOOLEAN]]
      /\ member' \in [Person -> Standing]
      /\ \A q \in Person : q # p => member'[q] = member[q]
      /\ IsMember(p) => member'[p] = member[p]
      /\ ~IsMember(p) => member'[p] \in {"admin", "member"}
      /\ Owners' = Owners
      /\ \A q \in Person : IsMember(q)' <=> IsMember(q) \/ q = p
  BY JoinStep
<1>2. /\ IsMember(p) => UNCHANGED <<grant, out>>
      /\ ~IsMember(p) =>
           /\ grant' = [b \in Board |->
                IF IsRevoked(grant[b][p]) THEN [grant[b] EXCEPT ![p] = NoGrant]
                ELSE grant[b]]
           /\ out' = [out EXCEPT ![p] = {}]
  BY DEF AcceptInvite
<1>3. /\ grant' \in [Board -> [Person -> Grant]]
      /\ \A b \in Board, q \in Person : q # p => grant'[b][q] = grant[b][q]
      /\ out' \in [Person -> SUBSET Board] /\ out'[p] = {}
      /\ \A q \in Person : q # p => out'[q] = out[q]
  <2> HIDE DEF p, i
  <2>1. IsMember(p) => out[p] = {}
    BY <1>1 DEF ShutIsShut, TypeOK
  <2>2. CASE IsMember(p)
    BY <1>1, <1>2, <2>1, <2>2 DEF TypeOK
  <2>3. CASE ~IsMember(p)
    <3>1. \A b \in Board : grant'[b] = IF IsRevoked(grant[b][p])
            THEN [grant[b] EXCEPT ![p] = NoGrant] ELSE grant[b]
      BY <1>2, <2>3
    <3>2. \A b \in Board : /\ grant'[b] \in [Person -> Grant]
                           /\ \A q \in Person : q # p => grant'[b][q] = grant[b][q]
      <4> SUFFICES ASSUME NEW b \in Board
                   PROVE  /\ grant'[b] \in [Person -> Grant]
                          /\ \A q \in Person : q # p => grant'[b][q] = grant[b][q]
        OBVIOUS
      <4>1. grant[b] \in [Person -> Grant]
        BY DEF TypeOK
      <4>2. CASE IsRevoked(grant[b][p])
        <5>1. grant'[b] = [grant[b] EXCEPT ![p] = NoGrant]
          BY <3>1, <4>2
        <5> QED
          BY <4>1, <5>1, NoGrantIsGrant
      <4>3. CASE ~IsRevoked(grant[b][p])
        BY <3>1, <4>1, <4>3
      <4> QED
        BY <4>2, <4>3
    <3>3. grant' \in [Board -> [Person -> Grant]]
      BY <1>2, <2>3, <3>2
    <3> QED
      BY <1>1, <1>2, <2>3, <3>2, <3>3 DEF TypeOK
  <2> QED
    BY <2>2, <2>3
<1>4. "join" \notin Locking
  BY DEF Locking
<1>5. /\ call' \in [Call -> CallState]
      /\ CallsAreOn' /\ LockIsHeld' /\ ReadsStand' /\ JoinsHold' /\ RedeemsStand'
  <2>1. \A q \in Person : IsMember(q) => member'[q] = member[q]
    BY <1>1
  <2>2. \A d \in Call \ {c} : call[d].op = "join" =>
          /\ call[d].invite \in Invite /\ call[d].invite # i
          /\ invite[call[d].invite].state = "pending"
          /\ invite[call[d].invite].to = call[d].person
    BY <1>1 DEF JoinsHold, IsPendingTo
  <2> HIDE DEF p, i
  <2>3. \A d \in Call \ {c} : call[d].op = "join" =>
          /\ invite'[call[d].invite].state = "pending"
          /\ invite'[call[d].invite].to = call[d].person
    BY <1>1, <2>2
  <2>4. \A q \in Person : out'[q] \subseteq out[q]
    BY <1>3
  <2> QED
    BY <1>1, <1>4, <2>1, <2>3, <2>4, FinishReads
<1>6. TypeOK'
  BY <1>1, <1>3, <1>5 DEF TypeOK
<1>7. OneOwner' /\ NotErased'
  BY <1>1 DEF OneOwner, NotErased
<1>8. InvitesAreTo'
  BY <1>1 DEF InvitesAreTo
<1>9. OfferStands'
  <2> SUFFICES ASSUME ws.offeredTo # Nobody
               PROVE  member'[ws.offeredTo] \in {"admin", "member"}
    BY <1>1 DEF OfferStands
  <2>1. ws.offeredTo \in Person /\ member[ws.offeredTo] \in {"admin", "member"}
    BY DEF OfferStands, TypeOK
  <2> QED
    BY <1>1, <2>1 DEF IsMember
<1>10. ShutIsShut'
  <2> SUFFICES ASSUME NEW q \in Person, NEW b \in out'[q]
               PROVE  /\ ~IsMember(q)' /\ Exists(b)' /\ board'[b].owner # q
                      /\ IsRevoked(grant'[b][q])
                      /\ \A j \in Invite : ~IsPendingTo(j, q)'
    BY DEF ShutIsShut, IsRevoked
  <2>1. q # p /\ b \in out[q] /\ b \in Board
    BY <1>3 DEF TypeOK
  <2>2. /\ ~IsMember(q) /\ Exists(b) /\ board[b].owner # q
        /\ IsRevoked(grant[b][q]) /\ \A j \in Invite : ~IsPendingTo(j, q)
    BY <2>1 DEF ShutIsShut
  <2> HIDE DEF p, i
  <2>3. \A j \in Invite : ~IsPendingTo(j, q)'
    BY <1>1, <2>2 DEF IsPendingTo
  <2> QED
    BY <1>1, <1>3, <2>1, <2>2, <2>3 DEF Exists, IsRevoked
<1>11. BoardsFollowTheWorkspace'
  <2> SUFFICES ASSUME NEW b \in Board \ strays, board[b].owner # Nobody
               PROVE  /\ member'[board[b].owner] # "none"
                      /\ ws.state = "deleted" => board[b].deletedAt # Never
    BY <1>1 DEF BoardsFollowTheWorkspace, Exists, IsMember
  <2>1. /\ board[b].owner \in Person /\ IsMember(board[b].owner)
        /\ ws.state = "deleted" => board[b].deletedAt # Never
    BY DEF BoardsFollowTheWorkspace, Exists, TypeOK
  <2> QED
    BY <1>1, <2>1 DEF IsMember
<1> QED
  BY <1>1, <1>5, <1>6, <1>7, <1>8, <1>9, <1>10, <1>11

LEMMA DeleteWorkspaceInv ==
  ASSUME IInv, NEW c \in Call, DeleteWorkspace(c)
  PROVE  IInv'
<1> USE DEF IInv
<1>1. /\ call[c].op = "delete" /\ call' = [call EXCEPT ![c] = Idle]
      /\ ws' = [ws EXCEPT !.state = "deleted"]
      /\ board' = [b \in Board |-> IF b \in LiveBoards
                     THEN [board[b] EXCEPT !.deletedAt = "withWorkspace"] ELSE board[b]]
      /\ UNCHANGED <<member, grant, invite, disabled, lock, acts, strays, out>>
  BY DEF DeleteWorkspace, Goto, history
<1>2. /\ ws' \in [state: {"live", "deleted", "erased"}, offeredTo: Person \cup {Nobody}]
      /\ ws'.state = "deleted" /\ ws'.offeredTo = ws.offeredTo
  BY <1>1 DEF TypeOK
<1>3. \A b \in Board :
        /\ board'[b] \in [owner: Person \cup {Nobody}, deletedAt: Stamp]
        /\ board'[b].owner = board[b].owner
        /\ board[b].owner # Nobody => board'[b].deletedAt # Never
  <2> SUFFICES ASSUME NEW b \in Board
               PROVE  /\ board'[b] \in [owner: Person \cup {Nobody}, deletedAt: Stamp]
                      /\ board'[b].owner = board[b].owner
                      /\ board[b].owner # Nobody => board'[b].deletedAt # Never
    OBVIOUS
  <2>1. board[b] \in [owner: Person \cup {Nobody}, deletedAt: Stamp]
    BY DEF TypeOK
  <2>2. CASE b \in LiveBoards
    BY <1>1, <2>1, <2>2 DEF Stamp, Never
  <2>3. CASE b \notin LiveBoards
    BY <1>1, <2>1, <2>3 DEF LiveBoards, Exists
  <2> QED
    BY <2>2, <2>3
<1>4. Owners' = Owners /\ call[c].op \notin Locking
  BY <1>1 DEF Owners, Locking
<1>5. /\ call' \in [Call -> CallState]
      /\ CallsAreOn' /\ LockIsHeld' /\ ReadsStand' /\ JoinsHold' /\ RedeemsStand'
  <2>1. \A p \in Person : IsMember(p) => member'[p] = member[p]
    BY <1>1
  <2> QED
    BY <1>1, <1>2, <1>4, <2>1, FinishReads DEF JoinsHold, IsPendingTo
<1>6. TypeOK'
  <2>1. board' \in [Board -> [owner: Person \cup {Nobody}, deletedAt: Stamp]]
    BY <1>1, <1>3
  <2> QED
    BY <1>1, <1>2, <1>5, <2>1 DEF TypeOK
<1>7. OneOwner' /\ InvitesAreTo' /\ NotErased' /\ OfferStands'
  BY <1>1, <1>2, <1>4 DEF OneOwner, InvitesAreTo, NotErased, OfferStands
<1>8. ShutIsShut'
  BY <1>1, <1>3 DEF ShutIsShut, Exists, IsMember, IsPendingTo, TypeOK
<1>9. BoardsFollowTheWorkspace'
  BY <1>1, <1>3 DEF BoardsFollowTheWorkspace, Exists, IsMember
<1> QED
  BY <1>5, <1>6, <1>7, <1>8, <1>9

LEMMA RedeemShareLinkInv ==
  ASSUME IInv, NEW c \in Call, RedeemShareLink(c)
  PROVE  IInv'
<1> USE DEF IInv
<1> DEFINE p == call[c].person
<1>1. PICK b \in call[c].boards :
        grant' = [grant EXCEPT ![b][p] = [role |-> "viewer", status |-> "active"]]
  BY DEF RedeemShareLink
<1>2. /\ call[c].op = "redeem" /\ call' = [call EXCEPT ![c] = Idle]
      /\ UNCHANGED <<ws, member, board, invite, disabled, lock, acts, strays, out>>
  BY DEF RedeemShareLink, Goto, history
<1>3. call[c].op \notin Locking /\ p \in Person /\ b \notin out[p] /\ Owners' = Owners
  BY <1>2 DEF CallsAreOn, OnSomebody, Locking, RedeemsStand, Owners
<1>4. [role |-> "viewer", status |-> "active"] \in Grant
  BY DEF Grant, Role
<1>5. /\ grant' \in [Board -> [Person -> Grant]]
      /\ \A x \in Board, q \in Person :
           grant'[x][q] # grant[x][q] => x = b /\ q = p
  <2> HIDE DEF p
  <2> QED
    BY <1>1, <1>4 DEF TypeOK
<1>6. \A q \in Person : \A x \in out[q] : IsRevoked(grant'[x][q])
  <2> HIDE DEF p
  <2> QED
    BY <1>3, <1>5 DEF ShutIsShut, IsRevoked, TypeOK
<1>7. /\ call' \in [Call -> CallState]
      /\ CallsAreOn' /\ LockIsHeld' /\ ReadsStand' /\ JoinsHold' /\ RedeemsStand'
  BY <1>2, <1>3, FinishReads DEF JoinsHold, IsPendingTo
<1>8. TypeOK'
  BY <1>2, <1>5, <1>7 DEF TypeOK
<1> QED
  BY <1>2, <1>6, <1>7, <1>8, GrantsStand

\* Answering or ageing an invitation, while no one is joining by it.
LEMMA InviteWriteInv ==
  ASSUME IInv, NEW i \in Invite,
         NEW new \in [to: Person \cup {Nobody}, role: {"admin", "member"},
                      state: {"none", "pending", "accepted", "revoked"},
                      expired: BOOLEAN],
         invite' = [invite EXCEPT ![i] = new],
         invite[i].state = "pending", new.to = invite[i].to,
         UNCHANGED <<ws, member, board, grant, disabled, lock, strays, out>>,
         acts' \in 0..MaxActs, call' \in [Call -> CallState],
         CallsAreOn' /\ LockIsHeld' /\ ReadsStand' /\ JoinsHold' /\ RedeemsStand'
  PROVE  IInv'
<1> USE DEF IInv
<1>1. /\ invite' \in [Invite -> [to: Person \cup {Nobody}, role: {"admin", "member"},
                       state: {"none", "pending", "accepted", "revoked"},
                       expired: BOOLEAN]]
      /\ \A j \in Invite : invite'[j] = IF j = i THEN new ELSE invite[j]
  BY DEF TypeOK
<1>2. TypeOK'
  BY <1>1 DEF TypeOK
<1>3. OneOwner' /\ NotErased' /\ OfferStands'
  BY DEF OneOwner, Owners, NotErased, OfferStands
<1>4. InvitesAreTo'
  BY <1>1 DEF InvitesAreTo
<1>5. ShutIsShut'
  BY <1>1 DEF ShutIsShut, Exists, IsMember, IsPendingTo
<1>6. BoardsFollowTheWorkspace'
  BY DEF BoardsFollowTheWorkspace, Exists, IsMember
<1> QED
  BY <1>2, <1>3, <1>4, <1>5, <1>6

\* An invitation sent again or taken back is nobody's to join by meanwhile.
LEMMA ManageInvitesInv ==
  ASSUME IInv, NEW c \in Call, NEW i \in Invite,
         ResendInvite(c, i) \/ RevokeInvite(c, i)
  PROVE  IInv'
<1> USE DEF IInv
<1>1. invite[i] \in [to: Person \cup {Nobody}, role: {"admin", "member"},
                     state: {"none", "pending", "accepted", "revoked"}, expired: BOOLEAN]
  BY DEF TypeOK
<1>2. /\ call[c].op = "manage" /\ call' = [call EXCEPT ![c] = Idle] /\ InviteFree(i)
      /\ UNCHANGED <<ws, member, board, grant, disabled, lock, acts, strays, out>>
  BY DEF ResendInvite, RevokeInvite, Goto, history
<1>3. PICK new :
        /\ invite' = [invite EXCEPT ![i] = new]
        /\ \/ new = [invite[i] EXCEPT !.expired = FALSE]
           \/ new = [invite[i] EXCEPT !.state = "revoked"]
  BY DEF ResendInvite, RevokeInvite
<1>4. /\ new \in [to: Person \cup {Nobody}, role: {"admin", "member"},
                  state: {"none", "pending", "accepted", "revoked"}, expired: BOOLEAN]
      /\ new.to = invite[i].to
  BY <1>1, <1>3
<1>5. call[c].op \notin Locking /\ Owners' = Owners
  BY <1>2 DEF Locking, Owners
<1>6. \A d \in Call : call[d].op = "join" =>
        /\ call[d].invite \in Invite /\ call[d].invite # i
        /\ invite'[call[d].invite] = invite[call[d].invite]
        /\ IsPendingTo(call[d].invite, call[d].person)
  BY <1>2, <1>3 DEF JoinsHold, InviteFree, TypeOK
<1>7. /\ call' \in [Call -> CallState]
      /\ CallsAreOn' /\ LockIsHeld' /\ ReadsStand' /\ JoinsHold' /\ RedeemsStand'
  BY <1>2, <1>5, <1>6, FinishReads DEF IsPendingTo
<1>8. invite[i].state = "pending" /\ acts' \in 0..MaxActs
  BY <1>2 DEF InviteFree, TypeOK
<1> QED
  BY <1>2, <1>3, <1>4, <1>7, <1>8, InviteWriteInv

LEMMA CommitReadingInv ==
  ASSUME IInv, NEW c \in Call, CommitReading(c)
  PROVE  IInv'
  BY CreateBoardInv, CreateInviteInv, AcceptInviteInv, DeleteWorkspaceInv,
     RedeemShareLinkInv, ManageInvitesInv
  DEF CommitReading

\* A request that comes to nothing lets the row go if it held it.
LEMMA AbandonInv ==
  ASSUME IInv, NEW c \in Call, Abandon(c)
  PROVE  IInv'
<1> USE DEF IInv
<1>1. /\ call' = [call EXCEPT ![c] = Idle]
      /\ lock' = IF lock = c THEN NoCall ELSE lock
      /\ UNCHANGED <<ws, member, board, grant, invite, disabled, acts, strays, out>>
  BY DEF Abandon, Goto, history
<1>2. /\ call' \in [Call -> CallState]
      /\ \A d \in Call : call'[d] = IF d = c THEN Idle ELSE call[d]
  BY <1>1, IdleRecord DEF TypeOK
<1>3. Idle.op \notin Locking /\ Idle.op \notin OnSomebody
      /\ Idle.op # "join" /\ Idle.op # "invite"
  BY IdleRecord DEF Locking, OnSomebody
<1>4. TypeOK'
  BY <1>1, <1>2 DEF TypeOK
<1>5. CallsAreOn'
  BY <1>2, <1>3 DEF CallsAreOn
<1>6. LockIsHeld'
  BY <1>1, <1>2, <1>3, CallsAssumption DEF LockIsHeld
<1>7. ReadsStand'
  BY <1>1, <1>2, <1>3 DEF ReadsStand, Owners
<1>8. JoinsHold'
  BY <1>1, <1>2, <1>3, IdleRecord, CallsAssumption DEF JoinsHold, IsPendingTo
<1>9. RedeemsStand'
  BY <1>1, <1>2, IdleRecord, RedeemsKeep
<1> QED
  BY <1>1, <1>4, <1>5, <1>6, <1>7, <1>8, <1>9, TablesStand

-----------------------------------------------------------------------------
(* What is done besides the requests in flight.                            *)

\* Requests in flight go on while what they read or hold is left alone.
LEMMA CallsStand ==
  ASSUME IInv, UNCHANGED <<ws, member, lock, call>>,
         \A d \in Call : call[d].op = "join" =>
           /\ invite'[call[d].invite].state = "pending"
           /\ invite'[call[d].invite].to = call[d].person,
         \A p \in Person : out'[p] \subseteq out[p]
  PROVE  CallsAreOn' /\ LockIsHeld' /\ ReadsStand' /\ JoinsHold' /\ RedeemsStand'
<1> USE DEF IInv
<1>1. Owners' = Owners
  BY DEF Owners
<1>2. CallsAreOn' /\ LockIsHeld' /\ ReadsStand'
  BY <1>1 DEF CallsAreOn, LockIsHeld, ReadsStand
<1>3. JoinsHold'
  BY DEF JoinsHold, IsPendingTo
<1>4. RedeemsStand'
  BY RedeemsKeep
<1> QED
  BY <1>2, <1>3, <1>4

LEMMA ActIsBounded == ASSUME TypeOK, Act PROVE acts' \in 0..MaxActs
  BY MaxActsAssumption DEF TypeOK, Act

LEMMA SoftDeleteBoardInv ==
  ASSUME IInv, NEW b \in Board, SoftDeleteBoard(b)
  PROVE  IInv'
<1> USE DEF IInv
<1>1. /\ b \in LiveBoards /\ Act
      /\ board' = [board EXCEPT ![b].deletedAt = "byHand"]
      /\ UNCHANGED <<ws, member, grant, invite, disabled, lock, call, strays, out>>
  BY DEF SoftDeleteBoard, history
<1>2. \A x \in Board :
        /\ board'[x] \in [owner: Person \cup {Nobody}, deletedAt: Stamp]
        /\ board'[x].owner = board[x].owner
        /\ board'[x].deletedAt # board[x].deletedAt => board'[x].deletedAt = "byHand"
  <2> SUFFICES ASSUME NEW x \in Board
               PROVE  /\ board'[x] \in [owner: Person \cup {Nobody}, deletedAt: Stamp]
                      /\ board'[x].owner = board[x].owner
                      /\ board'[x].deletedAt # board[x].deletedAt =>
                           board'[x].deletedAt = "byHand"
    OBVIOUS
  <2>1. board[x] \in [owner: Person \cup {Nobody}, deletedAt: Stamp]
    BY DEF TypeOK
  <2>2. board'[x] = IF x = b THEN [board[x] EXCEPT !.deletedAt = "byHand"] ELSE board[x]
    BY <1>1 DEF TypeOK
  <2> QED
    BY <2>1, <2>2 DEF Stamp
<1>3. board' \in [Board -> [owner: Person \cup {Nobody}, deletedAt: Stamp]]
  <2>1. board' = [x \in Board |-> board'[x]]
    BY <1>1 DEF TypeOK
  <2> QED
    BY <1>2, <2>1
<1>4. CallsAreOn' /\ LockIsHeld' /\ ReadsStand' /\ JoinsHold' /\ RedeemsStand'
  BY <1>1, CallsStand DEF JoinsHold, IsPendingTo
<1>5. TypeOK'
  BY <1>1, <1>3, ActIsBounded DEF TypeOK
<1>6. OneOwner' /\ InvitesAreTo' /\ NotErased' /\ OfferStands'
  BY <1>1 DEF OneOwner, Owners, InvitesAreTo, NotErased, OfferStands
<1>7. ShutIsShut'
  BY <1>1, <1>2 DEF ShutIsShut, Exists, IsMember, IsPendingTo, TypeOK
<1>8. BoardsFollowTheWorkspace'
  BY <1>1, <1>2 DEF BoardsFollowTheWorkspace, Exists, IsMember, Never
<1> QED
  BY <1>4, <1>5, <1>6, <1>7, <1>8

LEMMA SetBoardMemberRoleInv ==
  ASSUME IInv, NEW b \in Board, NEW p \in Person, SetBoardMemberRole(b, p)
  PROVE  IInv'
<1> USE DEF IInv
<1>1. /\ IsRevoked(grant[b][p]) /\ Act
      /\ grant' = [grant EXCEPT ![b][p].status = "active"]
      /\ out' = [out EXCEPT ![p] = @ \ {b}]
      /\ UNCHANGED <<ws, member, board, invite, disabled, lock, call, strays>>
  BY DEF SetBoardMemberRole
<1>2. PICK new : new = [grant[b][p] EXCEPT !.status = "active"]
  OBVIOUS
<1>3. new \in Grant
  <2>1. grant[b][p] \in Grant /\ grant[b][p] # NoGrant
    BY <1>1, NoGrantIsGrant DEF TypeOK
  <2>2. grant[b][p] \in [role: Role, status: {"active", "revoked"}]
    BY <2>1 DEF Grant
  <2> QED
    BY <1>2, <2>2 DEF Grant
<1>4. grant' = [grant EXCEPT ![b][p] = new]
  BY <1>1, <1>2
<1>5. /\ grant' \in [Board -> [Person -> Grant]]
      /\ \A x \in Board, q \in Person :
           grant'[x][q] # grant[x][q] => x = b /\ q = p
  BY <1>3, <1>4 DEF TypeOK
<1>6. /\ out' \in [Person -> SUBSET Board]
      /\ \A q \in Person : out'[q] \subseteq out[q]
      /\ b \notin out'[p]
  BY <1>1 DEF TypeOK
<1>7. \A q \in Person : \A x \in out'[q] : IsRevoked(grant'[x][q])
  <2> SUFFICES ASSUME NEW q \in Person, NEW x \in out'[q]
               PROVE  IsRevoked(grant'[x][q])
    BY DEF IsRevoked
  <2>1. x \in Board /\ IsRevoked(grant[x][q])
    BY <1>6 DEF ShutIsShut, TypeOK
  <2> QED
    BY <1>5, <1>6, <2>1 DEF IsRevoked
<1>8. CallsAreOn' /\ LockIsHeld' /\ ReadsStand' /\ JoinsHold' /\ RedeemsStand'
  BY <1>1, CallsStand DEF JoinsHold, IsPendingTo
<1>9. TypeOK'
  BY <1>1, <1>5, <1>6, ActIsBounded DEF TypeOK
<1> QED
  BY <1>1, <1>6, <1>7, <1>8, <1>9, GrantsStand

LEMMA ExpireInviteInv ==
  ASSUME IInv, NEW i \in Invite, ExpireInvite(i)
  PROVE  IInv'
<1> USE DEF IInv
<1>1. /\ invite[i].state = "pending" /\ Act
      /\ UNCHANGED <<ws, member, board, grant, disabled, lock, call, strays, out>>
  BY DEF ExpireInvite, history
<1>2. PICK new : /\ new = [invite[i] EXCEPT !.expired = TRUE]
                 /\ invite' = [invite EXCEPT ![i] = new]
  BY DEF ExpireInvite
<1>3. /\ new \in [to: Person \cup {Nobody}, role: {"admin", "member"},
                  state: {"none", "pending", "accepted", "revoked"}, expired: BOOLEAN]
      /\ new.to = invite[i].to /\ new.state = "pending"
  BY <1>1, <1>2 DEF TypeOK
<1>4. CallsAreOn' /\ LockIsHeld' /\ ReadsStand' /\ JoinsHold' /\ RedeemsStand'
  <2>1. \A d \in Call : call[d].op = "join" =>
           /\ call[d].invite \in Invite
           /\ IsPendingTo(call[d].invite, call[d].person)
    BY DEF JoinsHold
  <2>2. \A d \in Call : call[d].op = "join" =>
           /\ invite'[call[d].invite].state = "pending"
           /\ invite'[call[d].invite].to = call[d].person
    BY <1>2, <1>3, <2>1 DEF TypeOK, IsPendingTo
  <2> QED
    BY <1>1, <2>2, CallsStand
<1>5. call' \in [Call -> CallState] /\ acts' \in 0..MaxActs
  BY <1>1, ActIsBounded DEF TypeOK
<1> QED
  BY <1>1, <1>2, <1>3, <1>4, <1>5, InviteWriteInv

LEMMA NextInv == IInv /\ [WsNext]_wsVars => IInv'
<1> SUFFICES ASSUME IInv, [WsNext]_wsVars PROVE IInv'
  OBVIOUS
<1>1. ASSUME NEW c \in Call, BeginLocking(c) PROVE IInv'
  BY <1>1, BeginLockingInv
<1>2. ASSUME NEW c \in Call, CommitLocking(c) PROVE IInv'
  BY <1>2, CommitLockingInv
<1>3. ASSUME NEW c \in Call, BeginReading(c) PROVE IInv'
  BY <1>3, BeginReadingInv
<1>4. ASSUME NEW c \in Call, CommitReading(c) PROVE IInv'
  BY <1>4, CommitReadingInv
<1>5. ASSUME NEW b \in Board, SoftDeleteBoard(b) PROVE IInv'
  BY <1>5, SoftDeleteBoardInv
<1>6. ASSUME NEW c \in Call, Abandon(c) PROVE IInv'
  BY <1>6, AbandonInv
<1>7. ASSUME NEW b \in Board, NEW p \in Person, SetBoardMemberRole(b, p) PROVE IInv'
  BY <1>7, SetBoardMemberRoleInv
<1>8. ASSUME NEW i \in Invite, ExpireInvite(i) PROVE IInv'
  BY <1>8, ExpireInviteInv
<1>9. ASSUME UNCHANGED wsVars PROVE IInv'
  <2>1. UNCHANGED <<ws, member, board, grant, invite, disabled, lock, call, acts,
                    strays, out>>
    BY <1>9 DEF wsVars
  <2>2. CallsAreOn' /\ LockIsHeld' /\ ReadsStand' /\ JoinsHold' /\ RedeemsStand'
    BY <2>1, CallsStand DEF IInv, JoinsHold, IsPendingTo
  <2>3. TypeOK'
    BY <2>1 DEF IInv, TypeOK
  <2> QED
    BY <2>1, <2>2, <2>3, TablesStand DEF IInv
<1> QED
  BY <1>1, <1>2, <1>3, <1>4, <1>5, <1>6, <1>7, <1>8, <1>9 DEF WsNext

\* What requests read and hold stands for as long as they are in flight.
THEOREM Invariance == WsSpec => []IInv
<1> QED
  BY InitInv, NextInv, PTL DEF WsSpec

\* Every variable of a workspace keeps its shape, whatever requests overlap.
THEOREM WorkspaceTypeCorrect == WsSpec => []TypeOK
<1>1. IInv => TypeOK
  BY DEF IInv
<1> QED
  BY <1>1, Invariance, PTL

\* Nobody who has gone, or who owns the workspace already, is left offered it.
THEOREM OffersStand == WsSpec => []OfferStands
<1>1. IInv => OfferStands
  BY DEF IInv
<1> QED
  BY <1>1, Invariance, PTL

\* No departure and no deletion strands a board that was there when it began.
THEOREM BoardsFollow == WsSpec => []BoardsFollowTheWorkspace
<1>1. IInv => BoardsFollowTheWorkspace
  BY DEF IInv
<1> QED
  BY <1>1, Invariance, PTL

\* Whatever else is going on, a removed member has no way to a board that was
\* shut to them until somebody with the right to gives them one.
THEOREM RemovedStayOutAlways == WsSpec => []RemovedStayOut
<1>1. IInv => RemovedStayOut
  <2> SUFFICES ASSUME IInv, NEW p \in Person, NEW b \in out[p]
               PROVE  ResolveBoardAccess([deleted |-> FALSE, archived |-> FALSE],
                        board[b].owner = p, grant[b][p], member[p]) = NoAccess
    BY DEF RemovedStayOut
  <2>1. member[p] = "none" /\ board[b].owner # p /\ IsRevoked(grant[b][p])
    BY DEF IInv, ShutIsShut, IsMember
  <2>2. HasGrant(grant[b][p])
    BY <2>1 DEF IsRevoked, HasGrant, NoGrant
  <2>3. RoleOnBoard(board[b].owner = p, grant[b][p], member[p]) = "none"
    BY <2>1, <2>2 DEF RoleOnBoard
  <2> QED
    BY <2>3 DEF ResolveBoardAccess
<1> QED
  BY <1>1, Invariance, PTL

-----------------------------------------------------------------------------
(* What a single step may do.                                              *)

\* Of all the steps only these write memberships or the offer.
WritesWho(c) ==
  \/ ChangeMemberRole(c) \/ RemoveMember(c) \/ LeaveWorkspace(c)
  \/ OfferOwnership(c) \/ WithdrawOwnershipOffer(c) \/ AcceptOwnership(c)
  \/ AcceptInvite(c)

LEMMA OthersLeaveWho ==
  ASSUME [WsNext]_wsVars, ~\E c \in Call : WritesWho(c), TypeOK
  PROVE  member' = member /\ ws'.offeredTo = ws.offeredTo
<1>1. ASSUME NEW c \in Call, BeginLocking(c) PROVE UNCHANGED <<ws, member>>
  BY <1>1 DEF BeginLocking, BeginLeave, BeginWithdraw, BeginAccept, BeginRemove,
              BeginOffer, BeginChangeRole, BeginGuest, Begin
<1>2. ASSUME NEW c \in Call, BeginReading(c) PROVE UNCHANGED <<ws, member>>
  BY <1>2 DEF BeginReading, BeginCreate, BeginDelete, BeginInvite, BeginJoin,
              BeginManage, BeginRedeem
<1>3. ASSUME NEW c \in Call, SetGuestRole(c) \/ RemoveGuest(c)
      PROVE  UNCHANGED <<ws, member>>
  BY <1>3 DEF SetGuestRole, RemoveGuest
<1>4. ASSUME NEW c \in Call,
             CreateBoard(c) \/ CreateInvite(c) \/ RedeemShareLink(c) \/ Abandon(c)
      PROVE  UNCHANGED <<ws, member>>
  BY <1>4 DEF CreateBoard, CreateInvite, RedeemShareLink, Abandon
<1>5. ASSUME NEW c \in Call, DeleteWorkspace(c)
      PROVE  member' = member /\ ws'.offeredTo = ws.offeredTo
  BY <1>5 DEF DeleteWorkspace, TypeOK
<1>6. ASSUME NEW b \in Board, NEW p \in Person,
             SoftDeleteBoard(b) \/ SetBoardMemberRole(b, p)
      PROVE  UNCHANGED <<ws, member>>
  BY <1>6 DEF SoftDeleteBoard, SetBoardMemberRole
<1>7. ASSUME NEW c \in Call, NEW i \in Invite,
             ResendInvite(c, i) \/ RevokeInvite(c, i) \/ ExpireInvite(i)
      PROVE  UNCHANGED <<ws, member>>
  BY <1>7 DEF ResendInvite, RevokeInvite, ExpireInvite
<1>8. ASSUME UNCHANGED wsVars PROVE UNCHANGED <<ws, member>>
  BY <1>8 DEF wsVars
<1>9. ASSUME NEW b \in Board, SoftDeleteBoard(b) PROVE UNCHANGED <<ws, member>>
  BY <1>9 DEF SoftDeleteBoard
<1>10. ASSUME NEW i \in Invite, ExpireInvite(i) PROVE UNCHANGED <<ws, member>>
  BY <1>10 DEF ExpireInvite
<1> QED
  BY <1>10, <1>1, <1>2, <1>3, <1>4, <1>5, <1>6, <1>7, <1>8, <1>9
  DEF WsNext, WritesWho, CommitLocking, CommitReading

\* The workspace does as Ownership promises: each step is one of its steps, or
\* leaves who owns it, who is in it and who it is offered to alone.
THEOREM OwnershipKept == WsSpec => OwnershipIsKept
<1> DEFINE members == {p \in Person : IsMember(p)}
<1>1. Init => Own!Init
  <2> SUFFICES ASSUME Init PROVE Own!Init
    OBVIOUS
  <2>1. Owners = {Founder} /\ members = {Founder}
    BY FounderAssumption DEF Init, Owners, IsMember
  <2>2. ws.offeredTo = Nobody
    BY DEF Init
  <2> QED
    BY <2>1, <2>2, FounderAssumption DEF Own!Init
<1>2. IInv /\ [WsNext]_wsVars => [Own!Next]_(Own!vars)
  <2> SUFFICES ASSUME IInv, [WsNext]_wsVars PROVE [Own!Next]_(Own!vars)
    OBVIOUS
  <2> USE DEF IInv
  <2>1. ASSUME Owners' = Owners, \A p \in Person : IsMember(p)' <=> IsMember(p),
               ws'.offeredTo = ws.offeredTo
        PROVE  UNCHANGED Own!vars
    BY <2>1 DEF Own!vars
  <2>2. ASSUME NEW c \in Call, ChangeMemberRole(c) PROVE UNCHANGED Own!vars
    <3>1. call[c].op = "role" /\ UNCHANGED ws /\ member' = WithRole(call[c].person, call[c].role)
      BY <2>2 DEF ChangeMemberRole, Commit
    <3>2. /\ call[c].person \in Person /\ member[call[c].person] \in {"admin", "member"}
          /\ call[c].role \in {"admin", "member"}
      BY <3>1 DEF ReadsStand, CallsAreOn, Locking, OnSomebody, OnMember
    <3>3. \A p \in Person :
            member'[p] = IF p = call[c].person THEN call[c].role ELSE member[p]
      BY <3>1, <3>2 DEF WithRole, TypeOK
    <3>4. Owners' = Owners /\ \A p \in Person : IsMember(p)' <=> IsMember(p)
      BY <3>2, <3>3 DEF Owners, IsMember
    <3> QED
      BY <2>1, <3>1, <3>4
  <2>3. ASSUME NEW c \in Call, RemoveMember(c) \/ LeaveWorkspace(c)
        PROVE  Own!Next
    <3> DEFINE p == call[c].person
    <3>1. /\ call[c].op \in OnMember
          /\ Depart(p, call[c].owner, call[c].offeredTo) /\ strays' = strays
      BY <2>3 DEF RemoveMember, LeaveWorkspace, Commit, OnMember, history
    <3>2. /\ p \in Person /\ Owners = {call[c].owner}
          /\ call[c].offeredTo = ws.offeredTo /\ member[p] \in {"admin", "member"}
      BY <3>1, ReadUnderLock
    <3>3. \A q \in Person : member'[q] = IF q = p THEN "none" ELSE member[q]
      BY <3>1, <3>2 DEF Depart, TypeOK
    <3>4. ws'.offeredTo = IF ws.offeredTo = p THEN Nobody ELSE ws.offeredTo
      BY <3>1, <3>2 DEF Depart, WithdrawOfferTo, TypeOK
    <3> HIDE DEF p
    <3>5. p \in members \ Owners
      BY <3>2 DEF IsMember, Owners
    <3>6. members' = members \ {p} /\ Owners' = Owners
      BY <3>2, <3>3 DEF IsMember, Owners
    <3>7. Own!Depart(p)
      BY <3>4, <3>5, <3>6 DEF Own!Depart
    <3> QED
      BY <3>2, <3>7 DEF Own!Next
  <2>4. ASSUME NEW c \in Call, OfferOwnership(c) PROVE Own!Next
    <3> DEFINE p == call[c].person
    <3>1. call[c].op \in OnMember /\ ws' = [ws EXCEPT !.offeredTo = p] /\ member' = member
      BY <2>4 DEF OfferOwnership, Commit, OnMember
    <3>2. p \in Person /\ member[p] \in {"admin", "member"}
      BY <3>1, ReadUnderLock
    <3>3. ws'.offeredTo = p
      BY <3>1 DEF TypeOK
    <3> HIDE DEF p
    <3>4. p \in members \ Owners
      BY <3>2 DEF IsMember, Owners
    <3>5. Owners' = Owners /\ members' = members
      BY <3>1 DEF Owners, IsMember
    <3>6. Own!Offer(p)
      BY <3>3, <3>4, <3>5 DEF Own!Offer
    <3> QED
      BY <3>2, <3>6 DEF Own!Next
  <2>5. ASSUME NEW c \in Call, WithdrawOwnershipOffer(c) PROVE [Own!Next]_(Own!vars)
    <3>1. ws'.offeredTo = Nobody /\ member' = member
      BY <2>5 DEF WithdrawOwnershipOffer, TypeOK
    <3>2. Owners' = Owners /\ members' = members
      BY <3>1 DEF Owners, IsMember
    <3>3. CASE ws.offeredTo = Nobody
      BY <3>1, <3>2, <3>3 DEF Own!vars
    <3>4. CASE ws.offeredTo # Nobody
      BY <3>1, <3>2, <3>4 DEF Own!Next, Own!Withdraw
    <3> QED
      BY <3>3, <3>4
  <2>6. ASSUME NEW c \in Call, AcceptOwnership(c) PROVE Own!Next
    <3>1. PICK p, owner :
            /\ p \in Person /\ p # owner
            /\ ws.offeredTo = p /\ Owners = {owner} /\ IsMember(p)
            /\ ws'.offeredTo = Nobody /\ Owners' = {p}
            /\ \A q \in Person : IsMember(q)' <=> IsMember(q)
      BY <2>6, AcceptOwnershipStep
    <3> QED
      BY <3>1 DEF Own!Next, Own!Accept
  <2>7. ASSUME NEW c \in Call, AcceptInvite(c) PROVE [Own!Next]_(Own!vars)
    <3>1. PICK p : /\ p \in Person /\ ws' = ws /\ Owners' = Owners
                   /\ \A q \in Person : IsMember(q)' <=> IsMember(q) \/ q = p
      BY <2>7, JoinStep
    <3>2. CASE IsMember(p)
      BY <2>1, <3>1, <3>2
    <3>3. CASE ~IsMember(p)
      <4>1. p \in Person \ members /\ members' = members \cup {p}
        BY <3>1, <3>3
      <4>2. Own!Join(p)
        BY <3>1, <4>1 DEF Own!Join
      <4> QED
        BY <3>1, <4>2 DEF Own!Next
    <3> QED
      BY <3>2, <3>3
  <2>8. CASE ~\E c \in Call : WritesWho(c)
    <3>1. member' = member /\ ws'.offeredTo = ws.offeredTo
      BY <2>8, OthersLeaveWho
    <3>2. Owners' = Owners /\ \A p \in Person : IsMember(p)' <=> IsMember(p)
      BY <3>1 DEF Owners, IsMember
    <3> QED
      BY <2>1, <3>1, <3>2
  <2> QED
    BY <2>2, <2>3, <2>4, <2>5, <2>6, <2>7, <2>8 DEF WritesWho
<1> QED
  BY <1>1, <1>2, Invariance, PTL DEF WsSpec, OwnershipIsKept, Own!Spec

\* An invitation is answered once, and only somebody it was to comes in.
THEOREM InvitesSpentOnce == WsSpec => InvitesAreSpentOnce
<1> DEFINE
  Final == \A i \in Invite : invite[i].state \in {"accepted", "revoked"} =>
             invite'[i] = invite[i]
  AskedIn == \A p \in Person : ~IsMember(p) /\ member'[p] # "none" =>
               \E i \in Invite : IsPendingTo(i, p) /\ invite'[i].state = "accepted"
<1>1. IInv /\ [WsNext]_wsVars => [Final /\ AskedIn]_wsVars
  <2> SUFFICES ASSUME IInv, [WsNext]_wsVars PROVE [Final /\ AskedIn]_wsVars
    OBVIOUS
  <2> USE DEF IInv
  <2>1. ASSUME invite' = invite PROVE Final
    BY <2>1
  <2>2. ASSUME member' = member PROVE AskedIn
    BY <2>2 DEF IsMember
  <2>3. ASSUME NEW c \in Call, BeginLocking(c) PROVE Final /\ AskedIn
    BY <2>1, <2>2, <2>3 DEF BeginLocking, BeginLeave, BeginWithdraw, BeginAccept,
      BeginRemove, BeginOffer, BeginChangeRole, BeginGuest, Begin
  <2>4. ASSUME NEW c \in Call, BeginReading(c) PROVE Final /\ AskedIn
    BY <2>1, <2>2, <2>4 DEF BeginReading, BeginCreate, BeginDelete, BeginInvite, BeginJoin,
      BeginManage, BeginRedeem
  <2>5. ASSUME NEW c \in Call, CommitLocking(c) PROVE Final /\ AskedIn
    <3>1. invite' = invite
      BY <2>5 DEF CommitLocking, ChangeMemberRole, RemoveMember, LeaveWorkspace,
        OfferOwnership, WithdrawOwnershipOffer, AcceptOwnership, SetGuestRole, RemoveGuest
    <3>2. CASE ChangeMemberRole(c)
      BY <3>2 DEF ChangeMemberRole, WithRole, TypeOK, IsMember
    <3>3. CASE RemoveMember(c) \/ LeaveWorkspace(c)
      BY <3>3 DEF RemoveMember, LeaveWorkspace, Depart, TypeOK, IsMember
    <3>4. CASE OfferOwnership(c) \/ WithdrawOwnershipOffer(c)
               \/ SetGuestRole(c) \/ RemoveGuest(c)
      BY <2>2, <3>4 DEF OfferOwnership, WithdrawOwnershipOffer, SetGuestRole, RemoveGuest
    <3>5. CASE AcceptOwnership(c)
      <4>1. \A q \in Person : IsMember(q)' <=> IsMember(q)
        BY <3>5, AcceptOwnershipStep
      <4> QED
        BY <2>1, <3>1, <4>1 DEF IsMember
    <3> QED
      BY <2>1, <2>5, <3>1, <3>2, <3>3, <3>4, <3>5 DEF CommitLocking
  <2>6. ASSUME NEW c \in Call, CreateInvite(c) PROVE Final /\ AskedIn
    <3>1. CASE UNCHANGED invite
      BY <2>1, <2>2, <2>6, <3>1 DEF CreateInvite
    <3>2. ASSUME NEW i \in Invite, NEW new, invite[i].state = "none",
                 invite' = [invite EXCEPT ![i] = new]
          PROVE  Final
      BY <3>2 DEF TypeOK
    <3> QED
      BY <2>2, <2>6, <3>1, <3>2 DEF CreateInvite
  <2>7. ASSUME NEW c \in Call, AcceptInvite(c) PROVE Final /\ AskedIn
    <3>1. PICK p, i :
            /\ p \in Person /\ i \in Invite /\ IsPendingTo(i, p)
            /\ \A j \in Invite : j # i => invite'[j] = invite[j]
            /\ invite'[i].state = "accepted"
            /\ \A q \in Person : IsMember(q)' <=> IsMember(q) \/ q = p
      BY <2>7, JoinStep
    <3>2. Final
      BY <3>1 DEF IsPendingTo
    <3>3. AskedIn
      BY <3>1 DEF IsMember
    <3> QED
      BY <3>2, <3>3
  <2>8. ASSUME NEW c \in Call,
               \/ CreateBoard(c) \/ DeleteWorkspace(c)
               \/ RedeemShareLink(c) \/ Abandon(c)
        PROVE  Final /\ AskedIn
    BY <2>1, <2>2, <2>8 DEF CreateBoard, DeleteWorkspace, RedeemShareLink, Abandon
  <2>9. ASSUME NEW b \in Board,
               SoftDeleteBoard(b) \/ \E p \in Person : SetBoardMemberRole(b, p)
        PROVE  Final /\ AskedIn
    BY <2>1, <2>2, <2>9 DEF SoftDeleteBoard, SetBoardMemberRole
  <2>10. ASSUME NEW i \in Invite,
                \/ ExpireInvite(i)
                \/ \E c \in Call : ResendInvite(c, i) \/ RevokeInvite(c, i)
         PROVE  Final /\ AskedIn
    <3>1. PICK new : invite[i].state = "pending" /\ invite' = [invite EXCEPT ![i] = new]
      BY <2>10 DEF ResendInvite, RevokeInvite, ExpireInvite, InviteFree
    <3>2. Final
      BY <3>1 DEF TypeOK
    <3> QED
      BY <2>2, <2>10, <3>2 DEF ResendInvite, RevokeInvite, ExpireInvite
  <2> QED
    BY <2>3, <2>4, <2>5, <2>6, <2>7, <2>8, <2>9, <2>10 DEF WsNext, CommitReading
<1> QED
  BY <1>1, Invariance, PTL DEF WsSpec, InvitesAreSpentOnce

=============================================================================
