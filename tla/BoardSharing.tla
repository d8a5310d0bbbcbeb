---------------------------- MODULE BoardSharing ----------------------------
(***************************************************************************)
(* Sharing one board: its links, the people who redeem them, and the owner *)
(* who turns links off, moves people between roles and removes them.       *)
(*                                                                         *)
(* Redeeming is a lookup, a transaction that reads the person's grant, and *)
(* the upsert that ends it; the read takes no lock, so anything may commit *)
(* between the three.  Making a link retires the live ones its statement's *)
(* snapshot shows, then inserts its own.  The routes ask for access before *)
(* they call any of this and nothing asks again, so each operation may also*)
(* land on a board deleted meanwhile.                                      *)
(***************************************************************************)
EXTENDS BoardAccess, FiniteSets

CONSTANTS
  Person,    \* people with an account, the owner apart
  Visitor,   \* the users rows guests are given as they join
  Link,      \* share links
  Call,      \* requests in flight together
  Nobody, NoLink,
  MaxUses,   \* bound: the largest max_uses a link is made with
  MaxRedeemed, \* bound: uses after which a link is no longer tried
  MaxActs    \* bound: what the owner does besides making links

User == Person \cup Visitor
ASSUME PeopleAssumption == Person \cap Visitor = {} /\ Nobody \notin User /\ NoLink \notin Link
ASSUME CallAssumption == IsFiniteSet(Call)
ASSUME BoundsAssumption == {MaxUses, MaxRedeemed, MaxActs} \subseteq Nat

Unlimited == 0

VARIABLES
  board,    \* the boards row
  grant,    \* board_members, per user
  link,     \* board_share_links
  call,     \* the requests in flight
  acts,
  barred    \* history: people removed with no redemption of theirs under way

vars == <<board, grant, link, call, acts, barred>>
history == <<barred>>

LinkRow ==
  [state: {"none", "live", "revoked"}, role: {"editor", "viewer"}, expired: BOOLEAN,
   allowGuests: BOOLEAN, maxUses: 0..MaxUses, useCount: Nat]
CallState ==
  [step: {"idle", "found", "read", "creating"}, user: User \cup {Nobody},
   link: Link \cup {NoLink}, current: Grant, seen: SUBSET Link]

Idle == [step |-> "idle", user |-> Nobody, link |-> NoLink,
         current |-> NoGrant, seen |-> {}]
NoRow == [state |-> "none", role |-> "viewer", expired |-> FALSE,
          allowGuests |-> FALSE, maxUses |-> Unlimited, useCount |-> 0]

Live == {l \in Link : link[l].state = "live"}

Init ==
  /\ board = [deleted |-> FALSE, archived |-> FALSE]
  /\ grant = [u \in User |-> NoGrant]
  /\ link = [l \in Link |-> NoRow]
  /\ call = [c \in Call |-> Idle]
  /\ acts = 0
  /\ barred = {}

Goto(c, state) == call' = [call EXCEPT ![c] = state]

-----------------------------------------------------------------------------
(* Making and turning off links.                                           *)

\* createShareLink's UPDATE takes its snapshot of the links to retire.
BeginCreate(c) ==
  /\ call[c] = Idle
  /\ Goto(c, [Idle EXCEPT !.step = "creating", !.seen = Live])
  /\ UNCHANGED <<board, grant, link, acts, history>>

CreateShareLink(c) ==
  /\ call[c].step = "creating"
  /\ \E n \in Link, role \in {"editor", "viewer"}, guests \in BOOLEAN, max \in 0..MaxUses :
       /\ link[n].state = "none"
       /\ link' = [l \in Link |->
            IF l = n THEN [NoRow EXCEPT !.state = "live", !.role = role,
                                        !.allowGuests = guests, !.maxUses = max]
            ELSE IF l \in call[c].seen THEN [link[l] EXCEPT !.state = "revoked"]
            ELSE link[l]]
  /\ Goto(c, Idle)
  /\ UNCHANGED <<board, grant, acts, history>>

RevokeShareLink(l) ==
  /\ l \in Live /\ acts < MaxActs
  /\ link' = [link EXCEPT ![l].state = "revoked"]
  /\ acts' = acts + 1
  /\ UNCHANGED <<board, grant, call, history>>

Expire(l) ==
  /\ l \in Live /\ ~link[l].expired /\ acts < MaxActs
  /\ link' = [link EXCEPT ![l].expired = TRUE]
  /\ acts' = acts + 1
  /\ UNCHANGED <<board, grant, call, history>>

-----------------------------------------------------------------------------
(* Redeeming.                                                              *)

\* Mutant of Usable: an exhausted link is still good.
UsableAnyhow(l) == l \in Live /\ ~link[l].expired /\ ~board.deleted

\* lookupShareLink, live against the row.
Usable(l) ==
  /\ l \in Live /\ ~link[l].expired
  /\ link[l].maxUses # Unlimited => link[l].useCount < link[l].maxUses
  /\ ~board.deleted

LookupShareLink(c, u, l) ==
  /\ call[c] = Idle
  /\ Usable(l) /\ link[l].useCount < MaxRedeemed
  /\ u \in Visitor => link[l].allowGuests
  /\ Goto(c, [Idle EXCEPT !.step = "found", !.user = u, !.link = l])
  /\ UNCHANGED <<board, grant, link, acts, history>>

\* Mutant of ReadGrant: a removed person's grant reads like any other.
ReadAnyGrant(c) ==
  /\ call[c].step = "found" /\ call[c].user \in Person
  /\ Goto(c, [call[c] EXCEPT !.step = "read",
       !.current = IF IsRevoked(grant[call[c].user]) THEN NoGrant
                   ELSE grant[call[c].user]])
  /\ UNCHANGED <<board, grant, link, acts, history>>

\* The grant as the transaction reads it; a removed person is refused here.
ReadGrant(c) ==
  /\ call[c].step = "found" /\ call[c].user \in Person
  /\ Goto(c, IF IsRevoked(grant[call[c].user]) THEN Idle
             ELSE [call[c] EXCEPT !.step = "read", !.current = grant[call[c].user]])
  /\ UNCHANGED <<board, grant, link, acts, history>>

ShouldWrite(current, role) ==
  HasGrant(current) => ~IsRevoked(current) /\ Rank(role) > Rank(current.role)

\* use_count = use_count + 1, in the database.
CountUse(l) == [link EXCEPT ![l].useCount = @ + 1]

\* The upsert, decided by what was read, and the use counted with it.
RedeemShareLink(c) ==
  LET u == call[c].user
      l == call[c].link
  IN /\ call[c].step = "read"
     /\ grant' = IF ShouldWrite(call[c].current, link[l].role)
                   THEN [grant EXCEPT ![u] = [role |-> link[l].role, status |-> "active"]]
                   ELSE grant
     /\ link' = CountUse(l)
     /\ Goto(c, Idle)
     /\ UNCHANGED <<board, acts, history>>

\* A guest's users row and grant are made in the same transaction.
RedeemShareLinkAsGuest(c) ==
  LET u == call[c].user
      l == call[c].link
  IN /\ call[c].step = "found" /\ u \in Visitor
     /\ ~HasGrant(grant[u])
     /\ grant' = [grant EXCEPT ![u] = [role |-> link[l].role, status |-> "active"]]
     /\ link' = CountUse(l)
     /\ Goto(c, Idle)
     /\ UNCHANGED <<board, acts, history>>

-----------------------------------------------------------------------------
(* What the owner does to people, each in one transaction or statement.    *)

Redeeming(u) == \E c \in Call : call[c].step = "read" /\ call[c].user = u

\* Mutant of RevokeBoardAccess: an update where there may be no row.
RevokeOnlyStatus(u) ==
  /\ u \in Person /\ acts < MaxActs
  /\ grant' = [grant EXCEPT ![u].status = "revoked"]
  /\ acts' = acts + 1
  /\ UNCHANGED <<board, link, call, barred>>

RevokeBoardAccess(u) ==
  /\ u \in User /\ acts < MaxActs
  /\ u \in Visitor => HasGrant(grant[u])
  /\ grant' = [grant EXCEPT ![u] =
       [role |-> IF HasGrant(@) THEN @.role ELSE "viewer", status |-> "revoked"]]
  /\ barred' = IF Redeeming(u) THEN barred ELSE barred \cup {u}
  /\ acts' = acts + 1
  /\ UNCHANGED <<board, link, call>>

\* Moving someone between roles, which also lets a removed person back on.
SetBoardMemberRole(u, role) ==
  /\ HasGrant(grant[u]) /\ role \in {"editor", "viewer"} /\ acts < MaxActs
  /\ grant' = [grant EXCEPT ![u] = [role |-> role, status |-> "active"]]
  /\ barred' = barred \ {u}
  /\ acts' = acts + 1
  /\ UNCHANGED <<board, link, call>>

SoftDeleteBoard ==
  /\ ~board.deleted /\ acts < MaxActs
  /\ board' = [board EXCEPT !.deleted = TRUE]
  /\ acts' = acts + 1
  /\ UNCHANGED <<grant, link, call, history>>

-----------------------------------------------------------------------------
Next ==
  \/ \E c \in Call :
       \/ BeginCreate(c) \/ CreateShareLink(c)
       \/ \E u \in User, l \in Link : LookupShareLink(c, u, l)
       \/ ReadGrant(c) \/ RedeemShareLink(c) \/ RedeemShareLinkAsGuest(c)
  \/ \E l \in Link : RevokeShareLink(l) \/ Expire(l)
  \/ \E u \in User :
       \/ RevokeBoardAccess(u)
       \/ \E role \in {"editor", "viewer"} : SetBoardMemberRole(u, role)
  \/ SoftDeleteBoard

Spec == Init /\ [][Next]_vars

-----------------------------------------------------------------------------
\* Every variable keeps its shape.
TypeOK ==
  /\ board \in [deleted: BOOLEAN, archived: BOOLEAN]
  /\ grant \in [User -> Grant]
  /\ link \in [Link -> LinkRow]
  /\ call \in [Call -> CallState]
  /\ acts \in 0..MaxActs
  /\ barred \subseteq User

\* The limit is checked before the transaction that counts a use, so a link
\* can be overrun, but by no more redemptions than passed the check together.
OverrunIsBounded ==
  \A l \in Link : link[l].maxUses # Unlimited =>
    link[l].useCount < link[l].maxUses + Cardinality(Call)

\* A person the owner removed stays out until the owner lets them back on, if
\* no redemption of theirs had read their grant when they were removed.
BarredStayOut ==
  \A u \in barred : IsRevoked(grant[u])

(* What the sources say, and the code does not keep.                       *)

\* share-links.ts: "Never let a viewer link demote an existing editor, or
\* resurrect someone an owner has revoked."
LinkNeverOverrules ==
  [][\A c \in Call : RedeemShareLink(c) =>
       LET u == call[c].user IN
         HasGrant(grant[u]) =>
           /\ IsRevoked(grant[u]) => IsRevoked(grant'[u])
           /\ Rank(grant'[u].role) >= Rank(grant[u].role)]_vars

=============================================================================
