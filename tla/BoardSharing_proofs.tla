------------------------- MODULE BoardSharing_proofs -------------------------
(***************************************************************************)
(* Theorems about BoardSharing, for every set of people, links and         *)
(* requests and every limit a link may be made with.                       *)
(***************************************************************************)
EXTENDS BoardSharing, FiniteSetTheorems, TLAPS

\* What a redemption in flight is about: its steps, its person and its link.
Redemption == {"found", "read"}
CallsOK ==
  \A c \in Call : call[c].step \in Redemption =>
    call[c].user \in User /\ call[c].link \in Link

\* The requests that have found a link usable and not yet counted their use.
InFlight(l) == {c \in Call : call[c].step \in Redemption /\ call[c].link = l}

\* Each of them passed the check while the count was below the limit.
Room(l) ==
  link[l].maxUses # Unlimited =>
    link[l].useCount + Cardinality(InFlight(l)) < link[l].maxUses + Cardinality(Call)

\* Nobody barred has a redemption that read their grant, so none can write it.
BarredOK == \A u \in barred : IsRevoked(grant[u]) /\ ~Redeeming(u)

IInv == TypeOK /\ CallsOK /\ BarredOK /\ \A l \in Link : Room(l)

-----------------------------------------------------------------------------
(* Counting requests in flight.                                            *)

\* Requests are finite, so those in flight can be counted.
LEMMA InFlightCounts ==
  ASSUME NEW l \in Link
  PROVE  /\ IsFiniteSet(InFlight(l))
         /\ Cardinality(InFlight(l)) \in Nat
         /\ Cardinality(Call) \in Nat
         /\ Cardinality(InFlight(l)) <= Cardinality(Call)
  BY CallAssumption, FS_Subset, FS_CardinalityType DEF InFlight

\* The same, a step later.
LEMMA InFlightCountsNext ==
  ASSUME NEW l \in Link
  PROVE  /\ IsFiniteSet(InFlight(l)')
         /\ Cardinality(InFlight(l)') \in Nat
         /\ Cardinality(InFlight(l)') <= Cardinality(Call)
  BY CallAssumption, FS_Subset, FS_CardinalityType DEF InFlight

\* A link nothing new is in flight on, and whose limit and count stand, keeps
\* its room.
LEMMA RoomKept ==
  ASSUME TypeOK, NEW l \in Link, Room(l),
         InFlight(l)' \subseteq InFlight(l),
         link'[l].maxUses = link[l].maxUses, link'[l].useCount = link[l].useCount
  PROVE  Room(l)'
<1>1. Cardinality(InFlight(l)') <= Cardinality(InFlight(l))
  BY InFlightCounts, FS_Subset
<1> QED
  BY <1>1, InFlightCounts, InFlightCountsNext DEF Room, TypeOK, LinkRow, Unlimited

\* No links, no requests, nobody barred.
LEMMA InitInv == Init => IInv
<1> SUFFICES ASSUME Init PROVE IInv
  OBVIOUS
<1>1. TypeOK
  BY BoundsAssumption
  DEF Init, TypeOK, NoGrant, Grant, NoRow, LinkRow, Idle, CallState, Unlimited
<1>2. CallsOK /\ BarredOK
  BY DEF Init, CallsOK, Redemption, Idle, BarredOK
<1>3. \A l \in Link : Room(l)
  BY DEF Init, Room, NoRow, Unlimited
<1> QED
  BY <1>1, <1>2, <1>3 DEF IInv

-----------------------------------------------------------------------------
(* What a step writes keeps its shape.                                     *)

\* The bounds are numbers.
LEMMA Bounds == MaxUses \in Nat /\ MaxRedeemed \in Nat /\ MaxActs \in Nat
  BY BoundsAssumption

\* An act of the owner's is counted within its bound.
LEMMA ActsCounted ==
  ASSUME acts \in 0..MaxActs, acts < MaxActs, acts' = acts + 1
  PROVE  acts' \in 0..MaxActs
  BY Bounds

\* Every write to a link leaves a link, and its role makes a grant.
LEMMA LinkRows ==
  ASSUME NEW row \in LinkRow
  PROVE  /\ [row EXCEPT !.state = "revoked"] \in LinkRow
         /\ [row EXCEPT !.expired = TRUE] \in LinkRow
         /\ [row EXCEPT !.useCount = @ + 1] \in LinkRow
         /\ [role |-> row.role, status |-> "active"] \in Grant
<1>1. [row EXCEPT !.state = "revoked"] \in LinkRow
  BY DEF LinkRow
<1>2. [row EXCEPT !.expired = TRUE] \in LinkRow
  BY DEF LinkRow
<1>3. [row EXCEPT !.useCount = @ + 1] \in LinkRow
  BY DEF LinkRow
<1>4. [role |-> row.role, status |-> "active"] \in Grant
  BY DEF LinkRow, Grant, Role
<1> QED
  BY <1>1, <1>2, <1>3, <1>4

\* So does a request that is over.
LEMMA IdleCall == Idle \in CallState /\ NoGrant \in Grant
  BY DEF Idle, CallState, NoGrant, Grant

-----------------------------------------------------------------------------
(* Each kind of step keeps the invariant.                                  *)

\* Steps that only move a request on: its link and the counts stand.
LEMMA CallStep ==
  ASSUME IInv, NEW c \in Call,
         BeginCreate(c) \/ ReadGrant(c)
  PROVE  IInv'
<1> USE DEF IInv
<1>1. UNCHANGED <<board, grant, link, acts, barred>>
  BY DEF BeginCreate, ReadGrant, history
<1> DEFINE read == [call[c] EXCEPT !.step = "read", !.current = grant[call[c].user]]
           creating == [Idle EXCEPT !.step = "creating", !.seen = Live]
<1>2. PICK s : /\ call' = [call EXCEPT ![c] = s]
               /\ \/ s = creating \/ s = Idle
                  \/ /\ s = read /\ call[c].step = "found" /\ call[c].user \in User
                     /\ ~IsRevoked(grant[call[c].user])
  BY DEF BeginCreate, ReadGrant, Goto, User
<1>3. /\ s \in CallState
      /\ s.step \in Redemption => /\ call[c].step \in Redemption
                                  /\ s.user = call[c].user /\ s.link = call[c].link
      /\ s.step = "read" => ~IsRevoked(grant[s.user])
  <2>1. call[c] \in CallState
    BY DEF TypeOK
  <2>2. CASE s = creating
    BY <2>2, IdleCall DEF CallState, Idle, Live, Redemption
  <2>3. CASE s = Idle
    BY <2>3, IdleCall DEF Idle, Redemption
  <2>4. CASE s = read /\ call[c].step = "found" /\ call[c].user \in User
             /\ ~IsRevoked(grant[call[c].user])
    <3>1. grant[call[c].user] \in Grant
      BY <2>4 DEF TypeOK
    <3>2. /\ s \in CallState
          /\ s.step = "read" /\ s.user = call[c].user /\ s.link = call[c].link
      BY <2>1, <2>4, <3>1 DEF CallState
    <3> HIDE DEF read
    <3> QED
      BY <2>4, <3>2 DEF Redemption
  <2> QED
    BY <1>2, <2>2, <2>3, <2>4
<1>a. call'[c] = s /\ \A d \in Call \ {c} : call'[d] = call[d]
  BY <1>2 DEF TypeOK
<1>b. TypeOK'
  BY <1>1, <1>2, <1>3 DEF TypeOK
<1>4. CallsOK'
  BY <1>3, <1>a DEF CallsOK, Redemption
<1>5. BarredOK'
  BY <1>1, <1>3, <1>a DEF BarredOK, Redeeming, IsRevoked
<1>6. ASSUME NEW l \in Link PROVE Room(l)'
  <2>1. InFlight(l)' \subseteq InFlight(l)
    BY <1>3, <1>a DEF InFlight
  <2> QED
    BY <1>1, <2>1, RoomKept
<1> QED
  BY <1>b, <1>4, <1>5, <1>6

\* A lookup admits one more request, against a count still below the limit.
LEMMA LookupStep ==
  ASSUME IInv, NEW c \in Call, NEW u \in User, NEW l \in Link, LookupShareLink(c, u, l)
  PROVE  IInv'
<1> USE DEF IInv
<1>1. /\ UNCHANGED <<board, grant, link, acts, barred>>
      /\ call' = [call EXCEPT ![c] = [Idle EXCEPT !.step = "found", !.user = u, !.link = l]]
      /\ Usable(l)
  BY DEF LookupShareLink, Goto, history
<1>2. TypeOK'
  BY <1>1 DEF TypeOK, CallState, Idle, NoGrant, Grant, User
<1>3. CallsOK'
  BY <1>1 DEF CallsOK, TypeOK, Redemption, Idle
<1>4. BarredOK'
  BY <1>1 DEF BarredOK, TypeOK, Redeeming, IsRevoked, Idle
<1>5. Room(l)'
  BY <1>1, InFlightCountsNext, InFlightCounts
  DEF Room, Usable, TypeOK, LinkRow, Unlimited
<1>6. ASSUME NEW k \in Link, k # l PROVE Room(k)'
  <2>1. InFlight(k)' \subseteq InFlight(k)
    BY <1>1, <1>6 DEF InFlight, TypeOK, Idle
  <2> QED
    BY <1>1, <2>1, RoomKept
<1> QED
  BY <1>2, <1>3, <1>4, <1>5, <1>6

\* A new link starts below its limit; those it retires keep their counts.
LEMMA CreateStep ==
  ASSUME IInv, NEW c \in Call, CreateShareLink(c)
  PROVE  IInv'
<1> USE DEF IInv
<1>1. UNCHANGED <<board, grant, acts, barred>> /\ call' = [call EXCEPT ![c] = Idle]
  BY DEF CreateShareLink, Goto, history
<1>2. PICK n \in Link, row \in LinkRow :
        /\ row.useCount = 0
        /\ link' = [l \in Link |->
             IF l = n THEN row
             ELSE IF l \in call[c].seen THEN [link[l] EXCEPT !.state = "revoked"]
             ELSE link[l]]
  <2>1. PICK n \in Link, role \in {"editor", "viewer"}, guests \in BOOLEAN, max \in 0..MaxUses :
          /\ link[n].state = "none"
          /\ link' = [l \in Link |->
            IF l = n THEN [NoRow EXCEPT !.state = "live", !.role = role,
                                        !.allowGuests = guests, !.maxUses = max]
            ELSE IF l \in call[c].seen THEN [link[l] EXCEPT !.state = "revoked"]
            ELSE link[l]]
    BY Zenon DEF CreateShareLink
  <2> DEFINE row == [NoRow EXCEPT !.state = "live", !.role = role,
                                  !.allowGuests = guests, !.maxUses = max]
  <2>2. row \in LinkRow /\ row.useCount = 0
    BY DEF NoRow, LinkRow
  <2>3. link' = [l \in Link |->
           IF l = n THEN row
           ELSE IF l \in call[c].seen THEN [link[l] EXCEPT !.state = "revoked"]
           ELSE link[l]]
    BY <2>1
  <2> HIDE DEF row
  <2> QED
    BY <2>2, <2>3
<1>3. TypeOK'
  <2>1. link' \in [Link -> LinkRow]
    BY <1>2, LinkRows DEF TypeOK
  <2> QED
    BY <1>1, <2>1, IdleCall DEF TypeOK
<1>4. CallsOK' /\ BarredOK'
  BY <1>1 DEF CallsOK, TypeOK, Redemption, Idle, BarredOK, Redeeming, IsRevoked
<1>5. Room(n)'
  <2>1. link'[n].useCount = 0 /\ link'[n].maxUses \in Nat
    BY <1>2, Bounds DEF LinkRow
  <2> QED
    BY <2>1, InFlightCounts, InFlightCountsNext DEF Room, Unlimited
<1>6. ASSUME NEW l \in Link, l # n PROVE Room(l)'
  <2>1. InFlight(l)' \subseteq InFlight(l)
    BY <1>1 DEF InFlight, TypeOK, Idle, Redemption
  <2>2. link'[l].maxUses = link[l].maxUses /\ link'[l].useCount = link[l].useCount
    BY <1>2, <1>6 DEF TypeOK, LinkRow
  <2> QED
    BY <2>1, <2>2, RoomKept
<1> QED
  BY <1>3, <1>4, <1>5, <1>6

\* A redemption that ends counts its use and is no longer in flight: what its
\* link gains in the one it loses in the other.
LEMMA CountedUse ==
  ASSUME TypeOK, NEW c \in Call, NEW l \in Link, Room(l),
         call[c].step \in Redemption, call[c].link = l,
         link' = CountUse(l), call' = [call EXCEPT ![c] = Idle]
  PROVE  Room(l)'
<1>1. InFlight(l)' = InFlight(l) \ {c} /\ c \in InFlight(l)
  BY DEF InFlight, TypeOK, Idle, Redemption
<1>2. Cardinality(InFlight(l)') = Cardinality(InFlight(l)) - 1
  BY <1>1, InFlightCounts, FS_RemoveElement
<1>3. link'[l].maxUses = link[l].maxUses /\ link'[l].useCount = link[l].useCount + 1
  BY DEF TypeOK, LinkRow, CountUse
<1> QED
  BY <1>2, <1>3, InFlightCounts DEF Room, TypeOK, LinkRow, Unlimited

\* The link of any other request keeps its room.
LEMMA RedeemedRooms ==
  ASSUME IInv, NEW c \in Call, call[c].step \in Redemption,
         link' = CountUse(call[c].link), call' = [call EXCEPT ![c] = Idle]
  PROVE  (\A l \in Link : Room(l)') /\ CallsOK'
<1> USE DEF IInv
<1>1. CallsOK'
  BY DEF CallsOK, TypeOK, Redemption, Idle
<1>2. PICK used \in Link : used = call[c].link
  BY DEF CallsOK
<1>3. Room(used)'
  BY <1>2, CountedUse
<1>4. ASSUME NEW l \in Link, l # used PROVE Room(l)'
  <2>1. InFlight(l)' \subseteq InFlight(l)
    BY DEF InFlight, TypeOK, Idle, Redemption
  <2>2. link'[l] = link[l]
    BY <1>2, <1>4 DEF TypeOK, CountUse
  <2> QED
    BY <2>1, <2>2, RoomKept
<1> QED
  BY <1>1, <1>3, <1>4

\* An upsert writes the person who read a grant that was not revoked, and
\* nobody barred has such a read.
LEMMA RedeemStep ==
  ASSUME IInv, NEW c \in Call,
         RedeemShareLink(c) \/ RedeemShareLinkAsGuest(c)
  PROVE  IInv'
<1> USE DEF IInv
<1> DEFINE u == call[c].user
           l == call[c].link
<1>1. /\ UNCHANGED <<board, acts, barred>>
      /\ call[c].step \in Redemption
      /\ link' = CountUse(l) /\ call' = [call EXCEPT ![c] = Idle]
      /\ \/ grant' = grant
         \/ grant' = [grant EXCEPT ![u] = [role |-> link[l].role, status |-> "active"]]
      /\ Redeeming(u) \/ ~HasGrant(grant[u])
  BY DEF RedeemShareLink, RedeemShareLinkAsGuest, Goto, history, Redemption, Redeeming
<1>2. u \in User /\ l \in Link
  BY <1>1 DEF CallsOK
<1>3. link' \in [Link -> LinkRow]
  BY <1>1, <1>2, LinkRows DEF TypeOK, CountUse
<1>4. [role |-> link[l].role, status |-> "active"] \in Grant
  BY <1>2, LinkRows DEF TypeOK
<1>6. TypeOK'
  BY <1>1, <1>2, <1>3, <1>4, IdleCall DEF TypeOK
<1>7. u \notin barred
  BY <1>1 DEF BarredOK, IsRevoked, HasGrant, NoGrant
<1>8. BarredOK'
  BY <1>1, <1>7 DEF BarredOK, TypeOK, Redeeming, Idle, IsRevoked
<1> QED
  BY <1>1, <1>6, <1>8, RedeemedRooms

\* What the owner does to a link leaves its limit and its count.
LEMMA LinkStep ==
  ASSUME IInv, NEW l \in Link, RevokeShareLink(l) \/ Expire(l)
  PROVE  IInv'
<1> USE DEF IInv
<1>1. UNCHANGED <<board, grant, call, barred>>
  BY DEF RevokeShareLink, Expire, history
<1>2. TypeOK'
  <2>1. PICK row \in LinkRow : link' = [link EXCEPT ![l] = row]
    BY LinkRows DEF RevokeShareLink, Expire, TypeOK
  <2>2. acts' \in 0..MaxActs
    BY ActsCounted DEF RevokeShareLink, Expire, TypeOK
  <2> QED
    BY <1>1, <2>1, <2>2 DEF TypeOK
<1>3. CallsOK' /\ BarredOK'
  BY <1>1 DEF CallsOK, BarredOK, Redeeming, IsRevoked
<1>4. ASSUME NEW k \in Link PROVE Room(k)'
  <2>1. link'[k].maxUses = link[k].maxUses /\ link'[k].useCount = link[k].useCount
    BY DEF RevokeShareLink, Expire, TypeOK, LinkRow
  <2>2. InFlight(k)' \subseteq InFlight(k)
    BY <1>1 DEF InFlight
  <2> QED
    BY <2>1, <2>2, RoomKept
<1> QED
  BY <1>2, <1>3, <1>4

\* What the owner does to a person or the board touches no request and no link.
LEMMA OwnerStep ==
  ASSUME IInv, UNCHANGED <<link, call>>, TypeOK', BarredOK'
  PROVE  IInv'
<1>1. CallsOK'
  BY DEF IInv, CallsOK
<1>2. ASSUME NEW k \in Link PROVE Room(k)'
  BY RoomKept DEF IInv, InFlight
<1> QED
  BY <1>1, <1>2 DEF IInv

\* Every step keeps the invariant.
LEMMA StepInv == IInv /\ [Next]_vars => IInv'
<1> SUFFICES ASSUME IInv, [Next]_vars PROVE IInv'
  OBVIOUS
<1>1. ASSUME NEW c \in Call, BeginCreate(c) \/ ReadGrant(c) PROVE IInv'
  BY <1>1, CallStep
<1>2. ASSUME NEW c \in Call, CreateShareLink(c) PROVE IInv'
  BY <1>2, CreateStep
<1>3. ASSUME NEW c \in Call, NEW u \in User, NEW l \in Link, LookupShareLink(c, u, l)
      PROVE  IInv'
  BY <1>3, LookupStep
<1>4. ASSUME NEW c \in Call, RedeemShareLink(c) \/ RedeemShareLinkAsGuest(c) PROVE IInv'
  BY <1>4, RedeemStep
<1>5. ASSUME NEW l \in Link, RevokeShareLink(l) \/ Expire(l) PROVE IInv'
  BY <1>5, LinkStep
<1>6. ASSUME NEW u \in User, RevokeBoardAccess(u) PROVE IInv'
  <2> USE <1>6 DEF RevokeBoardAccess
  <2>1. TypeOK'
    <3> DEFINE gone == [role |-> IF HasGrant(grant[u]) THEN grant[u].role ELSE "viewer",
                        status |-> "revoked"]
    <3>1. grant[u] \in Grant
      BY DEF IInv, TypeOK
    <3>2. gone \in Grant
      BY <3>1 DEF Grant, HasGrant, Role
    <3>3. grant' = [grant EXCEPT ![u] = gone]
      OBVIOUS
    <3> HIDE DEF gone
    <3>4. acts' \in 0..MaxActs
      BY ActsCounted DEF IInv, TypeOK
    <3> QED
      BY <3>2, <3>3, <3>4 DEF IInv, TypeOK
  <2>2. BarredOK'
    BY DEF IInv, TypeOK, BarredOK, IsRevoked, Redeeming
  <2> QED
    BY <2>1, <2>2, OwnerStep
<1>7. ASSUME NEW u \in User, NEW role \in {"editor", "viewer"}, SetBoardMemberRole(u, role)
      PROVE  IInv'
  <2> USE <1>7 DEF SetBoardMemberRole
  <2>1. TypeOK'
    <3>1. [role |-> role, status |-> "active"] \in Grant
      BY DEF Grant, Role
    <3>2. acts' \in 0..MaxActs
      BY ActsCounted DEF IInv, TypeOK
    <3> QED
      BY <3>1, <3>2 DEF IInv, TypeOK
  <2>2. BarredOK'
    BY DEF IInv, TypeOK, BarredOK, IsRevoked, Redeeming
  <2> QED
    BY <2>1, <2>2, OwnerStep
<1>8. CASE SoftDeleteBoard
  <2> USE <1>8 DEF SoftDeleteBoard, history
  <2>1. TypeOK'
    BY ActsCounted DEF IInv, TypeOK
  <2>2. BarredOK'
    BY DEF IInv, BarredOK, IsRevoked, Redeeming
  <2> QED
    BY <2>1, <2>2, OwnerStep
<1>9. CASE UNCHANGED vars
  <2>1. TypeOK' /\ BarredOK'
    BY <1>9 DEF vars, IInv, TypeOK, BarredOK, IsRevoked, Redeeming
  <2> QED
    BY <1>9, <2>1, OwnerStep DEF vars
<1> QED
  BY <1>1, <1>2, <1>3, <1>4, <1>5, <1>6, <1>7, <1>8, <1>9 DEF Next

-----------------------------------------------------------------------------
\* The invariant the theorems below read their statements off.
THEOREM Invariant == Spec => []IInv
  BY InitInv, StepInv, PTL DEF Spec

\* Every variable keeps its shape.
THEOREM TypeCorrect == Spec => []TypeOK
<1>1. IInv => TypeOK
  BY DEF IInv
<1> QED
  BY <1>1, Invariant, PTL

\* A person the owner removed stays removed until the owner lets them back on,
\* whatever redemptions, new links and other removals are under way.
THEOREM BarredStaysOut == Spec => []BarredStayOut
<1>1. IInv => BarredStayOut
  BY DEF IInv, BarredOK, BarredStayOut
<1> QED
  BY <1>1, Invariant, PTL

\* A limited link is overrun by fewer uses than there are requests together.
THEOREM OverrunBounded == Spec => []OverrunIsBounded
<1>1. IInv => OverrunIsBounded
  BY InFlightCounts DEF IInv, Room, OverrunIsBounded, TypeOK, LinkRow, Unlimited
<1> QED
  BY <1>1, Invariant, PTL
=============================================================================
