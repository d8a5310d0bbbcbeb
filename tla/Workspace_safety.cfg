\* Two requests at once, among three people.
CONSTANTS
  Person = {o, a, b}
  Founder = o
  Board = {b1}
  Invite = {i1}
  InviteRole = {"member"}
  Guest = {o, a, b}
  Request <- Requests
  Call = {c1, c2}
  Nobody = Nobody
  NoCall = NoCall
  NoInvite = NoInvite
  MaxActs = 3
SPECIFICATION WsSpec
SYMMETRY Symmetry
INVARIANTS
  TypeOK
  OfferStands
  BoardsFollowTheWorkspace
  RemovedStayOut
PROPERTIES
  OwnershipIsKept
  InvitesAreSpentOnce
CHECK_DEADLOCK FALSE
