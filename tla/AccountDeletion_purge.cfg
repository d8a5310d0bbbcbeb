\* One workspace, one request for deletion, and a job that stops half-way.
CONSTANTS
  Person = {o, a}
  Founder = o
  Board = {b1}
  Invite = {i1}
  InviteRole = {"member"}
  Guest = {}
  Request = {r1, r2}
  Call = {c1}
  Nobody = Nobody
  NoCall = NoCall
  NoInvite = NoInvite
  NoRequest = NoRequest
  ACCOUNT_PURGE_LIMIT = 1
  MaxAsked = 1
  MaxActs = 1
SPECIFICATION FairSpec
INVARIANTS
  NoHoles
PROPERTIES
  FilesGoBeforeRows
  EraseSparesOthers
  OnlyTheHiddenComeBack
  PurgeFinishes
CHECK_DEADLOCK FALSE
