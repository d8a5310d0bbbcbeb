----------------------------- MODULE BoardAccess -----------------------------
(***************************************************************************)
(* THE authorization decision for a board, as every service asks it:       *)
(* resolveBoardAccess and the questions put to its answer.                 *)
(***************************************************************************)
EXTENDS Naturals

Role == {"owner", "editor", "viewer"}
WorkspaceRole == {"owner", "admin", "member"}

\* A board_members row, or none.  A revoked row keeps its role.
NoGrant == [role |-> "none", status |-> "none"]
Grant == {NoGrant} \cup [role: Role, status: {"active", "revoked"}]
HasGrant(grant) == grant # NoGrant
IsRevoked(grant) == grant.status = "revoked"

\* The caller's role in the board's workspace, or "none" outside it.
Standing == WorkspaceRole \cup {"none"}

NoAccess == [role |-> "none", archived |-> FALSE]
Access == {NoAccess} \cup [role: Role, archived: BOOLEAN]

\* Most specific first; an explicit decision on the board, in either
\* direction, outranks what the workspace gives.
RoleOnBoard(isOwner, grant, standing) ==
  CASE isOwner -> "owner"
    [] ~isOwner /\ HasGrant(grant) ->
         IF IsRevoked(grant) THEN "none" ELSE grant.role
    [] ~isOwner /\ ~HasGrant(grant) ->
         IF standing = "none" THEN "none" ELSE "editor"

ResolveBoardAccess(board, isOwner, grant, standing) ==
  LET role == RoleOnBoard(isOwner, grant, standing) IN
  IF board.deleted \/ role = "none" THEN NoAccess
  ELSE [role |-> role, archived |-> board.archived]

CanEdit(access) == ~access.archived /\ access.role \in {"owner", "editor"}

\* What a role outranks when a share link is redeemed.
Rank(role) == CASE role = "owner" -> 2 [] role = "editor" -> 1 [] role = "viewer" -> 0

=============================================================================
