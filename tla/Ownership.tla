------------------------------ MODULE Ownership ------------------------------
(***************************************************************************)
(* What a workspace promises about who runs it: one owner, always, who     *)
(* changes only when the person they offered the workspace to, still in    *)
(* it, accepts.  Nothing here says how requests are kept apart.            *)
(***************************************************************************)
CONSTANTS Person, Nobody

VARIABLES
  owners,   \* who holds the role of owner
  members,  \* everybody in the workspace, owners included
  offered   \* who the ownership is offered to

vars == <<owners, members, offered>>

Init ==
  /\ \E founder \in Person : owners = {founder}
  /\ members = owners
  /\ offered = Nobody

Join(p) ==
  /\ p \in Person \ members
  /\ members' = members \cup {p}
  /\ UNCHANGED <<owners, offered>>

Depart(p) ==
  /\ p \in members \ owners
  /\ members' = members \ {p}
  /\ offered' = IF offered = p THEN Nobody ELSE offered
  /\ UNCHANGED owners

Offer(p) ==
  /\ p \in members \ owners
  /\ offered' = p
  /\ UNCHANGED <<owners, members>>

Withdraw ==
  /\ offered # Nobody
  /\ offered' = Nobody
  /\ UNCHANGED <<owners, members>>

Accept ==
  /\ offered \in members \ owners
  /\ owners' = {offered}
  /\ offered' = Nobody
  /\ UNCHANGED members

Next ==
  \/ \E p \in Person : Join(p) \/ Depart(p) \/ Offer(p)
  \/ Withdraw \/ Accept

Spec == Init /\ [][Next]_vars

=============================================================================
