----------------------------- MODULE MCWorkspace -----------------------------
(* A workspace of three people, one board, one invitation and two           *)
(* requests in flight.                                                      *)
EXTENDS Workspace, TLC

Requests == {}
Symmetry ==
  Permutations(Call) \cup Permutations(Invite) \cup Permutations(Person \ {Founder})

=============================================================================
