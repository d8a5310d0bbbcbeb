--------------------------- MODULE MCBoardSharing ---------------------------
(***************************************************************************)
(* BoardSharing on a few people and links; each kind is interchangeable.   *)
(***************************************************************************)
EXTENDS BoardSharing, TLC

Symmetry ==
  Permutations(Person) \cup Permutations(Visitor)
    \cup Permutations(Link) \cup Permutations(Call)

=============================================================================
