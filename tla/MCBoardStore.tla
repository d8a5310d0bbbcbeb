---------------------------- MODULE MCBoardStore ----------------------------
(***************************************************************************)
(* BoardStore on small boards: the editors of a run are interchangeable,   *)
(* and so are its servers.                                                 *)
(***************************************************************************)
EXTENDS BoardStore, TLC

Symmetry == Permutations(Client) \cup Permutations(Server)

\* A board only saves have written.
NoLegacy == {<<>>}

\* Or one the removed append path left, a delta to the row: the threads opened,
\* then deleted, that sent twice.  Their opening lies outside a window of two.
Drawing(X) == [Empty EXCEPT !.ins = X \X {"drawn"}]
Deleting(X) == [Empty EXCEPT !.del = X \X {"drawn"}]
Deltas ==
  NoLegacy \cup {<<Drawing(Thread), Deleting(Thread), Deleting(Thread)>>}

=============================================================================
