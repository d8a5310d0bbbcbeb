----------------------------- MODULE MCSessions -----------------------------
(* Instantiates Sessions for TLC.                                          *)
EXTENDS Sessions, TLC

\* Sessions, requests and tokens are interchangeable in the safety runs.
Symmetry == Permutations(Session) \cup Permutations(Request) \cup Permutations(Token)
=============================================================================
