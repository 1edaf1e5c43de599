------------------------------ MODULE MCTokens ------------------------------
(***************************************************************************)
(* Tokens for TLC: the refresh calls are interchangeable, and so are the   *)
(* dials; neither is told apart by anything but where it stands.           *)
(***************************************************************************)
EXTENDS Tokens, TLC

Symmetry == Permutations(Refreshes) \cup Permutations(Sessions)
=============================================================================
