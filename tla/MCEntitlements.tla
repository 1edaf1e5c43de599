--------------------------- MODULE MCEntitlements ---------------------------
(***************************************************************************)
(* Entitlements for TLC: the rules are interchangeable, since a rule is    *)
(* told apart only by the slot it holds.                                   *)
(***************************************************************************)
EXTENDS Entitlements, TLC

Symmetry == Permutations(Rules)
=============================================================================
