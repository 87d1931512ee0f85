-------------------------- MODULE MCLinkSignatures --------------------------
(* Up to three members, weights whose sum passes U64_MAX, the zero weight,   *)
(* and one entry more than the attempt budget.                               *)
EXTENDS LinkSignatures, TLC

Symmetry == Permutations(Keys)
=============================================================================
