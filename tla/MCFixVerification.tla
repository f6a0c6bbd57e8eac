------------------------- MODULE MCFixVerification -------------------------
(* Fix verification for TLC: two fixes of one pair, two or three passes.   *)
EXTENDS FixVerification, TLC

Perms == Permutations(ActionIds) \cup Permutations(Passes)
=============================================================================
