------------------------------- MODULE MCDesk -------------------------------
(* The desk for TLC: small sets of calls, actions and one signing person.  *)
EXTENDS Desk, TLC

Perms == Permutations(Calls) \cup Permutations(ActionIds)
=============================================================================
