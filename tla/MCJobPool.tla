----------------------------- MODULE MCJobPool -----------------------------
(* The job pool for TLC: two requests, two workers, a queue of two.        *)
EXTENDS JobPool, TLC

Perms == Permutations(Callers) \cup Permutations(Workers) \cup Permutations(JobIds)
=============================================================================
