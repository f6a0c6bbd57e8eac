----------------------------- MODULE MCDetector -----------------------------
(* The detector for TLC.  A condition above the floor (scan), one below it *)
(* (low), an event (event) and a finding of no known producer (bare).      *)
EXTENDS Detector, TLC

CONSTANTS scan, low, event, bare, nuclei, cloudcdr

MCProducerOf ==
  [k \in IssueKeys |-> IF k \in {scan, low} THEN nuclei
                       ELSE IF k = event THEN cloudcdr ELSE NoProducer]

Perms == Permutations(Calls) \cup Permutations(IncIds)
=============================================================================
