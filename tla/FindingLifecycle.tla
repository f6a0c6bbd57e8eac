-------------------------- MODULE FindingLifecycle --------------------------
(***************************************************************************)
(* What internal/findingstore promises of every tracked finding: it is     *)
(* first seen open, a scan that misses it makes it fixed, a scan that sees *)
(* it again reopens it, and only a person moves it anywhere else.          *)
(***************************************************************************)
CONSTANTS Issues, Decisions  \* Decisions: the statuses people set

VARIABLE status  \* "none": never seen

Statuses == {"none", "open", "fixed", "reopened", "verified", "closed", "accepted_risk"}
Active == {"open", "reopened"}

Init == status = [i \in Issues |-> "none"]

(* The moves one scan may make, of any number of findings.                 *)
Observe == { <<"none", "open">>, <<"fixed", "reopened">>, <<"verified", "reopened">>,
             <<"open", "fixed">>, <<"reopened", "fixed">> }

Ingest ==
  /\ status' \in [Issues -> Statuses]
  /\ \A i \in Issues : status'[i] = status[i] \/ <<status[i], status'[i]>> \in Observe

Decide(i, to) ==
  /\ status[i] # "none"
  /\ status' = [status EXCEPT ![i] = to]

Next == Ingest \/ \E i \in Issues, to \in Decisions : Decide(i, to)

Spec == Init /\ [][Next]_status
=============================================================================
