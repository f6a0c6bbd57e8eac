----------------------------- MODULE ActionGate -----------------------------
(***************************************************************************)
(* What the approval desk promises of one remediation action, with no      *)
(* steps in between: a proposal either waits for a person or is applied at *)
(* once, a waiting action is decided exactly once, and only an applied one *)
(* has reached the customer's system.                                      *)
(***************************************************************************)
CONSTANT ActionIds

VARIABLES status,   \* status of each action, "none" before it is proposed
          reached   \* the actions written to the customer's system

gateVars == <<status, reached>>

Undecided == {"none", "pending_approval"}

Init == /\ status = [i \in ActionIds |-> "none"]
        /\ reached = {}

Wait(i) ==
  /\ status[i] = "none"
  /\ status' = [status EXCEPT ![i] = "pending_approval"]
  /\ UNCHANGED reached

Apply(i) ==
  /\ status[i] \in Undecided
  /\ status' = [status EXCEPT ![i] = "applied"]
  /\ reached' = reached \cup {i}

(* approved, but the delivery failed *)
FailToApply(i) ==
  /\ status[i] \in Undecided
  /\ status' = [status EXCEPT ![i] = "approved"]
  /\ UNCHANGED reached

Withhold(i) ==
  /\ status[i] = "pending_approval"
  /\ \E s \in {"rejected", "changes_requested"} : status' = [status EXCEPT ![i] = s]
  /\ UNCHANGED reached

Next == \E i \in ActionIds : Wait(i) \/ Apply(i) \/ FailToApply(i) \/ Withhold(i)

Spec == Init /\ [][Next]_gateVars
=============================================================================
