-------------------------------- MODULE Desk --------------------------------
(***************************************************************************)
(* internal/hitl: the human-in-the-loop desk between an agent that         *)
(* proposes a remediation and the connector that applies it.  Submit and   *)
(* Decide run on request goroutines (Calls) over one tenant's store; each  *)
(* is split at its store accesses and at the delivery, because the desk    *)
(* holds no lock: an action read at the start of Decide is the copy that   *)
(* is written back at the end.                                             *)
(*                                                                         *)
(* Environment: the owner toggles the kill-switch, a delivery succeeds or  *)
(* fails, and the faults named by the constant Faults happen at most       *)
(* MaxFaults times: "put" (PutAction errors), "tenant_read" (GetTenant     *)
(* errors, which halted() reads as NOT halted) and "crash" (the process    *)
(* dies, every call with it; the store survives).                          *)
(*                                                                         *)
(* Abstracted: titles, kinds, timestamps, notification text and the error  *)
(* wording.  A payload is its two effect-defining keys (target and         *)
(* remediation_type) and its body, each as proposed or edited.             *)
(***************************************************************************)
EXTENDS Integers, FiniteSets

CONSTANTS Calls,      \* request goroutines inside the desk
          ActionIds,  \* ids the proposers mint; bounds the number of actions
          NoAction,   \* "no action"
          Tiers,      \* autonomy tiers proposals can have
          Humans,     \* names a person signs with
          Grant,      \* approver string of an earned-autonomy grant
          Faults,     \* fault kinds that can happen
          MaxFaults   \* how many faults can happen

AutoApprover == "auto"
Nobody == ""
Approvers == Humans \cup {Grant, AutoApprover, Nobody}

ASSUME DeskAssumption ==
  /\ NoAction \notin ActionIds
  /\ Tiers \subseteq 0..3 /\ Tiers # {}
  /\ Grant \notin Humans \cup {AutoApprover, Nobody}
  /\ Humans \cap {AutoApprover, Nobody} = {}
  /\ Faults \subseteq {"put", "tenant_read", "crash"}
  /\ MaxFaults \in Nat

VARIABLES
  actions,     \* the store: id -> action record ("none": never stored)
  halted,      \* Tenant.AgentsHalted
  call,        \* the desk call each goroutine is in
  delivered,   \* history: who signed the deliveries of an action that succeeded
  twice,       \* history: the actions delivered successfully more than once
  ledger,      \* the signed decision ledger: who signed an action's "applied" entries
  minted,      \* ids handed to Submit so far
  faults       \* faults so far

vars == <<actions, halted, call, delivered, twice, ledger, minted, faults>>

GateTier == 2
TierIrreversible == 3

Statuses == {"none", "pending_approval", "approved", "applied", "rejected", "changes_requested"}
(* A payload says of each key whether it is as proposed or edited since.   *)
Keys     == {"target", "remediation_type", "body"}
ProtectedPayloadKeys == {"target", "remediation_type"}
Payload  == [Keys -> {"proposed", "edited"}]
Action   == [status : Statuses, tier : Tiers, approver : Approvers,
             payload : Payload, err : BOOLEAN]

NeedsApproval(a)       == a.tier >= GateTier
NeedsHumanSignature(a) == a.tier >= TierIrreversible

(* A verdict as it arrives: flags, who signs, what is edited.              *)
Verdict == [approver : Humans \cup {AutoApprover, Nobody}, approve : BOOLEAN,
            changes : BOOLEAN, feedback : BOOLEAN, edit : SUBSET Keys]

Proposal(t) == [status |-> "none", tier |-> t, approver |-> Nobody,
                payload |-> [k \in Keys |-> "proposed"], err |-> FALSE]

Unstored == Proposal(CHOOSE t \in Tiers : TRUE)

(* Where a call is.  "queue": will store the action pending; "verdict":    *)
(* will store a rejection or a change request; "gate": an approval about   *)
(* to look at the kill-switch; "check": entered apply(); "requeue": apply  *)
(* refused, will store it pending; "deliver": cleared to deliver;          *)
(* "applied"/"failed": delivered, will store the outcome.                  *)
Pc == {"idle", "queue", "verdict", "gate", "check", "requeue", "deliver", "applied", "failed"}

(* brake: the kill-switch was engaged before this call reached the         *)
(* backstop in apply(), and has not been released since.                   *)
(* yes: a Decide call whose verdict was a plain approval.                  *)
Call == [pc : Pc, id : ActionIds \cup {NoAction}, a : Action, who : Approvers,
         via : {"submit", "decide"}, yes : BOOLEAN, brake : BOOLEAN]

IdleCall == [pc |-> "idle", id |-> NoAction, a |-> Unstored, who |-> Nobody,
             via |-> "submit", yes |-> FALSE, brake |-> FALSE]

TypeOK ==
  /\ actions \in [ActionIds -> Action]
  /\ halted \in BOOLEAN
  /\ call \in [Calls -> Call]
  /\ delivered \in [ActionIds -> SUBSET Approvers]
  /\ twice \subseteq ActionIds
  /\ ledger \in [ActionIds -> SUBSET Approvers]
  /\ minted \subseteq ActionIds
  /\ faults \in 0..MaxFaults

Init ==
  /\ actions = [i \in ActionIds |-> Unstored]
  /\ halted \in BOOLEAN
  /\ call = [p \in Calls |-> IdleCall]
  /\ delivered = [i \in ActionIds |-> {}]
  /\ twice = {}
  /\ ledger = [i \in ActionIds |-> {}]
  /\ minted = {}
  /\ faults = 0

-----------------------------------------------------------------------------
(* Store accesses.                                                         *)

Fault(kind) == kind \in Faults /\ faults < MaxFaults /\ faults' = faults + 1

(* PutAction: the whole record replaces whatever is stored. *)
PutOk(i, a)  == actions' = [actions EXCEPT ![i] = a] /\ UNCHANGED faults
PutErr       == UNCHANGED actions /\ Fault("put")

(* halted(): h is what the caller sees; a read error reads as not halted.  *)
HaltedRead(h) == \/ h = halted /\ UNCHANGED faults
                 \/ h = FALSE /\ Fault("tenant_read")

(* record(): every decision is an entry; the properties tell apart only    *)
(* the "applied" ones, so only those are kept.                             *)
Record(e, i, w) ==
  ledger' = IF e = "applied" THEN [ledger EXCEPT ![i] = @ \cup {w}] ELSE ledger

Return(p)    == call' = [call EXCEPT ![p] = IdleCall]

EnterApply(p, c, w) ==
  call' = [call EXCEPT ![p] = [c EXCEPT !.pc = "check", !.who = w, !.brake = halted]]

-----------------------------------------------------------------------------
(* Submit.                                                                 *)

(* Read the kill-switch; ask the Autonomy hook about a tier-2 action (the  *)
(* hook's answer is the environment's choice); then queue or apply.        *)
Submit(p) ==
  /\ call[p].pc = "idle"
  /\ \E i \in ActionIds \ minted, t \in Tiers, h \in BOOLEAN :
       LET c == [IdleCall EXCEPT !.id = i, !.a = Proposal(t), !.via = "submit"]
       IN  /\ minted' = minted \cup {i}
           /\ HaltedRead(h)
           /\ \/ /\ ~h /\ t = GateTier
                 /\ EnterApply(p, [c EXCEPT !.a.approver = Grant], Grant)
                 /\ Record("earned_autonomy", i, Grant)
              \/ /\ NeedsApproval(c.a) \/ h
                 /\ call' = [call EXCEPT ![p] = [c EXCEPT !.pc = "queue"]]
                 /\ UNCHANGED ledger
              \/ /\ ~NeedsApproval(c.a) /\ ~h
                 /\ EnterApply(p, c, AutoApprover)
                 /\ UNCHANGED ledger
  /\ UNCHANGED <<actions, halted, delivered, twice>>

(* Store it pending and record "queued"; a store error is returned.        *)
Queue(p) ==
  /\ call[p].pc = "queue"
  /\ LET c == call[p] IN
       \/ PutOk(c.id, [c.a EXCEPT !.status = "pending_approval"]) /\ Record("queued", c.id, Nobody)
       \/ PutErr /\ UNCHANGED ledger
  /\ Return(p)
  /\ UNCHANGED <<halted, delivered, twice, minted>>

-----------------------------------------------------------------------------
(* Decide.                                                                 *)

(* Mutant: the edit overwrites whatever keys it names. *)
EditedAnyKey(a, v) ==
  [a EXCEPT !.payload = [k \in Keys |-> IF k \in v.edit THEN "edited" ELSE a.payload[k]]]

(* Human edits ride onto the payload, but never onto the protected keys.   *)
Edited(a, v) ==
  [a EXCEPT !.payload = [k \in Keys |->
     IF k \in v.edit \ ProtectedPayloadKeys THEN "edited" ELSE a.payload[k]]]

(* Mutant: the approve flag is looked at before the change request. *)
JudgedApproveFirst(a, v) ==
  LET b == [Edited(a, v) EXCEPT !.approver = v.approver]
  IN  IF v.approve THEN b
      ELSE IF v.changes THEN [a EXCEPT !.status = "changes_requested"]
      ELSE [b EXCEPT !.status = "rejected"]

(* The copy Decide goes on with: a change request is checked first; a      *)
(* rejection and an approval carry approver and edits.                     *)
Judged(a, v) ==
  IF v.changes
    THEN [a EXCEPT !.status = "changes_requested"]
    ELSE LET b == [Edited(a, v) EXCEPT !.approver = v.approver]
         IN  IF v.approve THEN b ELSE [b EXCEPT !.status = "rejected"]

(* Mutant: Decide without the pending check. *)
DecideAnyStatus(p) ==
  /\ call[p].pc = "idle"
  /\ \E i \in minted, v \in Verdict :
       /\ v.approver # Nobody
       /\ v.changes => v.feedback
       /\ LET c == [IdleCall EXCEPT !.id = i, !.a = Judged(actions[i], v), !.who = v.approver,
                                    !.via = "decide", !.yes = v.approve /\ ~v.changes]
          IN  call' = [call EXCEPT ![p] =
                [c EXCEPT !.pc = IF v.approve /\ ~v.changes THEN "gate" ELSE "verdict"]]
  /\ UNCHANGED <<actions, halted, delivered, twice, ledger, minted, faults>>

(* GetAction and the guards: only a pending action, only with a name, a    *)
(* change request only with feedback.                                      *)
Decide(p) ==
  /\ call[p].pc = "idle"
  /\ \E i \in minted, v \in Verdict :
       /\ actions[i].status = "pending_approval"
       /\ v.approver # Nobody
       /\ v.changes => v.feedback
       /\ LET c == [IdleCall EXCEPT !.id = i, !.a = Judged(actions[i], v), !.who = v.approver,
                                    !.via = "decide", !.yes = v.approve /\ ~v.changes]
          IN  call' = [call EXCEPT ![p] =
                [c EXCEPT !.pc = IF c.a.status = "pending_approval" THEN "gate" ELSE "verdict"]]
  /\ UNCHANGED <<actions, halted, delivered, twice, ledger, minted, faults>>

(* Store a rejection or a change request and record it. *)
StoreVerdict(p) ==
  /\ call[p].pc = "verdict"
  /\ LET c == call[p] IN
       \/ PutOk(c.id, c.a) /\ Record(c.a.status, c.id, c.who)
       \/ PutErr /\ UNCHANGED ledger
  /\ Return(p)
  /\ UNCHANGED <<halted, delivered, twice, minted>>

(* An approval under an engaged kill-switch returns ErrHalted and writes   *)
(* nothing; otherwise it goes on to apply().                               *)
ApprovalGate(p) ==
  /\ call[p].pc = "gate"
  /\ \E h \in BOOLEAN :
       /\ HaltedRead(h)
       /\ IF h THEN Return(p) ELSE EnterApply(p, call[p], call[p].who)
  /\ UNCHANGED <<actions, halted, delivered, twice, ledger, minted>>

-----------------------------------------------------------------------------
(* apply(): the two backstops, the delivery, the outcome.                  *)

Unsigned(c) == NeedsHumanSignature(c.a) /\ c.who \in {Nobody, AutoApprover}

(* An unsigned T3 action is sent back before the switch is even read. *)
CheckSignature(p) ==
  /\ call[p].pc = "check"
  /\ Unsigned(call[p])
  /\ call' = [call EXCEPT ![p].pc = "requeue"]
  /\ UNCHANGED <<actions, halted, delivered, twice, ledger, minted, faults>>

(* Mutant: no kill-switch backstop. *)
CheckSwitchSkipped(p) ==
  /\ call[p].pc = "check"
  /\ ~Unsigned(call[p])
  /\ call' = [call EXCEPT ![p].pc = "deliver"]
  /\ UNCHANGED <<actions, halted, delivered, twice, ledger, minted, faults>>

(* The kill-switch backstop. *)
CheckSwitch(p) ==
  /\ call[p].pc = "check"
  /\ ~Unsigned(call[p])
  /\ \E h \in BOOLEAN :
       /\ HaltedRead(h)
       /\ call' = [call EXCEPT ![p].pc = IF h THEN "requeue" ELSE "deliver"]
  /\ UNCHANGED <<actions, halted, delivered, twice, ledger, minted>>

(* Put the refused action back on the queue (a store error is ignored) and *)
(* record which backstop refused it.                                       *)
Requeue(p) ==
  /\ call[p].pc = "requeue"
  /\ LET c == call[p] IN
       /\ PutOk(c.id, [c.a EXCEPT !.status = "pending_approval"]) \/ PutErr
       /\ Record(IF Unsigned(c) THEN "blocked_t3_needs_signature" ELSE "blocked_killswitch",
                 c.id, c.who)
  /\ Return(p)
  /\ UNCHANGED <<halted, delivered, twice, minted>>

(* The Applier writes to the customer's system, or fails. *)
Deliver(p) ==
  /\ call[p].pc = "deliver"
  /\ LET i == call[p].id IN
       \/ /\ call' = [call EXCEPT ![p].pc = "applied"]
          /\ delivered' = [delivered EXCEPT ![i] = @ \cup {call[p].who}]
          /\ twice' = IF delivered[i] = {} THEN twice ELSE twice \cup {i}
       \/ /\ call' = [call EXCEPT ![p].pc = "failed"]
          /\ UNCHANGED <<delivered, twice>>
  /\ UNCHANGED <<actions, halted, ledger, minted, faults>>

(* Store "applied" and record it; a store error returns BEFORE the record. *)
StoreApplied(p) ==
  /\ call[p].pc = "applied"
  /\ LET c == call[p] IN
       \/ PutOk(c.id, [c.a EXCEPT !.status = "applied", !.err = FALSE]) /\ Record("applied", c.id, c.who)
       \/ PutErr /\ UNCHANGED ledger
  /\ Return(p)
  /\ UNCHANGED <<halted, delivered, twice, minted>>

(* Mutant: a failed delivery is stored as applied. *)
StoreFailedAsApplied(p) ==
  /\ call[p].pc = "failed"
  /\ LET c == call[p] IN
       /\ PutOk(c.id, [c.a EXCEPT !.status = "applied", !.err = TRUE])
       /\ Record("apply_failed", c.id, c.who)
  /\ Return(p)
  /\ UNCHANGED <<halted, delivered, twice, minted>>

(* A failed delivery stays visible: approved, with its error. *)
StoreFailed(p) ==
  /\ call[p].pc = "failed"
  /\ LET c == call[p] IN
       /\ PutOk(c.id, [c.a EXCEPT !.status = "approved", !.err = TRUE]) \/ PutErr
       /\ Record("apply_failed", c.id, c.who)
  /\ Return(p)
  /\ UNCHANGED <<halted, delivered, twice, minted>>

-----------------------------------------------------------------------------
(* The environment.                                                        *)

(* handleKillSwitch: anyone engages it, the owner releases it. *)
KillSwitch ==
  /\ halted' = ~halted
  /\ call' = [p \in Calls |-> [call[p] EXCEPT !.brake = ~halted /\ call[p].pc = "check"]]
  /\ UNCHANGED <<actions, delivered, twice, ledger, minted, faults>>

Crash ==
  /\ Fault("crash")
  /\ \E p \in Calls : call[p].pc # "idle"
  /\ call' = [p \in Calls |-> IdleCall]
  /\ UNCHANGED <<actions, halted, delivered, twice, ledger, minted>>

Step(p) == \/ Submit(p) \/ Queue(p)
           \/ Decide(p) \/ StoreVerdict(p) \/ ApprovalGate(p)
           \/ CheckSignature(p) \/ CheckSwitch(p) \/ Requeue(p)
           \/ Deliver(p) \/ StoreApplied(p) \/ StoreFailed(p)

Next == (\E p \in Calls : Step(p)) \/ KillSwitch \/ Crash

Spec == Init /\ [][Next]_vars

-----------------------------------------------------------------------------
(* Properties.                                                             *)

Cleared(p) == call[p].pc = "deliver"

(* The tier gate, on every path and under every interleaving: nothing a    *)
(* Submit call delivers on its own is above tier 1, except a tier-2 action *)
(* under an earned-autonomy grant; what a Decide call delivers was a plain *)
(* yes (a change request, even with the approve flag set, withholds it);   *)
(* and a T3 action carries a person's name.                                *)
GateHolds ==
  \A p \in Calls : Cleared(p) =>
    /\ call[p].via = "submit" =>
         call[p].a.tier < GateTier \/ (call[p].a.tier = GateTier /\ call[p].who = Grant)
    /\ call[p].via = "decide" => call[p].yes
    /\ call[p].a.tier >= TierIrreversible => call[p].who \in Humans

(* What is delivered, and what is stored for the next reader, is what was  *)
(* proposed: an approver's edit never retargets it (protectedPayloadKeys). *)
TargetIntegrity ==
  \A k \in ProtectedPayloadKeys :
    /\ \A p \in Calls : Cleared(p) => call[p].a.payload[k] = "proposed"
    /\ \A i \in ActionIds : actions[i].payload[k] = "proposed"

(* The backstop in apply(): a switch engaged at any time before a call     *)
(* reached it, after the read on the way into apply() too, and not         *)
(* released since, stops that call's delivery.                             *)
BrakeHolds == \A p \in Calls : Cleared(p) => ~call[p].brake

(* A stored "applied" is true and signed by whoever really applied it,     *)
(* even when two calls race on one action or the process crashes.          *)
Signer(a) == IF a.approver = Nobody THEN AutoApprover ELSE a.approver
AppliedWasDelivered ==
  \A i \in ActionIds : actions[i].status = "applied" => Signer(actions[i]) \in delivered[i]

(* With the desk calls one after another and no fault, an action reaches   *)
(* the customer's system at most once.                                     *)
DeliveredOnce == twice = {}

(* ... and the desk implements the atomic approval gate of ActionGate: a   *)
(* queued action is decided once and stays decided.  An action counts as   *)
(* settled from its delivery on, before the outcome is stored.             *)
PcOf(i, pc) == \E p \in Calls : call[p].id = i /\ call[p].pc = pc
AbsStatus(i) == IF PcOf(i, "applied") THEN "applied"
                ELSE IF PcOf(i, "failed") THEN "approved"
                ELSE actions[i].status
AtomicGate == INSTANCE ActionGate WITH
  status  <- [i \in ActionIds |-> AbsStatus(i)],
  reached <- {i \in ActionIds : delivered[i] # {}}
ImplementsGate == AtomicGate!Spec

-----------------------------------------------------------------------------
(* Statements of the repository that the desk does not keep.               *)

(* "A double-submitted id would otherwise be decided twice, and the second *)
(* decision would fail confusingly on an action no longer pending": two    *)
(* concurrent decisions both pass the pending check.                       *)
SecondDecisionFails == DeliveredOnce

(* "no write path executes under an engaged kill-switch, whatever called   *)
(* us": a switch engaged after the backstop's read does not stop the       *)
(* delivery that follows it.                                               *)
NoDeliveryWhileHalted == [][(delivered' # delivered) => ~halted]_vars

(* "Every decision -- auto-apply or human verdict -- is written to the     *)
(* signed decision ledger": read when no call is in flight.                *)
EveryDeliveryRecorded ==
  (\A p \in Calls : call[p].pc = "idle") =>
    \A i \in ActionIds : \A w \in delivered[i] :
      w \in ledger[i]
=============================================================================
