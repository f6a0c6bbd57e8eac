----------------------------- MODULE DeskProofs -----------------------------
(***************************************************************************)
(* Theorems about the approval desk, for any number of concurrent calls,   *)
(* actions, people and faults.  The invariants are not inductive as they   *)
(* stand: what a delivery may rely on is decided several steps earlier, so *)
(* IInv says what every call carries from the step that decides it.        *)
(***************************************************************************)
EXTENDS Desk, TLAPS

(* apply() and everything after it. *)
Applying == {"check", "requeue", "deliver", "applied", "failed"}

Intact(a) == \A k \in ProtectedPayloadKeys : a.payload[k] = "proposed"

(* What a call knows about the action it carries. *)
CallSafe(c) ==
  /\ c.pc # "idle" => c.id \in ActionIds
  /\ c.via = "submit" /\ c.pc \in Applying =>
       c.a.tier < GateTier \/ (c.a.tier = GateTier /\ c.who = Grant)
  /\ c.pc = "gate" => c.via = "decide"
  /\ c.via = "decide" /\ c.pc \in Applying \cup {"gate"} =>
       c.yes /\ c.who \in Humans \cup {AutoApprover}
  /\ c.pc \in Applying \cup {"gate"} => Signer(c.a) = c.who
  /\ c.pc \in {"deliver", "applied", "failed"} => ~Unsigned(c)
  /\ c.pc = "verdict" => c.a.status \in {"rejected", "changes_requested"}
  /\ Intact(c.a)

CallsSafe == \A p \in Calls :
  /\ CallSafe(call[p])
  /\ call[p].pc = "applied" => call[p].who \in delivered[call[p].id]

StoreSafe == \A i \in ActionIds :
  /\ Intact(actions[i])
  /\ actions[i].status = "applied" => Signer(actions[i]) \in delivered[i]

IInv == TypeOK /\ CallsSafe /\ StoreSafe

-----------------------------------------------------------------------------
LEMMA UnstoredType == Unstored \in Action /\ Intact(Unstored) /\ Unstored.status = "none"
<1>1. (CHOOSE t \in Tiers : TRUE) \in Tiers
  BY DeskAssumption
<1> QED
  BY <1>1 DEF Unstored, Proposal, Action, Payload, Keys, ProtectedPayloadKeys, Statuses,
              Approvers, Intact

LEMMA IdleSafe == IdleCall \in Call /\ CallSafe(IdleCall) /\ IdleCall.pc = "idle"
<1>1. IdleCall \in Call
  BY UnstoredType DEF IdleCall, Call, Pc, Approvers
<1> QED
  BY <1>1, UnstoredType DEF IdleCall, CallSafe, Applying

LEMMA ProposalType ==
  ASSUME NEW t \in Tiers
  PROVE  Proposal(t) \in Action /\ Intact(Proposal(t))
         /\ Proposal(t).tier = t /\ Proposal(t).approver = Nobody
BY DEF Proposal, Action, Payload, Keys, ProtectedPayloadKeys, Statuses, Approvers, Intact

(* An edit never touches the keys that define the effect. *)
LEMMA EditedType ==
  ASSUME NEW a \in Action, Intact(a), NEW v \in Verdict
  PROVE  /\ Edited(a, v) \in Action /\ Intact(Edited(a, v))
         /\ Edited(a, v).status = a.status
BY DEF Edited, Action, Payload, Keys, ProtectedPayloadKeys, Intact

(* Only a plain yes leaves the action pending; it then carries the name of *)
(* whoever said so.                                                        *)
LEMMA JudgedType ==
  ASSUME NEW a \in Action, Intact(a), a.status = "pending_approval", NEW v \in Verdict
  PROVE  /\ Judged(a, v) \in Action /\ Intact(Judged(a, v))
         /\ Judged(a, v).status \in {"pending_approval", "rejected", "changes_requested"}
         /\ Judged(a, v).status = "pending_approval" =>
              v.approve /\ ~v.changes /\ Judged(a, v).approver = v.approver
<1> DEFINE b == [Edited(a, v) EXCEPT !.approver = v.approver]
<1>1. v.approver \in Approvers
  BY DEF Verdict, Approvers
<1>2. /\ b \in Action /\ Intact(b)
      /\ b.status = "pending_approval" /\ b.approver = v.approver
  BY <1>1, EditedType DEF Action, Intact
<1>3. CASE v.changes
  BY <1>3 DEF Judged, Action, Statuses, Intact
<1>4. CASE ~v.changes /\ v.approve
  <2>1. Judged(a, v) = b
    BY <1>4 DEF Judged
  <2> QED BY <2>1, <1>2, <1>4
<1>5. CASE ~v.changes /\ ~v.approve
  <2>1. Judged(a, v) = [b EXCEPT !.status = "rejected"]
    BY <1>5 DEF Judged
  <2> HIDE DEF b
  <2> QED BY <2>1, <1>2, <1>5 DEF Action, Statuses, Intact
<1> QED BY <1>3, <1>4, <1>5 DEF Verdict

(* A call that changes only itself, into a safe call. *)
LEMMA OneCall ==
  ASSUME IInv, NEW p \in Calls, NEW c \in Call, CallSafe(c), c.pc # "applied",
         call' = [call EXCEPT ![p] = c],
         delivered' \in [ActionIds -> SUBSET Approvers],
         \A i \in ActionIds : delivered[i] \subseteq delivered'[i]
  PROVE  call' \in [Calls -> Call] /\ CallsSafe'
<1>1. call \in [Calls -> Call] /\ CallsSafe /\ delivered \in [ActionIds -> SUBSET Approvers]
  BY DEF IInv, TypeOK
<1>2. call' \in [Calls -> Call]
  BY <1>1
<1>3. ASSUME NEW q \in Calls
      PROVE  CallSafe(call'[q])
             /\ (call'[q].pc = "applied" => call'[q].who \in delivered'[call'[q].id])
  <2>1. CASE q = p
    BY <1>1, <2>1
  <2>2. CASE q # p
    <3>1. call'[q] = call[q]
      BY <1>1, <2>2
    <3>2. CallSafe(call[q]) /\ (call[q].pc = "applied" => call[q].who \in delivered[call[q].id])
      BY <1>1 DEF CallsSafe
    <3>3. call[q].pc = "applied" => call[q].id \in ActionIds
      BY <3>2 DEF CallSafe
    <3> QED BY <3>1, <3>2, <3>3
  <2> QED BY <2>1, <2>2
<1> QED BY <1>2, <1>3 DEF CallsSafe

(* A write of one safe record. *)
LEMMA OneWrite ==
  ASSUME IInv, NEW i \in ActionIds, NEW a \in Action, Intact(a), delivered' = delivered,
         a.status = "applied" => Signer(a) \in delivered[i],
         actions' = [actions EXCEPT ![i] = a]
  PROVE  actions' \in [ActionIds -> Action] /\ StoreSafe'
<1>1. actions \in [ActionIds -> Action] /\ StoreSafe
  BY DEF IInv, TypeOK
<1> QED
  BY <1>1 DEF StoreSafe, Intact, Signer

(* PutAction with its error path. *)
LEMMA PutSafe ==
  ASSUME IInv, NEW i \in ActionIds, NEW a \in Action, Intact(a), delivered' = delivered,
         a.status = "applied" => Signer(a) \in delivered[i],
         PutOk(i, a) \/ PutErr
  PROVE  actions' \in [ActionIds -> Action] /\ StoreSafe' /\ faults' \in 0..MaxFaults
<1>1. faults \in 0..MaxFaults /\ MaxFaults \in Nat
  BY DeskAssumption DEF IInv, TypeOK
<1>2. CASE PutOk(i, a)
  BY <1>1, <1>2, OneWrite DEF PutOk
<1>3. CASE PutErr
  <2>1. actions' = actions /\ faults' \in 0..MaxFaults
    BY <1>1, <1>3 DEF PutErr, Fault
  <2> QED BY <2>1 DEF IInv, TypeOK, StoreSafe, Intact, Signer
<1> QED BY <1>2, <1>3

(* The ledger only gains names. *)
LEMMA RecordType ==
  ASSUME IInv, NEW e, NEW i \in ActionIds, NEW w \in Approvers, Record(e, i, w)
  PROVE  ledger' \in [ActionIds -> SUBSET Approvers]
BY DEF IInv, TypeOK, Record

LEMMA FaultType ==
  ASSUME IInv, NEW h \in BOOLEAN, HaltedRead(h)
  PROVE  faults' \in 0..MaxFaults
BY DeskAssumption DEF IInv, TypeOK, HaltedRead, Fault

(* What a call in progress carries, unfolded. *)
LEMMA CallFacts ==
  ASSUME IInv, NEW p \in Calls
  PROVE  /\ call[p] \in Call /\ CallSafe(call[p])
         /\ call[p].a \in Action /\ Intact(call[p].a) /\ call[p].who \in Approvers
         /\ call[p].pc # "idle" => call[p].id \in ActionIds
         /\ call[p].pc = "applied" => call[p].who \in delivered[call[p].id]
BY DEF IInv, TypeOK, CallsSafe, CallSafe, Call

LEMMA SubmitSafe ==
  ASSUME IInv, NEW p \in Calls, Submit(p)
  PROVE  IInv'
<1>1. PICK i \in ActionIds \ minted, t \in Tiers, h \in BOOLEAN :
        LET c == [IdleCall EXCEPT !.id = i, !.a = Proposal(t), !.via = "submit"]
        IN  /\ minted' = minted \cup {i}
            /\ HaltedRead(h)
            /\ \/ /\ ~h /\ t = GateTier
                  /\ EnterApply(p, [c EXCEPT !.a.approver = Grant], Grant)
                  /\ Record("earned_autonomy", i, Grant)
               \/ /\ NeedsApproval(c.a) \/ h
                  /\ call' = [call EXCEPT ![p] = [c EXCEPT !.pc = "queue"]]
                  /\ UNCHANGED ledger
               \/ /\ ~NeedsApproval(c.a) /\ ~h
                  /\ EnterApply(p, c, AutoApprover)
                  /\ UNCHANGED ledger
  BY ZenonT(60) DEF Submit
<1> DEFINE c == [IdleCall EXCEPT !.id = i, !.a = Proposal(t), !.via = "submit"]
<1>2. UNCHANGED <<actions, halted, delivered, twice>>
  BY DEF Submit
<1>3. c \in Call /\ c.pc = "idle" /\ c.a = Proposal(t) /\ c.id = i /\ c.via = "submit"
      /\ c.who = Nobody
  BY IdleSafe, ProposalType DEF Call, IdleCall
<1>4. Proposal(t) \in Action /\ Intact(Proposal(t)) /\ Proposal(t).tier = t
      /\ Proposal(t).approver = Nobody
  BY ProposalType
<1>5. halted \in BOOLEAN /\ t \in 0..3
  BY DeskAssumption DEF IInv, TypeOK
<1> HIDE DEF c
<1>6. ledger' \in [ActionIds -> SUBSET Approvers]
  BY <1>1, <1>2, RecordType DEF IInv, TypeOK, Approvers, c
<1>7. call' \in [Calls -> Call] /\ CallsSafe'
  <2>1. CASE /\ ~h /\ t = GateTier
             /\ EnterApply(p, [c EXCEPT !.a.approver = Grant], Grant)
    <3> DEFINE d == [[c EXCEPT !.a.approver = Grant]
                        EXCEPT !.pc = "check", !.who = Grant, !.brake = halted]
    <3>1. call' = [call EXCEPT ![p] = d]
      BY <2>1 DEF EnterApply
    <3>2. d \in Call
      BY <1>3, <1>4, <1>5 DEF Call, Action, Approvers, Pc
    <3>3. CallSafe(d) /\ d.pc # "applied"
      BY <1>3, <1>4, <2>1, DeskAssumption
      DEF CallSafe, Applying, Signer, Intact, Call, Action, GateTier
    <3> HIDE DEF d
    <3> QED BY <3>1, <3>2, <3>3, <1>2, OneCall DEF IInv, TypeOK
  <2>2. CASE call' = [call EXCEPT ![p] = [c EXCEPT !.pc = "queue"]]
    <3> DEFINE d == [c EXCEPT !.pc = "queue"]
    <3>1. d \in Call /\ CallSafe(d) /\ d.pc # "applied"
      BY <1>3, <1>4 DEF Call, Pc, CallSafe, Applying
    <3> HIDE DEF d
    <3>2. call' = [call EXCEPT ![p] = d]
      BY <2>2 DEF d
    <3> QED BY <3>1, <3>2, <1>2, OneCall DEF IInv, TypeOK
  <2>3. CASE ~NeedsApproval(c.a) /\ EnterApply(p, c, AutoApprover)
    <3> DEFINE d == [c EXCEPT !.pc = "check", !.who = AutoApprover, !.brake = halted]
    <3>1. call' = [call EXCEPT ![p] = d]
      BY <2>3 DEF EnterApply
    <3>2. d \in Call
      BY <1>3, <1>4, <1>5 DEF Call, Action, Approvers, Pc
    <3>3. t < GateTier
      BY <1>3, <1>4, <1>5, <2>3 DEF NeedsApproval, GateTier
    <3>4. CallSafe(d) /\ d.pc # "applied"
      BY <1>3, <1>4, <1>5, <3>2, <3>3 DEF CallSafe, Applying, Signer, Intact, Call, Action, GateTier
    <3> HIDE DEF d
    <3> QED BY <3>1, <3>2, <3>4, <1>2, OneCall DEF IInv, TypeOK
  <2> QED BY <1>1, <2>1, <2>2, <2>3 DEF c
<1>8. faults' \in 0..MaxFaults
  BY <1>1, FaultType
<1>9. minted' \subseteq ActionIds
  BY <1>1 DEF IInv, TypeOK
<1>10. StoreSafe'
  BY <1>2 DEF IInv, StoreSafe, Intact, Signer
<1> QED
  BY <1>2, <1>6, <1>7, <1>8, <1>9, <1>10 DEF IInv, TypeOK

LEMMA DecideSafe ==
  ASSUME IInv, NEW p \in Calls, Decide(p)
  PROVE  IInv'
<1>1. PICK i \in minted, v \in Verdict :
        /\ actions[i].status = "pending_approval"
        /\ v.approver # Nobody
        /\ LET c == [IdleCall EXCEPT !.id = i, !.a = Judged(actions[i], v), !.who = v.approver,
                                     !.via = "decide", !.yes = v.approve /\ ~v.changes]
           IN  call' = [call EXCEPT ![p] =
                 [c EXCEPT !.pc = IF c.a.status = "pending_approval" THEN "gate" ELSE "verdict"]]
  BY DEF Decide
<1>2. i \in ActionIds /\ actions[i] \in Action /\ Intact(actions[i])
  BY DEF IInv, TypeOK, StoreSafe
<1> DEFINE a == Judged(actions[i], v)
           c == [IdleCall EXCEPT !.id = i, !.a = a, !.who = v.approver,
                                 !.via = "decide", !.yes = v.approve /\ ~v.changes]
           d == [c EXCEPT !.pc = IF c.a.status = "pending_approval" THEN "gate" ELSE "verdict"]
<1>3. /\ a \in Action /\ Intact(a)
      /\ a.status \in {"pending_approval", "rejected", "changes_requested"}
      /\ a.status = "pending_approval" => v.approve /\ ~v.changes /\ a.approver = v.approver
  BY <1>1, <1>2, JudgedType
<1>4. v.approver \in Humans \cup {AutoApprover} /\ v.approver \in Approvers
  BY <1>1 DEF Verdict, Approvers
<1>4a. (v.approve /\ ~v.changes) \in BOOLEAN
  OBVIOUS
<1>5. call' = [call EXCEPT ![p] = d]
  BY <1>1
<1> HIDE DEF a
<1>6. /\ c \in Call /\ c.id = i /\ c.a = a /\ c.who = v.approver /\ c.via = "decide"
      /\ c.yes = (v.approve /\ ~v.changes)
  BY <1>2, <1>3, <1>4, <1>4a, IdleSafe DEF Call, IdleCall
<1> HIDE DEF c
<1>7. d \in Call /\ d.pc = IF a.status = "pending_approval" THEN "gate" ELSE "verdict"
  BY <1>6 DEF Call, Pc
<1>8. CallSafe(d) /\ d.pc # "applied"
  <2>1. CASE a.status = "pending_approval"
    BY <1>1, <1>2, <1>3, <1>4, <1>6, <1>7, <2>1 DEF CallSafe, Applying, Signer, Call
  <2>2. CASE a.status # "pending_approval"
    BY <1>2, <1>3, <1>6, <1>7, <2>2 DEF CallSafe, Applying, Call
  <2> QED BY <2>1, <2>2
<1> HIDE DEF d
<1>9. UNCHANGED <<actions, halted, delivered, twice, ledger, minted, faults>>
  BY DEF Decide
<1>10. call' \in [Calls -> Call] /\ CallsSafe'
  BY <1>5, <1>7, <1>8, <1>9, OneCall DEF IInv, TypeOK
<1> QED
  BY <1>9, <1>10 DEF IInv, TypeOK, StoreSafe, Intact, Signer

(* A call that ends after a write: Queue, StoreVerdict, Requeue,           *)
(* StoreApplied and StoreFailed.                                           *)
LEMMA ReturnSafe ==
  ASSUME IInv, NEW p \in Calls, Return(p),
         actions' \in [ActionIds -> Action], StoreSafe', faults' \in 0..MaxFaults,
         ledger' \in [ActionIds -> SUBSET Approvers],
         UNCHANGED <<halted, delivered, twice, minted>>
  PROVE  IInv'
<1>1. call' \in [Calls -> Call] /\ CallsSafe'
  BY IdleSafe, OneCall DEF Return, IInv, TypeOK
<1> QED BY <1>1 DEF IInv, TypeOK

LEMMA StoringSafe ==
  ASSUME IInv, NEW p \in Calls,
         Queue(p) \/ StoreVerdict(p) \/ Requeue(p) \/ StoreApplied(p) \/ StoreFailed(p)
  PROVE  IInv'
<1> DEFINE c == call[p]
<1>1. /\ c \in Call /\ CallSafe(c) /\ c.a \in Action /\ Intact(c.a) /\ c.who \in Approvers
      /\ c.pc # "idle" => c.id \in ActionIds
      /\ c.pc = "applied" => c.who \in delivered[c.id]
  BY CallFacts
<1>2. ledger \in [ActionIds -> SUBSET Approvers] /\ Nobody \in Approvers
  BY DEF IInv, TypeOK, Approvers
<1> HIDE DEF c
<1>3. CASE Queue(p)
  <2> DEFINE a == [c.a EXCEPT !.status = "pending_approval"]
  <2>1. /\ c.id \in ActionIds /\ Return(p)
        /\ PutOk(c.id, a) \/ PutErr
        /\ Record("queued", c.id, Nobody) \/ UNCHANGED ledger
        /\ UNCHANGED <<halted, delivered, twice, minted>>
    BY <1>1, <1>3 DEF Queue, c
  <2>2. a \in Action /\ Intact(a) /\ a.status # "applied"
    BY <1>1 DEF Action, Statuses, Intact
  <2> HIDE DEF a
  <2>3. ledger' \in [ActionIds -> SUBSET Approvers]
    BY <1>2, <2>1, RecordType
  <2>4. actions' \in [ActionIds -> Action] /\ StoreSafe' /\ faults' \in 0..MaxFaults
    BY <2>1, <2>2, PutSafe
  <2> QED BY <2>1, <2>3, <2>4, ReturnSafe
<1>4. CASE StoreVerdict(p)
  <2>1. /\ c.id \in ActionIds /\ Return(p)
        /\ PutOk(c.id, c.a) \/ PutErr
        /\ Record(c.a.status, c.id, c.who) \/ UNCHANGED ledger
        /\ UNCHANGED <<halted, delivered, twice, minted>>
        /\ c.pc = "verdict"
    BY <1>1, <1>4 DEF StoreVerdict, c
  <2>2. c.a.status # "applied"
    BY <1>1, <2>1 DEF CallSafe
  <2>3. ledger' \in [ActionIds -> SUBSET Approvers]
    BY <1>1, <1>2, <2>1, RecordType
  <2>4. actions' \in [ActionIds -> Action] /\ StoreSafe' /\ faults' \in 0..MaxFaults
    BY <1>1, <2>1, <2>2, PutSafe
  <2> QED BY <2>1, <2>3, <2>4, ReturnSafe
<1>5. CASE Requeue(p)
  <2> DEFINE a == [c.a EXCEPT !.status = "pending_approval"]
             e == IF Unsigned(c) THEN "blocked_t3_needs_signature" ELSE "blocked_killswitch"
  <2>1. /\ c.id \in ActionIds /\ Return(p)
        /\ PutOk(c.id, a) \/ PutErr
        /\ Record(e, c.id, c.who)
        /\ UNCHANGED <<halted, delivered, twice, minted>>
    BY <1>1, <1>5 DEF Requeue, c
  <2>2. a \in Action /\ Intact(a) /\ a.status # "applied"
    BY <1>1 DEF Action, Statuses, Intact
  <2> HIDE DEF a, e
  <2>3. ledger' \in [ActionIds -> SUBSET Approvers]
    BY <1>1, <2>1, RecordType
  <2>4. actions' \in [ActionIds -> Action] /\ StoreSafe' /\ faults' \in 0..MaxFaults
    BY <2>1, <2>2, PutSafe
  <2> QED BY <2>1, <2>3, <2>4, ReturnSafe
<1>6. CASE StoreApplied(p)
  <2> DEFINE a == [c.a EXCEPT !.status = "applied", !.err = FALSE]
  <2>1. /\ c.id \in ActionIds /\ Return(p)
        /\ PutOk(c.id, a) \/ PutErr
        /\ Record("applied", c.id, c.who) \/ UNCHANGED ledger
        /\ UNCHANGED <<halted, delivered, twice, minted>>
        /\ c.pc = "applied"
    BY <1>1, <1>6 DEF StoreApplied, c
  <2>2. a \in Action /\ Intact(a) /\ Signer(a) = Signer(c.a)
    BY <1>1 DEF Action, Statuses, Intact, Signer
  <2>3. Signer(a) \in delivered[c.id]
    BY <1>1, <2>1, <2>2 DEF CallSafe, Applying
  <2> HIDE DEF a
  <2>4. ledger' \in [ActionIds -> SUBSET Approvers]
    BY <1>1, <1>2, <2>1, RecordType
  <2>5. actions' \in [ActionIds -> Action] /\ StoreSafe' /\ faults' \in 0..MaxFaults
    BY <2>1, <2>2, <2>3, PutSafe
  <2> QED BY <2>1, <2>4, <2>5, ReturnSafe
<1>7. CASE StoreFailed(p)
  <2> DEFINE a == [c.a EXCEPT !.status = "approved", !.err = TRUE]
  <2>1. /\ c.id \in ActionIds /\ Return(p)
        /\ PutOk(c.id, a) \/ PutErr
        /\ Record("apply_failed", c.id, c.who)
        /\ UNCHANGED <<halted, delivered, twice, minted>>
    BY <1>1, <1>7 DEF StoreFailed, c
  <2>2. a \in Action /\ Intact(a) /\ a.status # "applied"
    BY <1>1 DEF Action, Statuses, Intact
  <2> HIDE DEF a
  <2>3. ledger' \in [ActionIds -> SUBSET Approvers]
    BY <1>1, <2>1, RecordType
  <2>4. actions' \in [ActionIds -> Action] /\ StoreSafe' /\ faults' \in 0..MaxFaults
    BY <2>1, <2>2, PutSafe
  <2> QED BY <2>1, <2>3, <2>4, ReturnSafe
<1> QED BY <1>3, <1>4, <1>5, <1>6, <1>7

(* The steps of a call between its reads and its writes. *)
LEMMA ApplyingSafe ==
  ASSUME IInv, NEW p \in Calls, ApprovalGate(p) \/ CheckSignature(p) \/ CheckSwitch(p)
  PROVE  IInv'
<1> DEFINE c == call[p]
<1>1. c \in Call /\ CallSafe(c)
  BY CallFacts
<1>2. halted \in BOOLEAN /\ call \in [Calls -> Call]
  BY DEF IInv, TypeOK
<1>3. UNCHANGED <<actions, halted, delivered, twice, ledger, minted>> /\ faults' \in 0..MaxFaults
  <2>1. CASE ApprovalGate(p)    BY <2>1, FaultType DEF ApprovalGate
  <2>2. CASE CheckSignature(p)  BY <2>2 DEF CheckSignature, IInv, TypeOK
  <2>3. CASE CheckSwitch(p)     BY <2>3, FaultType DEF CheckSwitch
  <2> QED BY <2>1, <2>2, <2>3
<1>4. ASSUME NEW d \in Call, CallSafe(d), d.pc # "applied", call' = [call EXCEPT ![p] = d]
      PROVE  IInv'
  <2>1. call' \in [Calls -> Call] /\ CallsSafe'
    BY <1>3, <1>4, OneCall DEF IInv, TypeOK
  <2> QED BY <1>3, <2>1 DEF IInv, TypeOK, StoreSafe, Intact, Signer
<1>5. CASE ApprovalGate(p)
  <2>1. c.pc = "gate" /\ (Return(p) \/ EnterApply(p, c, c.who))
    BY <1>5 DEF ApprovalGate
  <2>2. CASE Return(p)
    BY <2>2, <1>4, IdleSafe DEF Return
  <2>3. CASE EnterApply(p, c, c.who)
    <3> DEFINE d == [c EXCEPT !.pc = "check", !.who = c.who, !.brake = halted]
    <3>1. d \in Call /\ d.pc = "check"
      BY <1>1, <1>2 DEF Call, Pc
    <3>2. CallSafe(d)
      BY <1>1, <2>1, <3>1 DEF CallSafe, Applying, Call
    <3>3. call' = [call EXCEPT ![p] = d]
      BY <2>3 DEF EnterApply
    <3> HIDE DEF d
    <3> QED BY <1>4, <3>1, <3>2, <3>3
  <2> QED BY <2>1, <2>2, <2>3
<1>6. CASE CheckSignature(p)
  <2> DEFINE d == [c EXCEPT !.pc = "requeue"]
  <2>1. call' = [call EXCEPT ![p] = d] /\ c.pc = "check"
    BY <1>2, <1>6 DEF CheckSignature
  <2>2. d \in Call /\ CallSafe(d) /\ d.pc # "applied"
    BY <1>1, <2>1 DEF Call, Pc, CallSafe, Applying
  <2> HIDE DEF d
  <2> QED BY <1>4, <2>1, <2>2
<1>7. CASE CheckSwitch(p)
  <2>1. PICK h \in BOOLEAN : call' = [call EXCEPT ![p].pc = IF h THEN "requeue" ELSE "deliver"]
    BY <1>7 DEF CheckSwitch
  <2> DEFINE d == [c EXCEPT !.pc = IF h THEN "requeue" ELSE "deliver"]
  <2>2. call' = [call EXCEPT ![p] = d] /\ c.pc = "check" /\ ~Unsigned(c)
    BY <1>2, <1>7, <2>1 DEF CheckSwitch
  <2>3. d \in Call /\ d.pc # "applied"
    BY <1>1 DEF Call, Pc
  <2>4. ~Unsigned(d)
    BY <1>1, <2>2 DEF Unsigned, NeedsHumanSignature, Call
  <2>5. CallSafe(d)
    BY <1>1, <2>2, <2>3, <2>4 DEF Call, CallSafe, Applying
  <2> HIDE DEF d
  <2> QED BY <1>4, <2>2, <2>3, <2>5
<1> QED BY <1>5, <1>6, <1>7

LEMMA DeliverSafe ==
  ASSUME IInv, NEW p \in Calls, Deliver(p)
  PROVE  IInv'
<1> DEFINE c == call[p]
           d == [c EXCEPT !.pc = "applied"]
           f == [c EXCEPT !.pc = "failed"]
<1>1. /\ c \in Call /\ CallSafe(c) /\ c.who \in Approvers /\ c.pc = "deliver"
      /\ c.id \in ActionIds
  BY CallFacts DEF Deliver
<1>2. /\ call \in [Calls -> Call] /\ delivered \in [ActionIds -> SUBSET Approvers]
      /\ twice \subseteq ActionIds
  BY DEF IInv, TypeOK
<1>3. UNCHANGED <<actions, halted, ledger, minted, faults>>
  BY DEF Deliver
<1>4. /\ d \in Call /\ CallSafe(d) /\ d.pc = "applied" /\ d.id = c.id /\ d.who = c.who
      /\ f \in Call /\ CallSafe(f) /\ f.pc = "failed"
  BY <1>1 DEF Call, Pc, CallSafe, Applying, Unsigned, NeedsHumanSignature
<1>5. CASE /\ call' = [call EXCEPT ![p].pc = "applied"]
           /\ delivered' = [delivered EXCEPT ![c.id] = @ \cup {c.who}]
           /\ twice' = IF delivered[c.id] = {} THEN twice ELSE twice \cup {c.id}
  <2>1. call' = [call EXCEPT ![p] = d]
    BY <1>2, <1>5
  <2> HIDE DEF d
  <2>2. /\ delivered' \in [ActionIds -> SUBSET Approvers]
        /\ \A i \in ActionIds : delivered[i] \subseteq delivered'[i]
        /\ c.who \in delivered'[c.id]
        /\ twice' \subseteq ActionIds
    BY <1>1, <1>2, <1>5
  <2>3. call' \in [Calls -> Call]
    BY <1>2, <1>4, <2>1
  <2>4. ASSUME NEW q \in Calls
        PROVE  CallSafe(call'[q])
               /\ (call'[q].pc = "applied" => call'[q].who \in delivered'[call'[q].id])
    <3>1. CASE q = p
      <4>1. call'[q] = d
        BY <1>2, <2>1, <3>1
      <4> QED BY <4>1, <1>4, <2>2
    <3>2. CASE q # p
      <4>1. call'[q] = call[q]
        BY <1>2, <2>1, <3>2
      <4> QED BY <4>1, <2>2, CallFacts
    <3> QED BY <3>1, <3>2
  <2>5. StoreSafe'
    BY <1>3, <2>2 DEF IInv, StoreSafe, Intact, Signer
  <2>6. CallsSafe'
    BY <2>4 DEF CallsSafe
  <2> QED BY <1>3, <2>2, <2>3, <2>5, <2>6 DEF IInv, TypeOK
<1>6. CASE call' = [call EXCEPT ![p].pc = "failed"] /\ UNCHANGED <<delivered, twice>>
  <2>1. call' = [call EXCEPT ![p] = f]
    BY <1>2, <1>6
  <2> HIDE DEF f
  <2>2. call' \in [Calls -> Call] /\ CallsSafe'
    BY <1>2, <1>4, <1>6, <2>1, OneCall
  <2> QED BY <1>3, <1>6, <2>2 DEF IInv, TypeOK, StoreSafe, Intact, Signer
<1> QED BY <1>5, <1>6 DEF Deliver

(* The owner's switch and a crash of the process. *)
LEMMA EnvironmentSafe ==
  ASSUME IInv, KillSwitch \/ Crash
  PROVE  IInv'
<1>1. CASE KillSwitch
  <2>1. UNCHANGED <<actions, delivered, twice, ledger, minted, faults>> /\ halted' \in BOOLEAN
    BY <1>1 DEF KillSwitch, IInv, TypeOK
  <2>2. ASSUME NEW q \in Calls
        PROVE  /\ call'[q] \in Call /\ CallSafe(call'[q])
               /\ call'[q].pc = "applied" => call'[q].who \in delivered[call'[q].id]
    <3>1. /\ call[q] \in Call /\ CallSafe(call[q])
          /\ call[q].pc = "applied" => call[q].who \in delivered[call[q].id]
      BY CallFacts
    <3> DEFINE d == [call[q] EXCEPT !.brake = ~halted /\ call[q].pc = "check"]
    <3>2. call'[q] = d
      BY <1>1 DEF KillSwitch
    <3>3. (~halted /\ call[q].pc = "check") \in BOOLEAN
      OBVIOUS
    <3>4. d \in Call /\ CallSafe(d) /\ d.pc = call[q].pc /\ d.who = call[q].who
          /\ d.id = call[q].id
      BY <3>1, <3>3 DEF Call, CallSafe, Unsigned, NeedsHumanSignature
    <3> HIDE DEF d
    <3> QED BY <3>1, <3>2, <3>4
  <2>3. call' \in [Calls -> Call]
    <3>1. call' = [q \in Calls |-> call'[q]]
      BY <1>1 DEF KillSwitch, IInv, TypeOK
    <3> QED BY <2>2, <3>1
  <2>4. CallsSafe'
    BY <2>1, <2>2 DEF CallsSafe
  <2> QED BY <2>1, <2>3, <2>4 DEF IInv, TypeOK, StoreSafe, Intact, Signer
<1>2. CASE Crash
  <2>1. call' = [p \in Calls |-> IdleCall] /\ faults' \in 0..MaxFaults
        /\ UNCHANGED <<actions, halted, delivered, twice, ledger, minted>>
    BY <1>2, DeskAssumption DEF Crash, Fault, IInv, TypeOK
  <2>2. call' \in [Calls -> Call] /\ CallsSafe'
    BY <2>1, IdleSafe DEF CallsSafe
  <2> QED BY <2>1, <2>2 DEF IInv, TypeOK, StoreSafe, Intact, Signer
<1> QED BY <1>1, <1>2

-----------------------------------------------------------------------------
LEMMA InitSafe == Init => IInv
<1> SUFFICES ASSUME Init PROVE IInv
  OBVIOUS
<1>1. TypeOK
  BY DeskAssumption, UnstoredType, IdleSafe DEF Init, TypeOK, Approvers
<1>2. CallsSafe
  BY IdleSafe DEF Init, CallsSafe
<1>3. StoreSafe
  BY UnstoredType DEF Init, StoreSafe
<1> QED BY <1>1, <1>2, <1>3 DEF IInv

LEMMA NextSafe == IInv /\ [Next]_vars => IInv'
<1> SUFFICES ASSUME IInv, [Next]_vars PROVE IInv'
  OBVIOUS
<1>1. ASSUME NEW p \in Calls, Step(p) PROVE IInv'
  BY <1>1, SubmitSafe, DecideSafe, StoringSafe, ApplyingSafe, DeliverSafe DEF Step
<1>2. CASE KillSwitch \/ Crash
  BY <1>2, EnvironmentSafe
<1>3. CASE UNCHANGED vars
  BY <1>3 DEF vars, IInv, TypeOK, CallsSafe, CallSafe, StoreSafe, Intact, Signer, Unsigned
<1> QED BY <1>1, <1>2, <1>3 DEF Next

(* The inductive invariant holds throughout. *)
THEOREM DeskInvariant == Spec => []IInv
BY InitSafe, NextSafe, PTL DEF Spec

(* Every variable of the desk keeps its type. *)
THEOREM TypeCorrect == Spec => []TypeOK
<1>1. IInv => TypeOK
  BY DEF IInv
<1> QED BY <1>1, DeskInvariant, PTL

(* The tier gate of Submit, Decide and apply(): no call delivers above its *)
(* authority, whatever runs beside it, fails or crashes.                   *)
THEOREM GateCorrect == Spec => []GateHolds
<1>1. IInv => GateHolds
  <2> SUFFICES ASSUME IInv, NEW p \in Calls, call[p].pc = "deliver"
               PROVE  /\ call[p].via = "submit" => call[p].a.tier < GateTier
                                  \/ (call[p].a.tier = GateTier /\ call[p].who = Grant)
                      /\ call[p].via = "decide" => call[p].yes
                      /\ call[p].a.tier >= TierIrreversible => call[p].who \in Humans
    BY DEF GateHolds, Cleared
  <2>1. /\ call[p].via = "submit" => call[p].a.tier < GateTier
                                  \/ (call[p].a.tier = GateTier /\ call[p].who = Grant)
        /\ call[p].via = "decide" => call[p].yes /\ call[p].who \in Humans \cup {AutoApprover}
        /\ ~Unsigned(call[p])
    BY CallFacts DEF CallSafe, Applying
  <2>2. call[p].a.tier \in 0..3 /\ call[p].via \in {"submit", "decide"}
    BY CallFacts, DeskAssumption DEF Call, Action
  <2>3. ASSUME call[p].a.tier >= TierIrreversible PROVE call[p].who \in Humans
    <3>1. call[p].via = "decide"
      BY <2>1, <2>2, <2>3 DEF TierIrreversible, GateTier
    <3>2. call[p].who # AutoApprover
      BY <2>1, <2>3 DEF Unsigned, NeedsHumanSignature
    <3> QED BY <2>1, <3>1, <3>2
  <2> QED BY <2>1, <2>3
<1> QED BY <1>1, DeskInvariant, PTL

(* An approver's edit never retargets an action (protectedPayloadKeys).    *)
THEOREM TargetCorrect == Spec => []TargetIntegrity
<1>1. IInv => TargetIntegrity
  <2> SUFFICES ASSUME IInv PROVE TargetIntegrity
    OBVIOUS
  <2>1. \A p \in Calls : Intact(call[p].a)
    BY CallFacts
  <2>2. \A i \in ActionIds : Intact(actions[i])
    BY DEF IInv, StoreSafe
  <2> QED BY <2>1, <2>2 DEF TargetIntegrity, Intact
<1> QED BY <1>1, DeskInvariant, PTL

(* A stored "applied" is true, and signed by whoever really applied it.    *)
THEOREM AppliedCorrect == Spec => []AppliedWasDelivered
<1>1. IInv => AppliedWasDelivered
  BY DEF IInv, StoreSafe, AppliedWasDelivered
<1> QED BY <1>1, DeskInvariant, PTL

-----------------------------------------------------------------------------
(* The kill-switch backstop.  A brake seen by a call is the switch itself, *)
(* and a call cleared to deliver has none.                                 *)
Braked == \A p \in Calls :
  /\ call[p].brake => halted
  /\ call[p].pc = "deliver" => ~call[p].brake

LEMMA BrakeStep ==
  ASSUME IInv, Braked, NEW p \in Calls, NEW c \in Call, halted' = halted,
         call' = [call EXCEPT ![p] = c],
         c.brake => halted, c.pc = "deliver" => ~c.brake
  PROVE  Braked'
<1>1. call \in [Calls -> Call]
  BY DEF IInv, TypeOK
<1>2. ASSUME NEW q \in Calls
      PROVE  (call'[q].brake => halted') /\ (call'[q].pc = "deliver" => ~call'[q].brake)
  BY <1>1 DEF Braked
<1> QED BY <1>2 DEF Braked

LEMMA BrakeNext ==
  ASSUME "tenant_read" \notin Faults, IInv, Braked, [Next]_vars
  PROVE  Braked'
<1>1. halted \in BOOLEAN /\ call \in [Calls -> Call] /\ \A p \in Calls : call[p] \in Call
  BY DEF IInv, TypeOK
<1>2. IdleCall \in Call /\ IdleCall.brake = FALSE /\ IdleCall.pc = "idle"
  BY IdleSafe DEF IdleCall
<1>3. ASSUME NEW p \in Calls, Step(p) PROVE Braked'
  <2> DEFINE c == call[p]
  <2>1. c \in Call /\ (c.brake => halted) /\ (c.pc = "deliver" => ~c.brake)
    BY <1>1 DEF Braked
  <2>2. ASSUME NEW d \in Call, NEW w, EnterApply(p, d, w), halted' = halted, w \in Approvers
        PROVE  Braked'
    <3> DEFINE e == [d EXCEPT !.pc = "check", !.who = w, !.brake = halted]
    <3>1. e \in Call /\ e.pc = "check" /\ e.brake = halted
      BY <1>1, <2>2 DEF Call, Pc
    <3>2. call' = [call EXCEPT ![p] = e]
      BY <2>2 DEF EnterApply
    <3> HIDE DEF e
    <3> QED BY <2>2, <3>1, <3>2, BrakeStep
  <2>3. ASSUME Return(p), halted' = halted PROVE Braked'
    BY <1>2, <2>3, BrakeStep DEF Return
  <2>4. CASE Submit(p)
    <3>1. PICK i \in ActionIds, t \in Tiers :
            LET b == [IdleCall EXCEPT !.id = i, !.a = Proposal(t), !.via = "submit"]
            IN  \/ EnterApply(p, [b EXCEPT !.a.approver = Grant], Grant)
                \/ call' = [call EXCEPT ![p] = [b EXCEPT !.pc = "queue"]]
                \/ EnterApply(p, b, AutoApprover)
      BY <2>4, Zenon DEF Submit
    <3> DEFINE b == [IdleCall EXCEPT !.id = i, !.a = Proposal(t), !.via = "submit"]
    <3>2. halted' = halted
      BY <2>4 DEF Submit
    <3>3. b \in Call /\ b.brake = FALSE /\ b.a \in Action
      BY <1>2, ProposalType DEF Call
    <3> HIDE DEF b
    <3>4. [b EXCEPT !.a.approver = Grant] \in Call /\ [b EXCEPT !.pc = "queue"] \in Call
          /\ Grant \in Approvers /\ AutoApprover \in Approvers
      BY <3>3 DEF Call, Action, Pc, Approvers
    <3>5. CASE call' = [call EXCEPT ![p] = [b EXCEPT !.pc = "queue"]]
      <4> DEFINE e == [b EXCEPT !.pc = "queue"]
      <4>1. e \in Call /\ ~e.brake
        BY <3>3, <3>4 DEF Call
      <4>2. call' = [call EXCEPT ![p] = e]
        BY <3>5
      <4> HIDE DEF e
      <4> QED BY <3>2, <4>1, <4>2, BrakeStep
    <3> QED BY <2>2, <3>1, <3>2, <3>3, <3>4, <3>5 DEF b
  <2>5. CASE Queue(p) \/ StoreVerdict(p) \/ Requeue(p) \/ StoreApplied(p) \/ StoreFailed(p)
    BY <2>3, <2>5 DEF Queue, StoreVerdict, Requeue, StoreApplied, StoreFailed
  <2>6. CASE Decide(p)
    <3>1. PICK i \in ActionIds, v \in Verdict :
            /\ actions[i].status = "pending_approval"
            /\ LET b == [IdleCall EXCEPT !.id = i, !.a = Judged(actions[i], v),
                            !.who = v.approver, !.via = "decide",
                            !.yes = v.approve /\ ~v.changes]
               IN  call' = [call EXCEPT ![p] =
                     [b EXCEPT !.pc = IF b.a.status = "pending_approval" THEN "gate"
                                                                        ELSE "verdict"]]
      BY <2>6 DEF Decide, IInv, TypeOK
    <3> DEFINE b == [IdleCall EXCEPT !.id = i, !.a = Judged(actions[i], v),
                            !.who = v.approver, !.via = "decide",
                            !.yes = v.approve /\ ~v.changes]
               e == [b EXCEPT !.pc = IF b.a.status = "pending_approval" THEN "gate"
                                                                        ELSE "verdict"]
    <3>2. Judged(actions[i], v) \in Action
      BY <3>1, JudgedType DEF IInv, TypeOK, StoreSafe
    <3>3. v.approver \in Approvers
      BY DEF Verdict, Approvers
    <3>4. b \in Call /\ b.brake = FALSE
      BY <1>2, <3>2, <3>3 DEF Call
    <3>5. call' = [call EXCEPT ![p] = e]
      BY <3>1
    <3> HIDE DEF b
    <3>6. e \in Call /\ ~e.brake
      BY <3>4 DEF Call, Pc
    <3> HIDE DEF e
    <3>7. halted' = halted
      BY <2>6 DEF Decide
    <3> QED BY <3>5, <3>6, <3>7, BrakeStep
  <2>7. CASE ApprovalGate(p)
    <3>1. (Return(p) \/ EnterApply(p, c, c.who)) /\ halted' = halted
      BY <2>7 DEF ApprovalGate
    <3>2. c.who \in Approvers
      BY <2>1 DEF Call
    <3> QED BY <2>1, <2>2, <2>3, <3>1, <3>2
  <2>8. ASSUME NEW x \in Pc, call' = [call EXCEPT ![p].pc = x], halted' = halted,
               x = "deliver" => ~c.brake
        PROVE  Braked'
    <3> DEFINE e == [c EXCEPT !.pc = x]
    <3>1. e \in Call /\ e.brake = c.brake /\ e.pc = x
      BY <2>1 DEF Call
    <3>2. call' = [call EXCEPT ![p] = e]
      BY <1>1, <2>8
    <3> HIDE DEF e
    <3> QED BY <2>1, <2>8, <3>1, <3>2, BrakeStep
  <2>9. CASE CheckSignature(p)
    BY <2>8, <2>9 DEF CheckSignature, Pc
  <2>10. CASE CheckSwitch(p)
    <3>1. PICK h \in BOOLEAN : /\ HaltedRead(h)
                               /\ call' = [call EXCEPT ![p].pc = IF h THEN "requeue" ELSE "deliver"]
      BY <2>10 DEF CheckSwitch
    <3>2. h = halted
      BY <3>1 DEF HaltedRead, Fault
    <3>3. halted' = halted
      BY <2>10 DEF CheckSwitch
    <3> QED BY <2>1, <2>8, <3>1, <3>2, <3>3 DEF Pc
  <2>11. CASE Deliver(p)
    BY <2>8, <2>11 DEF Deliver, Pc
  <2> QED BY <1>3, <2>4, <2>5, <2>6, <2>7, <2>9, <2>10, <2>11 DEF Step
<1>4. CASE KillSwitch
  BY <1>1, <1>4 DEF KillSwitch, Braked, Call
<1>5. CASE Crash
  BY <1>2, <1>5 DEF Crash, Braked
<1>6. CASE UNCHANGED vars
  BY <1>6 DEF vars, Braked
<1> QED BY <1>3, <1>4, <1>5, <1>6 DEF Next

(* While the tenant record can be read, a switch engaged before a call     *)
(* reached the backstop and not released since stops its delivery.         *)
THEOREM BrakeCorrect ==
  ASSUME "tenant_read" \notin Faults
  PROVE  Spec => []BrakeHolds
<1>1. Init => Braked
  BY IdleSafe DEF Init, Braked, IdleCall
<1>2. IInv /\ Braked /\ [Next]_vars => Braked'
  BY BrakeNext
<1>3. Braked => BrakeHolds
  BY DEF Braked, BrakeHolds, Cleared
<1> QED BY <1>1, <1>2, <1>3, DeskInvariant, PTL DEF Spec

-----------------------------------------------------------------------------
(* The refinement.  With one call at a time, no crash and a store that     *)
(* takes every write, the desk is ActionGate: what a call in progress      *)
(* knows of the stored action is still so.                                 *)
OneAtATime == \A p, q \in Calls : p = q
Durable    == "put" \notin Faults /\ "crash" \notin Faults

(* A Submit call's action is not stored yet; a Decide call's is pending.   *)
Awaits(c) == IF c.via = "submit" THEN "none" ELSE "pending_approval"

Current(c, stored, ids) == c.pc # "idle" =>
  /\ c.id \in ids /\ stored[c.id].status = Awaits(c)
  /\ c.pc = "queue" => c.via = "submit"
  /\ c.pc = "verdict" => c.via = "decide"

Unminted == \A i \in ActionIds \ minted : actions[i].status = "none"

SerialInv == (\A p \in Calls : Current(call[p], actions, minted)) /\ Unminted

(* The abstract status of action i beside call c, when the store says s.   *)
Seen(c, s, i) == IF c.id = i /\ c.pc = "applied" THEN "applied"
                 ELSE IF c.id = i /\ c.pc = "failed" THEN "approved" ELSE s

LEMMA AbstractStatus ==
  ASSUME OneAtATime, NEW p \in Calls, NEW i \in ActionIds
  PROVE  /\ AbsStatus(i) = Seen(call[p], actions[i].status, i)
         /\ AbsStatus(i)' = Seen(call'[p], actions'[i].status, i)
BY DEF OneAtATime, AbsStatus, PcOf, Seen

(* A step that settles one action, and one that settles none. *)
LEMMA Moves ==
  ASSUME OneAtATime, NEW p \in Calls, NEW i \in ActionIds, NEW s,
         Seen(call'[p], actions'[i].status, i) = s,
         \A j \in ActionIds \ {i} :
           Seen(call'[p], actions'[j].status, j) = Seen(call[p], actions[j].status, j)
  PROVE  [j \in ActionIds |-> AbsStatus(j)]' = [[j \in ActionIds |-> AbsStatus(j)] EXCEPT ![i] = s]
<1> DEFINE f == [j \in ActionIds |-> AbsStatus(j)]
           g == [j \in ActionIds |-> AbsStatus(j)']
<1>1. \A j \in ActionIds : g[j] = IF j = i THEN s ELSE f[j]
  BY AbstractStatus
<1>2. f' = g
  OBVIOUS
<1> QED BY <1>1, <1>2

LEMMA Stutters ==
  ASSUME OneAtATime, NEW p \in Calls, delivered' = delivered,
         \A j \in ActionIds :
           Seen(call'[p], actions'[j].status, j) = Seen(call[p], actions[j].status, j)
  PROVE  UNCHANGED AtomicGate!gateVars
<1>1. \A j \in ActionIds : AbsStatus(j)' = AbsStatus(j)
  BY AbstractStatus
<1>2. [j \in ActionIds |-> AbsStatus(j)]' = [j \in ActionIds |-> AbsStatus(j)]
  BY <1>1
<1>3. {j \in ActionIds : delivered[j] # {}}' = {j \in ActionIds : delivered[j] # {}}
  OBVIOUS
<1> QED BY <1>2, <1>3 DEF AtomicGate!gateVars

(* A call that goes on with the action it has. *)
LEMMA GoesOn ==
  ASSUME OneAtATime, IInv, SerialInv, NEW p \in Calls, NEW d,
         call[p].pc \notin {"idle", "applied", "failed"},
         call' = [call EXCEPT ![p] = d], d.id = call[p].id, d.via = call[p].via,
         d.pc \in {"check", "requeue", "deliver"},
         UNCHANGED <<actions, delivered, minted>>
  PROVE  SerialInv' /\ UNCHANGED AtomicGate!gateVars
<1>1. call'[p] = d
  BY DEF IInv, TypeOK
<1>2. \A q \in Calls : Current(call'[q], actions', minted')
  BY <1>1 DEF OneAtATime, SerialInv, Current, Awaits
<1>3. SerialInv'
  BY <1>2 DEF SerialInv, Unminted
<1>4. \A j \in ActionIds : Seen(call'[p], actions'[j].status, j) = Seen(call[p], actions[j].status, j)
  BY <1>1 DEF Seen
<1> QED BY <1>3, <1>4, Stutters

(* A call that ends, having written a at most. *)
LEMMA Ends ==
  ASSUME OneAtATime, IInv, SerialInv, NEW p \in Calls, NEW a \in Action,
         call[p].pc # "idle", Return(p), UNCHANGED <<delivered, minted>>,
         actions' = [actions EXCEPT ![call[p].id] = a]
  PROVE  /\ SerialInv'
         /\ Seen(call'[p], actions'[call[p].id].status, call[p].id) = a.status
         /\ \A j \in ActionIds \ {call[p].id} :
              Seen(call'[p], actions'[j].status, j) = Seen(call[p], actions[j].status, j)
<1> DEFINE i == call[p].id
<1>1. call'[p] = IdleCall /\ IdleCall.pc = "idle"
  BY IdleSafe DEF IInv, TypeOK, Return
<1>2. i \in ActionIds /\ i \in minted
  BY CallFacts DEF SerialInv, Current
<1>3. actions'[i] = a /\ \A j \in ActionIds \ {i} : actions'[j] = actions[j]
  BY <1>2 DEF IInv, TypeOK
<1>4. SerialInv'
  <2>1. \A q \in Calls : Current(call'[q], actions', minted')
    BY <1>1 DEF OneAtATime, Current
  <2>2. Unminted'
    BY <1>2, <1>3 DEF SerialInv, Unminted
  <2> QED BY <2>1, <2>2 DEF SerialInv
<1> QED BY <1>1, <1>2, <1>3, <1>4 DEF Seen

(* The three ways a write ends: nothing new to the gate, a proposal that   *)
(* starts to wait, and a refusal.                                          *)
LEMMA EndIsGate ==
  ASSUME OneAtATime, IInv, SerialInv, NEW p \in Calls, NEW a \in Action,
         call[p].pc # "idle", Return(p), UNCHANGED <<delivered, minted>>,
         actions' = [actions EXCEPT ![call[p].id] = a],
         LET s == Seen(call[p], actions[call[p].id].status, call[p].id)
         IN  \/ a.status = s
             \/ s = "none" /\ a.status = "pending_approval"
             \/ s = "pending_approval" /\ a.status \in {"rejected", "changes_requested"}
  PROVE  SerialInv' /\ [AtomicGate!Next]_(AtomicGate!gateVars)
<1> DEFINE i == call[p].id
           s == Seen(call[p], actions[i].status, i)
           f == [j \in ActionIds |-> AbsStatus(j)]
<1>1. i \in ActionIds
  BY CallFacts
<1>2. /\ SerialInv'
      /\ Seen(call'[p], actions'[i].status, i) = a.status
      /\ \A j \in ActionIds \ {i} :
           Seen(call'[p], actions'[j].status, j) = Seen(call[p], actions[j].status, j)
  BY Ends
<1>3. f[i] = s
  BY <1>1, AbstractStatus
<1>4. f' = [f EXCEPT ![i] = a.status]
  BY <1>1, <1>2, Moves
<1>5. {j \in ActionIds : delivered[j] # {}}' = {j \in ActionIds : delivered[j] # {}}
  OBVIOUS
<1>6. CASE a.status = s
  <2>1. \A j \in ActionIds :
          Seen(call'[p], actions'[j].status, j) = Seen(call[p], actions[j].status, j)
    BY <1>2, <1>6
  <2> QED BY <1>2, <2>1, Stutters
<1>7. CASE s = "none" /\ a.status = "pending_approval"
  <2>1. AtomicGate!Wait(i)
    BY <1>3, <1>4, <1>5, <1>7 DEF AtomicGate!Wait
  <2> QED BY <1>1, <1>2, <2>1 DEF AtomicGate!Next
<1>8. CASE s = "pending_approval" /\ a.status \in {"rejected", "changes_requested"}
  <2>1. AtomicGate!Withhold(i)
    BY <1>3, <1>4, <1>5, <1>8 DEF AtomicGate!Withhold
  <2> QED BY <1>1, <1>2, <2>1 DEF AtomicGate!Next
<1> QED BY <1>6, <1>7, <1>8

LEMMA SubmitIsGate ==
  ASSUME OneAtATime, IInv, SerialInv, NEW p \in Calls, Submit(p)
  PROVE  SerialInv' /\ UNCHANGED AtomicGate!gateVars
<1>1. PICK i \in ActionIds \ minted, t \in Tiers :
        LET b == [IdleCall EXCEPT !.id = i, !.a = Proposal(t), !.via = "submit"]
        IN  /\ minted' = minted \cup {i}
            /\ \/ EnterApply(p, [b EXCEPT !.a.approver = Grant], Grant)
               \/ call' = [call EXCEPT ![p] = [b EXCEPT !.pc = "queue"]]
               \/ EnterApply(p, b, AutoApprover)
  BY Zenon DEF Submit
<1> DEFINE b == [IdleCall EXCEPT !.id = i, !.a = Proposal(t), !.via = "submit"]
<1>2. call \in [Calls -> Call] /\ call[p].pc = "idle" /\ UNCHANGED <<actions, delivered>>
  BY DEF Submit, IInv, TypeOK
<1>3. b \in Call /\ b.id = i /\ b.via = "submit"
  BY IdleSafe, ProposalType DEF Call, IdleCall
<1> HIDE DEF b
<1>4. call'[p].id = i /\ call'[p].via = "submit" /\ call'[p].pc \in {"check", "queue"}
  <2>1. CASE EnterApply(p, [b EXCEPT !.a.approver = Grant], Grant)
    <3> DEFINE d == [b EXCEPT !.a.approver = Grant]
    <3>1. d.id = i /\ d.via = "submit" /\ call' = [call EXCEPT ![p] =
            [d EXCEPT !.pc = "check", !.who = Grant, !.brake = halted]]
      BY <1>3, <2>1 DEF EnterApply, Call
    <3>2. d \in Call
      BY <1>3 DEF Call, Action, Approvers
    <3> HIDE DEF d
    <3> QED BY <1>2, <3>1, <3>2 DEF Call
  <2>2. CASE call' = [call EXCEPT ![p] = [b EXCEPT !.pc = "queue"]]
    BY <1>2, <1>3, <2>2 DEF Call
  <2>3. CASE EnterApply(p, b, AutoApprover)
    BY <1>2, <1>3, <2>3 DEF EnterApply, Call
  <2> QED BY <1>1, <2>1, <2>2, <2>3 DEF b
<1>5. SerialInv'
  <2>1. \A q \in Calls : Current(call'[q], actions', minted')
    BY <1>1, <1>2, <1>4 DEF OneAtATime, SerialInv, Unminted, Current, Awaits
  <2>2. Unminted'
    BY <1>1, <1>2 DEF SerialInv, Unminted
  <2> QED BY <2>1, <2>2 DEF SerialInv
<1>6. \A j \in ActionIds : Seen(call'[p], actions'[j].status, j) = Seen(call[p], actions[j].status, j)
  BY <1>2, <1>4 DEF Seen
<1> QED BY <1>2, <1>5, <1>6, Stutters

LEMMA DecideIsGate ==
  ASSUME OneAtATime, IInv, SerialInv, NEW p \in Calls, Decide(p)
  PROVE  SerialInv' /\ UNCHANGED AtomicGate!gateVars
<1>1. PICK i \in minted, v \in Verdict :
        /\ actions[i].status = "pending_approval"
        /\ LET b == [IdleCall EXCEPT !.id = i, !.a = Judged(actions[i], v), !.who = v.approver,
                                     !.via = "decide", !.yes = v.approve /\ ~v.changes]
           IN  call' = [call EXCEPT ![p] =
                 [b EXCEPT !.pc = IF b.a.status = "pending_approval" THEN "gate" ELSE "verdict"]]
  BY DEF Decide
<1> DEFINE b == [IdleCall EXCEPT !.id = i, !.a = Judged(actions[i], v), !.who = v.approver,
                                 !.via = "decide", !.yes = v.approve /\ ~v.changes]
<1>2. call \in [Calls -> Call] /\ call[p].pc = "idle" /\ UNCHANGED <<actions, delivered, minted>>
  BY DEF Decide, IInv, TypeOK
<1>3. call'[p].id = i /\ call'[p].via = "decide" /\ call'[p].pc \in {"gate", "verdict"}
  BY <1>1, <1>2 DEF IdleCall
<1>4. SerialInv'
  <2>1. \A q \in Calls : Current(call'[q], actions', minted')
    BY <1>1, <1>2, <1>3 DEF OneAtATime, Current, Awaits
  <2>2. Unminted'
    BY <1>2 DEF SerialInv, Unminted
  <2> QED BY <2>1, <2>2 DEF SerialInv
<1>5. \A j \in ActionIds : Seen(call'[p], actions'[j].status, j) = Seen(call[p], actions[j].status, j)
  BY <1>2, <1>3 DEF Seen
<1> QED BY <1>2, <1>4, <1>5, Stutters

(* The write that ends a call. *)
LEMMA WriteIsGate ==
  ASSUME OneAtATime, Durable, IInv, SerialInv, NEW p \in Calls,
         Queue(p) \/ StoreVerdict(p) \/ Requeue(p) \/ StoreApplied(p) \/ StoreFailed(p)
  PROVE  SerialInv' /\ [AtomicGate!Next]_(AtomicGate!gateVars)
<1> DEFINE c == call[p]
           s == Seen(c, actions[c.id].status, c.id)
<1>1. c \in Call /\ CallSafe(c) /\ c.a \in Action
  BY CallFacts
<1>2. ~PutErr
  BY DEF Durable, PutErr, Fault
<1>3. Current(c, actions, minted)
  BY DEF SerialInv
<1>4. ASSUME NEW a \in Action, c.pc # "idle", Return(p), UNCHANGED <<delivered, minted>>, PutOk(c.id, a),
             \/ a.status = s
             \/ s = "none" /\ a.status = "pending_approval"
             \/ s = "pending_approval" /\ a.status \in {"rejected", "changes_requested"}
      PROVE  SerialInv' /\ [AtomicGate!Next]_(AtomicGate!gateVars)
  BY <1>4, EndIsGate DEF PutOk
<1>5. c.via \in {"submit", "decide"}
  BY <1>1 DEF Call
<1> HIDE DEF c
<1>6. CASE Queue(p)
  <2> DEFINE a == [c.a EXCEPT !.status = "pending_approval"]
  <2>1. c.pc = "queue" /\ Return(p) /\ PutOk(c.id, a) /\ UNCHANGED <<delivered, minted>>
    BY <1>2, <1>6 DEF Queue, c
  <2>2. a \in Action /\ a.status = "pending_approval"
    BY <1>1 DEF Action, Statuses
  <2>3. s = "none"
    BY <1>3, <2>1 DEF Current, Awaits, Seen
  <2> HIDE DEF a, s
  <2> QED BY <1>4, <2>1, <2>2, <2>3
<1>7. CASE StoreVerdict(p)
  <2>1. c.pc = "verdict" /\ Return(p) /\ PutOk(c.id, c.a) /\ UNCHANGED <<delivered, minted>>
    BY <1>2, <1>7 DEF StoreVerdict, c
  <2>2. c.a.status \in {"rejected", "changes_requested"}
    BY <1>1, <2>1 DEF CallSafe
  <2>3. s = "pending_approval"
    BY <1>3, <2>1 DEF Current, Awaits, Seen
  <2> HIDE DEF s
  <2> QED BY <1>1, <1>4, <2>1, <2>2, <2>3
<1>8. CASE Requeue(p)
  <2> DEFINE a == [c.a EXCEPT !.status = "pending_approval"]
  <2>1. c.pc = "requeue" /\ Return(p) /\ PutOk(c.id, a) /\ UNCHANGED <<delivered, minted>>
    BY <1>2, <1>8 DEF Requeue, c
  <2>2. a \in Action /\ a.status = "pending_approval"
    BY <1>1 DEF Action, Statuses
  <2>3. s \in {"none", "pending_approval"}
    BY <1>3, <1>5, <2>1 DEF Current, Awaits, Seen
  <2> HIDE DEF a, s
  <2> QED BY <1>4, <2>1, <2>2, <2>3
<1>9. CASE StoreApplied(p)
  <2> DEFINE a == [c.a EXCEPT !.status = "applied", !.err = FALSE]
  <2>1. c.pc = "applied" /\ Return(p) /\ PutOk(c.id, a) /\ UNCHANGED <<delivered, minted>>
    BY <1>2, <1>9 DEF StoreApplied, c
  <2>2. a \in Action /\ a.status = "applied"
    BY <1>1 DEF Action, Statuses
  <2>3. s = "applied"
    BY <2>1 DEF Seen
  <2> HIDE DEF a, s
  <2> QED BY <1>4, <2>1, <2>2, <2>3
<1>10. CASE StoreFailed(p)
  <2> DEFINE a == [c.a EXCEPT !.status = "approved", !.err = TRUE]
  <2>1. c.pc = "failed" /\ Return(p) /\ PutOk(c.id, a) /\ UNCHANGED <<delivered, minted>>
    BY <1>2, <1>10 DEF StoreFailed, c
  <2>2. a \in Action /\ a.status = "approved"
    BY <1>1 DEF Action, Statuses
  <2>3. s = "approved"
    BY <2>1 DEF Seen
  <2> HIDE DEF a, s
  <2> QED BY <1>4, <2>1, <2>2, <2>3
<1> QED BY <1>6, <1>7, <1>8, <1>9, <1>10

LEMMA DeliverIsGate ==
  ASSUME OneAtATime, IInv, SerialInv, NEW p \in Calls, Deliver(p)
  PROVE  SerialInv' /\ [AtomicGate!Next]_(AtomicGate!gateVars)
<1> PICK i \in ActionIds : i = call[p].id
  BY CallFacts DEF Deliver
<1> DEFINE f == [j \in ActionIds |-> AbsStatus(j)]
<1>1. /\ call[p] \in Call /\ call[p].pc = "deliver" /\ i = call[p].id
      /\ call \in [Calls -> Call] /\ delivered \in [ActionIds -> SUBSET Approvers]
      /\ UNCHANGED <<actions, minted>>
  BY CallFacts DEF Deliver, IInv, TypeOK
<1>2. /\ i \in minted /\ actions[i].status = Awaits(call[p])
      /\ Awaits(call[p]) \in {"none", "pending_approval"}
  BY <1>1 DEF SerialInv, Current, Awaits
<1>3. ASSUME NEW x \in {"applied", "failed"}, call' = [call EXCEPT ![p].pc = x]
      PROVE  /\ SerialInv'
             /\ f' = [f EXCEPT ![i] = IF x = "applied" THEN "applied" ELSE "approved"]
             /\ f[i] \in {"none", "pending_approval"}
  <2>1. call'[p].pc = x /\ call'[p].id = i /\ call'[p].via = call[p].via
    BY <1>1, <1>3 DEF Call
  <2>2. SerialInv'
    <3>1. \A q \in Calls : Current(call'[q], actions', minted')
      BY <1>1, <1>2, <2>1 DEF OneAtATime, Current, Awaits
    <3>2. Unminted'
      BY <1>1 DEF SerialInv, Unminted
    <3> QED BY <3>1, <3>2 DEF SerialInv
  <2>3. Seen(call'[p], actions'[i].status, i) = IF x = "applied" THEN "applied" ELSE "approved"
    BY <2>1 DEF Seen
  <2>4. \A j \in ActionIds \ {i} :
          Seen(call'[p], actions'[j].status, j) = Seen(call[p], actions[j].status, j)
    BY <1>1, <2>1 DEF Seen
  <2>5. f' = [f EXCEPT ![i] = IF x = "applied" THEN "applied" ELSE "approved"]
    BY <1>1, <2>3, <2>4, Moves
  <2>6. f[i] = actions[i].status
    BY <1>1, AbstractStatus DEF Seen
  <2> QED BY <1>2, <2>2, <2>5, <2>6
<1>4. CASE /\ call' = [call EXCEPT ![p].pc = "applied"]
           /\ delivered' = [delivered EXCEPT ![i] = @ \cup {call[p].who}]
  <2>1. {j \in ActionIds : delivered[j] # {}}' = {j \in ActionIds : delivered[j] # {}} \cup {i}
    BY <1>1, <1>4
  <2>2. SerialInv' /\ f' = [f EXCEPT ![i] = "applied"] /\ f[i] \in {"none", "pending_approval"}
    BY <1>3, <1>4
  <2>3. AtomicGate!Apply(i)
    BY <2>1, <2>2 DEF AtomicGate!Apply, AtomicGate!Undecided
  <2> QED BY <1>1, <2>2, <2>3 DEF AtomicGate!Next
<1>5. CASE call' = [call EXCEPT ![p].pc = "failed"] /\ delivered' = delivered
  <2>1. SerialInv' /\ f' = [f EXCEPT ![i] = "approved"] /\ f[i] \in {"none", "pending_approval"}
    BY <1>3, <1>5
  <2>2. {j \in ActionIds : delivered[j] # {}}' = {j \in ActionIds : delivered[j] # {}}
    BY <1>5
  <2>3. AtomicGate!FailToApply(i)
    BY <2>1, <2>2 DEF AtomicGate!FailToApply, AtomicGate!Undecided
  <2> QED BY <1>1, <2>1, <2>3 DEF AtomicGate!Next
<1> QED BY <1>4, <1>5 DEF Deliver

LEMMA MiddleIsGate ==
  ASSUME OneAtATime, IInv, SerialInv, NEW p \in Calls,
         ApprovalGate(p) \/ CheckSignature(p) \/ CheckSwitch(p)
  PROVE  SerialInv' /\ UNCHANGED AtomicGate!gateVars
<1> DEFINE c == call[p]
<1>1. c \in Call /\ c.pc \in {"gate", "check"} /\ UNCHANGED <<actions, delivered, minted>>
  BY CallFacts DEF ApprovalGate, CheckSignature, CheckSwitch
<1>2. ASSUME Return(p) PROVE SerialInv' /\ UNCHANGED AtomicGate!gateVars
  <2> DEFINE a == actions[c.id]
  <2>1. a \in Action /\ actions' = [actions EXCEPT ![c.id] = a]
    BY <1>1, CallFacts DEF IInv, TypeOK
  <2>2. a.status = Seen(c, a.status, c.id)
    BY <1>1 DEF Seen
  <2> HIDE DEF a
  <2>3. /\ SerialInv'
        /\ Seen(call'[p], actions'[c.id].status, c.id) = a.status
        /\ \A j \in ActionIds \ {c.id} :
             Seen(call'[p], actions'[j].status, j) = Seen(c, actions[j].status, j)
    BY <1>1, <1>2, <2>1, Ends
  <2>4. \A j \in ActionIds : Seen(call'[p], actions'[j].status, j) = Seen(c, actions[j].status, j)
    BY <2>2, <2>3 DEF a
  <2> QED BY <1>1, <2>3, <2>4, Stutters
<1>3. ASSUME NEW x \in {"requeue", "deliver"}, call' = [call EXCEPT ![p].pc = x]
      PROVE  SerialInv' /\ UNCHANGED AtomicGate!gateVars
  <2> DEFINE d == [c EXCEPT !.pc = x]
  <2>1. d.id = c.id /\ d.via = c.via /\ d.pc = x /\ call' = [call EXCEPT ![p] = d]
    BY <1>1, <1>3 DEF Call
  <2> HIDE DEF d
  <2> QED BY <1>1, <2>1, GoesOn
<1>4. CASE ApprovalGate(p)
  <2>1. Return(p) \/ EnterApply(p, c, c.who)
    BY <1>4 DEF ApprovalGate
  <2>2. CASE EnterApply(p, c, c.who)
    <3> DEFINE d == [c EXCEPT !.pc = "check", !.who = c.who, !.brake = halted]
    <3>1. d.id = c.id /\ d.via = c.via /\ d.pc = "check" /\ call' = [call EXCEPT ![p] = d]
      BY <1>1, <2>2 DEF Call, EnterApply
    <3> HIDE DEF d
    <3> QED BY <1>1, <3>1, GoesOn
  <2> QED BY <1>2, <2>1, <2>2
<1>5. CASE CheckSignature(p)
  BY <1>3, <1>5 DEF CheckSignature
<1>6. CASE CheckSwitch(p)
  <2>1. PICK h \in BOOLEAN : call' = [call EXCEPT ![p].pc = IF h THEN "requeue" ELSE "deliver"]
    BY <1>6 DEF CheckSwitch
  <2> QED BY <1>3, <2>1
<1> QED BY <1>4, <1>5, <1>6

LEMMA SwitchIsGate ==
  ASSUME OneAtATime, IInv, SerialInv, KillSwitch
  PROVE  SerialInv' /\ UNCHANGED AtomicGate!gateVars
<1>1. UNCHANGED <<actions, delivered, minted>>
  BY DEF KillSwitch
<1>2. ASSUME NEW p \in Calls
      PROVE  call'[p].pc = call[p].pc /\ call'[p].id = call[p].id /\ call'[p].via = call[p].via
  BY CallFacts DEF KillSwitch, Call
<1>3. \A p \in Calls : Current(call'[p], actions', minted')
  BY <1>1, <1>2 DEF SerialInv, Current, Awaits
<1>4. SerialInv'
  BY <1>1, <1>3 DEF SerialInv, Unminted
<1>5. \A i \in ActionIds : AbsStatus(i)' = AbsStatus(i)
  BY <1>1, <1>2 DEF AbsStatus, PcOf
<1>6. [i \in ActionIds |-> AbsStatus(i)]' = [i \in ActionIds |-> AbsStatus(i)]
  BY <1>5
<1>7. {i \in ActionIds : delivered[i] # {}}' = {i \in ActionIds : delivered[i] # {}}
  BY <1>1
<1> QED BY <1>4, <1>6, <1>7 DEF AtomicGate!gateVars

LEMMA StepIsGate ==
  ASSUME OneAtATime, Durable, IInv, SerialInv, [Next]_vars
  PROVE  SerialInv' /\ [AtomicGate!Next]_(AtomicGate!gateVars)
<1>1. ASSUME NEW p \in Calls, Step(p)
      PROVE  SerialInv' /\ [AtomicGate!Next]_(AtomicGate!gateVars)
  <2>1. CASE Submit(p) \/ Decide(p) \/ ApprovalGate(p) \/ CheckSignature(p) \/ CheckSwitch(p)
    BY <2>1, SubmitIsGate, DecideIsGate, MiddleIsGate
  <2>2. CASE Queue(p) \/ StoreVerdict(p) \/ Requeue(p) \/ StoreApplied(p) \/ StoreFailed(p)
    BY <2>2, WriteIsGate
  <2>3. CASE Deliver(p)
    BY <2>3, DeliverIsGate
  <2> QED BY <1>1, <2>1, <2>2, <2>3 DEF Step
<1>2. CASE KillSwitch
  BY <1>2, SwitchIsGate
<1>3. CASE Crash
  BY <1>3 DEF Durable, Crash, Fault
<1>4. CASE UNCHANGED vars
  BY <1>4 DEF vars, SerialInv, Current, Awaits, Unminted, AbsStatus, PcOf, AtomicGate!gateVars
<1> QED BY <1>1, <1>2, <1>3, <1>4 DEF Next

LEMMA InitIsGate == Init => SerialInv /\ AtomicGate!Init
<1> SUFFICES ASSUME Init PROVE SerialInv /\ AtomicGate!Init
  OBVIOUS
<1>1. \A p \in Calls : call[p] = IdleCall /\ call[p].pc = "idle"
  BY IdleSafe DEF Init
<1>2. \A i \in ActionIds : actions[i].status = "none" /\ delivered[i] = {}
  BY UnstoredType DEF Init
<1>3. \A i \in ActionIds : AbsStatus(i) = "none"
  BY <1>1, <1>2 DEF AbsStatus, PcOf
<1>4. SerialInv
  BY <1>1, <1>2 DEF SerialInv, Current, Unminted
<1> QED BY <1>2, <1>3, <1>4 DEF AtomicGate!Init

(* Submit, Decide and apply() taken together are the atomic gate: a queued *)
(* action is decided once and stays decided.  The hypotheses are what the  *)
(* desk leaves to its surroundings: it takes no lock (two approvals that   *)
(* overlap both pass the pending check), and a crash or a failed           *)
(* PutAction after the delivery forgets that it happened.  Tenant reads    *)
(* may fail and the switch may flip at any moment.                         *)
THEOREM GateImplemented ==
  ASSUME OneAtATime, Durable
  PROVE  Spec => ImplementsGate
<1>1. Init => SerialInv /\ AtomicGate!Init
  BY InitIsGate
<1>2. IInv /\ SerialInv /\ [Next]_vars => SerialInv' /\ [AtomicGate!Next]_(AtomicGate!gateVars)
  BY StepIsGate
<1> QED BY <1>1, <1>2, DeskInvariant, PTL DEF Spec, ImplementsGate, AtomicGate!Spec
=============================================================================
