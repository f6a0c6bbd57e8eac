--------------------------- MODULE PentestProofs ----------------------------
(***************************************************************************)
(* Proofs about Pentest.  Every property of the engagement rests on what   *)
(* is true of one operation at each point of its way through the code      *)
(* (CallInv); what relates an operation to the stored record, or the       *)
(* record to the history, is added by one invariant per property.          *)
(***************************************************************************)
EXTENDS Pentest, TLAPS

(* One operation: where its steps may be, what its copy of the engagement  *)
(* says there, and what the gates it passed have left behind.              *)
Placed(k) ==
  /\ k.pc = "idle" => k = Idle
  /\ k.pc \in {"hunt", "feedback"} => k.op = "run"
  /\ k.pc = "loop" => k.op \in {"run", "sched"}
  /\ k.op \in {"run", "sched"} /\ k.pc = "gate" => k.eng.status \in Runnable
  /\ k.pc \in {"hunt", "loop"} => k.eng.status \in {"authorized", "retesting"}
  /\ k.pc # "idle" => k.eng.status # "none"

Agreed(k) == RequiresConsent(k.eng.roe.mode) /\ k.cleared

Gated(k) ==
  /\ k.pc = "gate" => k.live = {} /\ ~k.active
  /\ k.active => k.op = "run" /\ Agreed(k) /\ k.eng.roe.consent
  /\ k.pc = "hunt" => Agreed(k)
  /\ k.live # {} =>
       /\ k.op \in {"run", "probe", "retest"} /\ k.cleared
       /\ k.op # "retest" =>
            /\ RequiresConsent(k.eng.roe.mode) /\ k.eng.roe.consent
            /\ k.eng.roe.env = "production" => k.eng.roe.production
            /\ k.live \subseteq InScope

Tried(k) ==
  /\ k.pc \in {"gate", "hunt", "loop"} => k.blocked < StallLimit
  /\ k.op \in {"run", "sched"} /\ k.pc = "put" /\ k.eng.status = "complete" /\ BudgetLeft(k.eng)
       => k.todo = {} \/ k.blocked = StallLimit

CallInv(k) == k \in Call /\ Placed(k) /\ Gated(k) /\ Tried(k)

PentestInv == TypeOK /\ \A c \in Calls : CallInv(call[c])

LEMMA IdleIsFine == CallInv(Idle)
<1>1. NoRules \in RulesOfEngagement /\ NoEngagement \in Engagement
  BY DEF NoRules, RulesOfEngagement, NoEngagement, Engagement, Statuses
<1>2. Idle \in Call
  BY <1>1, PentestAssumption DEF Idle, Call
<1>3. Placed(Idle) /\ Gated(Idle) /\ Tried(Idle)
  BY PentestAssumption DEF Idle, Placed, Gated, Tried
<1> QED BY <1>2, <1>3 DEF CallInv

LEMMA PentestInvInit == Init => PentestInv
<1> SUFFICES ASSUME Init PROVE PentestInv
  OBVIOUS
<1>1. NoRules \in RulesOfEngagement /\ NoEngagement \in Engagement
  BY DEF NoRules, RulesOfEngagement, NoEngagement, Engagement, Statuses
<1>2. \A c \in Calls : call[c] = Idle
  BY DEF Init
<1>3. call \in [Calls -> Call]
  BY IdleIsFine DEF Init, CallInv
<1>4. TypeOK
  <2>1. eng \in Engagement /\ known \subseteq Leads /\ proved \subseteq known
    BY <1>1 DEF Init
  <2>2. halted \in BOOLEAN /\ owned \in BOOLEAN
    BY Zenon DEF Init
  <2>3. mishaps \subseteq {"overlap", "put", "list"} /\ executed \in Nat /\ ops \in 0..MaxOps
    BY PentestAssumption DEF Init
  <2> QED BY <1>3, <2>1, <2>2, <2>3 DEF TypeOK
<1> QED BY <1>2, <1>4, IdleIsFine DEF PentestInv

(* An operation begins. *)
LEMMA Begins ==
  ASSUME PentestInv, NEW c \in Calls, NEW e \in Engagement,
         NEW op \in {"run", "sched", "probe", "retest", "sign", "cadence"}, NEW pc \in {"gate", "put"},
         e.status # "none", op \in {"run", "sched"} => pc = "gate" /\ e.status \in Runnable
  PROVE  CallInv([Idle EXCEPT !.op = op, !.pc = pc, !.eng = e])
<1> DEFINE k == [Idle EXCEPT !.op = op, !.pc = pc, !.eng = e]
<1>1. k \in Call
  BY IdleIsFine DEF Idle, CallInv, Call
<1>2. Placed(k) /\ Gated(k) /\ Tried(k)
  BY PentestAssumption DEF Idle, Placed, Gated, Tried
<1> QED BY <1>1, <1>2 DEF CallInv

(* The steps of one operation: its record after the step is fine, and so   *)
(* is what the step leaves in the shared state.                            *)
LEMMA Reading ==
  ASSUME PentestInv, NEW c \in Calls, Reads(c)
  PROVE  /\ CallInv(call'[c]) /\ call' = [call EXCEPT ![c] = call'[c]]
         /\ UNCHANGED <<eng, known, proved, halted, owned, executed>>
         /\ ops' \in 0..MaxOps /\ mishaps \subseteq mishaps' /\ mishaps' \subseteq mishaps \cup {"overlap"}
<1>1. eng \in Engagement /\ call \in [Calls -> Call] /\ ops \in 0..MaxOps /\ MaxOps \in Nat
  BY PentestAssumption DEF PentestInv, TypeOK
<1>2. ASSUME NEW op, NEW pc, NEW e, Enter(c, op, pc, e),
             CallInv([Idle EXCEPT !.op = op, !.pc = pc, !.eng = e])
      PROVE  /\ CallInv(call'[c]) /\ call' = [call EXCEPT ![c] = call'[c]]
             /\ UNCHANGED <<eng, known, proved, halted, owned, executed>>
             /\ ops' \in 0..MaxOps /\ mishaps \subseteq mishaps' /\ mishaps' \subseteq mishaps \cup {"overlap"}
  <2>1. call' = [call EXCEPT ![c] = [Idle EXCEPT !.op = op, !.pc = pc, !.eng = e]]
    BY <1>2 DEF Enter
  <2>2. call'[c] = [Idle EXCEPT !.op = op, !.pc = pc, !.eng = e]
    BY <1>1, <2>1
  <2>3. ops' \in 0..MaxOps
    BY <1>1, <1>2 DEF Enter
  <2> QED BY <1>2, <2>1, <2>2, <2>3 DEF Enter
<1>3. CASE RunRead(c)
  BY <1>1, <1>2, <1>3, Begins DEF RunRead, Enter
<1>4. CASE SchedRead(c)
  BY <1>1, <1>2, <1>4, Begins DEF SchedRead, Enter
<1>5. CASE ProbeRead(c)
  BY <1>1, <1>2, <1>5, Begins DEF ProbeRead, Enter
<1>6. CASE RetestRead(c)
  BY <1>1, <1>2, <1>6, Begins DEF RetestRead, Enter
<1>7. CASE Sign(c)
  <2>1. [eng EXCEPT !.signed = TRUE] \in Engagement /\ [eng EXCEPT !.signed = TRUE].status = eng.status
    BY <1>1 DEF Engagement
  <2> QED BY <1>2, <1>7, <2>1, Begins DEF Sign, Enter
<1>8. CASE SetCadence(c)
  <2>1. PICK s \in {"off", "ahead"} : Enter(c, "cadence", "put", [eng EXCEPT !.sched = s])
    BY <1>8 DEF SetCadence
  <2>2. [eng EXCEPT !.sched = s] \in Engagement /\ [eng EXCEPT !.sched = s].status = eng.status
    BY <1>1 DEF Engagement
  <2> QED BY <1>2, <2>1, <2>2, Begins DEF Enter
<1> QED BY <1>3, <1>4, <1>5, <1>6, <1>7, <1>8 DEF Reads

(* A call of a run, up to its put. *)
LEMMA Gating ==
  ASSUME PentestInv, NEW c \in Calls, RunGate(c) \/ SchedList(c)
  PROVE  CallInv(call'[c]) /\ call' = [call EXCEPT ![c] = call'[c]]
<1> DEFINE k == call[c]
<1>1. k \in Call /\ Placed(k) /\ Gated(k) /\ Tried(k) /\ call \in [Calls -> Call] /\ known \subseteq Leads
      /\ proved \subseteq known /\ owned \in BOOLEAN
  BY DEF PentestInv, TypeOK, CallInv
<1>2. Reopened(k.eng) \in Engagement /\ Reopened(k.eng).roe = k.eng.roe
      /\ (k.eng.status \in Runnable => Reopened(k.eng).status \in {"authorized", "retesting"})
  BY <1>1 DEF Reopened, Call, Engagement, Statuses, Runnable
<1>3. ASSUME k.pc = "gate", k.op \in {"run", "sched"}, NEW e, e = Reopened(k.eng),
             NEW pc \in {"hunt", "loop"}, NEW active \in BOOLEAN, Listed(c, e, pc, active),
             (active \/ pc = "hunt") => k.op = "run" /\ owned /\ RequiresConsent(e.roe.mode),
             active => e.roe.consent
      PROVE  CallInv(call'[c]) /\ call' = [call EXCEPT ![c] = call'[c]]
  <2>1. call'[c] = [k EXCEPT !.pc = pc, !.eng = e, !.todo = known, !.sure = proved, !.active = active,
                             !.cleared = owned /\ RequiresConsent(e.roe.mode)]
    BY <1>1, <1>3 DEF Listed
  <2>2. call' = [call EXCEPT ![c] = call'[c]]
    BY <1>1, <1>3 DEF Listed
  <2>3. (owned /\ RequiresConsent(e.roe.mode)) \in BOOLEAN
    BY <1>1 DEF RequiresConsent
  <2>4. call'[c] \in Call
    BY <1>1, <1>2, <1>3, <2>1, <2>3 DEF Call
  <2>5. Placed(call'[c])
    BY <1>1, <1>2, <1>3, <2>1 DEF Call, Placed
  <2>6. Gated(call'[c])
    BY <1>1, <1>2, <1>3, <2>1 DEF Call, Gated, Agreed
  <2>7. Tried(call'[c])
    BY <1>1, <1>3, <2>1 DEF Call, Tried
  <2> QED BY <2>2, <2>4, <2>5, <2>6, <2>7 DEF CallInv
<1>4. CASE Return(c)
  BY <1>1, <1>4, IdleIsFine DEF Return
<1>5. CASE RunGate(c)
  <2>1. k.eng.status \in Runnable /\ k.pc = "gate" /\ k.op = "run"
    BY <1>1, <1>5 DEF RunGate, Placed
  <2>2. CASE ~Return(c)
    <3>1. RequiresConsent(k.eng.roe.mode) => owned
      BY <1>5, <2>2 DEF RunGate
    <3>2. Listed(c, Reopened(k.eng), IF RequiresConsent(k.eng.roe.mode) THEN "hunt" ELSE "loop",
                 RequiresConsent(k.eng.roe.mode) /\ k.eng.roe.consent /\ "prober" \in Wired)
      BY <1>5, <2>2 DEF RunGate
    <3>3. (RequiresConsent(k.eng.roe.mode) /\ k.eng.roe.consent /\ "prober" \in Wired) \in BOOLEAN
      OBVIOUS
    <3> QED BY <1>2, <1>3, <2>1, <3>1, <3>2, <3>3
  <2> QED BY <1>4, <2>2
<1>6. CASE SchedList(c)
  <2>1. k.eng.status \in Runnable /\ k.pc = "gate" /\ k.op = "sched"
    BY <1>1, <1>6 DEF SchedList, Placed
  <2>2. CASE Listed(c, Reopened(k.eng), "loop", FALSE)
    BY <1>3, <2>1, <2>2
  <2>3. CASE call' = [call EXCEPT ![c].pc = "put", ![c].eng = Reopened(k.eng)]
    <3>1. call'[c] = [k EXCEPT !.pc = "put", !.eng = Reopened(k.eng)] /\ call' = [call EXCEPT ![c] = call'[c]]
      BY <1>1, <2>3
    <3>2. call'[c] \in Call
      BY <1>1, <1>2, <3>1 DEF Call
    <3>3. Placed(call'[c]) /\ Gated(call'[c]) /\ Tried(call'[c])
      BY <1>1, <1>2, <2>1, <3>1 DEF Call, Placed, Gated, Tried, Agreed
    <3> QED BY <3>1, <3>2, <3>3 DEF CallInv
  <2> QED BY <1>6, <2>2, <2>3 DEF SchedList
<1> QED BY <1>5, <1>6

(* A step that touches only the record of its own operation. *)
LEMMA Moves ==
  ASSUME PentestInv, NEW c \in Calls, NEW k, call' = [call EXCEPT ![c] = k], CallInv(k)
  PROVE  CallInv(call'[c]) /\ call' = [call EXCEPT ![c] = call'[c]]
BY DEF PentestInv, TypeOK

LEMMA Hunting ==
  ASSUME PentestInv, NEW c \in Calls, HuntFires(c) \/ HuntRefused(c)
  PROVE  CallInv(call'[c]) /\ call' = [call EXCEPT ![c] = call'[c]]
<1> DEFINE k == call[c]
<1>1. k \in Call /\ Placed(k) /\ Gated(k) /\ Tried(k) /\ call \in [Calls -> Call] /\ known \subseteq Leads
      /\ proved \subseteq known
  BY DEF PentestInv, TypeOK, CallInv
<1>2. k.pc = "hunt" /\ k.op = "run" /\ Agreed(k) /\ k.eng.status \in {"authorized", "retesting"}
  BY <1>1 DEF HuntFires, HuntRefused, Placed, Gated
<1>3. ASSUME NEW n \in Nat
      PROVE  /\ Merged(k.eng, n) \in Engagement /\ Merged(k.eng, n).roe = k.eng.roe
             /\ Merged(k.eng, n).status = k.eng.status
  BY <1>1 DEF Merged, Call, Engagement
<1>3a. k.eng.used \in Nat /\ k.eng.used + 1 \in Nat
  BY <1>1 DEF Call, Engagement
<1>4. CASE HuntFires(c)
  <2>1. PICK found \in SUBSET InScope : \E verified \in SUBSET found :
           /\ known' = known \cup found
           /\ proved' = proved \cup verified
           /\ call' = [call EXCEPT ![c].pc = "loop", ![c].eng = Merged(k.eng, k.eng.used + 1),
                                   ![c].live = @ \cup InScope,
                                   ![c].todo = IF found = {} THEN @ ELSE known',
                                   ![c].sure = IF found = {} THEN @ ELSE proved']
    BY <1>4 DEF HuntFires
  <2>2. known' \subseteq Leads /\ proved' \subseteq Leads
    BY <1>1, <2>1, PentestAssumption
  <2>3. call' = [call EXCEPT ![c] = call'[c]]
    BY <1>1, <2>1
  <2>4. call'[c] = [k EXCEPT !.pc = "loop", !.eng = Merged(k.eng, k.eng.used + 1), !.live = @ \cup InScope,
                             !.todo = IF found = {} THEN @ ELSE known',
                             !.sure = IF found = {} THEN @ ELSE proved']
    BY <1>1, <2>1
  <2>5. call'[c] \in Call
    <3>1. /\ k.live \cup InScope \in SUBSET Leads
          /\ (IF found = {} THEN k.todo ELSE known') \in SUBSET Leads
          /\ (IF found = {} THEN k.sure ELSE proved') \in SUBSET Leads
      BY <1>1, <2>2, PentestAssumption DEF Call
    <3>2. Merged(k.eng, k.eng.used + 1) \in Engagement
      BY <1>3, <1>3a
    <3> QED BY <1>1, <2>4, <3>1, <3>2 DEF Call
  <2>6. Placed(call'[c]) /\ Tried(call'[c])
    BY <1>1, <1>2, <1>3, <1>3a, <2>4 DEF Placed, Tried, Call
  <2>7. k.eng.roe.consent /\ (k.eng.roe.env = "production" => k.eng.roe.production)
    BY <1>4 DEF HuntFires, HuntAllowed, Check, CheckEnvironment
  <2>8. k.live \subseteq InScope
    BY <1>1, <1>2 DEF Gated
  <2>9. Gated(call'[c])
    BY <1>1, <1>2, <1>3, <1>3a, <2>4, <2>7, <2>8 DEF Gated, Agreed, Call
  <2> QED BY <2>3, <2>5, <2>6, <2>9 DEF CallInv
<1>5. CASE HuntRefused(c)
  <2>1. PICK e : /\ call' = [call EXCEPT ![c].pc = "loop", ![c].eng = e]
                 /\ e \in Engagement /\ e.roe = k.eng.roe /\ e.status = k.eng.status
    <3>1. CASE call' = [call EXCEPT ![c].pc = "loop"]
      <4>1. call' = [call EXCEPT ![c].pc = "loop", ![c].eng = k.eng]
        BY <1>1, <3>1 DEF Call
      <4> QED BY <1>1, <4>1 DEF Call
    <3>2. CASE call' = [call EXCEPT ![c].pc = "loop", ![c].eng = Merged(k.eng, k.eng.used)]
      BY <1>3, <1>3a, <3>2
    <3> QED BY <1>5, <3>1, <3>2 DEF HuntRefused
  <2>2. call'[c] = [k EXCEPT !.pc = "loop", !.eng = e] /\ call' = [call EXCEPT ![c] = call'[c]]
    BY <1>1, <2>1
  <2>3. call'[c] \in Call
    BY <1>1, <2>1, <2>2 DEF Call
  <2>4. Placed(call'[c]) /\ Gated(call'[c]) /\ Tried(call'[c])
    BY <1>1, <1>2, <2>1, <2>2 DEF Placed, Gated, Agreed, Tried, Call
  <2> QED BY <2>2, <2>3, <2>4 DEF CallInv
<1> QED BY <1>4, <1>5

LEMMA Looping ==
  ASSUME PentestInv, NEW c \in Calls,
         LoopHalted(c) \/ LoopDone(c) \/ \E l \in Leads : LoopDenied(c, l) \/ LoopFires(c, l)
  PROVE  CallInv(call'[c]) /\ call' = [call EXCEPT ![c] = call'[c]]
<1> DEFINE k == call[c]
<1>1. k \in Call /\ Placed(k) /\ Gated(k) /\ Tried(k) /\ call \in [Calls -> Call]
  BY DEF PentestInv, TypeOK, CallInv
<1>2. k.pc = "loop" /\ k.op \in {"run", "sched"} /\ k.eng.status \in {"authorized", "retesting"}
      /\ k.blocked < StallLimit
  BY <1>1 DEF LoopHalted, LoopDone, LoopDenied, LoopFires, Placed, Tried
<1>3. k.eng \in Engagement /\ k.blocked \in 0..StallLimit /\ StallLimit \in Nat
  BY <1>1, PentestAssumption DEF Call
<1>4. CASE LoopHalted(c)
  <2>1. call'[c] = [k EXCEPT !.pc = "put", !.eng.status = "halted"] /\ call' = [call EXCEPT ![c] = call'[c]]
    BY <1>1, <1>4 DEF LoopHalted
  <2>2. call'[c] \in Call
    <3>1. [k.eng EXCEPT !.status = "halted"] \in Engagement
      BY <1>3 DEF Engagement, Statuses
    <3>2. call'[c] = [k EXCEPT !.pc = "put", !.eng = [k.eng EXCEPT !.status = "halted"]]
      BY <1>1, <2>1 DEF Call
    <3> QED BY <1>1, <3>1, <3>2 DEF Call
  <2>3. Placed(call'[c]) /\ Gated(call'[c]) /\ Tried(call'[c])
    BY <1>1, <1>2, <1>3, <2>1 DEF Placed, Gated, Agreed, Tried, Call, Engagement
  <2> QED BY <2>1, <2>2, <2>3 DEF CallInv
<1>5. Finished(k.eng) \in Engagement /\ Finished(k.eng).roe = k.eng.roe /\ Finished(k.eng).used = k.eng.used
      /\ Finished(k.eng).status = "complete"
  BY <1>3 DEF Finished, Engagement, Statuses
<1>6. CASE LoopDone(c)
  <2>1. call'[c] = [k EXCEPT !.pc = "put", !.eng = Finished(k.eng)] /\ call' = [call EXCEPT ![c] = call'[c]]
    BY <1>1, <1>6 DEF LoopDone
  <2>2. call'[c] \in Call
    BY <1>1, <1>5, <2>1 DEF Call
  <2>3. Placed(call'[c]) /\ Gated(call'[c])
    BY <1>1, <1>2, <1>5, <2>1 DEF Placed, Gated, Agreed, Call
  <2>4. ~BudgetLeft(k.eng) \/ k.todo = {}
    BY <1>6 DEF LoopDone
  <2>5. Tried(call'[c])
    BY <1>1, <1>5, <2>1, <2>4 DEF Tried, BudgetLeft, Call
  <2> QED BY <2>1, <2>2, <2>3, <2>5 DEF CallInv
<1>7. ASSUME NEW l \in Leads, LoopDenied(c, l)
      PROVE  CallInv(call'[c]) /\ call' = [call EXCEPT ![c] = call'[c]]
  <2>1. Denied(c, l)
    BY <1>7 DEF LoopDenied
  <2>1a. k.todo \ {l} \in SUBSET Leads /\ k.blocked + 1 \in 0..StallLimit
    BY <1>1, <1>2, <1>3 DEF Call
  <2>2. call' = [call EXCEPT ![c] = call'[c]]
    BY <1>1, <2>1 DEF Denied
  <2>3. CASE k.blocked + 1 >= StallLimit
    <3>1. call'[c] = [k EXCEPT !.todo = @ \ {l}, !.blocked = @ + 1, !.pc = "put", !.eng = Finished(@)]
      BY <1>1, <2>1, <2>3 DEF Denied
    <3>2. call'[c] \in Call
      BY <1>1, <1>5, <2>1a, <3>1 DEF Call
    <3>3. Placed(call'[c]) /\ Gated(call'[c]) /\ Tried(call'[c])
      BY <1>1, <1>2, <1>3, <1>5, <2>3, <3>1 DEF Placed, Gated, Agreed, Tried, Call
    <3> QED BY <2>2, <3>2, <3>3 DEF CallInv
  <2>4. CASE ~(k.blocked + 1 >= StallLimit)
    <3>1. call'[c] = [k EXCEPT !.todo = @ \ {l}, !.blocked = @ + 1]
      BY <1>1, <2>1, <2>4 DEF Denied, Call
    <3>2. call'[c] \in Call
      BY <1>1, <2>1a, <3>1 DEF Call
    <3>3. Placed(call'[c]) /\ Gated(call'[c]) /\ Tried(call'[c])
      BY <1>1, <1>2, <1>3, <2>4, <3>1 DEF Placed, Gated, Agreed, Tried, Call
    <3> QED BY <2>2, <3>2, <3>3 DEF CallInv
  <2> QED BY <2>3, <2>4
<1>8. ASSUME NEW l \in Leads, LoopFires(c, l)
      PROVE  CallInv(call'[c]) /\ call' = [call EXCEPT ![c] = call'[c]]
  <2>1. PICK holds \in BOOLEAN : call' = [call EXCEPT ![c] = Fired(c, l, holds)]
    BY <1>8 DEF LoopFires
  <2>2. Fired(c, l, holds) \in Call
    <3> DEFINE proven == IF l \in k.sure \/ (k.active /\ holds) THEN k.eng.proven \cup {l} ELSE k.eng.proven
               live == IF k.active THEN k.live \cup {l} ELSE k.live
               todo == k.todo \ {l}
               e == [k.eng EXCEPT !.used = @ + 1, !.findings = @ \cup {l}, !.proven = proven]
    <3>1. /\ k.eng.used + 1 \in Nat /\ k.eng.findings \cup {l} \in SUBSET Leads /\ proven \in SUBSET Leads
          /\ todo \in SUBSET Leads /\ live \in SUBSET Leads
      BY <1>1, <1>3 DEF Engagement, Call
    <3>2. Fired(c, l, holds) = [k EXCEPT !.todo = todo, !.blocked = 0, !.eng = e, !.live = live]
      BY <1>1 DEF Fired, Call
    <3>3. e \in Engagement
      <4> HIDE DEF proven
      <4> QED BY <1>3, <3>1 DEF Engagement
    <3> HIDE DEF e, live, todo
    <3>4. Fired(c, l, holds) = [op |-> k.op, pc |-> k.pc, eng |-> e, todo |-> todo, sure |-> k.sure,
                                active |-> k.active, blocked |-> 0, live |-> live, cleared |-> k.cleared]
      BY <1>1, <3>2 DEF Call
    <3>5. /\ k.op \in {"none", "run", "sched", "probe", "retest", "sign", "cadence"}
          /\ k.pc \in {"idle", "gate", "hunt", "loop", "put", "feedback"}
          /\ k.sure \in SUBSET Leads /\ k.active \in BOOLEAN /\ k.cleared \in BOOLEAN /\ 0 \in 0..StallLimit
      BY <1>1, <1>3 DEF Call
    <3> QED BY <3>1, <3>3, <3>4, <3>5 DEF Call
  <2>3. Placed(Fired(c, l, holds)) /\ Tried(Fired(c, l, holds))
    <3>1. /\ Fired(c, l, holds).pc = "loop" /\ Fired(c, l, holds).op = k.op
          /\ Fired(c, l, holds).eng.status = k.eng.status /\ Fired(c, l, holds).blocked = 0
      BY <1>1, <1>2, <1>3 DEF Fired, Call, Engagement
    <3> QED BY <1>2, <3>1, PentestAssumption DEF Placed, Tried
  <2>4. k.active => l \in InScope /\ k.eng.roe.consent /\ (k.eng.roe.env = "production" => k.eng.roe.production)
    BY <1>8 DEF LoopFires, Check, CheckEnvironment
  <2>5. Gated(Fired(c, l, holds))
    BY <1>1, <1>2, <1>3, <2>4 DEF Fired, Gated, Agreed, Call, Engagement
  <2> QED BY <2>1, <2>2, <2>3, <2>5, Moves DEF CallInv
<1> QED BY <1>4, <1>6, <1>7, <1>8

(* Putting the record back ends the operation, or leaves a run its        *)
(* feedback.                                                               *)
LEMMA Putting ==
  ASSUME PentestInv, NEW c \in Calls, RunPut(c) \/ Feedback(c) \/ SchedPut(c) \/ Put(c)
  PROVE  CallInv(call'[c]) /\ call' = [call EXCEPT ![c] = call'[c]]
<1>1. call[c] \in Call /\ Placed(call[c])
  BY DEF PentestInv, CallInv
<1>2. CASE Return(c)
  BY <1>2, IdleIsFine, Moves DEF Return
<1>3. CASE /\ RunPut(c)
           /\ call' = [call EXCEPT ![c] = [Idle EXCEPT !.op = "run", !.pc = "feedback", !.eng = call[c].eng]]
  <2> DEFINE k == [Idle EXCEPT !.op = "run", !.pc = "feedback", !.eng = call[c].eng]
  <2>1. k \in Call
    BY <1>1, IdleIsFine DEF Idle, CallInv, Call
  <2>2. call[c].eng.status # "none"
    BY <1>1, <1>3 DEF RunPut, Placed
  <2>3. Placed(k) /\ Gated(k) /\ Tried(k)
    BY <2>2 DEF Idle, Placed, Gated, Tried
  <2> QED BY <1>3, <2>1, <2>3, Moves DEF CallInv
<1> QED BY <1>2, <1>3 DEF RunPut, Feedback, SchedPut, Put

(* A person's probe and a re-test. *)
LEMMA Probing ==
  ASSUME PentestInv, NEW c \in Calls, (\E l \in Leads : ProbeFires(c, l)) \/ ProbeRefused(c) \/ RetestFires(c)
  PROVE  CallInv(call'[c]) /\ call' = [call EXCEPT ![c] = call'[c]]
<1> DEFINE k == call[c]
<1>1. k \in Call /\ Placed(k) /\ Gated(k) /\ Tried(k) /\ call \in [Calls -> Call] /\ owned \in BOOLEAN
  BY DEF PentestInv, TypeOK, CallInv
<1>2. k.pc = "gate" /\ k.op \in {"probe", "retest"} /\ k.live = {} /\ ~k.active /\ k.eng.status # "none"
  BY <1>1 DEF ProbeFires, ProbeRefused, RetestFires, Placed, Gated
<1>3. ASSUME NEW l \in Leads, ProbeFires(c, l)
      PROVE  CallInv(call'[c]) /\ call' = [call EXCEPT ![c] = call'[c]]
  <2>1. PICK holds \in BOOLEAN :
           call' = [call EXCEPT ![c].pc = "put", ![c].live = {l}, ![c].cleared = owned,
                                ![c].eng = Probed(@, l, holds)]
    BY <1>3 DEF ProbeFires
  <2> DEFINE e == Probed(k.eng, l, holds)
  <2>2. e \in Engagement /\ e.roe = k.eng.roe /\ e.status = k.eng.status
    <3>1. /\ k.eng \in Engagement /\ k.eng.used + 1 \in Nat
          /\ (IF holds THEN k.eng.findings \cup {l} ELSE k.eng.findings) \in SUBSET Leads
          /\ (IF holds THEN k.eng.proven \cup {l} ELSE k.eng.proven) \in SUBSET Leads
      BY <1>1 DEF Call, Engagement
    <3> QED BY <3>1 DEF Probed, Engagement
  <2> HIDE DEF e
  <2>3. call'[c] = [k EXCEPT !.pc = "put", !.live = {l}, !.cleared = owned, !.eng = e]
        /\ call' = [call EXCEPT ![c] = call'[c]]
    BY <1>1, <2>1 DEF Call, e
  <2>4. k.op = "probe" /\ owned /\ l \in InScope /\ RequiresConsent(k.eng.roe.mode) /\ k.eng.roe.consent
        /\ (k.eng.roe.env = "production" => k.eng.roe.production)
    BY <1>3 DEF ProbeFires, ProbeMayRun, Check, CheckEnvironment
  <2>5. call'[c] \in Call
    <3>1. {l} \in SUBSET Leads
      OBVIOUS
    <3> QED BY <1>1, <2>2, <2>3, <3>1 DEF Call
  <2>6. Placed(call'[c]) /\ Gated(call'[c]) /\ Tried(call'[c])
    BY <1>1, <1>2, <2>2, <2>3, <2>4 DEF Placed, Gated, Tried, Agreed, Call
  <2> QED BY <2>3, <2>5, <2>6 DEF CallInv
<1>4. CASE ProbeRefused(c)
  <2>1. CASE Return(c)
    BY <2>1, IdleIsFine, Moves DEF Return
  <2>2. CASE call' = [call EXCEPT ![c].pc = "put"]
    <3>1. call'[c] = [k EXCEPT !.pc = "put"] /\ call' = [call EXCEPT ![c] = call'[c]] /\ call'[c] \in Call
      BY <1>1, <2>2 DEF Call
    <3>2. k.op = "probe"
      BY <1>4 DEF ProbeRefused
    <3>3. Placed(call'[c]) /\ Gated(call'[c]) /\ Tried(call'[c])
      BY <1>1, <1>2, <3>1, <3>2 DEF Placed, Gated, Tried, Call
    <3> QED BY <3>1, <3>3 DEF CallInv
  <2> QED BY <1>4, <2>1, <2>2 DEF ProbeRefused
<1>5. CASE RetestFires(c)
  <2>1. PICK resent \in {{}, k.eng.proven \cap known} :
          /\ resent # {} => owned
          /\ call' = [call EXCEPT ![c].pc = "put", ![c].cleared = owned /\ resent # {}, ![c].live = resent]
    BY <1>5 DEF RetestFires
  <2>2. call'[c] = [k EXCEPT !.pc = "put", !.cleared = owned /\ resent # {}, !.live = resent]
        /\ call' = [call EXCEPT ![c] = call'[c]]
    BY <1>1, <2>1
  <2>3. resent \in SUBSET Leads /\ (owned /\ resent # {}) \in BOOLEAN /\ k.op = "retest"
    BY <1>1, <1>5, <2>1 DEF Call, Engagement, RetestFires
  <2>4. call'[c] \in Call
    BY <1>1, <2>2, <2>3 DEF Call
  <2>5. Placed(call'[c]) /\ Gated(call'[c]) /\ Tried(call'[c])
    BY <1>1, <1>2, <2>1, <2>2, <2>3 DEF Placed, Gated, Tried, Agreed, Call
  <2> QED BY <2>2, <2>4, <2>5 DEF CallInv
<1> QED BY <1>3, <1>4, <1>5

LEMMA Stepping ==
  ASSUME PentestInv, NEW c \in Calls, Steps(c)
  PROVE  CallInv(call'[c]) /\ call' = [call EXCEPT ![c] = call'[c]]
BY Gating, Hunting, Looping, Putting, Probing DEF Steps, RunSteps

(* What a step writes to the shared state has its type. *)
LEMMA SharedType ==
  ASSUME PentestInv, NEW c \in Calls, Steps(c)
  PROVE  /\ eng' \in Engagement /\ known' \subseteq Leads /\ proved' \subseteq known'
         /\ halted' \in BOOLEAN /\ owned' \in BOOLEAN /\ mishaps \subseteq mishaps'
         /\ mishaps' \subseteq {"overlap", "put", "list"} /\ executed' \in Nat /\ ops' \in 0..MaxOps
<1>1. call[c].eng \in Engagement /\ TypeOK
  BY DEF PentestInv, CallInv, Call
<1>2. eng' \in Engagement
  <2>1. Advanced(call[c].eng) \in Engagement
    BY <1>1 DEF Advanced, Engagement
  <2> QED BY <1>1, <2>1 DEF TypeOK, Steps, RunSteps, RunGate, HuntFires, HuntRefused, LoopHalted, LoopDone, LoopDenied,
        LoopFires, RunPut, Feedback, SchedList, SchedPut, ProbeFires, ProbeRefused, RetestFires, Put, Store, StoreFails
<1>3. known' \subseteq Leads /\ proved' \subseteq known'
  <2>1. CASE HuntFires(c)
    BY <1>1, <2>1, PentestAssumption DEF TypeOK, HuntFires
  <2>2. CASE Feedback(c)
    BY <1>1, <2>2 DEF TypeOK, Feedback
  <2>3. CASE UNCHANGED <<known, proved>>
    BY <1>1, <2>3 DEF TypeOK
  <2> QED BY <2>1, <2>2, <2>3 DEF Steps, RunSteps, RunGate, HuntRefused, LoopHalted, LoopDone, LoopDenied,
        LoopFires, RunPut, SchedList, SchedPut, ProbeFires, ProbeRefused, RetestFires, Put
<1>4. UNCHANGED <<halted, owned, ops>>
  BY DEF Steps, RunSteps, RunGate, HuntFires, HuntRefused, LoopHalted, LoopDone, LoopDenied,
        LoopFires, RunPut, Feedback, SchedList, SchedPut, ProbeFires, ProbeRefused, RetestFires, Put
<1>5. mishaps' \in {mishaps, mishaps \cup {"put"}, mishaps \cup {"list"}}
  BY DEF Steps, RunSteps, RunGate, HuntFires, HuntRefused, LoopHalted, LoopDone, LoopDenied,
        LoopFires, RunPut, Feedback, SchedList, SchedPut, ProbeFires, ProbeRefused, RetestFires, Put, Store, StoreFails
<1>6. executed' \in {executed, executed + 1}
  BY DEF Steps, RunSteps, RunGate, HuntFires, HuntRefused, LoopHalted, LoopDone, LoopDenied,
        LoopFires, RunPut, Feedback, SchedList, SchedPut, ProbeFires, ProbeRefused, RetestFires, Put, Counted
<1>7. executed' \in Nat /\ mishaps \subseteq mishaps' /\ mishaps' \subseteq {"overlap", "put", "list"}
  BY <1>1, <1>5, <1>6 DEF TypeOK
<1> QED BY <1>1, <1>2, <1>3, <1>4, <1>7 DEF TypeOK

(* Time changes nothing an operation relies on. *)
LEMMA LaterIsFine ==
  ASSUME NEW k, CallInv(k)
  PROVE  CallInv([k EXCEPT !.eng = Later(@)])
<1> DEFINE n == [k EXCEPT !.eng = Later(@)]
<1>1. k \in Call /\ k.eng \in Engagement /\ Placed(k) /\ Gated(k) /\ Tried(k)
  BY DEF CallInv, Call
<1>2. /\ Later(k.eng) \in Engagement /\ Later(k.eng).roe = k.eng.roe /\ Later(k.eng).used = k.eng.used
      /\ Later(k.eng).status = k.eng.status
  BY <1>1 DEF Later, Engagement
<1>3. n \in Call
  BY <1>1, <1>2 DEF Call
<1>4. k.pc = "idle" => n = k
  <2>1. NoEngagement.sched = "off" /\ Later(NoEngagement) = NoEngagement
    BY DEF NoEngagement, Later
  <2> QED BY <1>1, <2>1 DEF Placed, Idle
<1>5. Placed(n) /\ Gated(n) /\ Tried(n)
  BY <1>1, <1>2, <1>4 DEF Placed, Gated, Agreed, Tried, BudgetLeft, Call
<1> QED BY <1>3, <1>5 DEF CallInv

LEMMA PentestInvariantStep ==
  ASSUME PentestInv, [Next]_vars
  PROVE  PentestInv'
<1>1. TypeOK /\ call \in [Calls -> Call] /\ \A c \in Calls : CallInv(call[c])
  BY DEF PentestInv, TypeOK
<1>2. ASSUME NEW c \in Calls, CallInv(call'[c]), call' = [call EXCEPT ![c] = call'[c]]
      PROVE  call' \in [Calls -> Call] /\ \A d \in Calls : CallInv(call'[d])
  BY <1>1, <1>2 DEF CallInv
<1>3. CASE \E c \in Calls : Reads(c)
  <2>1. PICK c \in Calls : Reads(c)
    BY <1>3
  <2>2. TypeOK'
    BY <1>1, <1>2, <2>1, Reading DEF TypeOK
  <2> QED BY <1>2, <2>1, <2>2, Reading DEF PentestInv
<1>4. CASE \E c \in Calls : Steps(c)
  <2>1. PICK c \in Calls : Steps(c)
    BY <1>4
  <2>2. TypeOK'
    BY <1>2, <2>1, Stepping, SharedType DEF TypeOK
  <2> QED BY <1>2, <2>1, <2>2, Stepping DEF PentestInv
<1>5. CASE \E roe \in Rules : Create(roe)
  <2>1. PICK roe \in Rules : Create(roe)
    BY <1>5
  <2>2. NoEngagement \in Engagement /\ roe \in RulesOfEngagement
    BY PentestAssumption DEF NoEngagement, NoRules, Engagement, RulesOfEngagement, Statuses
  <2>3. eng' \in Engagement
    BY <2>1, <2>2 DEF Create, Engagement, Statuses
  <2> QED BY <1>1, <2>1, <2>3 DEF Create, PentestInv, TypeOK
<1>6. CASE TimePasses
  <2>1. eng' \in Engagement
    BY <1>1, <1>6 DEF TimePasses, TypeOK, Later, Engagement
  <2>2. \A c \in Calls : CallInv(call'[c])
    BY <1>1, <1>6, LaterIsFine DEF TimePasses
  <2>3. call' \in [Calls -> Call]
    BY <1>6, <2>2 DEF TimePasses, CallInv
  <2> QED BY <1>1, <1>6, <2>1, <2>2, <2>3 DEF TimePasses, PentestInv, TypeOK
<1>7. CASE FlipSwitch \/ OwnershipChanges
  <2>1. halted' \in BOOLEAN /\ owned' \in BOOLEAN
    BY <1>1, <1>7, Zenon DEF FlipSwitch, OwnershipChanges, TypeOK
  <2> QED BY <1>1, <1>7, <2>1 DEF FlipSwitch, OwnershipChanges, PentestInv, TypeOK
<1>8. CASE \E l \in Leads : ScanFinds(l)
  BY <1>1, <1>8 DEF ScanFinds, PentestInv, TypeOK
<1>9. CASE UNCHANGED vars
  BY <1>1, <1>9 DEF vars, PentestInv, TypeOK
<1> QED BY <1>3, <1>4, <1>5, <1>6, <1>7, <1>8, <1>9 DEF Next

LEMMA PentestInvariant == Spec => []PentestInv
BY PentestInvInit, PentestInvariantStep, PTL DEF Spec

(* The variables keep their types: no step of any handler, scheduler pass  *)
(* or probe leaves a record that is not an engagement.                     *)
THEOREM PentestTypeCorrect == Spec => []TypeOK
<1>1. PentestInv => TypeOK
  BY DEF PentestInv
<1> QED BY <1>1, PentestInvariant, PTL

(* Whatever overlaps, live traffic stays within what a person agreed to:   *)
(* the rules an operation passed are kept in its own copy, and no other    *)
(* operation can change that copy.                                         *)
THEOREM LiveTrafficWithinRules == Spec => []LiveWithinRules
<1>1. PentestInv => LiveWithinRules
  BY DEF PentestInv, CallInv, Gated, LiveWithinRules
<1> QED BY <1>1, PentestInvariant, PTL

(* A run that ends complete with requests to spare has tried every lead it *)
(* listed or met StallLimit denials in a row.                              *)
THEOREM CompleteMeansTried == Spec => []CompleteTriedAll
<1>1. PentestInv => CompleteTriedAll
  BY DEF PentestInv, CallInv, Tried, CompleteTriedAll
<1> QED BY <1>1, PentestInvariant, PTL

-----------------------------------------------------------------------------
(* What one step of an operation does to its copy, the stored record, the  *)
(* mishaps and the count of attempts.                                      *)
AtRest == Runnable \cup {"none", "halted"}

Begun(c) ==
  LET n == call'[c]
  IN  /\ call[c].pc = "idle" /\ n.pc \in {"gate", "put"}
      /\ n.op \in {"run", "sched"} => n.pc = "gate"
      /\ n.eng.status = eng.status /\ n.eng.used = eng.used /\ (eng.signed => n.eng.signed)
      /\ eng.status # "none" /\ UNCHANGED <<eng, executed>>
      /\ mishaps' = mishaps \cup {m \in {"overlap"} : \E d \in Calls \ {c} : call[d].pc # "idle"}

LEMMA ReadBegins ==
  ASSUME PentestInv, NEW c \in Calls, Reads(c)
  PROVE  Begun(c)
<1>1. call \in [Calls -> Call] /\ eng \in Engagement
  BY DEF PentestInv, TypeOK
<1>2. ASSUME NEW op, NEW pc, NEW e, Enter(c, op, pc, e), pc \in {"gate", "put"},
             op \in {"run", "sched"} => pc = "gate",
             e.status = eng.status, e.used = eng.used, eng.signed => e.signed
      PROVE  Begun(c)
  <2>1. call'[c] = [Idle EXCEPT !.op = op, !.pc = pc, !.eng = e]
    BY <1>1, <1>2 DEF Enter
  <2>2. call'[c].pc = pc /\ call'[c].op = op /\ call'[c].eng = e
    BY <2>1 DEF Idle
  <2> QED BY <1>2, <2>2 DEF Enter, Begun
<1>3. CASE RunRead(c) \/ SchedRead(c) \/ ProbeRead(c) \/ RetestRead(c)
  BY <1>2, <1>3 DEF RunRead, SchedRead, ProbeRead, RetestRead
<1>4. CASE Sign(c)
  BY <1>1, <1>2, <1>4 DEF Sign, Engagement
<1>5. CASE SetCadence(c)
  <2>1. PICK s \in {"off", "ahead"} : Enter(c, "cadence", "put", [eng EXCEPT !.sched = s])
    BY <1>5 DEF SetCadence
  <2> QED BY <1>1, <1>2, <2>1 DEF Engagement
<1> QED BY <1>3, <1>4, <1>5 DEF Reads

Stored(c) ==
  /\ eng'.status = call[c].eng.status /\ eng'.used = call[c].eng.used /\ eng'.signed = call[c].eng.signed

(* A step on the way to the put: the copy keeps the sign-off, its count    *)
(* only grows, and the stored record stays.                                *)
Worked(c) ==
  LET k == call[c]
      n == call'[c]
  IN  /\ k.pc \in {"gate", "hunt", "loop"} /\ n.pc \in {"hunt", "loop", "put"} /\ n.op = k.op
      /\ n.eng.signed = k.eng.signed /\ n.eng.used >= k.eng.used
      /\ eng' = eng /\ mishaps \subseteq mishaps'
      /\ n.pc = "put" /\ k.op \in {"run", "sched"} => n.eng.status \in AtRest \/ "list" \in mishaps'
      /\ k.op \notin {"run", "sched"} => n.eng.status = k.eng.status
      /\ \/ executed' = executed
         \/ executed' = Counted /\ BudgetLeft(k.eng) /\ n.eng.used >= k.eng.used + 1

(* The put, with the feedback of a run still to come, or without.          *)
Wrote(c) ==
  LET k == call[c]
      n == call'[c]
  IN  /\ k.pc = "put" /\ n.pc \in {"idle", "feedback"} /\ executed' = executed
      /\ mishaps \subseteq mishaps'
      /\ n.pc = "feedback" => n.eng = k.eng /\ Stored(c)
      /\ Stored(c) \/ ("put" \in mishaps' /\ eng' = eng)
      /\ n.pc = "idle" => n = Idle

Left(c) ==
  /\ call[c].pc \in {"gate", "feedback"} /\ call'[c] = Idle
  /\ eng' = eng /\ mishaps' = mishaps /\ executed' = executed

LEMMA StepDoes ==
  ASSUME PentestInv, NEW c \in Calls, Steps(c)
  PROVE  Worked(c) \/ Wrote(c) \/ Left(c)
<1> DEFINE k == call[c]
           n == call'[c]
<1>1. k \in Call /\ Placed(k) /\ k.eng \in Engagement /\ call \in [Calls -> Call] /\ k.eng.used \in Nat
  BY DEF PentestInv, TypeOK, CallInv, Call, Engagement
<1>2. ASSUME Return(c) PROVE n = Idle
  BY <1>1, <1>2 DEF Return
<1>3. CASE RunGate(c)
  <2>1. CASE Return(c)
    BY <1>2, <1>3, <2>1 DEF RunGate, Left
  <2>2. CASE ~Return(c)
    <3>1. PICK pc \in {"hunt", "loop"}, active \in BOOLEAN : Listed(c, Reopened(k.eng), pc, active)
      BY <1>3, <2>2 DEF RunGate
    <3>2. n.pc = pc /\ n.eng = Reopened(k.eng) /\ n.op = k.op
      BY <1>1, <3>1 DEF Listed, Call
    <3>3. n.eng.signed = k.eng.signed /\ n.eng.used = k.eng.used
      BY <1>1, <3>2 DEF Reopened, Engagement
    <3> QED BY <1>1, <1>3, <3>2, <3>3 DEF RunGate, Worked
  <2> QED BY <2>1, <2>2
<1>4. CASE SchedList(c)
  <2>1. n.eng = Reopened(k.eng) /\ n.op = k.op /\ n.pc \in {"loop", "put"}
    BY <1>1, <1>4 DEF SchedList, Listed, Call
  <2>2. n.eng.signed = k.eng.signed /\ n.eng.used = k.eng.used
    BY <1>1, <2>1 DEF Reopened, Engagement
  <2>3. n.pc = "put" => "list" \in mishaps'
    BY <1>1, <1>4 DEF SchedList, Listed, Call
  <2>4. /\ k.op = "sched" /\ k.pc = "gate" /\ eng' = eng /\ executed' = executed
        /\ mishaps \subseteq mishaps'
    BY <1>4 DEF SchedList
  <2> QED BY <1>1, <2>1, <2>2, <2>3, <2>4 DEF Worked
<1>5. CASE HuntFires(c)
  <2>1. n.eng = Merged(k.eng, k.eng.used + 1) /\ n.op = k.op /\ n.pc = "loop"
    <3>1. PICK found \in SUBSET InScope : \E verified \in SUBSET found :
             call' = [call EXCEPT ![c].pc = "loop", ![c].eng = Merged(k.eng, k.eng.used + 1),
                                  ![c].live = @ \cup InScope,
                                  ![c].todo = IF found = {} THEN @ ELSE known',
                                  ![c].sure = IF found = {} THEN @ ELSE proved']
      BY <1>5 DEF HuntFires
    <3>2. n = [k EXCEPT !.pc = "loop", !.eng = Merged(k.eng, k.eng.used + 1), !.live = @ \cup InScope,
                        !.todo = IF found = {} THEN @ ELSE known',
                        !.sure = IF found = {} THEN @ ELSE proved']
      BY <1>1, <3>1
    <3> QED BY <1>1, <3>2 DEF Call
  <2>2. n.eng.signed = k.eng.signed /\ n.eng.used = k.eng.used + (k.eng.used + 1)
    BY <1>1, <2>1 DEF Merged, Engagement
  <2>3. BudgetLeft(k.eng) /\ k.op = "run" /\ k.pc = "hunt"
    BY <1>1, <1>5 DEF HuntFires, HuntAllowed, Check, Placed
  <2>4. executed' = Counted /\ eng' = eng /\ mishaps' = mishaps
    BY <1>5 DEF HuntFires
  <2> QED BY <1>1, <2>1, <2>2, <2>3, <2>4 DEF Worked
<1>6. CASE HuntRefused(c)
  <2>1. (n.eng = Merged(k.eng, k.eng.used) \/ n.eng = k.eng) /\ n.op = k.op /\ n.pc = "loop"
    BY <1>1, <1>6 DEF HuntRefused, Call
  <2>2. n.eng.signed = k.eng.signed /\ n.eng.used >= k.eng.used
    BY <1>1, <2>1 DEF Merged, Engagement
  <2>3. k.op = "run"
    BY <1>1, <1>6 DEF HuntRefused, Placed
  <2> QED BY <1>1, <1>6, <2>1, <2>2, <2>3 DEF HuntRefused, Worked
<1>7. CASE LoopHalted(c)
  <2>1. n.eng = [k.eng EXCEPT !.status = "halted"] /\ n.op = k.op /\ n.pc = "put"
    BY <1>1, <1>7 DEF LoopHalted, Call
  <2>2. n.eng.signed = k.eng.signed /\ n.eng.used = k.eng.used /\ n.eng.status = "halted" /\ k.op \in {"run", "sched"}
    BY <1>1, <1>7, <2>1 DEF Engagement, LoopHalted, Placed
  <2> QED BY <1>1, <1>7, <2>1, <2>2 DEF LoopHalted, Worked, AtRest
<1>8. Finished(k.eng).signed = k.eng.signed /\ Finished(k.eng).used = k.eng.used /\ Finished(k.eng).status = "complete"
  BY <1>1 DEF Finished, Engagement
<1>9. CASE LoopDone(c)
  <2>1. n.eng = Finished(k.eng) /\ n.op = k.op /\ n.pc = "put" /\ k.op \in {"run", "sched"}
    BY <1>1, <1>9 DEF LoopDone, Call, Placed
  <2> QED BY <1>1, <1>8, <1>9, <2>1 DEF LoopDone, Worked, AtRest, Runnable
<1>10. ASSUME NEW l \in Leads, LoopDenied(c, l) PROVE Worked(c)
  <2>1. /\ n.op = k.op /\ k.op \in {"run", "sched"} /\ k.pc = "loop"
        /\ (n.pc = "put" /\ n.eng = Finished(k.eng)) \/ (n.pc = "loop" /\ n.eng = k.eng)
    BY <1>1, <1>10 DEF LoopDenied, Denied, Call, Placed
  <2> QED BY <1>1, <1>8, <1>10, <2>1 DEF LoopDenied, Worked, AtRest, Runnable
<1>11. ASSUME NEW l \in Leads, LoopFires(c, l) PROVE Worked(c)
  <2>1. PICK holds \in BOOLEAN : call' = [call EXCEPT ![c] = Fired(c, l, holds)]
    BY <1>11 DEF LoopFires
  <2>2. n = Fired(c, l, holds)
    BY <1>1, <2>1
  <2>3. n.op = k.op /\ n.pc = k.pc /\ n.eng.signed = k.eng.signed /\ n.eng.used = k.eng.used + 1
    <3> DEFINE e == [k.eng EXCEPT !.used = @ + 1, !.findings = @ \cup {l},
                                  !.proven = IF l \in k.sure \/ (k.active /\ holds) THEN @ \cup {l} ELSE @]
    <3>1. n.eng = e /\ n.op = k.op /\ n.pc = k.pc
      BY <1>1, <2>2 DEF Fired, Call
    <3>2. e.signed = k.eng.signed /\ e.used = k.eng.used + 1
      BY <1>1 DEF Engagement
    <3> QED BY <3>1, <3>2
  <2>4. k.op \in {"run", "sched"} /\ k.pc = "loop" /\ BudgetLeft(k.eng)
    BY <1>1, <1>11 DEF LoopFires, Placed
  <2> QED BY <1>1, <1>11, <2>3, <2>4 DEF LoopFires, Worked
<1>12. CASE RunPut(c)
  <2>1. CASE Return(c)
    BY <1>2, <1>12, <2>1 DEF RunPut, Store, StoreFails, Wrote, Stored, Idle
  <2>2. CASE /\ Store(k.eng)
             /\ call' = [call EXCEPT ![c] = [Idle EXCEPT !.op = "run", !.pc = "feedback", !.eng = k.eng]]
    <3>1. n.pc = "feedback" /\ n.eng = k.eng
      BY <1>1, <2>2 DEF Idle
    <3> QED BY <1>12, <2>2, <3>1 DEF RunPut, Store, Wrote, Stored
  <2> QED BY <1>12, <2>1, <2>2 DEF RunPut
<1>13. CASE Feedback(c)
  BY <1>2, <1>13 DEF Feedback, Left
<1>14. CASE SchedPut(c)
  <2>1. /\ Advanced(k.eng).status = k.eng.status /\ Advanced(k.eng).used = k.eng.used
        /\ Advanced(k.eng).signed = k.eng.signed
    BY <1>1 DEF Advanced, Engagement
  <2> QED BY <1>2, <1>14, <2>1 DEF SchedPut, Store, StoreFails, Wrote, Stored, Idle
<1>15. ASSUME NEW l \in Leads, ProbeFires(c, l) PROVE Worked(c)
  <2>1. PICK holds \in BOOLEAN :
           call' = [call EXCEPT ![c].pc = "put", ![c].live = {l}, ![c].cleared = owned,
                                ![c].eng = Probed(@, l, holds)]
    BY <1>15 DEF ProbeFires
  <2>2. n.op = k.op /\ n.pc = "put" /\ n.eng = Probed(k.eng, l, holds)
    BY <1>1, <2>1 DEF Call
  <2>3. n.eng.signed = k.eng.signed /\ n.eng.used = k.eng.used + 1 /\ n.eng.status = k.eng.status
    BY <1>1, <2>2 DEF Probed, Engagement
  <2>4. k.op = "probe" /\ k.pc = "gate" /\ BudgetLeft(k.eng)
    BY <1>15 DEF ProbeFires, Check
  <2> QED BY <1>1, <1>15, <2>2, <2>3, <2>4 DEF ProbeFires, Worked
<1>16. CASE ProbeRefused(c)
  <2>1. CASE Return(c)
    BY <1>2, <1>16, <2>1 DEF ProbeRefused, Left
  <2>2. CASE call' = [call EXCEPT ![c].pc = "put"]
    <3>1. n.op = k.op /\ n.pc = "put" /\ n.eng = k.eng
      BY <1>1, <2>2 DEF Call
    <3> QED BY <1>1, <1>16, <3>1 DEF ProbeRefused, Worked
  <2> QED BY <1>16, <2>1, <2>2 DEF ProbeRefused
<1>17. CASE RetestFires(c)
  <2>1. n.op = k.op /\ n.pc = "put" /\ n.eng = k.eng
    <3>1. PICK resent : call' = [call EXCEPT ![c].pc = "put", ![c].cleared = owned /\ resent # {},
                                             ![c].live = resent]
      BY <1>17 DEF RetestFires
    <3>2. n = [k EXCEPT !.pc = "put", !.cleared = owned /\ resent # {}, !.live = resent]
      BY <1>1, <3>1
    <3> QED BY <1>1, <3>2 DEF Call
  <2>2. /\ k.op = "retest" /\ k.pc = "gate" /\ eng' = eng /\ mishaps' = mishaps /\ executed' = executed
    BY <1>17 DEF RetestFires
  <2> QED BY <1>1, <2>1, <2>2 DEF Worked
<1>18. CASE Put(c)
  BY <1>2, <1>18 DEF Put, Store, StoreFails, Wrote, Stored, Idle
<1> QED BY <1>3, <1>4, <1>5, <1>6, <1>7, <1>9, <1>10, <1>11, <1>12, <1>13, <1>14, <1>15, <1>16, <1>17, <1>18
        DEF Steps, RunSteps

(* The environment and Create: no operation moves, time aside.             *)
Around ==
  /\ UNCHANGED <<mishaps, executed>>
  /\ \A c \in Calls : /\ call'[c].pc = call[c].pc /\ call'[c].op = call[c].op
                      /\ call'[c].eng.status = call[c].eng.status /\ call'[c].eng.used = call[c].eng.used
                      /\ call'[c].eng.signed = call[c].eng.signed
  /\ \/ eng'.status = eng.status /\ eng'.used = eng.used /\ eng'.signed = eng.signed
     \/ eng.status = "none" /\ eng'.status = "authorized" /\ eng'.used = 0 /\ ~eng'.signed

LEMMA StepKinds ==
  ASSUME PentestInv, [Next]_vars
  PROVE  \/ Around
         \/ \E c \in Calls : /\ \A d \in Calls \ {c} : call'[d] = call[d]
                             /\ Begun(c) \/ Worked(c) \/ Wrote(c) \/ Left(c)
<1>1. call \in [Calls -> Call] /\ eng \in Engagement
  BY DEF PentestInv, TypeOK
<1>2. ASSUME NEW c \in Calls, Reads(c) \/ Steps(c)
      PROVE  /\ \A d \in Calls \ {c} : call'[d] = call[d]
             /\ Begun(c) \/ Worked(c) \/ Wrote(c) \/ Left(c)
  <2>1. call' = [call EXCEPT ![c] = call'[c]]
    BY <1>2, Reading, Stepping
  <2>2. \A d \in Calls \ {c} : call'[d] = call[d]
    BY <1>1, <2>1
  <2> QED BY <1>2, <2>2, ReadBegins, StepDoes
<1>3. ASSUME NEW roe \in Rules, Create(roe) PROVE Around
  BY <1>3 DEF Create, Around, NoEngagement
<1>4. CASE TimePasses
  <2>1. Later(eng).status = eng.status /\ Later(eng).used = eng.used /\ Later(eng).signed = eng.signed
    BY <1>1 DEF Later, Engagement
  <2>2. ASSUME NEW c \in Calls
        PROVE  /\ call'[c].pc = call[c].pc /\ call'[c].op = call[c].op
               /\ call'[c].eng.status = call[c].eng.status /\ call'[c].eng.used = call[c].eng.used
               /\ call'[c].eng.signed = call[c].eng.signed
    <3>1. call'[c] = [call[c] EXCEPT !.eng = Later(call[c].eng)] /\ call[c] \in Call /\ call[c].eng \in Engagement
      BY <1>1, <1>4 DEF TimePasses, Call
    <3>2. /\ Later(call[c].eng).status = call[c].eng.status /\ Later(call[c].eng).used = call[c].eng.used
          /\ Later(call[c].eng).signed = call[c].eng.signed
      BY <3>1 DEF Later, Engagement
    <3> QED BY <3>1, <3>2 DEF Call
  <2> QED BY <1>4, <2>1, <2>2 DEF TimePasses, Around
<1>5. CASE FlipSwitch \/ OwnershipChanges \/ (\E l \in Leads : ScanFinds(l)) \/ UNCHANGED vars
  BY <1>5 DEF FlipSwitch, OwnershipChanges, ScanFinds, vars, Around
<1> QED BY <1>2, <1>3, <1>4, <1>5 DEF Next

(* An engagement at rest: a copy that can be put back is at rest too.      *)
RestInv ==
  "list" \notin mishaps =>
    /\ eng.status \in AtRest
    /\ \A c \in Calls :
         call[c].pc \in {"put", "feedback"} \/ call[c].op \notin {"run", "sched"} => call[c].eng.status \in AtRest

LEMMA RestInvStep ==
  ASSUME PentestInv, RestInv, [Next]_vars
  PROVE  RestInv'
<1>1. CASE Around
  BY <1>1 DEF Around, RestInv, AtRest, Runnable
<1>2. ASSUME NEW c \in Calls, \A d \in Calls \ {c} : call'[d] = call[d],
             Begun(c) \/ Worked(c) \/ Wrote(c) \/ Left(c)
      PROVE  RestInv'
  <2>1. SUFFICES ASSUME "list" \notin mishaps'
                 PROVE  /\ eng'.status \in AtRest
                        /\ call'[c].pc \in {"put", "feedback"} \/ call'[c].op \notin {"run", "sched"}
                              => call'[c].eng.status \in AtRest
    <3>1. "list" \notin mishaps' => "list" \notin mishaps
      BY <1>2 DEF Begun, Worked, Wrote, Left
    <3> QED BY <1>2, <3>1 DEF RestInv
  <2>2. "list" \notin mishaps
    BY <1>2, <2>1 DEF Begun, Worked, Wrote, Left
  <2>3. CASE Begun(c)
    BY <2>1, <2>2, <2>3 DEF Begun, RestInv
  <2>4. CASE Worked(c)
    BY <2>1, <2>2, <2>4 DEF Worked, RestInv
  <2>5. CASE Wrote(c)
    BY <2>1, <2>2, <2>5 DEF Wrote, Stored, RestInv, Idle, NoEngagement, AtRest
  <2>6. CASE Left(c)
    BY <2>1, <2>2, <2>6 DEF Left, RestInv, Idle, NoEngagement, AtRest
  <2> QED BY <1>2, <2>3, <2>4, <2>5, <2>6
<1> QED BY <1>1, <1>2, StepKinds

(* An engagement is never stored half-way: running and retesting exist in  *)
(* the copies of operations only, unless a scheduled pass failed to list.  *)
THEOREM NeverStoredHalfway == Spec => []StoredAtRest
<1>1. Init => RestInv
  BY DEF Init, RestInv, Idle, NoEngagement, AtRest
<1>2. PentestInv /\ RestInv /\ [Next]_vars => RestInv'
  BY RestInvStep
<1>3. RestInv => StoredAtRest
  BY DEF RestInv, StoredAtRest, AtRest
<1> QED BY <1>1, <1>2, <1>3, PentestInvariant, PTL DEF Spec

(* While no two operations have overlapped there is one copy at most, and  *)
(* it knows of the halt and of the sign-off.                               *)
CopyInv ==
  "overlap" \notin mishaps =>
    \A c \in Calls : call[c].pc # "idle" =>
      /\ \A d \in Calls \ {c} : call[d].pc = "idle"
      /\ eng.status = "halted" => call[c].eng.status = "halted"
      /\ eng.signed => call[c].eng.signed

LEMMA CopyInvStep ==
  ASSUME PentestInv, CopyInv, [Next]_vars
  PROVE  CopyInv'
<1>1. CASE Around
  BY <1>1 DEF Around, CopyInv
<1>2. ASSUME NEW c \in Calls, \A d \in Calls \ {c} : call'[d] = call[d],
             Begun(c) \/ Worked(c) \/ Wrote(c) \/ Left(c)
      PROVE  CopyInv'
  <2>1. SUFFICES ASSUME "overlap" \notin mishaps'
                 PROVE  /\ \A d \in Calls \ {c} : call[d].pc = "idle"
                        /\ call'[c].pc # "idle" =>
                             /\ eng'.status = "halted" => call'[c].eng.status = "halted"
                             /\ eng'.signed => call'[c].eng.signed
    <3>1. CASE \A d \in Calls \ {c} : call[d].pc = "idle"
      BY <1>2, <2>1, <3>1 DEF CopyInv
    <3> QED BY <2>1, <3>1 DEF CopyInv
  <2>2. "overlap" \notin mishaps
    BY <1>2, <2>1 DEF Begun, Worked, Wrote, Left
  <2>3. CASE Begun(c)
    BY <2>1, <2>2, <2>3 DEF Begun, CopyInv
  <2>4. CASE Worked(c)
    <3>1. /\ Placed(call[c]) /\ call[c].pc # "idle"
      BY <2>4 DEF PentestInv, CallInv, Worked
    <3>2. call[c].op \in {"run", "sched"} => call[c].eng.status # "halted"
      BY <2>4, <3>1 DEF Worked, Placed, Runnable
    <3> QED BY <2>1, <2>2, <2>4, <3>1, <3>2 DEF Worked, CopyInv
  <2>5. CASE Wrote(c)
    BY <2>1, <2>2, <2>5 DEF Wrote, Stored, CopyInv
  <2>6. CASE Left(c)
    BY <2>1, <2>2, <2>6 DEF Left, CopyInv, Idle
  <2> QED BY <1>2, <2>3, <2>4, <2>5, <2>6
<1> QED BY <1>1, <1>2, StepKinds

LEMMA CopyInvariant == Spec => []CopyInv
<1>1. Init => CopyInv
  BY DEF Init, CopyInv, Idle
<1>2. PentestInv /\ CopyInv /\ [Next]_vars => CopyInv'
  BY CopyInvStep
<1> QED BY <1>1, <1>2, PentestInvariant, PTL DEF Spec

(* The stored record after a step: only a put changes its status and its   *)
(* sign-off, and then to those of the copy.                                *)
LEMMA StoredFromCopy ==
  ASSUME PentestInv, CopyInv, [Next]_vars, "overlap" \notin mishaps'
  PROVE  /\ eng.status = "halted" => eng'.status = "halted"
         /\ eng.signed /\ eng.status # "none" => eng'.signed
<1>1. CASE Around
  BY <1>1 DEF Around
<1>2. ASSUME NEW c \in Calls, Begun(c) \/ Worked(c) \/ Left(c)
      PROVE  eng' = eng
  BY <1>2 DEF Begun, Worked, Left
<1>3. ASSUME NEW c \in Calls, Wrote(c)
      PROVE  /\ eng.status = "halted" => eng'.status = "halted"
             /\ eng.signed => eng'.signed
  <2>1. "overlap" \notin mishaps /\ call[c].pc # "idle"
    BY <1>3 DEF Wrote
  <2> QED BY <1>3, <2>1 DEF Wrote, Stored, CopyInv
<1> QED BY <1>1, <1>2, <1>3, StepKinds

(* The kill-switch is final for the engagement it stopped, as long as      *)
(* operations do not overlap.                                              *)
THEOREM HaltStays == Spec => HaltIsFinal
<1>1. PentestInv /\ CopyInv /\ [Next]_vars
        => [eng.status = "halted" /\ "overlap" \notin mishaps' => eng'.status = "halted"]_vars
  BY StoredFromCopy
<1> QED BY <1>1, PentestInvariant, CopyInvariant, PTL DEF Spec, HaltIsFinal
(* Before it is authorized an engagement has no history.                   *)
FreshInv ==
  eng.status = "none" => ~eng.signed /\ executed = 0 /\ \A c \in Calls : call[c].pc = "idle"

LEMMA FreshInvStep ==
  ASSUME PentestInv, FreshInv, [Next]_vars
  PROVE  FreshInv'
<1>1. CASE Around
  BY <1>1 DEF Around, FreshInv
<1>2. ASSUME NEW c \in Calls, Begun(c) \/ Worked(c) \/ Wrote(c) \/ Left(c)
      PROVE  eng'.status # "none"
  <2>1. Placed(call[c])
    BY DEF PentestInv, CallInv
  <2> QED BY <1>2, <2>1 DEF Begun, Worked, Wrote, Stored, Left, Placed, FreshInv
<1>3. eng'.status # "none" => FreshInv'
  BY DEF FreshInv
<1> QED BY <1>1, <1>2, <1>3, StepKinds

LEMMA FreshInvariant == Spec => []FreshInv
<1>1. Init => FreshInv
  BY DEF Init, FreshInv, Idle, NoEngagement
<1>2. PentestInv /\ FreshInv /\ [Next]_vars => FreshInv'
  BY FreshInvStep
<1> QED BY <1>1, <1>2, PentestInvariant, PTL DEF Spec

(* A named person's sign-off is not dropped by a later operation, as long  *)
(* as operations do not overlap.                                           *)
THEOREM SignoffStays == Spec => SignoffSticks
<1>1. PentestInv /\ CopyInv /\ FreshInv /\ [Next]_vars
        => [eng.signed /\ "overlap" \notin mishaps' => eng'.signed]_vars
  BY StoredFromCopy DEF FreshInv
<1> QED BY <1>1, PentestInvariant, CopyInvariant, FreshInvariant, PTL DEF Spec, SignoffSticks

(* The count in the copy is ahead of what has been fired, and the stored   *)
(* one catches up with every put.                                          *)
BudgetInv ==
  /\ BudgetHolds
  /\ Faithful =>
       /\ \A c \in Calls : call[c].pc # "idle" => executed <= call[c].eng.used
       /\ (\A c \in Calls : call[c].pc \in {"idle", "gate", "feedback"}) => executed <= eng.used

LEMMA BudgetInvStep ==
  ASSUME PentestInv, CopyInv, FreshInv, BudgetInv, [Next]_vars
  PROVE  BudgetInv'
<1>1. executed \in Nat /\ MaxRequests \in Nat /\ \A c \in Calls : call[c].eng.used \in Nat
  BY PentestAssumption DEF PentestInv, TypeOK, CallInv, Call, Engagement
<1>2. CASE Around
  BY <1>1, <1>2 DEF Around, FreshInv, BudgetInv, BudgetHolds, Faithful
<1>3. ASSUME NEW c \in Calls, \A d \in Calls \ {c} : call'[d] = call[d],
             Begun(c) \/ Worked(c) \/ Wrote(c) \/ Left(c)
      PROVE  BudgetInv'
  <2> DEFINE k == call[c]
             n == call'[c]
  <2>1. mishaps \subseteq mishaps'
    BY <1>3 DEF Begun, Worked, Wrote, Left
  <2>2. Faithful' => Faithful /\ "overlap" \notin mishaps
    BY <2>1 DEF Faithful
  <2>3. Faithful' => \A d \in Calls \ {c} : call[d].pc = "idle"
    <3>1. CASE Begun(c)
      BY <3>1 DEF Begun, Faithful
    <3>2. CASE k.pc # "idle"
      BY <2>2, <3>2 DEF CopyInv
    <3> QED BY <1>3, <3>1, <3>2 DEF Worked, Wrote, Left
  <2>4. SUFFICES /\ BudgetHolds'
                 /\ Faithful' => /\ n.pc # "idle" => executed' <= n.eng.used
                                 /\ n.pc \in {"idle", "gate", "feedback"} => executed' <= eng'.used
    <3>1. Faithful' => \A d \in Calls \ {c} : call'[d].pc = "idle"
      BY <1>3, <2>3
    <3> QED BY <3>1 DEF BudgetInv
  <2>5. CASE Begun(c)
    <3>1. Faithful' => \A d \in Calls : call[d].pc = "idle"
      BY <2>3, <2>5 DEF Begun
    <3>2. Faithful' => executed <= eng.used
      BY <2>2, <3>1 DEF BudgetInv
    <3> QED BY <2>5, <3>2 DEF Begun, BudgetInv, BudgetHolds
  <2>6. CASE Worked(c)
    <3>1. Faithful => executed <= k.eng.used
      BY <2>6 DEF Worked, BudgetInv
    <3>2. n.pc \notin {"idle", "gate", "feedback"}
      BY <2>6 DEF Worked
    <3>3. CASE executed' = executed
      <4>1. n.eng.used >= k.eng.used /\ n.eng.used \in Nat
        <5>1. CallInv(n)
          BY PentestInvariantStep DEF PentestInv
        <5> QED BY <2>6, <5>1 DEF Worked, CallInv, Call, Engagement
      <4> QED BY <1>1, <2>2, <3>1, <3>2, <3>3, <4>1 DEF BudgetInv, BudgetHolds
    <3>4. CASE executed' = Counted /\ BudgetLeft(k.eng) /\ n.eng.used >= k.eng.used + 1
      <4>1. CallInv(n)
        BY PentestInvariantStep DEF PentestInv
      <4>2. n.eng.used \in Nat
        BY <4>1 DEF CallInv, Call, Engagement
      <4>3. Faithful => executed' = executed + 1 /\ executed' <= n.eng.used
        BY <1>1, <3>1, <3>4, <4>2 DEF Counted
      <4>4. BudgetHolds'
        BY <1>1, <3>1, <3>4 DEF Counted, BudgetLeft, BudgetInv, BudgetHolds
      <4> QED BY <2>2, <3>2, <4>3, <4>4
    <3> QED BY <2>6, <3>3, <3>4 DEF Worked
  <2>7. CASE Wrote(c)
    <3>1. k.pc # "idle" /\ (Faithful' => Stored(c)) /\ executed' = executed
      BY <2>7 DEF Wrote, Faithful
    <3>2. Faithful => executed <= k.eng.used
      BY <3>1 DEF BudgetInv
    <3> QED BY <2>2, <2>7, <3>1, <3>2 DEF Wrote, Stored, BudgetInv, BudgetHolds
  <2>8. CASE Left(c)
    <3>1. Faithful' => \A d \in Calls : call[d].pc \in {"idle", "gate", "feedback"}
      BY <2>3, <2>8 DEF Left
    <3>2. Faithful' => executed <= eng.used
      BY <2>2, <3>1 DEF BudgetInv
    <3> QED BY <2>8, <3>2 DEF Left, Idle, BudgetInv, BudgetHolds
  <2> QED BY <1>3, <2>5, <2>6, <2>7, <2>8
<1> QED BY <1>2, <1>3, StepKinds

(* MaxRequests caps what one engagement sends over all its runs, retests,  *)
(* schedules and probes, while no operations overlap and no put is lost:   *)
(* an attempt is counted in a copy before the copy is put, so the count a  *)
(* later operation starts from is never behind.                            *)
THEOREM BudgetIsACap == Spec => []BudgetHolds
<1>1. Init => BudgetInv
  BY PentestAssumption DEF Init, BudgetInv, BudgetHolds, Idle, NoEngagement
<1>2. PentestInv /\ CopyInv /\ FreshInv /\ BudgetInv /\ [Next]_vars => BudgetInv'
  BY BudgetInvStep
<1>3. BudgetInv => BudgetHolds
  BY DEF BudgetInv
<1> QED BY <1>1, <1>2, <1>3, PentestInvariant, CopyInvariant, FreshInvariant, PTL DEF Spec
=============================================================================
