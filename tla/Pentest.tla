------------------------------ MODULE Pentest ------------------------------
(***************************************************************************)
(* internal/pentest and the pentest handlers of internal/platformapi: one  *)
(* engagement, authorized once and then run, re-run on a schedule, probed  *)
(* by a person, re-tested, signed and re-scheduled.  Every operation reads *)
(* the stored engagement, works on its own copy, for minutes when it runs  *)
(* a driver, and puts the whole record back.  No lock spans the two.       *)
(*                                                                         *)
(* A lead is a finding of the tenant.  Drivers propose the listed leads    *)
(* one by one, the Rules of Engagement allow or deny each, and the runner  *)
(* counts the allowed ones against MaxRequests.  The hunt is the discovery *)
(* agent, one gated attempt that may add leads.                            *)
(*                                                                         *)
(* Environment: the kill-switch and the proof of ownership change at any   *)
(* time, time passes, and the store accesses named by Faults may fail.     *)
(*                                                                         *)
(* Abstracted: names and timestamps, the attempt trail, the evidence       *)
(* cassette, the verdict texts of a re-test, and what a run hands on to    *)
(* other components (Detector!Reconcile, Desk!Submit, the posture fold).   *)
(* A lead reported twice is recorded once.                                 *)
(***************************************************************************)
EXTENDS Integers, FiniteSets

CONSTANTS
  Calls,        \* request goroutines and monitoring passes
  Leads,
  InScope,      \* leads matchesScope admits
  Rules,        \* rules of engagement that can be asked for
  MaxRequests,  \* RoE.MaxRequests, 0 for no cap
  StallLimit,   \* blockedStallLimit
  MaxOps,       \* bound on the operations of a behaviour
  Wired,        \* what the deployment has: "prober", "llm", "deep"
  Faults        \* store accesses that can fail

RulesOfEngagement == [mode : {"passive", "active", "deep"}, consent : BOOLEAN,
                      production : BOOLEAN, env : {"production", "staging"}]

ASSUME PentestAssumption ==
  /\ InScope \subseteq Leads
  /\ Rules \subseteq RulesOfEngagement
  /\ MaxRequests \in Nat /\ MaxOps \in Nat
  /\ StallLimit \in Nat \ {0}
  /\ Wired \subseteq {"prober", "llm", "deep"}
  /\ Faults \subseteq {"tenant", "assets", "findings", "put"}

VARIABLES
  eng,         \* the stored engagement
  known,       \* the finding store: leads it holds
  proved,      \* the finding store: leads marked verified
  halted,      \* Tenant.AgentsHalted
  owned,       \* the targets in scope are ownership-verified
  call,        \* the operation each goroutine is in
  mishaps,     \* history: what has gone wrong so far
  executed,    \* history: attempts fired while no overlap and no lost put
  ops          \* operations begun

vars == <<eng, known, proved, halted, owned, call, mishaps, executed, ops>>

Statuses == {"none", "authorized", "running", "reporting", "complete", "retesting", "halted"}
Runnable == {"authorized", "complete"}

(* sched: the schedule is off, its next run lies ahead, or it is due.      *)
Engagement == [status : Statuses, roe : RulesOfEngagement,
               used : Nat, findings : SUBSET Leads, proven : SUBSET Leads,
               signed : BOOLEAN, sched : {"off", "ahead", "due"}]

(* todo: what the driver has still to propose.  sure: the leads that were  *)
(* verified when the findings were listed.  active: the driver exploits.   *)
(* live: history, the leads this operation sent probes at.  cleared:       *)
(* history, ownership was proven when the gate asked.                      *)
Call == [op : {"none", "run", "sched", "probe", "retest", "sign", "cadence"},
         pc : {"idle", "gate", "hunt", "loop", "put", "feedback"},
         eng : Engagement, todo : SUBSET Leads, sure : SUBSET Leads, active : BOOLEAN,
         blocked : 0..StallLimit, live : SUBSET Leads, cleared : BOOLEAN]

NoRules == [mode |-> "passive", consent |-> FALSE, production |-> FALSE, env |-> "production"]

NoEngagement == [status |-> "none", roe |-> NoRules, used |-> 0, findings |-> {}, proven |-> {},
                 signed |-> FALSE, sched |-> "off"]

Idle == [op |-> "none", pc |-> "idle", eng |-> NoEngagement, todo |-> {}, sure |-> {},
         active |-> FALSE, blocked |-> 0, live |-> {}, cleared |-> FALSE]

TypeOK ==
  /\ eng \in Engagement
  /\ known \subseteq Leads /\ proved \subseteq known
  /\ halted \in BOOLEAN /\ owned \in BOOLEAN
  /\ mishaps \subseteq {"overlap", "put", "list"}
  /\ call \in [Calls -> Call]
  /\ executed \in Nat /\ ops \in 0..MaxOps

Init ==
  /\ eng = NoEngagement
  /\ known = {} /\ proved = {}
  /\ halted = FALSE /\ owned \in BOOLEAN
  /\ call = [c \in Calls |-> Idle]
  /\ mishaps = {} /\ executed = 0 /\ ops = 0

-----------------------------------------------------------------------------
(* The rules of engagement.                                                *)

RequiresConsent(m) == m \in {"active", "deep"}

(* A target with no environment set counts as production.                  *)
CheckEnvironment(roe) == roe.env = "production" => roe.production /\ roe.consent

(* Mutant: the cap is exclusive. *)
BudgetLeftOneMore(e) == MaxRequests = 0 \/ e.used <= MaxRequests

BudgetLeft(e) == MaxRequests = 0 \/ e.used < MaxRequests

(* Mutant: the blast-radius gate is not consulted. *)
CheckConsentOnly(e, inScope, active) ==
  inScope /\ BudgetLeft(e) /\ (active => e.roe.consent)

(* RulesOfEngagement.Check; the destructive ban is left out, no driver in  *)
(* the repository proposes a destructive action.                           *)
Check(e, inScope, active) ==
  /\ inScope
  /\ BudgetLeft(e)
  /\ active => CheckEnvironment(e.roe) /\ e.roe.consent

(* The outcomes of one access to the store.                                *)
Ok(access) == IF access \in Faults THEN BOOLEAN ELSE {TRUE}

(* The kill-switch is read through the store; an error reads as running.   *)
MaySeeRunning == \E ok \in Ok("tenant") : ~(ok /\ halted)

-----------------------------------------------------------------------------
(* Creating and authorizing: draft, deep entitlement, Authorize, put.      *)

Authorize(roe) == RequiresConsent(roe.mode) => roe.consent

Create(roe) ==
  /\ eng.status = "none"
  /\ roe.mode = "deep" => "deep" \in Wired
  /\ Authorize(roe)
  /\ eng' = [NoEngagement EXCEPT !.status = "authorized", !.roe = roe]
  /\ UNCHANGED <<known, proved, halted, owned, call, mishaps, executed, ops>>

(* Every other operation begins by reading the record.                     *)
Enter(c, op, pc, e) ==
  /\ call[c].pc = "idle"
  /\ eng.status # "none"
  /\ ops < MaxOps /\ ops' = ops + 1
  /\ call' = [call EXCEPT ![c] = [Idle EXCEPT !.op = op, !.pc = pc, !.eng = e]]
  /\ mishaps' = mishaps \cup {m \in {"overlap"} : \E d \in Calls \ {c} : call[d].pc # "idle"}
  /\ UNCHANGED <<eng, known, proved, halted, owned, executed>>

Return(c) == call' = [call EXCEPT ![c] = Idle]

(* The record that survives is the sum of what happened only while no two  *)
(* operations overlap and no put is lost.                                  *)
Faithful == mishaps \cap {"overlap", "put"} = {}
Counted  == IF Faithful THEN executed + 1 ELSE executed

-----------------------------------------------------------------------------
(* handleRunPentest                                                        *)

(* Mutant: any engagement can be run. *)
RunReadAnyStatus(c) == Enter(c, "run", "gate", eng)

RunRead(c) == eng.status \in Runnable /\ Enter(c, "run", "gate", eng)

(* Retest: a complete engagement re-runs as a retest.                      *)
Reopened(e) == IF e.status = "complete" THEN [e EXCEPT !.status = "retesting"] ELSE e

Listed(c, e, pc, active) ==
  call' = [call EXCEPT ![c].pc = pc, ![c].eng = e, ![c].todo = known, ![c].sure = proved,
                       ![c].active = active, ![c].cleared = owned /\ RequiresConsent(e.roe.mode)]

(* The kill-switch, the ownership gate, which fails closed, then the list  *)
(* of findings and the choice of driver.                                   *)
RunGate(c) ==
  LET e == call[c].eng
      consenting == RequiresConsent(e.roe.mode)
  IN  /\ call[c].op = "run" /\ call[c].pc = "gate"
      /\ \/ /\ MaySeeRunning
            /\ consenting => owned
            /\ Listed(c, Reopened(e), IF consenting THEN "hunt" ELSE "loop",
                      consenting /\ e.roe.consent /\ "prober" \in Wired)
         \/ /\ \/ halted
               \/ consenting /\ (~owned \/ "assets" \in Faults)
               \/ "findings" \in Faults
            /\ Return(c)
      /\ UNCHANGED <<eng, known, proved, halted, owned, mishaps, executed, ops>>

(* runWebDiscovery: the hunt runs on a copy of the engagement, and the     *)
(* copy's count of requests, which began at the engagement's own, is added *)
(* to it.                                                                  *)
Merged(e, huntUsed) == [e EXCEPT !.used = @ + huntUsed]

HuntAllowed(e) == Check(e, TRUE, TRUE)

HuntFires(c) ==
  LET e == call[c].eng
  IN  /\ call[c].pc = "hunt" /\ "llm" \in Wired
      /\ MaySeeRunning /\ HuntAllowed(e)
      /\ \E found \in SUBSET InScope : \E verified \in SUBSET found :
           /\ known' = known \cup found
           /\ proved' = proved \cup verified
           /\ call' = [call EXCEPT ![c].pc = "loop", ![c].eng = Merged(e, e.used + 1),
                                   ![c].live = @ \cup InScope,
                                   ![c].todo = IF found = {} THEN @ ELSE known',
                                   ![c].sure = IF found = {} THEN @ ELSE proved']
      /\ executed' = Counted
      /\ UNCHANGED <<eng, halted, owned, mishaps, ops>>

(* No model is configured, the switch stopped the hunt, or the rules of    *)
(* engagement refused it.                                                  *)
HuntRefused(c) ==
  LET e == call[c].eng
  IN  /\ call[c].pc = "hunt"
      /\ \/ /\ "llm" \notin Wired
            /\ call' = [call EXCEPT ![c].pc = "loop"]
         \/ /\ "llm" \in Wired
            /\ halted \/ ~HuntAllowed(e)
            /\ call' = [call EXCEPT ![c].pc = "loop", ![c].eng = Merged(e, e.used)]
      /\ UNCHANGED <<eng, known, proved, halted, owned, mishaps, executed, ops>>

(* pentest.Run, shared by the handler and the scheduler: the switch, the   *)
(* budget, the driver, the check.                                          *)
LoopHalted(c) ==
  /\ call[c].pc = "loop" /\ halted
  /\ call' = [call EXCEPT ![c].pc = "put", ![c].eng.status = "halted"]
  /\ UNCHANGED <<eng, known, proved, halted, owned, mishaps, executed, ops>>

(* Mutant: the handler forgets Complete. *)
FinishedReporting(e) == [e EXCEPT !.status = "reporting"]

(* Reporting, and at once Complete: nothing else sees the state between.   *)
Finished(e) == [e EXCEPT !.status = "complete"]

LoopDone(c) ==
  /\ call[c].pc = "loop" /\ MaySeeRunning
  /\ ~BudgetLeft(call[c].eng) \/ call[c].todo = {}
  /\ call' = [call EXCEPT ![c].pc = "put", ![c].eng = Finished(@)]
  /\ UNCHANGED <<eng, known, proved, halted, owned, mishaps, executed, ops>>

(* Mutant: a denial breaks out of the loop. *)
DeniedBreaks(c, l) ==
  call' = [call EXCEPT ![c].todo = @ \ {l}, ![c].blocked = @ + 1, ![c].pc = "put",
                       ![c].eng = Finished(@)]

Denied(c, l) ==
  LET stalled == call[c].blocked + 1 >= StallLimit
  IN  call' = [call EXCEPT ![c].todo = @ \ {l}, ![c].blocked = @ + 1,
                           ![c].pc  = IF stalled THEN "put" ELSE @,
                           ![c].eng = IF stalled THEN Finished(@) ELSE @]

LoopDenied(c, l) ==
  /\ call[c].pc = "loop" /\ MaySeeRunning
  /\ BudgetLeft(call[c].eng) /\ l \in call[c].todo
  /\ ~Check(call[c].eng, l \in InScope, call[c].active)
  /\ Denied(c, l)
  /\ UNCHANGED <<eng, known, proved, halted, owned, mishaps, executed, ops>>

(* Both drivers report the lead; the passive one as it was listed, the     *)
(* active one proven if the demonstration's predicate held.                *)
Fired(c, l, holds) ==
  [call[c] EXCEPT !.todo = @ \ {l}, !.blocked = 0, !.eng.used = @ + 1,
                  !.eng.findings = @ \cup {l},
                  !.eng.proven = IF l \in call[c].sure \/ (call[c].active /\ holds)
                                 THEN @ \cup {l} ELSE @,
                  !.live = IF call[c].active THEN @ \cup {l} ELSE @]

LoopFires(c, l) ==
  /\ call[c].pc = "loop" /\ MaySeeRunning
  /\ BudgetLeft(call[c].eng) /\ l \in call[c].todo
  /\ Check(call[c].eng, l \in InScope, call[c].active)
  /\ \E holds \in BOOLEAN : call' = [call EXCEPT ![c] = Fired(c, l, holds)]
  /\ executed' = Counted
  /\ UNCHANGED <<eng, known, proved, halted, owned, mishaps, ops>>

(* PutPentest, of the whole record; a failed put ends the request.         *)
Store(e) == eng' = e /\ UNCHANGED mishaps

StoreFails == "put" \in Faults /\ mishaps' = mishaps \cup {"put"} /\ UNCHANGED eng

RunPut(c) ==
  /\ call[c].op = "run" /\ call[c].pc = "put"
  /\ \/ /\ Store(call[c].eng)
        /\ call' = [call EXCEPT ![c] = [Idle EXCEPT !.op = "run", !.pc = "feedback",
                                                    !.eng = call[c].eng]]
     \/ StoreFails /\ Return(c)
  /\ UNCHANGED <<known, proved, halted, owned, executed, ops>>

(* applyPentestProof: best effort over the findings the store now holds.   *)
Feedback(c) ==
  LET crossing == call[c].eng.proven \cap known
  IN  /\ call[c].op = "run" /\ call[c].pc = "feedback"
      /\ \/ proved' = proved \cup crossing
         \/ Faults \cap {"findings", "put"} # {} /\ UNCHANGED proved
      /\ Return(c)
      /\ UNCHANGED <<eng, known, halted, owned, mishaps, executed, ops>>

-----------------------------------------------------------------------------
(* The other writers of the record.                                        *)

(* RunDuePentests and runScheduledPassive.  The deferred put runs on every *)
(* path out of it, the failed list of findings included, and its error is  *)
(* dropped.                                                                *)
SchedRead(c) ==
  /\ MaySeeRunning
  /\ eng.sched = "due" /\ eng.status \in Runnable
  /\ Enter(c, "sched", "gate", eng)

SchedList(c) ==
  /\ call[c].op = "sched" /\ call[c].pc = "gate"
  /\ LET e == Reopened(call[c].eng)
     IN  \/ Listed(c, e, "loop", FALSE) /\ UNCHANGED mishaps
         \/ /\ "findings" \in Faults
            /\ call' = [call EXCEPT ![c].pc = "put", ![c].eng = e]
            /\ mishaps' = mishaps \cup {"list"}
  /\ UNCHANGED <<eng, known, proved, halted, owned, executed, ops>>

Advanced(e) == [e EXCEPT !.sched = IF @ = "off" THEN "off" ELSE "ahead"]

SchedPut(c) ==
  /\ call[c].op = "sched" /\ call[c].pc = "put"
  /\ Store(Advanced(call[c].eng)) \/ StoreFails
  /\ Return(c)
  /\ UNCHANGED <<known, proved, halted, owned, executed, ops>>

(* handlePentestProbe: a person's probe passes the same gates.             *)
ProbeRead(c) == Enter(c, "probe", "gate", eng)

ProbeMayRun(e) == RequiresConsent(e.roe.mode) /\ e.roe.consent /\ "prober" \in Wired

Probed(e, l, holds) == [e EXCEPT !.used = @ + 1, !.findings = IF holds THEN @ \cup {l} ELSE @,
                                 !.proven = IF holds THEN @ \cup {l} ELSE @]

ProbeFires(c, l) ==
  LET e == call[c].eng
  IN  /\ call[c].op = "probe" /\ call[c].pc = "gate"
      /\ MaySeeRunning /\ owned /\ ProbeMayRun(e)
      /\ Check(e, l \in InScope, TRUE)
      /\ \E holds \in BOOLEAN :
           call' = [call EXCEPT ![c].pc = "put", ![c].live = {l}, ![c].cleared = owned,
                                ![c].eng = Probed(@, l, holds)]
      /\ executed' = Counted
      /\ UNCHANGED <<eng, known, proved, halted, owned, mishaps, ops>>

(* A probe the rules refuse, or whose specification is invalid, is put too *)
(* for its attempt record; a probe an earlier gate refuses is not.         *)
ProbeRefused(c) ==
  LET e == call[c].eng
      gated == halted \/ ~owned \/ "assets" \in Faults \/ ~ProbeMayRun(e)
  IN  /\ call[c].op = "probe" /\ call[c].pc = "gate"
      /\ \/ gated /\ Return(c)
         \/ /\ MaySeeRunning /\ owned /\ ProbeMayRun(e)
            /\ call' = [call EXCEPT ![c].pc = "put"]
      /\ UNCHANGED <<eng, known, proved, halted, owned, mishaps, executed, ops>>

(* handleRetestPentest: nothing proven is a no-op; otherwise the exploits  *)
(* of the owned, still stored findings are sent again, outside the rules   *)
(* of engagement, if the plan includes it and the store answers.           *)
RetestRead(c) == eng.proven # {} /\ Enter(c, "retest", "gate", eng)

RetestFires(c) ==
  /\ call[c].op = "retest" /\ call[c].pc = "gate"
  /\ \E resent \in {{}, call[c].eng.proven \cap known} :
       /\ resent # {} => owned /\ "prober" \in Wired
       /\ call' = [call EXCEPT ![c].pc = "put", ![c].cleared = owned /\ resent # {}, ![c].live = resent]
  /\ UNCHANGED <<eng, known, proved, halted, owned, mishaps, executed, ops>>

(* applyPentestSignoff and handleSetPentestSchedule                        *)
Sign(c) == Enter(c, "sign", "put", [eng EXCEPT !.signed = TRUE])

SetCadence(c) == \E s \in {"off", "ahead"} : Enter(c, "cadence", "put", [eng EXCEPT !.sched = s])

Put(c) ==
  /\ call[c].op \in {"probe", "retest", "sign", "cadence"} /\ call[c].pc = "put"
  /\ Store(call[c].eng) \/ StoreFails
  /\ Return(c)
  /\ UNCHANGED <<known, proved, halted, owned, executed, ops>>

-----------------------------------------------------------------------------
(* The environment.                                                        *)

FlipSwitch ==
  /\ halted' = ~halted
  /\ UNCHANGED <<eng, known, proved, owned, call, mishaps, executed, ops>>

OwnershipChanges ==
  /\ owned' = ~owned
  /\ UNCHANGED <<eng, known, proved, halted, call, mishaps, executed, ops>>

(* A monitoring pass stores a finding.                                     *)
ScanFinds(l) ==
  /\ l \notin known /\ known' = known \cup {l}
  /\ UNCHANGED <<eng, proved, halted, owned, call, mishaps, executed, ops>>

Later(e) == [e EXCEPT !.sched = IF @ = "ahead" THEN "due" ELSE @]

TimePasses ==
  /\ eng.sched = "ahead"
  /\ eng' = Later(eng)
  /\ call' = [c \in Calls |-> [call[c] EXCEPT !.eng = Later(@)]]
  /\ UNCHANGED <<known, proved, halted, owned, mishaps, executed, ops>>

RunSteps(c) ==
  \/ RunGate(c) \/ HuntFires(c) \/ HuntRefused(c)
  \/ LoopHalted(c) \/ LoopDone(c)
  \/ \E l \in Leads : LoopDenied(c, l) \/ LoopFires(c, l)
  \/ RunPut(c) \/ Feedback(c)
  \/ SchedList(c) \/ SchedPut(c)

Steps(c) ==
  \/ RunSteps(c)
  \/ \E l \in Leads : ProbeFires(c, l)
  \/ ProbeRefused(c)
  \/ RetestFires(c) \/ Put(c)

Reads(c) ==
  \/ RunRead(c) \/ SchedRead(c) \/ ProbeRead(c)
  \/ RetestRead(c) \/ Sign(c) \/ SetCadence(c)

Next ==
  \/ \E roe \in Rules : Create(roe)
  \/ \E c \in Calls : Reads(c) \/ Steps(c)
  \/ FlipSwitch \/ OwnershipChanges \/ TimePasses
  \/ \E l \in Leads : ScanFinds(l)

Spec == Init /\ [][Next]_vars

-----------------------------------------------------------------------------
(* Properties.                                                             *)

(* Live traffic stays inside what a person agreed to, however operations   *)
(* overlap: the scheduler never sends any, ownership had been proven when  *)
(* the gate asked, and except for a re-test the engagement is of an active *)
(* mode with consent, the environment is cleared and the lead in scope.    *)
LiveWithinRules ==
  \A c \in Calls :
    call[c].live # {} =>
      /\ call[c].op \in {"run", "probe", "retest"} /\ call[c].cleared
      /\ call[c].op # "retest" =>
           /\ RequiresConsent(call[c].eng.roe.mode) /\ call[c].eng.roe.consent
           /\ call[c].eng.roe.env = "production" => call[c].eng.roe.production
           /\ call[c].live \subseteq InScope

(* RoE.MaxRequests caps the attempts of the whole engagement, over every   *)
(* run, retest, schedule and human probe, as long as operations do not     *)
(* overlap and no put is lost.                                             *)
BudgetHolds == MaxRequests > 0 => executed <= MaxRequests

(* An engagement is never stored half-way: unless a scheduled run failed   *)
(* to list the findings, the stored status is one from which a person or   *)
(* the scheduler can go on, or the halt.                                   *)
StoredAtRest == "list" \notin mishaps => eng.status \in Runnable \cup {"none", "halted"}

(* A run that ends complete with requests to spare has tried every lead it *)
(* listed, unless it gave up on StallLimit denials in a row.               *)
CompleteTriedAll ==
  \A c \in Calls :
    /\ call[c].op \in {"run", "sched"} /\ call[c].pc = "put"
    /\ call[c].eng.status = "complete" /\ BudgetLeft(call[c].eng)
    => call[c].todo = {} \/ call[c].blocked = StallLimit

(* A named person's sign-off is not dropped by a later operation, as long  *)
(* as operations do not overlap.                                           *)
SignoffSticks == [][eng.signed /\ "overlap" \notin mishaps' => eng'.signed]_vars

(* The kill-switch is final for the engagement it stopped, as long as      *)
(* operations do not overlap: it is not run, scheduled or probed back to   *)
(* life when the switch is released.                                       *)
HaltIsFinal ==
  [][eng.status = "halted" /\ "overlap" \notin mishaps' => eng'.status = "halted"]_vars

(* runner.go: a denied action never fires and never costs budget.  The     *)
(* stored count of requests is the number of attempts that fired.          *)
UsedIsExecuted ==
  Faithful /\ (\A c \in Calls : call[c].pc = "idle") => eng.used = executed

(* An exploit the engagement holds as proven is proven in the finding      *)
(* store once the operation that proved it has returned.                   *)
ProofReachesStore ==
  mishaps = {} /\ (\A c \in Calls : call[c].pc = "idle") => eng.proven \cap known \subseteq proved

(* What a person signed is what the report still says.                     *)
SignedReportStays == [][eng.signed /\ eng'.signed => eng'.findings = eng.findings]_vars

(* A driver that advances is run to its end while requests are left.       *)
AdvancingDriverRuns ==
  \A c \in Calls :
    /\ call[c].op \in {"run", "sched"} /\ call[c].pc = "put"
    /\ call[c].eng.status = "complete" /\ BudgetLeft(call[c].eng)
    => call[c].todo = {}

(* A stored engagement can always go on, or was halted.                    *)
NeverStuck == eng.status \in Runnable \cup {"none", "halted"}

=============================================================================
