--------------------------- MODULE MonitoringPass ---------------------------
(***************************************************************************)
(* internal/runner, RescanTenant: one monitoring pass over a tenant.  The  *)
(* pass scans every asset, reads every connected surface, and then three   *)
(* consumers reason from what it did NOT find: the detector counts an      *)
(* absence towards resolving an incident, retest confirms a remediation,   *)
(* and GRC flips a control gap to met.                                     *)
(*                                                                         *)
(* An issue lives at a place (an asset or a surface) and is found by a     *)
(* producer.  The estate (live) changes at any time, also while a pass     *)
(* runs.  Whether a scan errors, a tool fails or is not dispatched, and a  *)
(* surface can be read is the environment's choice, limited by Faults.     *)
(*                                                                         *)
(* Abstracted: the severity floor and attacks (module Detector), the       *)
(* re-attack step and the distrust policy (module FixVerification), ticket *)
(* sync, incident-response proposals (they enter at Desk!Submit), evidence *)
(* snapshots and the auto-review hook.  Each issue cites a control of its  *)
(* own and has at most one remediation.                                    *)
(***************************************************************************)
EXTENDS Integers, Sequences, FiniteSets

CONSTANTS
  Assets, Surfaces,
  Order,           \* the assets in the order listed, then the surfaces
  Issues,
  Where,           \* issue -> the place it lives at
  Producers,
  ProducerOf,      \* issue -> its producer
  EventProducers,  \* detect.eventProducers
  Tools,           \* asset -> the tools its engine scan plans
  Gated,           \* tools dispatched only when an earlier tool asks for them
  TypeProducers,   \* asset -> producersForAssetType
  SurfaceProducer, \* surface -> the producer it adds to the coverage
  Unfolded,        \* surfaces whose findings are not folded into the posture
  Lenient,         \* surfaces that report a read although every fetch failed
  OneShot,         \* issues reported only by the first read that meets them
  Stamping,        \* surfaces whose sync ends by writing the tenant record back
  ResolveAfterAbsent,
  Faults,          \* which failures the environment may choose
  MaxIssues        \* bound: issues that come up in one behaviour

ASSUME PassAssumption ==
  /\ Order \in Seq(Assets \cup Surfaces)
  /\ Where \in [Issues -> Assets \cup Surfaces]
  /\ ProducerOf \in [Issues -> Producers]
  /\ Tools \in [Assets -> SUBSET Producers]
  /\ TypeProducers \in [Assets -> SUBSET Producers]
  /\ SurfaceProducer \in [Surfaces -> Producers]
  /\ Assets \cap Surfaces = {}
  /\ EventProducers \subseteq Producers
  /\ Gated \subseteq Producers
  /\ Stamping \subseteq Surfaces
  /\ {ResolveAfterAbsent, MaxIssues} \subseteq Nat \ {0}
  /\ Faults \subseteq {"halt", "conn", "scan", "tool", "fetch", "put", "store"}

VARIABLES
  live,       \* the issues the estate has now
  baseline,   \* the one-shot issues an earlier read already reported
  halted,     \* Tenant.AgentsHalted
  incident,   \* issue -> its incident
  fix,        \* issue -> its remediation and the verdict on it
  control,    \* issue -> the state of the control it cites
  pass        \* the pass in progress

vars == <<live, baseline, halted, incident, fix, control, pass>>

Incident  == [st : {"none", "open", "resolved"}, absent : 0..ResolveAfterAbsent]
FixStatus == {"none", "applied", "fixed", "still_present"}

(* tenant: the AgentsHalted a stamping sync read when it began.            *)
(* looked, seen: history.  The issues whose producer really examined their *)
(* place in this pass, and those of them that were there.                  *)
Pass == [pc : {"idle", "look", "detect", "retest", "grc"}, next : 1..(Len(Order) + 1),
         scanned : BOOLEAN, err : BOOLEAN, degraded : BOOLEAN,
         tenant : {"unread", "running", "halted"},
         cov : SUBSET Producers, found : SUBSET Issues,
         looked : SUBSET Issues, seen : SUBSET Issues]

TypeOK ==
  /\ live \subseteq Issues
  /\ baseline \subseteq OneShot
  /\ halted \in BOOLEAN
  /\ incident \in [Issues -> Incident]
  /\ fix \in [Issues -> FixStatus]
  /\ control \in [Issues -> {"unknown", "gap", "met"}]
  /\ pass \in Pass

NewPass ==
  [pc |-> "look", next |-> 1, scanned |-> FALSE, err |-> FALSE,
   degraded |-> FALSE, tenant |-> "unread", cov |-> {}, found |-> {}, looked |-> {}, seen |-> {}]

(* The process keeps nothing of a pass once it has returned.               *)
Idle == [NewPass EXCEPT !.pc = "idle"]

Init ==
  /\ live = {}
  /\ baseline = {}
  /\ halted = FALSE
  /\ incident = [i \in Issues |-> [st |-> "none", absent |-> 0]]
  /\ fix = [i \in Issues |-> "none"]
  /\ control = [i \in Issues |-> "unknown"]
  /\ pass = Idle

-----------------------------------------------------------------------------
(* The environment: the estate changes, a person applies a fix or uses the *)
(* kill-switch.  Only the first half of a pass reads the estate and no     *)
(* step before Retest an action, so what happens in the second half might  *)
(* as well happen before it or after it.                                   *)
Reading == pass.pc \in {"idle", "look"}

(* The bound: how many issues have come up.                                *)
Known == live \cup pass.seen \cup
           {i \in Issues : incident[i].st # "none" \/ fix[i] # "none" \/ control[i] # "unknown"}
Bounded(i) == i \in Known \/ Cardinality(Known) < MaxIssues

Change ==
  /\ Reading
  /\ \E i \in Issues : Bounded(i) /\ live' = IF i \in live THEN live \ {i} ELSE live \cup {i}
  /\ UNCHANGED <<baseline, halted, incident, fix, control, pass>>

(* A desk action for the issue reaches ActApplied with its finding key.    *)
ApplyFix(i) ==
  /\ Reading /\ Bounded(i) /\ fix[i] = "none"
  /\ fix' = [fix EXCEPT ![i] = "applied"]
  /\ UNCHANGED <<live, baseline, halted, incident, control, pass>>

ToggleSwitch ==
  /\ "halt" \in Faults
  /\ halted' = ~halted
  /\ UNCHANGED <<live, baseline, incident, fix, control, pass>>

-----------------------------------------------------------------------------
(* The pass begins: the switch is read once (an unreadable tenant is not   *)
(* halted), and so is the status of every connection; which assets that    *)
(* leaves out is decided here when their turn comes.  A failed listing of  *)
(* the connections blocks nothing.                                         *)
Start ==
  /\ pass.pc = "idle"
  /\ ~halted \/ "store" \in Faults
  /\ pass' = NewPass
  /\ UNCHANGED <<live, baseline, halted, incident, fix, control>>

At(place) == pass.pc = "look" /\ pass.next <= Len(Order) /\ Order[pass.next] = place

Found(place, producers) ==
  {i \in live : Where[i] = place /\ ProducerOf[i] \in producers}

(* grc.Apply: every control a finding cites becomes a gap. *)
Apply(findings) == [i \in Issues |-> IF i \in findings THEN "gap" ELSE control[i]]

(* Mutant: a skipped asset leaves the pass looking complete. *)
SkipSilently(a) ==
  /\ At(a)
  /\ "conn" \in Faults
  /\ pass' = [pass EXCEPT !.next = @ + 1]
  /\ UNCHANGED <<live, baseline, halted, incident, fix, control>>

(* An asset whose connection is known to be inactive is not scanned. *)
SkipInactive(a) ==
  /\ At(a)
  /\ "conn" \in Faults
  /\ pass' = [pass EXCEPT !.next = @ + 1, !.degraded = TRUE]
  /\ UNCHANGED <<live, baseline, halted, incident, fix, control>>

(* The scan errors, or a write fails after some findings were stored and   *)
(* folded: the asset contributes nothing to the pass.                      *)
ScanErrors(a) ==
  /\ At(a)
  /\ "scan" \in Faults
  /\ \E stored \in SUBSET Found(a, Tools[a] \cup TypeProducers[a]) :
        control' = Apply(stored)
  /\ pass' = [pass EXCEPT !.next = @ + 1, !.err = TRUE]
  /\ UNCHANGED <<live, baseline, halted, incident, fix>>

(* What an engine scan dispatched (ran) and lost (failed).  A tool that is *)
(* not gated is always one of the two.                                     *)
Outcomes(a) ==
  {o \in [ran : SUBSET Tools[a], failed : SUBSET Tools[a]] :
     /\ o.ran \cap o.failed = {}
     /\ Tools[a] \ Gated \subseteq o.ran \cup o.failed
     /\ "tool" \notin Faults => o.failed = {} /\ o.ran = Tools[a]}

(* Mutant: the producer of a workspace asset is not added. *)
ObservedEngineOnly(a, o) == o.ran

(* The producers a completed scan of the asset adds to the coverage. *)
Observed(a, o) == o.ran \cup TypeProducers[a]

ScanCompletes(a) ==
  /\ At(a)
  /\ \E o \in Outcomes(a) :
        LET seen == Found(a, o.ran \cup TypeProducers[a]) IN
        /\ pass' = [pass EXCEPT
              !.next = @ + 1, !.scanned = TRUE,
              !.degraded = @ \/ o.failed # {},
              !.cov = @ \cup Observed(a, o),
              !.found = @ \cup seen,
              !.looked = @ \cup {i \in Issues : Where[i] = a
                                  /\ ProducerOf[i] \in o.ran \cup TypeProducers[a]},
              !.seen = @ \cup seen]
        /\ control' = Apply(seen)
  /\ UNCHANGED <<live, baseline, halted, incident, fix>>

(* Mutant: a surface that was not read is covered all the same. *)
CoverageOfAlways(s, read) == {SurfaceProducer[s]}

(* The producer a sync reports as observed ("ran"). *)
CoverageOf(s, read) == IF read \/ s \in Lenient THEN {SurfaceProducer[s]} ELSE {}

(* A stamping sync (devices, identity and cloud logs) begins: it reads the *)
(* tenant record, and the network comes after.                             *)
ReadTenant(s) ==
  /\ At(s)
  /\ s \in Stamping /\ pass.tenant = "unread"
  /\ pass' = [pass EXCEPT !.tenant = IF halted THEN "halted" ELSE "running"]
  /\ UNCHANGED <<live, baseline, halted, incident, fix, control>>

(* One surface sync (syncSaaSPosture, syncOktaPosture, syncOSINT, ...).    *)
(* A finding whose PutFinding failed is dropped from the pass; a failed    *)
(* read adds no finding; a gap that cannot be folded is only logged.  A    *)
(* stamping sync puts the whole tenant record it read back into the store. *)
Sync(s) ==
  /\ At(s)
  /\ s \in Stamping => pass.tenant # "unread"
  /\ \E read \in (IF "fetch" \in Faults THEN BOOLEAN ELSE {TRUE}) :
        LET there == IF read THEN {i \in live : Where[i] = s} ELSE {} IN
        \E found \in (IF "put" \in Faults THEN SUBSET (there \ baseline)
                                          ELSE {there \ baseline}) :
          /\ pass' = [pass EXCEPT
                !.next = @ + 1, !.tenant = "unread",
                !.cov = @ \cup CoverageOf(s, read),
                !.found = @ \cup found,
                !.looked = IF read THEN @ \cup {i \in Issues : Where[i] = s} ELSE @,
                !.seen = @ \cup there]
          /\ baseline' = IF read THEN {i \in baseline : Where[i] # s} \cup (there \cap OneShot)
                                  ELSE baseline
          /\ halted' = IF read /\ s \in Stamping THEN pass.tenant = "halted" ELSE halted
          /\ \E folded \in (IF "store" \in Faults THEN SUBSET found ELSE {found}) :
                control' = IF s \in Unfolded THEN control ELSE Apply(folded)
  /\ UNCHANGED <<live, incident, fix>>

Looked ==
  /\ pass.pc = "look"
  /\ pass.next > Len(Order)
  /\ pass' = [pass EXCEPT !.pc = "detect"]
  /\ UNCHANGED <<live, baseline, halted, incident, fix, control>>

-----------------------------------------------------------------------------
(* Which of a consumer's writes fail. *)
Lost(writes) == IF "store" \in Faults THEN SUBSET writes ELSE {{}}

(* Mutant: an asset that errored does not stop the conclusions. *)
ConclusiveDespiteErrors == pass.scanned

(* The gate before the detector and retest. *)
Conclusive == ~pass.err /\ pass.scanned

(* detect.ReconcileScoped, or OpenFor on a degraded pass, for one issue.   *)
Reconciled(i) ==
  LET inc == incident[i] IN
  CASE i \in pass.found /\ inc.st # "open" -> [st |-> "open", absent |-> 0]
    [] pass.degraded \/ inc.st # "open"
         \/ ProducerOf[i] \in EventProducers
         \/ ProducerOf[i] \notin pass.cov -> inc
    [] OTHER ->
         IF i \in pass.found THEN [inc EXCEPT !.absent = 0]
         ELSE IF inc.absent + 1 < ResolveAfterAbsent THEN [inc EXCEPT !.absent = @ + 1]
         ELSE [st |-> "resolved", absent |-> ResolveAfterAbsent]

(* The incidents it writes.                                                *)
Writes == {i \in Issues : Reconciled(i) # incident[i]}

(* Openings come before the sweep, and the first failed write ends both.   *)
(* An incident list that cannot be read (~listed) ends them before.        *)
Opens(i) == i \in pass.found /\ incident[i].st # "open"
InOrder(lost) == (\E i \in lost : Opens(i)) => \A j \in Writes \ lost : Opens(j)

Detect ==
  /\ pass.pc = "detect"
  /\ IF Conclusive
     THEN \E lost \in Lost(Writes), listed \in IF "store" \in Faults THEN BOOLEAN ELSE {TRUE} :
            /\ InOrder(lost) /\ (~listed => lost = Writes)
            /\ incident' = [i \in Issues |-> IF i \in lost THEN incident[i] ELSE Reconciled(i)]
            /\ pass' = [pass EXCEPT !.pc = "retest", !.err = ~listed \/ lost # {}]
     ELSE incident' = incident /\ pass' = [pass EXCEPT !.pc = "grc"]
  /\ UNCHANGED <<live, baseline, halted, fix, control>>

(* retest.VerifyWithPolicy for one remediation; skipped when degraded.     *)
Verified(i) ==
  IF pass.degraded \/ fix[i] \notin {"applied", "still_present"}
       \/ ProducerOf[i] \notin pass.cov
  THEN fix[i]
  ELSE IF i \in pass.found THEN "still_present" ELSE "fixed"

(* A failed write is the pass's error; a failed listing of the actions is  *)
(* not, and judges nothing.                                                *)
Retest ==
  /\ pass.pc = "retest"
  /\ \/ \E lost \in Lost({i \in Issues : Verified(i) # fix[i]}) :
          /\ fix' = [i \in Issues |-> IF i \in lost THEN fix[i] ELSE Verified(i)]
          /\ pass' = [pass EXCEPT !.pc = "grc", !.err = @ \/ lost # {}]
     \/ "store" \in Faults /\ fix' = fix /\ pass' = [pass EXCEPT !.pc = "grc"]
  /\ UNCHANGED <<live, baseline, halted, incident, control>>

(* Mutant: a gap is cleared on an errored or degraded pass too. *)
RegradedAlways(i) ==
  IF control[i] = "gap" /\ i \notin pass.found THEN "met" ELSE control[i]

(* grc.Reconcile, or RefreshEvidence when degraded or errored, for one     *)
(* control.  Coverage is not consulted.                                    *)
Regraded(i) ==
  IF control[i] = "gap" /\ i \notin pass.found /\ ~pass.degraded /\ ~pass.err
  THEN "met" ELSE control[i]

Grc ==
  /\ pass.pc = "grc"
  /\ \E lost \in Lost({i \in Issues : Regraded(i) # control[i]}) :
        control' = IF pass.scanned
                   THEN [i \in Issues |-> IF i \in lost THEN control[i] ELSE Regraded(i)]
                   ELSE control
  /\ pass' = Idle
  /\ UNCHANGED <<live, baseline, halted, incident, fix>>

Look ==
  \/ \E a \in Assets : SkipInactive(a) \/ ScanErrors(a) \/ ScanCompletes(a)
  \/ \E s \in Surfaces : ReadTenant(s) \/ Sync(s)
  \/ Looked

PassStep == Start \/ Look \/ Detect \/ Retest \/ Grc

Next ==
  \/ Change
  \/ \E i \in Issues : ApplyFix(i)
  \/ ToggleSwitch
  \/ PassStep

Spec == Init /\ [][Next]_vars

(* The scheduler starts passes forever and a pass runs to its end.         *)
FairSpec == Spec /\ WF_vars(PassStep)

-----------------------------------------------------------------------------
(* An issue this pass looked for and that was not there; one it saw and    *)
(* whose finding did not reach the store.                                  *)
Absent(i) == i \in pass.looked /\ i \notin pass.seen
Dropped(i) == i \in pass.seen /\ i \notin pass.found

(* Coverage is a set of producers, not of places.  It speaks of i's place  *)
(* when i's producer is a tool every scan of that asset runs, or works     *)
(* nowhere else and never reports a read it did not do.                    *)
Places(p) == {a \in Assets : p \in Tools[a] \cup TypeProducers[a]}
               \cup {s \in Surfaces : SurfaceProducer[s] = p}
Always(i) == Where[i] \in Assets /\ ProducerOf[i] \notin Gated
Covers(i) == Always(i) \/ (Places(ProducerOf[i]) = {Where[i]} /\ Where[i] \notin Lenient)

(* Where coverage speaks of the place, an absence is counted towards       *)
(* resolving an incident, and a remediation is confirmed as fixed, only    *)
(* for an issue whose producer examined its place in this pass and that    *)
(* was not there: never because an asset was skipped, a scan errored, a    *)
(* tool died or was not dispatched, or a surface was not read              *)
(* (RescanTenant's degraded flag, firstErr gate and coverage).  A surface  *)
(* finding that PutFinding lost still passes for an absence                *)
(* (SeenIsNotFixed), and so does an unread surface whose producer another  *)
(* one reported (UnreadNeverResolves).                                     *)
AbsenceIsReal ==
  [][\A i \in Issues :
       Covers(i) /\ (\/ incident'[i].absent > incident[i].absent
                     \/ fix'[i] = "fixed" /\ fix[i] # "fixed")
       => Absent(i) \/ Dropped(i)]_vars

(* The same promise for the surfaces: "a fetch failure ... is logged and   *)
(* skipped, never failing the pass or falsely resolving" (RescanTenant).   *)
UnreadNeverResolves ==
  [][\A i \in Issues :
       incident'[i].st = "resolved" /\ incident[i].st = "open" => i \in pass.looked]_vars

(* A dropped finding "is not a loss: the next pass re-derives it"          *)
(* (syncSaaSPosture): an issue the pass saw is not confirmed as fixed.     *)
SeenIsNotFixed ==
  [][\A i \in Issues : fix'[i] = "fixed" /\ fix[i] # "fixed" => i \notin pass.seen]_vars

(* A resolved incident means the vulnerability is gone, not that the read  *)
(* had nothing new to say ("An EVENT is not a condition", detect.go).      *)
ResolvedIsGone ==
  [][\A i \in Issues :
       incident'[i].st = "resolved" /\ incident[i].st = "open" => i \notin pass.seen]_vars

(* grc.Reconcile does not consult the coverage, so what keeps a gap from   *)
(* turning to met is the degraded flag and the pass's error alone.  They   *)
(* are enough for an issue of a tool that every scan of its asset runs: a  *)
(* gap of such an issue turns to met only when the issue was looked for    *)
(* and not there, whatever was skipped, failed, or could not be stored.    *)
ClearedIsReal ==
  [][\A i \in Issues : Always(i) /\ control'[i] = "met" /\ control[i] = "gap" => Absent(i)]_vars

(* "On a pass that cannot speak for the whole estate we refresh evidence   *)
(* and clear nothing" (RescanTenant), asked of every issue: the control of *)
(* a surface that was not read, or of a tool that was not dispatched,      *)
(* turns to met all the same.                                              *)
ClearedWasLookedFor ==
  [][\A i \in Issues : control'[i] = "met" /\ control[i] = "gap" => i \in pass.looked]_vars

(* The control of every issue the pass reported is a gap, from the moment  *)
(* it is found until the pass ends (processFinding, foldPosture and        *)
(* reconcile agree).                                                       *)
FoundIsGap == \A i \in pass.found : control[i] = "gap"

(* A halted tenant gets no new agent activity: no asset scan ends while    *)
(* the kill-switch has been engaged (RescanTenant, "nothing new runs until *)
(* they disengage").                                                       *)
NothingRunsWhileHalted ==
  [][halted => pass'.next <= pass.next]_vars

(* No step of a pass releases the kill-switch: "A halt someone else can    *)
(* quietly undo is not a halt" (handleKillSwitch).                         *)
HaltIsNotUndone ==
  [][halted /\ ~halted' => UNCHANGED pass]_vars

(* An issue that is gone for good does not keep an incident open, nor an   *)
(* applied fix waiting for its verdict: no producer is left out of the     *)
(* coverage for ever (producersForAssetType).                              *)
GoneIsConcluded ==
  \A i \in Issues :
    <>[](i \notin live /\ ~halted) =>
      <>[](incident[i].st # "open" /\ fix[i] \in {"none", "fixed"})
=============================================================================
