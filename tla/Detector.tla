------------------------------ MODULE Detector ------------------------------
(***************************************************************************)
(* internal/detect: findings become incidents.  Reconcile and OpenFor read *)
(* the tenant's incidents once and then write whole records back one by    *)
(* one; EscalateOverdue and the two API handlers a person uses             *)
(* (acknowledge, resolve) do the same on other goroutines.  No lock spans  *)
(* a read and its writes, so every call is split at each PutIncident.      *)
(*                                                                         *)
(* An issue is its key (rule|endpoint).  ProducerOf gives the tool behind  *)
(* it, Severe the keys whose finding is at or above the severity floor.    *)
(* What a read reports, and whether a maintenance window is open, is the   *)
(* environment's choice.                                                   *)
(*                                                                         *)
(* Abstracted: titles, owners, skill annotations, ledger entries and the   *)
(* pages sent when an incident opens, none of which is read back.  A       *)
(* crash in the middle of a call leaves what a PutIncident error leaves.   *)
(***************************************************************************)
EXTENDS Integers, FiniteSets

CONSTANTS Calls,           \* goroutines inside the detector or a handler
          IssueKeys,       \* issue identities
          Severe,          \* the keys at or above the severity floor
          Producers,       \* tools a finding can come from
          EventProducers,  \* the tools that report events, not conditions
          NoProducer,      \* a rule id without a producer prefix
          ProducerOf,      \* key -> its tool or NoProducer
          IncIds,          \* incident ids; bounds the incidents ever opened
          ResolveAfterAbsent,
          Ops,             \* the calls the environment makes
          StoreFaults      \* TRUE: a PutIncident can fail

ASSUME DetectorAssumption ==
  /\ IssueKeys # {} /\ Severe \subseteq IssueKeys
  /\ EventProducers \subseteq Producers
  /\ NoProducer \notin Producers
  /\ ProducerOf \in [IssueKeys -> Producers \cup {NoProducer}]
  /\ ResolveAfterAbsent \in Nat \ {0}
  /\ Ops \subseteq {"reconcile", "openfor", "pentest", "escalate", "ack", "resolve"}
  /\ StoreFaults \in BOOLEAN

VARIABLES
  incidents,  \* the store: id -> incident ("none": no such incident)
  stored,     \* the finding store: every key reported so far
  call,       \* the call each goroutine is in
  misses,     \* history: passes that covered the incident's issue and missed it
  streak,     \* history: the same, since such a pass last reported it
  unseen,     \* history: the same, since ANY read last reported it
  gone,       \* history: the keys the last authoritative read missed
  acks,       \* history: incidents whose acknowledgement was accepted
  nagged      \* history: incidents escalated by a call that began after that

vars == <<incidents, stored, call, misses, streak, unseen, gone, acks, nagged>>

(* absent: AbsentPasses.  recent: opened or last escalated less than an    *)
(* acknowledgement window ago.                                             *)
Incident == [status : {"none", "open", "resolved"}, key : IssueKeys,
             absent : 0..ResolveAfterAbsent, acked : BOOLEAN,
             by : {"nobody", "scan", "person"}, recent : BOOLEAN]

Unopened == [status |-> "none", key |-> CHOOSE k \in IssueKeys : TRUE, absent |-> 0,
             acked |-> FALSE, by |-> "nobody", recent |-> FALSE]

(* A call: its operation, the findings it was given, the copies it listed, *)
(* the issues it has still to open and the incidents it has still to write.*)
Call == [op : Ops \cup {"idle"}, findings : SUBSET IssueKeys, present : SUBSET IssueKeys,
         snap : [IncIds -> Incident], toOpen : SUBSET IssueKeys, todo : SUBSET IncIds]

NoSnap   == [i \in IncIds |-> Unopened]
IdleCall == [op |-> "idle", findings |-> {}, present |-> {}, snap |-> NoSnap,
             toOpen |-> {}, todo |-> {}]

Counter == [IncIds -> 0..ResolveAfterAbsent]

TypeOK ==
  /\ incidents \in [IncIds -> Incident]
  /\ stored \subseteq IssueKeys
  /\ call \in [Calls -> Call]
  /\ misses \in Counter /\ streak \in Counter /\ unseen \in Counter
  /\ gone \subseteq IssueKeys
  /\ acks \subseteq IncIds
  /\ nagged \subseteq IncIds

Init ==
  /\ incidents = NoSnap
  /\ stored = {}
  /\ call = [p \in Calls |-> IdleCall]
  /\ misses = [i \in IncIds |-> 0]
  /\ streak = [i \in IncIds |-> 0]
  /\ unseen = [i \in IncIds |-> 0]
  /\ gone = {}
  /\ acks = {}
  /\ nagged = {}

-----------------------------------------------------------------------------
(* Definitions of detect.go and coverage.go.                               *)

(* Mutant: an event producer's incident is like any other. *)
IsEventNever(k) == FALSE

(* IsEventProducer(ProducerOf(rule)) *)
IsEvent(k) == ProducerOf[k] \in EventProducers

(* Mutant: a rule id that names no producer counts as covered. *)
CoversAnything(cov, k) == TRUE

(* Coverage.Covers: a set of producers never covers a rule id that names   *)
(* none; only AllProducers does.                                           *)
AllProducers == Producers \cup {NoProducer}
Covers(cov, k) == ProducerOf[k] \in cov

(* presentIssues *)
Present(findings, attacked) == {k \in findings : k \in Severe \/ k \in attacked}

(* Mutant: resolved incidents are indexed with the open ones. *)
OpenAny(incs) == {i \in IncIds : incs[i].status # "none"}

Open(incs)     == {i \in IncIds : incs[i].status = "open"}
OpenKeys(incs) == {incs[i].key : i \in Open(incs)}

(* openIncidentsByKey: of several open incidents with one key the map      *)
(* keeps one, and which depends on the order of the listing.               *)
ByKey(incs) ==
  {T \in SUBSET Open(incs) :
     /\ {incs[i].key : i \in T} = OpenKeys(incs)
     /\ \A i, j \in T : incs[i].key = incs[j].key => i = j}

(* Mutant: what is already open is not looked at. *)
NewIssuesAll(present, incs) == present

(* The issues openNew opens. *)
NewIssues(present, incs) == present \ OpenKeys(incs)

(* Mutant: an incident whose issue reappeared keeps its absence count. *)
SweptNoReset(inc, present) ==
  IF inc.key \in present THEN inc
  ELSE IF inc.absent + 1 < ResolveAfterAbsent THEN [inc EXCEPT !.absent = @ + 1]
  ELSE [inc EXCEPT !.absent = ResolveAfterAbsent, !.status = "resolved", !.by = "scan"]

(* What the resolve sweep makes of a listed incident it may judge. *)
Swept(inc, present) ==
  IF inc.key \in present THEN [inc EXCEPT !.absent = 0]
  ELSE IF inc.absent + 1 < ResolveAfterAbsent THEN [inc EXCEPT !.absent = @ + 1]
  ELSE [inc EXCEPT !.absent = ResolveAfterAbsent, !.status = "resolved", !.by = "scan"]

(* The listed incidents the sweep writes: conditions only, covered ones    *)
(* only, and a present issue only to end its absence streak.               *)
ToSweep(incs, T, cov, present) ==
  {i \in T : /\ ~IsEvent(incs[i].key)
             /\ Covers(cov, incs[i].key)
             /\ incs[i].key \in present => incs[i].absent # 0}

(* Incident.Overdue *)
Overdue(inc) == inc.status = "open" /\ ~inc.acked /\ ~inc.recent

-----------------------------------------------------------------------------
(* Store and bookkeeping.                                                  *)

PutIncident(i, inc) == incidents' = [incidents EXCEPT ![i] = inc]
PutErr == StoreFaults /\ UNCHANGED incidents

Return(p) == call' = [call EXCEPT ![p] = IdleCall]

(* A call returns once nothing is left to open or write. *)
Proceed(p, c) == call' = [call EXCEPT ![p] = IF c.toOpen = {} /\ c.todo = {} THEN IdleCall ELSE c]

Bump(n) == IF n < ResolveAfterAbsent THEN n + 1 ELSE n

(* Histories of an authoritative read: which open incidents it missed. *)
Observe(present, findings, cov) ==
  LET judged == {i \in Open(incidents) : ProducerOf[incidents[i].key] \in cov}
      missed == {i \in judged : incidents[i].key \notin present}
  IN  /\ misses' = [i \in IncIds |-> IF i \in missed THEN Bump(misses[i]) ELSE misses[i]]
      /\ streak' = [i \in IncIds |-> IF i \in missed THEN Bump(streak[i])
                                     ELSE IF i \in judged THEN 0 ELSE streak[i]]
      /\ unseen' = [i \in IncIds |-> IF incidents[i].status = "open" /\ incidents[i].key \in findings THEN 0
                                     ELSE IF i \in missed THEN Bump(unseen[i]) ELSE unseen[i]]

(* ListIncidents, then openNew's work list: nothing in a maintenance       *)
(* window, otherwise every present issue without an open incident.         *)
Begin(p, op, findings, present, sweep) ==
  \E maintenance \in BOOLEAN :
    LET toOpen == IF maintenance THEN {} ELSE NewIssues(present, incidents)
    IN  Proceed(p, [op |-> op, findings |-> findings, present |-> present,
                    snap |-> [i \in IncIds |-> IF i \in sweep THEN incidents[i] ELSE Unopened],
                    toOpen |-> toOpen, todo |-> sweep])

-----------------------------------------------------------------------------
(* The detector's entry points: input and listing.                         *)

(* ReconcileScoped, as the monitoring pass calls it: cov is what the pass  *)
(* ran, and a finding comes from a tool that ran, from an event log, or    *)
(* has no producer.                                                        *)
Reconcile(p) ==
  /\ call[p].op = "idle"
  /\ "reconcile" \in Ops
  /\ \E cov \in SUBSET Producers :
     \E findings \in SUBSET {k \in IssueKeys : ProducerOf[k] \in cov \cup EventProducers \cup {NoProducer}} :
     \E attacked \in SUBSET findings :
       LET present == Present(findings, attacked)
       IN  /\ \E T \in ByKey(incidents) :
                Begin(p, "reconcile", findings, present, ToSweep(incidents, T, cov, present))
           /\ stored' = stored \cup findings
           /\ Observe(present, findings, cov)
           /\ gone' = (gone \cup {k \in IssueKeys : ~IsEvent(k) /\ ProducerOf[k] \in cov}) \ findings
  /\ UNCHANGED <<incidents, acks, nagged>>

(* OpenFor: event polls, ingests and a DEGRADED monitoring pass.  Open     *)
(* only; nothing it lists is written back.                                 *)
OpenFor(p) ==
  /\ call[p].op = "idle"
  /\ "openfor" \in Ops
  /\ \E findings \in SUBSET IssueKeys : \E attacked \in SUBSET findings :
       /\ Begin(p, "openfor", findings, Present(findings, attacked), {})
       /\ stored' = stored \cup findings
       /\ unseen' = [i \in IncIds |-> IF incidents[i].status = "open" /\ incidents[i].key \in findings
                                      THEN 0 ELSE unseen[i]]
       /\ gone' = gone \ findings
  /\ UNCHANGED <<incidents, misses, streak, acks, nagged>>

(* Reconcile after a pentest: the whole finding store, no runtime signal,  *)
(* AllProducers.                                                           *)
ReconcileStore(p) ==
  /\ call[p].op = "idle"
  /\ "pentest" \in Ops
  /\ LET present == Present(stored, {})
     IN  /\ \E T \in ByKey(incidents) :
              Begin(p, "pentest", stored, present, ToSweep(incidents, T, AllProducers, present))
         /\ Observe(present, stored, AllProducers)
  /\ UNCHANGED <<incidents, stored, gone, acks, nagged>>

(* One turn of openNew's loop, in any map order; a store error ends the    *)
(* call, the resolve sweep included.                                       *)
OpenNew(p) ==
  \E k \in call[p].toOpen, i \in IncIds :
    /\ incidents[i].status = "none"      \* bound: an id is left
    /\ \/ /\ PutIncident(i, [Unopened EXCEPT !.status = "open", !.key = k, !.recent = TRUE])
          /\ Proceed(p, [call[p] EXCEPT !.toOpen = @ \ {k}])
       \/ PutErr /\ Return(p)
    /\ UNCHANGED <<stored, misses, streak, unseen, gone, acks, nagged>>

(* One turn of the resolve sweep, from the copy listed at the start. *)
Sweep(p) ==
  /\ call[p].op \in {"reconcile", "pentest"}
  /\ call[p].toOpen = {}
  /\ \E i \in call[p].todo :
       \/ /\ PutIncident(i, Swept(call[p].snap[i], call[p].present))
          /\ Proceed(p, [call[p] EXCEPT !.todo = @ \ {i}, !.snap[i] = Unopened])
       \/ PutErr /\ Return(p)
  /\ UNCHANGED <<stored, misses, streak, unseen, gone, acks, nagged>>

-----------------------------------------------------------------------------
(* EscalateOverdue and the person's handlers.                              *)

EscalateOverdue(p) ==
  /\ call[p].op = "idle"
  /\ "escalate" \in Ops
  /\ LET due == {i \in IncIds : Overdue(incidents[i])}
     IN  /\ due # {}
         /\ nagged' = nagged \cup (due \cap acks)
         /\ call' = [call EXCEPT ![p] = [IdleCall EXCEPT !.op = "escalate", !.todo = due,
              !.snap = [i \in IncIds |-> IF i \in due THEN incidents[i] ELSE Unopened]]]
  /\ UNCHANGED <<incidents, stored, misses, streak, unseen, gone, acks>>

(* Page one overdue incident: a page that fails is not stamped, one that   *)
(* lands is; a store error ends the call.                                  *)
Page(p) ==
  /\ call[p].op = "escalate"
  /\ \E i \in call[p].todo :
       LET rest == [call[p] EXCEPT !.todo = @ \ {i}, !.snap[i] = Unopened]
       IN  \/ PutIncident(i, [call[p].snap[i] EXCEPT !.recent = TRUE]) /\ Proceed(p, rest)
           \/ PutErr /\ Return(p)
           \/ UNCHANGED incidents /\ Proceed(p, rest)
  /\ UNCHANGED <<stored, misses, streak, unseen, gone, acks, nagged>>

NotAcked(inc)    == ~inc.acked
NotResolved(inc) == inc.status # "resolved"

(* handleAckIncident and handleResolveIncident up to the write: list, find *)
(* the incident, answer without writing when there is nothing to do.       *)
PersonRead(p, op, wanted) ==
  /\ call[p].op = "idle"
  /\ op \in Ops
  /\ \E i \in IncIds :
       /\ incidents[i].status # "none"
       /\ i \in wanted
       /\ call' = [call EXCEPT ![p] = [IdleCall EXCEPT !.op = op, !.todo = {i},
                                                       !.snap[i] = incidents[i]]]
  /\ UNCHANGED <<incidents, stored, misses, streak, unseen, gone, acks, nagged>>

AckRead(p)     == PersonRead(p, "ack", {i \in IncIds : NotAcked(incidents[i])})
ResolveRead(p) == PersonRead(p, "resolve", {i \in IncIds : NotResolved(incidents[i])})

AckWrite(p) ==
  /\ call[p].op = "ack"
  /\ \E i \in call[p].todo :
       \/ PutIncident(i, [call[p].snap[i] EXCEPT !.acked = TRUE]) /\ acks' = acks \cup {i}
       \/ PutErr /\ UNCHANGED acks
  /\ Return(p)
  /\ UNCHANGED <<stored, misses, streak, unseen, gone, nagged>>

(* Closing it also acknowledges it. *)
ResolveWrite(p) ==
  /\ call[p].op = "resolve"
  /\ \E i \in call[p].todo :
       \/ /\ PutIncident(i, [call[p].snap[i] EXCEPT !.status = "resolved", !.by = "person", !.acked = TRUE])
          /\ acks' = acks \cup {i}
       \/ PutErr /\ UNCHANGED acks
  /\ Return(p)
  /\ UNCHANGED <<stored, misses, streak, unseen, gone, nagged>>

(* An acknowledgement window passes, for stored records and copies alike. *)
WindowElapses ==
  /\ \E i \in IncIds : incidents[i].recent
  /\ incidents' = [i \in IncIds |-> [incidents[i] EXCEPT !.recent = FALSE]]
  /\ call' = [p \in Calls |-> [call[p] EXCEPT !.snap =
                [i \in IncIds |-> [call[p].snap[i] EXCEPT !.recent = FALSE]]]]
  /\ UNCHANGED <<stored, misses, streak, unseen, gone, acks, nagged>>

Step(p) == \/ Reconcile(p) \/ OpenFor(p) \/ ReconcileStore(p) \/ OpenNew(p) \/ Sweep(p)
           \/ EscalateOverdue(p) \/ Page(p)
           \/ AckRead(p) \/ AckWrite(p) \/ ResolveRead(p) \/ ResolveWrite(p)

Next == (\E p \in Calls : Step(p)) \/ WindowElapses

Spec == Init /\ [][Next]_vars

-----------------------------------------------------------------------------
(* Properties.                                                             *)

ByScan(i) == incidents[i].status = "resolved" /\ incidents[i].by = "scan"

(* An event is not a condition: whatever the passes see and however their  *)
(* writes interleave, only a person closes an event's incident.            *)
EventsNeedAPerson ==
  \A i \in IncIds : ProducerOf[incidents[i].key] \in EventProducers => incidents[i].by # "scan"

(* Hysteresis under any interleaving and any store error: a scan-closed    *)
(* incident was missed by at least ResolveAfterAbsent passes that covered  *)
(* its producer.  Lost updates can only make it stay open longer.          *)
EnoughMisses == \A i \in IncIds : ByScan(i) => misses[i] >= ResolveAfterAbsent

(* Calls one after another, no store error: the misses were consecutive,   *)
(* no covering pass reported the issue in between.                         *)
ConsecutiveMisses == \A i \in IncIds : ByScan(i) => streak[i] >= ResolveAfterAbsent

(* Calls one after another: at most one open incident per issue.           *)
OneOpenPerKey ==
  \A i, j \in Open(incidents) : incidents[i].key = incidents[j].key => i = j

(* Calls one after another, store errors included: no escalation begins    *)
(* for an incident whose acknowledgement (or close) was accepted.          *)
AckStopsEscalation == nagged = {}

(* Calls one after another: what a person closed stays closed, and stays   *)
(* the person's; the issue coming back is a new incident.                  *)
PersonCloseSticks ==
  [][\A i \in IncIds : incidents[i].by = "person" => incidents'[i].by = "person"
                                                     /\ incidents'[i].status = "resolved"]_vars

-----------------------------------------------------------------------------
(* Statements of the repository that the code does not keep.               *)

(* "An acknowledged incident is excluded from timed auto-escalation ... so *)
(* the loop stops": a pass that listed the incident before writes its      *)
(* stale copy after, and the acknowledgement is gone.                      *)
AckIsKept == AckStopsEscalation

(* "Reset to 0 the moment it reappears": a degraded pass that reports the  *)
(* issue goes through OpenFor, which leaves the streak alone.              *)
ReappearanceResets == \A i \in IncIds : ByScan(i) => unseen[i] >= ResolveAfterAbsent

(* "an open incident whose issue is absent from the current findings ->    *)
(* resolve it": the sweep compares with the issues that would OPEN an      *)
(* incident, so one opened under attack closes while still reported.       *)
ClosedWasAbsent ==
  [][\A i \in IncIds : ~ByScan(i) /\ ByScan(i)' =>
       \E p \in Calls : i \in call[p].todo /\ incidents[i].key \notin call[p].findings]_vars

(* "the caller passes the freshly-scanned set, not the lingering finding   *)
(* store": after a pentest it is the finding store, and an issue the last  *)
(* scan saw gone opens again.                                              *)
NoGhostIncident ==
  [][\A i \in IncIds : incidents[i].status = "none" /\ incidents'[i].status = "open"
       => incidents'[i].key \notin gone]_vars
=============================================================================
