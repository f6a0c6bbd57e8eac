--------------------------- MODULE DetectorProofs ---------------------------
(***************************************************************************)
(* Theorems about the detector, for any number of concurrent calls,        *)
(* issues and incidents, any threshold and any store error.  EnoughMisses  *)
(* is about the store, but what reaches the store is a copy taken earlier: *)
(* IInv bounds the absence count of every listed copy as well, and says    *)
(* that a copy about to be counted as absent was really missed once more.  *)
(***************************************************************************)
EXTENDS Detector, TLAPS

Sweeping == {"reconcile", "pentest"}

(* A record whose issue was missed m times. *)
RecOK(inc, m) ==
  /\ inc.absent <= m
  /\ inc.by = "scan" => m >= ResolveAfterAbsent /\ ~IsEvent(inc.key)

(* A call's listed copies, given how often each issue was missed. *)
SnapOK(c, ms) ==
  \A i \in c.todo :
    /\ RecOK(c.snap[i], ms[i])
    /\ c.op \in Sweeping =>
         /\ ~IsEvent(c.snap[i].key)
         /\ c.snap[i].key \notin c.present =>
              c.snap[i].absent < ms[i] \/ ms[i] >= ResolveAfterAbsent

StoreOK == \A i \in IncIds : RecOK(incidents[i], misses[i])
CallsOK == \A p \in Calls : SnapOK(call[p], misses)

IInv == TypeOK /\ StoreOK /\ CallsOK

Grows == \A i \in IncIds : misses[i] <= misses'[i]

-----------------------------------------------------------------------------
LEMMA UnopenedType == Unopened \in Incident /\ Unopened.absent = 0 /\ Unopened.by = "nobody"
<1>1. (CHOOSE k \in IssueKeys : TRUE) \in IssueKeys
  BY DetectorAssumption
<1> QED
  BY <1>1, DetectorAssumption DEF Unopened, Incident

LEMMA IdleType == IdleCall \in Call /\ IdleCall.todo = {}
BY UnopenedType DEF IdleCall, Call, NoSnap

LEMMA Facts ==
  ASSUME IInv
  PROVE  /\ incidents \in [IncIds -> Incident] /\ call \in [Calls -> Call]
         /\ misses \in [IncIds -> 0..ResolveAfterAbsent] /\ ResolveAfterAbsent \in Nat \ {0}
         /\ \A p \in Calls : call[p] \in Call /\ SnapOK(call[p], misses)
         /\ \A i \in IncIds : incidents[i] \in Incident /\ RecOK(incidents[i], misses[i])
BY DetectorAssumption DEF IInv, TypeOK, Counter, StoreOK, CallsOK

(* More misses never hurt a record or a copy. *)
LEMMA RecMono ==
  ASSUME NEW inc \in Incident, NEW m \in 0..ResolveAfterAbsent, NEW n \in 0..ResolveAfterAbsent,
         m <= n, RecOK(inc, m)
  PROVE  RecOK(inc, n)
BY DetectorAssumption DEF RecOK, Incident

LEMMA SnapMono ==
  ASSUME NEW c \in Call, NEW ms \in Counter, NEW ns \in Counter,
         \A i \in IncIds : ms[i] <= ns[i], SnapOK(c, ms)
  PROVE  SnapOK(c, ns)
<1> SUFFICES ASSUME NEW i \in c.todo
             PROVE  /\ RecOK(c.snap[i], ns[i])
                    /\ c.op \in Sweeping =>
                         /\ ~IsEvent(c.snap[i].key)
                         /\ c.snap[i].key \notin c.present =>
                              c.snap[i].absent < ns[i] \/ ns[i] >= ResolveAfterAbsent
  BY DEF SnapOK
<1>1. /\ i \in IncIds /\ c.snap[i] \in Incident /\ c.snap[i].absent \in 0..ResolveAfterAbsent
      /\ ms[i] \in 0..ResolveAfterAbsent /\ ns[i] \in 0..ResolveAfterAbsent /\ ms[i] <= ns[i]
  BY DEF Call, Counter, Incident
<1>2. /\ RecOK(c.snap[i], ms[i])
      /\ c.op \in Sweeping =>
           /\ ~IsEvent(c.snap[i].key)
           /\ c.snap[i].key \notin c.present =>
                c.snap[i].absent < ms[i] \/ ms[i] >= ResolveAfterAbsent
  BY DEF SnapOK
<1>3. RecOK(c.snap[i], ns[i])
  BY <1>1, <1>2, RecMono
<1> QED BY <1>1, <1>2, <1>3, DetectorAssumption

(* A step of one call that leaves it with good copies. *)
LEMMA OneCall ==
  ASSUME IInv, NEW p \in Calls, NEW c \in Call, SnapOK(c, misses'),
         misses' \in Counter, Grows, call' = [call EXCEPT ![p] = c]
  PROVE  call' \in [Calls -> Call] /\ CallsOK'
<1>1. call' \in [Calls -> Call]
  BY Facts
<1>2. ASSUME NEW q \in Calls PROVE SnapOK(call'[q], misses')
  <2>1. CASE q = p
    BY <2>1, Facts
  <2>2. CASE q # p
    <3>1. call'[q] = call[q] /\ call[q] \in Call /\ SnapOK(call[q], misses) /\ misses \in Counter
      BY <2>2, Facts DEF IInv, TypeOK
    <3> QED BY <3>1, SnapMono DEF Grows
  <2> QED BY <2>1, <2>2
<1> QED BY <1>1, <1>2 DEF CallsOK

LEMMA ProceedOK ==
  ASSUME IInv, NEW p \in Calls, NEW c \in Call, SnapOK(c, misses'),
         misses' \in Counter, Grows, Proceed(p, c)
  PROVE  call' \in [Calls -> Call] /\ CallsOK'
<1>1. CASE c.toOpen = {} /\ c.todo = {}
  <2>1. call' = [call EXCEPT ![p] = IdleCall]
    BY <1>1 DEF Proceed
  <2>2. SnapOK(IdleCall, misses')
    BY IdleType DEF SnapOK
  <2> QED BY <2>1, <2>2, IdleType, OneCall
<1>2. CASE ~(c.toOpen = {} /\ c.todo = {})
  <2>1. call' = [call EXCEPT ![p] = c]
    BY <1>2 DEF Proceed
  <2> QED BY <2>1, OneCall
<1> QED BY <1>1, <1>2

LEMMA ReturnOK ==
  ASSUME IInv, NEW p \in Calls, misses' = misses, Return(p)
  PROVE  call' \in [Calls -> Call] /\ CallsOK'
<1>1. SnapOK(IdleCall, misses')
  BY IdleType DEF SnapOK
<1>2. misses' \in Counter /\ Grows
  BY Facts DEF IInv, TypeOK, Grows
<1> QED BY <1>1, <1>2, IdleType, OneCall DEF Return

(* A write of one good record, or a failed one. *)
LEMMA WriteOK ==
  ASSUME IInv, NEW i \in IncIds, NEW inc \in Incident, RecOK(inc, misses[i]),
         misses' = misses, PutIncident(i, inc) \/ PutErr \/ UNCHANGED incidents
  PROVE  incidents' \in [IncIds -> Incident] /\ StoreOK'
<1>1. incidents' = [incidents EXCEPT ![i] = inc] \/ incidents' = incidents
  BY DEF PutIncident, PutErr
<1>2. incidents' \in [IncIds -> Incident]
  BY <1>1, Facts
<1>3. ASSUME NEW j \in IncIds PROVE RecOK(incidents'[j], misses'[j])
  <2>1. incidents'[j] = incidents[j] \/ (j = i /\ incidents'[j] = inc)
    BY <1>1, Facts
  <2> QED BY <2>1, Facts
<1> QED BY <1>2, <1>3 DEF StoreOK

(* The copy a call has left after it wrote incident i. *)
LEMMA RestOK ==
  ASSUME NEW c \in Call, NEW ms, SnapOK(c, ms), NEW i \in IncIds
  PROVE  LET d == [c EXCEPT !.todo = @ \ {i}, !.snap[i] = Unopened]
         IN  d \in Call /\ SnapOK(d, ms)
<1> DEFINE d == [c EXCEPT !.todo = @ \ {i}, !.snap[i] = Unopened]
<1>1. d \in Call
  BY UnopenedType DEF Call
<1>2. /\ d.todo = c.todo \ {i} /\ d.op = c.op /\ d.present = c.present
      /\ \A j \in c.todo \ {i} : d.snap[j] = c.snap[j]
  BY DEF Call
<1> HIDE DEF d
<1>3. SnapOK(d, ms)
  BY <1>2 DEF SnapOK
<1> QED BY <1>1, <1>3 DEF d

-----------------------------------------------------------------------------
(* An authoritative read counts at most one miss per open incident it      *)
(* covers and does not report.                                             *)
LEMMA ObserveOK ==
  ASSUME IInv, NEW present, NEW findings, NEW cov, Observe(present, findings, cov)
  PROVE  /\ misses' \in Counter /\ streak' \in Counter /\ unseen' \in Counter
         /\ Grows
         /\ \A i \in Open(incidents) :
              /\ ProducerOf[incidents[i].key] \in cov
              /\ incidents[i].key \notin present
              => misses'[i] > misses[i] \/ misses'[i] >= ResolveAfterAbsent
<1>1. /\ misses \in [IncIds -> 0..ResolveAfterAbsent] /\ streak \in [IncIds -> 0..ResolveAfterAbsent]
      /\ unseen \in [IncIds -> 0..ResolveAfterAbsent] /\ ResolveAfterAbsent \in Nat \ {0}
  BY DetectorAssumption DEF IInv, TypeOK, Counter
<1>2. \A n \in 0..ResolveAfterAbsent :
         Bump(n) \in 0..ResolveAfterAbsent /\ Bump(n) >= n /\ (Bump(n) > n \/ Bump(n) >= ResolveAfterAbsent)
  BY <1>1 DEF Bump
<1>3. misses' \in Counter /\ Grows
  BY <1>1, <1>2 DEF Observe, Counter, Grows
<1>4. streak' \in Counter
  BY <1>1, <1>2 DEF Observe, Counter
<1>5. unseen' \in Counter
  BY <1>1, <1>2 DEF Observe, Counter
<1>6. ASSUME NEW i \in Open(incidents), ProducerOf[incidents[i].key] \in cov,
             incidents[i].key \notin present
      PROVE  misses'[i] > misses[i] \/ misses'[i] >= ResolveAfterAbsent
  <2>1. i \in IncIds /\ misses'[i] = Bump(misses[i])
    BY <1>6 DEF Observe, Open
  <2> QED BY <1>1, <1>2, <2>1
<1> QED BY <1>3, <1>4, <1>5, <1>6

(* The call a read leaves behind.  sweep holds listed open incidents; each *)
(* is a condition and was missed once more unless it is present.           *)
LEMMA BeginOK ==
  ASSUME IInv, NEW p \in Calls, NEW op \in Ops, NEW findings \in SUBSET IssueKeys,
         NEW present \in SUBSET IssueKeys, NEW sweep \in SUBSET IncIds,
         misses' \in Counter, Grows,
         \A i \in sweep :
           /\ ~IsEvent(incidents[i].key)
           /\ incidents[i].key \notin present =>
                misses'[i] > misses[i] \/ misses'[i] >= ResolveAfterAbsent,
         Begin(p, op, findings, present, sweep)
  PROVE  call' \in [Calls -> Call] /\ CallsOK'
<1>1. PICK toOpen \in SUBSET IssueKeys :
        Proceed(p, [op |-> op, findings |-> findings, present |-> present,
                    snap |-> [i \in IncIds |-> IF i \in sweep THEN incidents[i] ELSE Unopened],
                    toOpen |-> toOpen, todo |-> sweep])
  <2>1. PICK maintenance \in BOOLEAN :
          Proceed(p, [op |-> op, findings |-> findings, present |-> present,
                      snap |-> [i \in IncIds |-> IF i \in sweep THEN incidents[i] ELSE Unopened],
                      toOpen |-> IF maintenance THEN {} ELSE NewIssues(present, incidents),
                      todo |-> sweep])
    BY Zenon DEF Begin
  <2>2. (IF maintenance THEN {} ELSE NewIssues(present, incidents)) \in SUBSET IssueKeys
    BY DEF NewIssues
  <2> QED BY <2>1, <2>2, Zenon
<1> DEFINE c == [op |-> op, findings |-> findings, present |-> present,
                 snap |-> [i \in IncIds |-> IF i \in sweep THEN incidents[i] ELSE Unopened],
                 toOpen |-> toOpen, todo |-> sweep]
<1>2. c \in Call
  BY Facts, UnopenedType DEF Call
<1>3. c.todo = sweep /\ c.op = op /\ c.present = present
      /\ \A i \in sweep : c.snap[i] = incidents[i]
  OBVIOUS
<1>4. Proceed(p, c)
  BY <1>1
<1> HIDE DEF c
<1>5. ASSUME NEW i \in sweep
      PROVE  /\ RecOK(incidents[i], misses'[i])
             /\ incidents[i].key \notin present =>
                  incidents[i].absent < misses'[i] \/ misses'[i] >= ResolveAfterAbsent
  <2>1. /\ incidents[i] \in Incident /\ RecOK(incidents[i], misses[i])
        /\ misses[i] \in 0..ResolveAfterAbsent /\ misses'[i] \in 0..ResolveAfterAbsent
        /\ misses[i] <= misses'[i]
    BY Facts DEF Counter, Grows
  <2>2. RecOK(incidents[i], misses'[i])
    BY <2>1, RecMono
  <2>3. incidents[i].absent <= misses[i] /\ incidents[i].absent \in 0..ResolveAfterAbsent
    BY <2>1 DEF RecOK, Incident
  <2> QED BY <2>1, <2>2, <2>3, DetectorAssumption
<1>6. SnapOK(c, misses')
  BY <1>3, <1>5 DEF SnapOK
<1> QED BY <1>2, <1>4, <1>6, ProceedOK

(* Histories alone do not disturb the store. *)
LEMMA StoreKept ==
  ASSUME IInv, misses' \in Counter, Grows, incidents' = incidents
  PROVE  incidents' \in [IncIds -> Incident] /\ StoreOK'
<1>1. ASSUME NEW i \in IncIds PROVE RecOK(incidents'[i], misses'[i])
  BY Facts, RecMono DEF Counter, Grows
<1> QED BY <1>1, Facts DEF StoreOK

LEMMA SweepListOK ==
  ASSUME IInv, NEW cov, NEW present, NEW T \in ByKey(incidents), NEW findings,
         Observe(present, findings, cov)
  PROVE  LET sweep == ToSweep(incidents, T, cov, present)
         IN  /\ sweep \in SUBSET IncIds
             /\ \A i \in sweep :
                  /\ ~IsEvent(incidents[i].key)
                  /\ incidents[i].key \notin present =>
                       misses'[i] > misses[i] \/ misses'[i] >= ResolveAfterAbsent
BY ObserveOK DEF ToSweep, ByKey, Open, Covers

LEMMA ReadsOK ==
  ASSUME IInv, NEW p \in Calls, Reconcile(p) \/ OpenFor(p) \/ ReconcileStore(p)
  PROVE  IInv'
<1>1. CASE Reconcile(p)
  <2>1. PICK cov \in SUBSET Producers :
        \E findings \in SUBSET {k \in IssueKeys :
                                   ProducerOf[k] \in cov \cup EventProducers \cup {NoProducer}} :
        \E attacked \in SUBSET findings :
          LET present == Present(findings, attacked)
          IN  /\ \E T \in ByKey(incidents) :
                   Begin(p, "reconcile", findings, present, ToSweep(incidents, T, cov, present))
              /\ stored' = stored \cup findings
              /\ Observe(present, findings, cov)
              /\ gone' = (gone \cup {k \in IssueKeys : ~IsEvent(k) /\ ProducerOf[k] \in cov}) \ findings
    BY <1>1, Zenon DEF Reconcile
  <2> DEFINE S == {k \in IssueKeys : ProducerOf[k] \in cov \cup EventProducers \cup {NoProducer}}
  <2>2. PICK findings \in SUBSET S : \E attacked \in SUBSET findings :
          LET present == Present(findings, attacked)
          IN  /\ \E T \in ByKey(incidents) :
                   Begin(p, "reconcile", findings, present, ToSweep(incidents, T, cov, present))
              /\ stored' = stored \cup findings
              /\ Observe(present, findings, cov)
              /\ gone' = (gone \cup {k \in IssueKeys : ~IsEvent(k) /\ ProducerOf[k] \in cov}) \ findings
    BY <2>1, Zenon
  <2>a. findings \in SUBSET IssueKeys
    OBVIOUS
  <2>3. PICK present \in SUBSET IssueKeys, T \in ByKey(incidents) :
          /\ Begin(p, "reconcile", findings, present, ToSweep(incidents, T, cov, present))
          /\ Observe(present, findings, cov)
    <3>1. \A attacked : Present(findings, attacked) \in SUBSET IssueKeys
      BY <2>a DEF Present
    <3> QED BY <2>2, <3>1, Zenon
  <2>4. stored' \subseteq IssueKeys /\ gone' \subseteq IssueKeys
    <3>1. /\ stored' = stored \cup findings
          /\ gone' = (gone \cup {k \in IssueKeys : ~IsEvent(k) /\ ProducerOf[k] \in cov}) \ findings
      BY <2>2, Zenon
    <3> QED BY <3>1, <2>a DEF IInv, TypeOK
  <2>5. misses' \in Counter /\ streak' \in Counter /\ unseen' \in Counter /\ Grows
    BY <2>3, ObserveOK
  <2>6. UNCHANGED <<incidents, acks, nagged>> /\ "reconcile" \in Ops
    BY <1>1 DEF Reconcile
  <2>7. call' \in [Calls -> Call] /\ CallsOK'
    <3> DEFINE sweep == ToSweep(incidents, T, cov, present)
    <3>1. /\ sweep \in SUBSET IncIds
          /\ \A i \in sweep :
               /\ ~IsEvent(incidents[i].key)
               /\ incidents[i].key \notin present =>
                    misses'[i] > misses[i] \/ misses'[i] >= ResolveAfterAbsent
      BY <2>3, SweepListOK
    <3>2. Begin(p, "reconcile", findings, present, sweep)
      BY <2>3
    <3> HIDE DEF sweep
    <3> QED BY <2>5, <2>6, <2>a, <3>1, <3>2, BeginOK
  <2>8. incidents' \in [IncIds -> Incident] /\ StoreOK'
    BY <2>5, <2>6, StoreKept
  <2> QED BY <2>4, <2>5, <2>6, <2>7, <2>8 DEF IInv, TypeOK
<1>2. CASE OpenFor(p)
  <2>1. PICK findings \in SUBSET IssueKeys : \E attacked \in SUBSET findings :
          /\ Begin(p, "openfor", findings, Present(findings, attacked), {})
          /\ stored' = stored \cup findings
          /\ unseen' = [i \in IncIds |-> IF incidents[i].status = "open" /\ incidents[i].key \in findings
                                         THEN 0 ELSE unseen[i]]
          /\ gone' = gone \ findings
    BY <1>2, Zenon DEF OpenFor
  <2>2. UNCHANGED <<incidents, misses, streak, acks, nagged>> /\ "openfor" \in Ops
    BY <1>2 DEF OpenFor
  <2>3. stored' \subseteq IssueKeys /\ gone' \subseteq IssueKeys /\ unseen' \in Counter
    BY <2>1, DetectorAssumption DEF IInv, TypeOK, Counter
  <2>4. misses' \in Counter /\ streak' \in Counter /\ Grows
    BY <2>2, Facts DEF IInv, TypeOK, Grows
  <2>5. PICK present \in SUBSET IssueKeys : Begin(p, "openfor", findings, present, {})
    <3>1. \A attacked : Present(findings, attacked) \in SUBSET IssueKeys
      BY DEF Present
    <3> QED BY <2>1, <3>1, Zenon
  <2>6. call' \in [Calls -> Call] /\ CallsOK'
    BY <2>2, <2>4, <2>5, BeginOK
  <2>7. incidents' \in [IncIds -> Incident] /\ StoreOK'
    BY <2>2, <2>4, StoreKept
  <2> QED BY <2>2, <2>3, <2>4, <2>6, <2>7 DEF IInv, TypeOK
<1>3. CASE ReconcileStore(p)
  <2> DEFINE present == Present(stored, {})
  <2>1. PICK T \in ByKey(incidents) :
          /\ Begin(p, "pentest", stored, present, ToSweep(incidents, T, AllProducers, present))
          /\ Observe(present, stored, AllProducers)
    BY <1>3 DEF ReconcileStore
  <2>2. UNCHANGED <<incidents, stored, gone, acks, nagged>> /\ "pentest" \in Ops
    BY <1>3 DEF ReconcileStore
  <2>3. stored \in SUBSET IssueKeys /\ present \in SUBSET IssueKeys
    BY DEF Present, IInv, TypeOK
  <2> HIDE DEF present
  <2>4. misses' \in Counter /\ streak' \in Counter /\ unseen' \in Counter /\ Grows
    BY <2>1, ObserveOK
  <2>5. call' \in [Calls -> Call] /\ CallsOK'
    <3> DEFINE sweep == ToSweep(incidents, T, AllProducers, present)
    <3>1. /\ sweep \in SUBSET IncIds
          /\ \A i \in sweep :
               /\ ~IsEvent(incidents[i].key)
               /\ incidents[i].key \notin present =>
                    misses'[i] > misses[i] \/ misses'[i] >= ResolveAfterAbsent
      BY <2>1, SweepListOK
    <3>2. Begin(p, "pentest", stored, present, sweep)
      BY <2>1
    <3> HIDE DEF sweep
    <3> QED BY <2>2, <2>3, <2>4, <3>1, <3>2, BeginOK
  <2>6. incidents' \in [IncIds -> Incident] /\ StoreOK'
    BY <2>2, <2>4, StoreKept
  <2> QED BY <2>2, <2>4, <2>5, <2>6 DEF IInv, TypeOK
<1> QED BY <1>1, <1>2, <1>3

-----------------------------------------------------------------------------
(* A step that leaves the histories of passes alone. *)
Quiet == UNCHANGED <<stored, misses, streak, unseen, gone>>

LEMMA QuietOK ==
  ASSUME IInv, Quiet,
         incidents' \in [IncIds -> Incident] /\ StoreOK', call' \in [Calls -> Call] /\ CallsOK',
         acks' \subseteq IncIds /\ nagged' \subseteq IncIds
  PROVE  IInv'
BY DEF IInv, TypeOK, Quiet

(* Any change of a good record that keeps its key and its absence count    *)
(* and does not make it a scan's.                                          *)
LEMMA EditOK ==
  ASSUME NEW inc \in Incident, NEW m, RecOK(inc, m), NEW d \in Incident,
         d.key = inc.key, d.absent = inc.absent, d.by = inc.by \/ d.by = "person"
  PROVE  RecOK(d, m)
BY DEF RecOK

LEMMA SweptOK ==
  ASSUME NEW inc \in Incident, NEW present, NEW m \in 0..ResolveAfterAbsent, RecOK(inc, m),
         ~IsEvent(inc.key),
         inc.key \notin present => inc.absent < m \/ m >= ResolveAfterAbsent
  PROVE  Swept(inc, present) \in Incident /\ RecOK(Swept(inc, present), m)
<1>1. /\ inc.absent \in 0..ResolveAfterAbsent /\ inc.absent <= m /\ ResolveAfterAbsent \in Nat \ {0}
      /\ inc.by = "scan" => m >= ResolveAfterAbsent
  BY DetectorAssumption DEF RecOK, Incident
<1>2. CASE inc.key \in present
  <2>1. Swept(inc, present) = [inc EXCEPT !.absent = 0]
    BY <1>2 DEF Swept
  <2> QED BY <1>1, <2>1 DEF RecOK, Incident
<1>3. CASE inc.key \notin present /\ inc.absent + 1 < ResolveAfterAbsent
  <2>1. Swept(inc, present) = [inc EXCEPT !.absent = @ + 1]
    BY <1>3 DEF Swept
  <2> QED BY <1>1, <1>3, <2>1 DEF RecOK, Incident
<1>4. CASE inc.key \notin present /\ ~(inc.absent + 1 < ResolveAfterAbsent)
  <2>1. Swept(inc, present) =
          [inc EXCEPT !.absent = ResolveAfterAbsent, !.status = "resolved", !.by = "scan"]
    BY <1>4 DEF Swept
  <2>2. m >= ResolveAfterAbsent
    BY <1>1, <1>4
  <2> DEFINE d == [inc EXCEPT !.absent = ResolveAfterAbsent, !.status = "resolved", !.by = "scan"]
  <2>3. d \in Incident /\ d.key = inc.key /\ d.absent = ResolveAfterAbsent
    <3>1. ResolveAfterAbsent \in 0..ResolveAfterAbsent
      BY <1>1
    <3> QED BY <3>1 DEF Incident
  <2> HIDE DEF d
  <2>4. RecOK(d, m)
    BY <1>1, <2>2, <2>3 DEF RecOK
  <2> QED BY <2>1, <2>3, <2>4 DEF d
<1> QED BY <1>2, <1>3, <1>4

LEMMA OpenNewOK ==
  ASSUME IInv, NEW p \in Calls, OpenNew(p)
  PROVE  IInv'
<1>1. PICK k \in call[p].toOpen, i \in IncIds :
        /\ \/ /\ PutIncident(i, [Unopened EXCEPT !.status = "open", !.key = k, !.recent = TRUE])
              /\ Proceed(p, [call[p] EXCEPT !.toOpen = @ \ {k}])
           \/ PutErr /\ Return(p)
        /\ UNCHANGED <<stored, misses, streak, unseen, gone, acks, nagged>>
  BY Zenon DEF OpenNew
<1> DEFINE inc == [Unopened EXCEPT !.status = "open", !.key = k, !.recent = TRUE]
           c == [call[p] EXCEPT !.toOpen = @ \ {k}]
<1>2. call[p] \in Call /\ SnapOK(call[p], misses) /\ k \in IssueKeys
  BY Facts DEF Call
<1>3. inc \in Incident /\ inc.absent = 0 /\ inc.by = "nobody"
  BY <1>2, UnopenedType DEF Incident
<1>4. c \in Call /\ c.todo = call[p].todo /\ c.snap = call[p].snap /\ c.op = call[p].op
      /\ c.present = call[p].present
  BY <1>2 DEF Call
<1>5. \/ PutIncident(i, inc) /\ Proceed(p, c)
      \/ PutErr /\ Return(p)
  BY <1>1
<1> HIDE DEF inc, c
<1>6. RecOK(inc, misses[i])
  BY <1>3, Facts DEF RecOK
<1>7. misses' = misses /\ misses' \in Counter /\ Grows
  BY <1>1, Facts DEF Grows, Counter
<1>8. SnapOK(c, misses')
  BY <1>2, <1>4, <1>7 DEF SnapOK
<1>9. incidents' \in [IncIds -> Incident] /\ StoreOK'
  BY <1>3, <1>5, <1>6, <1>7, WriteOK
<1>10. call' \in [Calls -> Call] /\ CallsOK'
  <2>1. CASE Proceed(p, c)
    BY <2>1, <1>4, <1>7, <1>8, ProceedOK
  <2>2. CASE Return(p)
    BY <2>2, <1>7, ReturnOK
  <2> QED BY <1>5, <2>1, <2>2
<1>11. acks' \subseteq IncIds /\ nagged' \subseteq IncIds /\ Quiet
  BY <1>1 DEF IInv, TypeOK, Quiet
<1> QED BY <1>9, <1>10, <1>11, QuietOK

(* A turn that writes a good record for one listed incident (or fails) and *)
(* crosses it off, or ends the call.                                       *)
LEMMA TurnOK ==
  ASSUME IInv, NEW p \in Calls, NEW i \in call[p].todo, NEW inc \in Incident, RecOK(inc, misses[i]),
         PutIncident(i, inc) \/ PutErr \/ UNCHANGED incidents,
         Proceed(p, [call[p] EXCEPT !.todo = @ \ {i}, !.snap[i] = Unopened]) \/ Return(p),
         Quiet, acks' \subseteq IncIds, nagged' \subseteq IncIds
  PROVE  IInv'
<1> DEFINE c == [call[p] EXCEPT !.todo = @ \ {i}, !.snap[i] = Unopened]
<1>1. i \in IncIds /\ call[p] \in Call /\ SnapOK(call[p], misses)
  BY Facts DEF Call
<1>2. misses' = misses /\ misses' \in Counter /\ Grows
  BY Facts DEF Quiet, Grows, Counter
<1>3. c \in Call /\ SnapOK(c, misses)
  BY <1>1, RestOK
<1>4. Proceed(p, c) \/ Return(p)
  OBVIOUS
<1> HIDE DEF c
<1>5. call' \in [Calls -> Call] /\ CallsOK'
  <2>1. CASE Proceed(p, c)
    BY <2>1, <1>2, <1>3, ProceedOK
  <2>2. CASE Return(p)
    BY <2>2, <1>2, ReturnOK
  <2> QED BY <1>4, <2>1, <2>2
<1>6. incidents' \in [IncIds -> Incident] /\ StoreOK'
  BY <1>1, <1>2, WriteOK
<1> QED BY <1>5, <1>6, QuietOK

LEMMA SweepOK ==
  ASSUME IInv, NEW p \in Calls, Sweep(p)
  PROVE  IInv'
<1>1. PICK i \in call[p].todo :
        \/ /\ PutIncident(i, Swept(call[p].snap[i], call[p].present))
           /\ Proceed(p, [call[p] EXCEPT !.todo = @ \ {i}, !.snap[i] = Unopened])
        \/ PutErr /\ Return(p)
  BY Zenon DEF Sweep
<1>2. /\ call[p].op \in Sweeping /\ Quiet
      /\ acks' \subseteq IncIds /\ nagged' \subseteq IncIds
  BY DEF Sweep, Sweeping, Quiet, IInv, TypeOK
<1>3. /\ call[p] \in Call /\ SnapOK(call[p], misses) /\ i \in IncIds /\ call[p].snap[i] \in Incident
      /\ misses[i] \in 0..ResolveAfterAbsent
  BY Facts DEF Call
<1>4. /\ RecOK(call[p].snap[i], misses[i])
      /\ ~IsEvent(call[p].snap[i].key)
      /\ call[p].snap[i].key \notin call[p].present =>
           call[p].snap[i].absent < misses[i] \/ misses[i] >= ResolveAfterAbsent
  BY <1>2, <1>3 DEF SnapOK
<1>5. /\ Swept(call[p].snap[i], call[p].present) \in Incident
      /\ RecOK(Swept(call[p].snap[i], call[p].present), misses[i])
  BY <1>3, <1>4, SweptOK
<1> QED BY <1>1, <1>2, <1>5, TurnOK

LEMMA PageOK ==
  ASSUME IInv, NEW p \in Calls, Page(p)
  PROVE  IInv'
<1>1. PICK i \in call[p].todo :
        LET rest == [call[p] EXCEPT !.todo = @ \ {i}, !.snap[i] = Unopened]
        IN  \/ PutIncident(i, [call[p].snap[i] EXCEPT !.recent = TRUE]) /\ Proceed(p, rest)
            \/ PutErr /\ Return(p)
            \/ UNCHANGED incidents /\ Proceed(p, rest)
  BY Zenon DEF Page
<1> DEFINE inc == [call[p].snap[i] EXCEPT !.recent = TRUE]
<1>2. Quiet /\ acks' \subseteq IncIds /\ nagged' \subseteq IncIds
  BY DEF Page, Quiet, IInv, TypeOK
<1>3. /\ call[p] \in Call /\ SnapOK(call[p], misses) /\ i \in IncIds /\ call[p].snap[i] \in Incident
      /\ RecOK(call[p].snap[i], misses[i])
  BY Facts DEF Call, SnapOK
<1>4. inc \in Incident /\ inc.key = call[p].snap[i].key /\ inc.absent = call[p].snap[i].absent
      /\ inc.by = call[p].snap[i].by
  BY <1>3 DEF Incident
<1>5. \/ PutIncident(i, inc)
      \/ PutErr
      \/ UNCHANGED incidents
  BY <1>1, Zenon
<1>6. \/ Proceed(p, [call[p] EXCEPT !.todo = @ \ {i}, !.snap[i] = Unopened])
      \/ Return(p)
  BY <1>1, Zenon
<1> HIDE DEF inc
<1>7. RecOK(inc, misses[i])
  BY <1>3, <1>4, EditOK
<1> QED BY <1>2, <1>4, <1>5, <1>6, <1>7, TurnOK

(* A step of a call that only listed: one call changes and its copies are  *)
(* the store's.                                                            *)
LEMMA ListOK ==
  ASSUME IInv, NEW p \in Calls, NEW c \in Call, c.op \notin Sweeping,
         \A i \in c.todo : c.snap[i] = incidents[i],
         call' = [call EXCEPT ![p] = c], UNCHANGED incidents, Quiet,
         acks' \subseteq IncIds, nagged' \subseteq IncIds
  PROVE  IInv'
<1>1. misses' = misses /\ misses' \in Counter /\ Grows
  BY Facts DEF Quiet, Grows, Counter
<1>2. SnapOK(c, misses')
  <2>1. ASSUME NEW i \in c.todo PROVE RecOK(c.snap[i], misses'[i])
    <3>1. i \in IncIds
      BY DEF Call
    <3> QED BY <1>1, <3>1, Facts
  <2> QED BY <2>1 DEF SnapOK
<1>3. call' \in [Calls -> Call] /\ CallsOK'
  BY <1>1, <1>2, OneCall
<1>4. incidents' \in [IncIds -> Incident] /\ StoreOK'
  BY <1>1, StoreKept
<1> QED BY <1>3, <1>4, QuietOK

LEMMA EscalateOK ==
  ASSUME IInv, NEW p \in Calls, EscalateOverdue(p)
  PROVE  IInv'
<1> DEFINE due == {i \in IncIds : Overdue(incidents[i])}
           c == [IdleCall EXCEPT !.op = "escalate", !.todo = due,
                   !.snap = [i \in IncIds |-> IF i \in due THEN incidents[i] ELSE Unopened]]
<1>1. call' = [call EXCEPT ![p] = c] /\ nagged' = nagged \cup (due \cap acks)
  BY Zenon DEF EscalateOverdue
<1>2. /\ "escalate" \in Ops /\ UNCHANGED incidents /\ Quiet /\ acks' = acks
  BY DEF EscalateOverdue, Quiet
<1>3. acks' \subseteq IncIds /\ nagged' \subseteq IncIds
  BY <1>1, <1>2 DEF IInv, TypeOK
<1>4. c \in Call /\ c.op = "escalate" /\ c.todo = due
  BY <1>2, IdleType, UnopenedType, Facts DEF Call
<1>5. \A i \in c.todo : c.snap[i] = incidents[i]
  BY <1>4, IdleType DEF Call
<1> HIDE DEF c
<1> QED BY <1>1, <1>2, <1>3, <1>4, <1>5, ListOK DEF Sweeping

(* The two handlers read alike. *)
LEMMA PersonReadOK ==
  ASSUME IInv, NEW p \in Calls, AckRead(p) \/ ResolveRead(p)
  PROVE  IInv'
<1>1. PICK op \in Ops \cap {"ack", "resolve"}, i \in IncIds :
        call' = [call EXCEPT ![p] = [IdleCall EXCEPT !.op = op, !.todo = {i}, !.snap[i] = incidents[i]]]
  BY DEF AckRead, ResolveRead, PersonRead
<1>2. /\ UNCHANGED incidents /\ Quiet
      /\ acks' \subseteq IncIds /\ nagged' \subseteq IncIds
  BY DEF AckRead, ResolveRead, PersonRead, Quiet, IInv, TypeOK
<1> DEFINE c == [IdleCall EXCEPT !.op = op, !.todo = {i}, !.snap[i] = incidents[i]]
<1>3. c \in Call /\ c.op = op /\ c.todo = {i} /\ c.snap[i] = incidents[i]
  BY IdleType, Facts DEF Call
<1>4. call' = [call EXCEPT ![p] = c]
  BY <1>1
<1> HIDE DEF c
<1> QED BY <1>1, <1>2, <1>3, <1>4, ListOK DEF Sweeping

LEMMA PersonWriteOK ==
  ASSUME IInv, NEW p \in Calls, AckWrite(p) \/ ResolveWrite(p)
  PROVE  IInv'
<1> DEFINE Acked(i) == [call[p].snap[i] EXCEPT !.acked = TRUE]
           Closed(i) == [call[p].snap[i] EXCEPT !.status = "resolved", !.by = "person", !.acked = TRUE]
<1>1. PICK i \in call[p].todo :
        /\ \/ PutIncident(i, Acked(i))
           \/ PutIncident(i, Closed(i))
           \/ PutErr
        /\ acks' = acks \cup {i} \/ acks' = acks
  <2>1. CASE AckWrite(p)
    BY <2>1, Zenon DEF AckWrite
  <2>2. CASE ResolveWrite(p)
    BY <2>2, Zenon DEF ResolveWrite
  <2> QED BY <2>1, <2>2
<1>2. Return(p) /\ Quiet /\ nagged' = nagged
  BY DEF AckWrite, ResolveWrite, Quiet
<1>3. /\ call[p] \in Call /\ i \in IncIds /\ call[p].snap[i] \in Incident
      /\ RecOK(call[p].snap[i], misses[i])
  BY Facts DEF Call, SnapOK
<1>4. acks' \subseteq IncIds /\ nagged' \subseteq IncIds
  BY <1>1, <1>2, <1>3 DEF IInv, TypeOK
<1>5. Acked(i) \in Incident /\ RecOK(Acked(i), misses[i])
  BY <1>3, EditOK DEF Incident
<1>6. Closed(i) \in Incident /\ RecOK(Closed(i), misses[i])
  BY <1>3, EditOK DEF Incident
<1> HIDE DEF Acked, Closed
<1> QED BY <1>1, <1>2, <1>4, <1>5, <1>6, TurnOK

LEMMA WindowOK ==
  ASSUME IInv, WindowElapses
  PROVE  IInv'
<1> DEFINE Old(inc) == [inc EXCEPT !.recent = FALSE]
<1>1. Quiet /\ misses' = misses /\ acks' \subseteq IncIds /\ nagged' \subseteq IncIds
  BY DEF WindowElapses, Quiet, IInv, TypeOK
<1>2. \A inc \in Incident : /\ Old(inc) \in Incident /\ Old(inc).key = inc.key
                            /\ Old(inc).absent = inc.absent /\ Old(inc).by = inc.by
  BY DEF Incident
<1>3. incidents' \in [IncIds -> Incident] /\ StoreOK'
  <2>1. incidents' = [i \in IncIds |-> Old(incidents[i])]
    BY DEF WindowElapses
  <2> HIDE DEF Old
  <2>2. incidents' \in [IncIds -> Incident]
    BY <1>2, <2>1, Facts
  <2>3. ASSUME NEW i \in IncIds PROVE RecOK(incidents'[i], misses'[i])
    <3>1. incidents'[i] = Old(incidents[i]) /\ incidents[i] \in Incident /\ RecOK(incidents[i], misses[i])
      BY <2>1, Facts
    <3> QED BY <1>1, <1>2, <3>1, EditOK
  <2> QED BY <2>2, <2>3 DEF StoreOK
<1>4. call' \in [Calls -> Call] /\ CallsOK'
  <2> DEFINE Aged(c) == [c EXCEPT !.snap = [i \in IncIds |-> Old(c.snap[i])]]
  <2>1. call' = [q \in Calls |-> Aged(call[q])]
    BY DEF WindowElapses
  <2>2. ASSUME NEW c \in Call
        PROVE  /\ Aged(c) \in Call /\ Aged(c).op = c.op /\ Aged(c).todo = c.todo
               /\ Aged(c).present = c.present
               /\ \A i \in c.todo : Aged(c).snap[i] = Old(c.snap[i])
    <3>1. [i \in IncIds |-> Old(c.snap[i])] \in [IncIds -> Incident]
      BY <1>2 DEF Call
    <3> HIDE DEF Old
    <3> QED BY <3>1 DEF Call
  <2>3. ASSUME NEW c \in Call, SnapOK(c, misses) PROVE SnapOK(Aged(c), misses)
    <3> HIDE DEF Aged, Old
    <3>1. \A i \in c.todo : c.snap[i] \in Incident
      BY DEF Call
    <3>2. \A i \in c.todo : RecOK(Old(c.snap[i]), misses[i])
      BY <1>2, <2>3, <3>1, EditOK DEF SnapOK
    <3> QED BY <1>2, <2>2, <2>3, <3>1, <3>2 DEF SnapOK
  <2> HIDE DEF Aged
  <2>4. call' \in [Calls -> Call]
    BY <2>1, <2>2, Facts
  <2>5. \A q \in Calls : SnapOK(call'[q], misses')
    BY <1>1, <2>1, <2>3, Facts
  <2> QED BY <2>4, <2>5 DEF CallsOK
<1> QED BY <1>1, <1>3, <1>4, QuietOK

-----------------------------------------------------------------------------
LEMMA InitOK == Init => IInv
<1> SUFFICES ASSUME Init PROVE IInv
  OBVIOUS
<1>1. /\ incidents \in [IncIds -> Incident] /\ call \in [Calls -> Call]
      /\ \A i \in IncIds : incidents[i] = Unopened
      /\ \A p \in Calls : call[p] = IdleCall
  BY UnopenedType, IdleType DEF Init, NoSnap
<1>2. misses \in Counter /\ streak \in Counter /\ unseen \in Counter
      /\ \A i \in IncIds : misses[i] = 0
  BY DetectorAssumption DEF Init, Counter
<1>3. StoreOK
  BY <1>1, <1>2, UnopenedType DEF StoreOK, RecOK
<1>4. CallsOK
  BY <1>1, IdleType DEF CallsOK, SnapOK
<1> QED BY <1>1, <1>2, <1>3, <1>4 DEF IInv, TypeOK, Init

LEMMA NextOK == IInv /\ [Next]_vars => IInv'
<1> SUFFICES ASSUME IInv, [Next]_vars PROVE IInv'
  OBVIOUS
<1>1. CASE UNCHANGED vars
  BY <1>1 DEF vars, IInv, TypeOK, StoreOK, CallsOK
<1>2. ASSUME NEW p \in Calls, Step(p) PROVE IInv'
  BY <1>2, ReadsOK, OpenNewOK, SweepOK, EscalateOK, PageOK, PersonReadOK, PersonWriteOK DEF Step
<1> QED BY <1>1, <1>2, WindowOK DEF Next

(* What every reachable state of the detector satisfies. *)
THEOREM DetectorInvariant == Spec => []IInv
BY InitOK, NextOK, PTL DEF Spec

(* The stored incidents and every copy in flight keep their type; no       *)
(* absence count leaves 0..ResolveAfterAbsent.                             *)
THEOREM TypeCorrect == Spec => []TypeOK
<1>1. IInv => TypeOK
  BY DEF IInv
<1> QED BY <1>1, DetectorInvariant, PTL

(* No interleaving of passes, escalations and people, and no store error,  *)
(* lets the sweep close the incident of an event producer.                 *)
THEOREM EventsCorrect == Spec => []EventsNeedAPerson
<1>1. IInv => EventsNeedAPerson
  BY DEF IInv, StoreOK, RecOK, IsEvent, EventsNeedAPerson
<1> QED BY <1>1, DetectorInvariant, PTL

(* The resolve sweep never closes an incident before ResolveAfterAbsent    *)
(* passes covered its producer and missed its issue, lost updates or not.  *)
THEOREM HysteresisCorrect == Spec => []EnoughMisses
<1>1. IInv => EnoughMisses
  BY DEF IInv, StoreOK, RecOK, EnoughMisses, ByScan
<1> QED BY <1>1, DetectorInvariant, PTL

-----------------------------------------------------------------------------
(* Calls one after another.  What a call listed is then still what the     *)
(* store holds, and what it is going to open is still missing.             *)

Sequential == \A p, q \in Calls : p = q

Matches(c, incs) ==
  \A i \in c.todo : c.snap[i] = incs[i] /\ incs[i].status # "none" /\ (c.op # "ack" => incs[i].status = "open")
NewOnly(c, incs) == \A i \in IncIds : incs[i].status = "open" => incs[i].key \notin c.toOpen

Distinct(incs) ==
  \A i, j \in IncIds : incs[i].status = "open" /\ incs[j].status = "open" /\ incs[i].key = incs[j].key => i = j
Unowned(incs) == \A i \in IncIds : incs[i].status # "resolved" => incs[i].by = "nobody"

SerialInv ==
  /\ IInv /\ Distinct(incidents) /\ Unowned(incidents)
  /\ \A p \in Calls : Matches(call[p], incidents) /\ NewOnly(call[p], incidents)

LEMMA IdleLists ==
  /\ IdleCall.op = "idle" /\ IdleCall.todo = {} /\ IdleCall.toOpen = {}
  /\ \A incs : Matches(IdleCall, incs) /\ NewOnly(IdleCall, incs)
BY DEF IdleCall, Matches, NewOnly

LEMMA ProceedIs ==
  ASSUME IInv, NEW p \in Calls, NEW c \in Call, Proceed(p, c)
  PROVE  /\ call'[p] \in {IdleCall, c} /\ call'[p].todo = c.todo /\ call'[p].toOpen = c.toOpen
         /\ call'[p].todo # {} => call'[p] = c
<1>1. call'[p] = IF c.toOpen = {} /\ c.todo = {} THEN IdleCall ELSE c
  BY Facts DEF Proceed
<1> QED BY <1>1, IdleLists

LEMMA ReturnIs ==
  ASSUME IInv, NEW p \in Calls, Return(p)
  PROVE  call'[p] = IdleCall
BY Facts DEF Return

(* A read: what it lists, what it counts. *)
LEMMA BeginIs ==
  ASSUME IInv, NEW p \in Calls, NEW op \in Ops, NEW findings \in SUBSET IssueKeys,
         NEW present \in SUBSET IssueKeys, NEW sweep \in SUBSET IncIds, Begin(p, op, findings, present, sweep)
  PROVE  /\ call'[p].todo = sweep /\ NewOnly(call'[p], incidents)
         /\ \A i \in sweep : call'[p].snap[i] = incidents[i] /\ call'[p].op = op /\ call'[p].present = present
<1> DEFINE c(toOpen) == [op |-> op, findings |-> findings, present |-> present,
                         snap |-> [i \in IncIds |-> IF i \in sweep THEN incidents[i] ELSE Unopened],
                         toOpen |-> toOpen, todo |-> sweep]
<1>1. PICK maintenance \in BOOLEAN : Proceed(p, c(IF maintenance THEN {} ELSE NewIssues(present, incidents)))
  BY DEF Begin
<1> DEFINE toOpen == IF maintenance THEN {} ELSE NewIssues(present, incidents)
<1>2. toOpen \in SUBSET IssueKeys /\ toOpen \cap OpenKeys(incidents) = {}
  BY DEF NewIssues
<1> HIDE DEF toOpen
<1>3. c(toOpen) \in Call
  BY <1>2, Facts, UnopenedType DEF Call
<1>4. /\ c(toOpen).todo = sweep /\ c(toOpen).toOpen = toOpen /\ c(toOpen).op = op /\ c(toOpen).present = present
      /\ \A i \in sweep : c(toOpen).snap[i] = incidents[i]
  OBVIOUS
<1>5. Proceed(p, c(toOpen))
  BY <1>1 DEF toOpen
<1> HIDE DEF c
<1>6. call'[p].todo = sweep /\ call'[p].toOpen = toOpen /\ (call'[p].todo # {} => call'[p] = c(toOpen))
  BY <1>3, <1>4, <1>5, ProceedIs
<1>7. NewOnly(call'[p], incidents)
  BY <1>2, <1>6 DEF NewOnly, OpenKeys, Open
<1> QED BY <1>4, <1>6, <1>7

(* What a read found, and which listed incidents it is going to write. *)
Counted(d, present, findings, cov, T) ==
  /\ Observe(present, findings, cov) /\ T \in ByKey(incidents)
  /\ d.todo = ToSweep(incidents, T, cov, present)
  /\ d.todo # {} => d.present = present

LEMMA ReadsAre ==
  ASSUME IInv, NEW p \in Calls, Reconcile(p) \/ OpenFor(p) \/ ReconcileStore(p)
  PROVE  /\ call[p].op = "idle" /\ UNCHANGED incidents /\ NewOnly(call'[p], incidents)
         /\ call'[p].todo \in SUBSET Open(incidents)
         /\ \A i \in call'[p].todo : call'[p].snap[i] = incidents[i] /\ call'[p].op \in Sweeping
         /\ \/ call'[p].todo = {} /\ UNCHANGED streak
            \/ \E present, findings, cov, T : Counted(call'[p], present, findings, cov, T)
<1>1. call[p].op = "idle" /\ UNCHANGED incidents
  BY DEF Reconcile, OpenFor, ReconcileStore
<1>2. ASSUME NEW op \in Ops \cap Sweeping, NEW findings \in SUBSET IssueKeys, NEW present \in SUBSET IssueKeys, NEW cov,
             NEW T \in ByKey(incidents), Begin(p, op, findings, present, ToSweep(incidents, T, cov, present)),
             Observe(present, findings, cov)
      PROVE  /\ NewOnly(call'[p], incidents) /\ call'[p].todo \in SUBSET Open(incidents)
             /\ \A i \in call'[p].todo : call'[p].snap[i] = incidents[i] /\ call'[p].op \in Sweeping
             /\ Counted(call'[p], present, findings, cov, T)
  <2> DEFINE sweep == ToSweep(incidents, T, cov, present)
  <2>1. sweep \in SUBSET Open(incidents) /\ sweep \in SUBSET IncIds
    BY <1>2 DEF ToSweep, ByKey, Open
  <2>2. Begin(p, op, findings, present, sweep)
    BY <1>2
  <2>3. sweep = ToSweep(incidents, T, cov, present)
    OBVIOUS
  <2> HIDE DEF sweep
  <2>4. /\ call'[p].todo = sweep /\ NewOnly(call'[p], incidents)
        /\ \A i \in sweep : call'[p].snap[i] = incidents[i] /\ call'[p].op = op /\ call'[p].present = present
    BY <2>1, <2>2, BeginIs
  <2> QED BY <1>2, <2>1, <2>3, <2>4 DEF Counted
<1>3. CASE Reconcile(p)
  <2>1. PICK cov \in SUBSET Producers :
        \E findings \in SUBSET {k \in IssueKeys : ProducerOf[k] \in cov \cup EventProducers \cup {NoProducer}} :
        \E attacked \in SUBSET findings :
          LET present == Present(findings, attacked)
          IN  /\ \E T \in ByKey(incidents) :
                   Begin(p, "reconcile", findings, present, ToSweep(incidents, T, cov, present))
              /\ Observe(present, findings, cov)
    BY <1>3, Zenon DEF Reconcile
  <2>2. PICK findings \in SUBSET IssueKeys : \E attacked \in SUBSET findings :
          LET present == Present(findings, attacked)
          IN  /\ \E T \in ByKey(incidents) :
                   Begin(p, "reconcile", findings, present, ToSweep(incidents, T, cov, present))
              /\ Observe(present, findings, cov)
    BY <2>1
  <2>3. \A attacked : Present(findings, attacked) \in SUBSET IssueKeys
    BY DEF Present
  <2>4. PICK present \in SUBSET IssueKeys, T \in ByKey(incidents) :
          /\ Begin(p, "reconcile", findings, present, ToSweep(incidents, T, cov, present))
          /\ Observe(present, findings, cov)
    BY <2>2, <2>3, Zenon
  <2>5. "reconcile" \in Ops \cap Sweeping
    BY <1>3 DEF Reconcile, Sweeping
  <2>6. /\ NewOnly(call'[p], incidents) /\ call'[p].todo \in SUBSET Open(incidents)
        /\ \A i \in call'[p].todo : call'[p].snap[i] = incidents[i] /\ call'[p].op \in Sweeping
        /\ Counted(call'[p], present, findings, cov, T)
    BY <1>2, <2>4, <2>5
  <2> QED BY <1>1, <2>6
<1>4. CASE OpenFor(p)
  <2>1. PICK findings \in SUBSET IssueKeys : \E attacked \in SUBSET findings :
          Begin(p, "openfor", findings, Present(findings, attacked), {})
    BY <1>4, Zenon DEF OpenFor
  <2>2. PICK present \in SUBSET IssueKeys : Begin(p, "openfor", findings, present, {})
    <3>1. \A attacked : Present(findings, attacked) \in SUBSET IssueKeys
      BY DEF Present
    <3> QED BY <2>1, <3>1, Zenon
  <2>3. "openfor" \in Ops /\ UNCHANGED streak
    BY <1>4 DEF OpenFor
  <2>4. call'[p].todo = {} /\ NewOnly(call'[p], incidents)
    BY <2>2, <2>3, BeginIs
  <2> QED BY <1>1, <2>3, <2>4
<1>5. CASE ReconcileStore(p)
  <2> DEFINE present == Present(stored, {})
  <2>1. PICK T \in ByKey(incidents) :
          /\ Begin(p, "pentest", stored, present, ToSweep(incidents, T, AllProducers, present))
          /\ Observe(present, stored, AllProducers)
    BY <1>5 DEF ReconcileStore
  <2>2. stored \in SUBSET IssueKeys /\ present \in SUBSET IssueKeys
    BY DEF Present, IInv, TypeOK
  <2> HIDE DEF present
  <2>3. "pentest" \in Ops \cap Sweeping
    BY <1>5 DEF ReconcileStore, Sweeping
  <2>4. /\ NewOnly(call'[p], incidents) /\ call'[p].todo \in SUBSET Open(incidents)
        /\ \A i \in call'[p].todo : call'[p].snap[i] = incidents[i] /\ call'[p].op \in Sweeping
        /\ Counted(call'[p], present, stored, AllProducers, T)
    BY <1>2, <2>1, <2>2, <2>3
  <2> QED BY <1>1, <2>4
<1> QED BY <1>3, <1>4, <1>5

(* A turn of a loop: at most one incident is written, and crossed off.     *)
LEMMA RestIs ==
  ASSUME NEW c \in Call, NEW i \in c.todo
  PROVE  LET d == [c EXCEPT !.todo = @ \ {i}, !.snap[i] = Unopened]
         IN  /\ d \in Call /\ d.todo = c.todo \ {i} /\ d.toOpen = c.toOpen /\ d.op = c.op /\ d.present = c.present
             /\ \A j \in c.todo \ {i} : d.snap[j] = c.snap[j]
<1> DEFINE s == [c.snap EXCEPT ![i] = Unopened]
           d1 == [c EXCEPT !.todo = c.todo \ {i}]
           d == [d1 EXCEPT !.snap = s]
<1>1. s \in [IncIds -> Incident] /\ \A j \in IncIds \ {i} : s[j] = c.snap[j]
  BY UnopenedType DEF Call
<1> HIDE DEF s
<1>2. d1 \in Call /\ d1.todo = c.todo \ {i} /\ d1.toOpen = c.toOpen /\ d1.op = c.op /\ d1.present = c.present
      /\ d1.snap = c.snap
  BY DEF Call
<1> HIDE DEF d1
<1>3. d \in Call /\ d.todo = c.todo \ {i} /\ d.toOpen = c.toOpen /\ d.op = c.op /\ d.present = c.present /\ d.snap = s
  BY <1>1, <1>2 DEF Call
<1>4. d = [c EXCEPT !.todo = @ \ {i}, !.snap[i] = Unopened]
  BY DEF d, d1, s, Call
<1>5. \A j \in c.todo \ {i} : d.snap[j] = c.snap[j]
  BY <1>1, <1>3 DEF Call
<1> HIDE DEF d
<1> QED BY <1>3, <1>4, <1>5

(* What is left of a call after a turn. *)
Rest(d, c) ==
  /\ d.todo \subseteq c.todo /\ d.toOpen \subseteq c.toOpen
  /\ d.todo # {} => d.op = c.op /\ d.present = c.present /\ \A j \in d.todo : d.snap[j] = c.snap[j]

LEMMA CrossedOff ==
  ASSUME IInv, NEW p \in Calls, NEW i \in call[p].todo,
         Proceed(p, [call[p] EXCEPT !.todo = @ \ {i}, !.snap[i] = Unopened]) \/ Return(p)
  PROVE  Rest(call'[p], call[p]) /\ i \notin call'[p].todo
<1> DEFINE d == [call[p] EXCEPT !.todo = @ \ {i}, !.snap[i] = Unopened]
<1>1. call[p] \in Call
  BY Facts
<1>2. /\ d \in Call /\ d.todo = call[p].todo \ {i} /\ d.toOpen = call[p].toOpen
      /\ d.op = call[p].op /\ d.present = call[p].present
      /\ \A j \in call[p].todo \ {i} : d.snap[j] = call[p].snap[j]
  BY <1>1, RestIs
<1>3. Proceed(p, d) \/ Return(p)
  OBVIOUS
<1> HIDE DEF d
<1>4. CASE Proceed(p, d)
  BY <1>2, <1>4, ProceedIs DEF Rest
<1>5. CASE Return(p)
  BY <1>5, ReturnIs, IdleLists DEF Rest
<1> QED BY <1>3, <1>4, <1>5

LEMMA SweepIs ==
  ASSUME IInv, NEW p \in Calls, Sweep(p)
  PROVE  /\ call[p].op \in Sweeping /\ UNCHANGED streak
         /\ \E i \in call[p].todo :
              /\ Rest(call'[p], call[p]) /\ i \notin call'[p].todo
              /\ \/ PutIncident(i, Swept(call[p].snap[i], call[p].present)) /\ call'[p].todo = call[p].todo \ {i}
                 \/ PutErr
<1>1. PICK i \in call[p].todo :
        \/ /\ PutIncident(i, Swept(call[p].snap[i], call[p].present))
           /\ Proceed(p, [call[p] EXCEPT !.todo = @ \ {i}, !.snap[i] = Unopened])
        \/ PutErr /\ Return(p)
  BY Zenon DEF Sweep
<1>2. call[p].op \in Sweeping /\ UNCHANGED streak
  BY DEF Sweep, Sweeping
<1>3. Rest(call'[p], call[p]) /\ i \notin call'[p].todo
  BY <1>1, CrossedOff
<1>4. Proceed(p, [call[p] EXCEPT !.todo = @ \ {i}, !.snap[i] = Unopened]) => call'[p].todo = call[p].todo \ {i}
  <2> DEFINE d == [call[p] EXCEPT !.todo = @ \ {i}, !.snap[i] = Unopened]
  <2>1. d \in Call /\ d.todo = call[p].todo \ {i}
    BY Facts, RestIs
  <2> HIDE DEF d
  <2>2. Proceed(p, d) => call'[p].todo = call[p].todo \ {i}
    BY <2>1, ProceedIs
  <2> QED BY <2>2 DEF d
<1> QED BY <1>1, <1>2, <1>3, <1>4

(* Pages, acknowledgements and closes write the copy, edited.              *)
LEMMA PersonTurnIs ==
  ASSUME IInv, NEW p \in Calls, Page(p) \/ AckWrite(p) \/ ResolveWrite(p)
  PROVE  /\ call[p].op \notin Sweeping /\ UNCHANGED streak
         /\ \E i \in call[p].todo, inc \in Incident :
              /\ Rest(call'[p], call[p]) /\ i \notin call'[p].todo
              /\ PutIncident(i, inc) \/ UNCHANGED incidents
              /\ inc.key = call[p].snap[i].key /\ inc.absent = call[p].snap[i].absent
              /\ \/ inc.status = call[p].snap[i].status /\ inc.by = call[p].snap[i].by
                 \/ inc.status = "resolved" /\ inc.by = "person"
<1>1. call[p].op \notin Sweeping /\ UNCHANGED streak
  BY DEF Page, AckWrite, ResolveWrite, Sweeping
<1>2. \A i \in call[p].todo : i \in IncIds /\ call[p].snap[i] \in Incident
  BY Facts DEF Call
<1> DEFINE Paged(i) == [call[p].snap[i] EXCEPT !.recent = TRUE]
           Acked(i) == [call[p].snap[i] EXCEPT !.acked = TRUE]
           Closed(i) == [call[p].snap[i] EXCEPT !.status = "resolved", !.by = "person", !.acked = TRUE]
<1>3. PICK i \in call[p].todo :
        /\ PutIncident(i, Paged(i)) \/ PutIncident(i, Acked(i)) \/ PutIncident(i, Closed(i)) \/ UNCHANGED incidents
        /\ Proceed(p, [call[p] EXCEPT !.todo = @ \ {i}, !.snap[i] = Unopened]) \/ Return(p)
  <2>1. CASE Page(p)
    BY <2>1, Zenon DEF Page, PutErr
  <2>2. CASE AckWrite(p)
    BY <2>2, Zenon DEF AckWrite, PutErr
  <2>3. CASE ResolveWrite(p)
    BY <2>3, Zenon DEF ResolveWrite, PutErr
  <2> QED BY <2>1, <2>2, <2>3
<1>4. Rest(call'[p], call[p]) /\ i \notin call'[p].todo
  BY <1>3, CrossedOff
<1>5. /\ Paged(i) \in Incident /\ Paged(i).key = call[p].snap[i].key /\ Paged(i).absent = call[p].snap[i].absent
      /\ Paged(i).status = call[p].snap[i].status /\ Paged(i).by = call[p].snap[i].by
  BY <1>2 DEF Incident
<1>6. /\ Acked(i) \in Incident /\ Acked(i).key = call[p].snap[i].key /\ Acked(i).absent = call[p].snap[i].absent
      /\ Acked(i).status = call[p].snap[i].status /\ Acked(i).by = call[p].snap[i].by
  BY <1>2 DEF Incident
<1>7. /\ Closed(i) \in Incident /\ Closed(i).key = call[p].snap[i].key /\ Closed(i).absent = call[p].snap[i].absent
      /\ Closed(i).status = "resolved" /\ Closed(i).by = "person"
  BY <1>2 DEF Incident
<1> HIDE DEF Paged, Acked, Closed
<1> QED BY <1>1, <1>3, <1>4, <1>5, <1>6, <1>7

LEMMA OpenNewIs ==
  ASSUME IInv, NEW p \in Calls, OpenNew(p)
  PROVE  /\ UNCHANGED streak
         /\ \E k \in call[p].toOpen, i \in IncIds, inc \in Incident :
              /\ incidents[i].status = "none"
              /\ inc.status = "open" /\ inc.key = k /\ inc.absent = 0 /\ inc.by = "nobody"
              /\ Rest(call'[p], call[p])
              /\ \/ PutIncident(i, inc) /\ k \notin call'[p].toOpen /\ call'[p].todo = call[p].todo
                 \/ PutErr
<1>1. PICK k \in call[p].toOpen, i \in IncIds :
        /\ incidents[i].status = "none"
        /\ \/ /\ PutIncident(i, [Unopened EXCEPT !.status = "open", !.key = k, !.recent = TRUE])
              /\ Proceed(p, [call[p] EXCEPT !.toOpen = @ \ {k}])
           \/ PutErr /\ Return(p)
  BY Zenon DEF OpenNew
<1> DEFINE inc == [Unopened EXCEPT !.status = "open", !.key = k, !.recent = TRUE]
           c == [call[p] EXCEPT !.toOpen = @ \ {k}]
<1>2. call[p] \in Call /\ k \in IssueKeys
  BY Facts DEF Call
<1>3. inc \in Incident /\ inc.status = "open" /\ inc.key = k /\ inc.absent = 0 /\ inc.by = "nobody"
  BY <1>2, UnopenedType DEF Incident
<1>4. c \in Call /\ c.todo = call[p].todo /\ c.snap = call[p].snap /\ c.op = call[p].op
      /\ c.present = call[p].present /\ c.toOpen = call[p].toOpen \ {k}
  BY <1>2 DEF Call
<1>5. \/ PutIncident(i, inc) /\ Proceed(p, c)
      \/ PutErr /\ Return(p)
  BY <1>1
<1>6. UNCHANGED streak
  BY DEF OpenNew
<1> HIDE DEF inc, c
<1>7. CASE PutIncident(i, inc) /\ Proceed(p, c)
  <2>1. call'[p].todo = c.todo /\ call'[p].toOpen = c.toOpen /\ (call'[p].todo # {} => call'[p] = c)
    BY <1>4, <1>7, ProceedIs
  <2>2. Rest(call'[p], call[p])
    BY <1>4, <2>1 DEF Rest
  <2> QED BY <1>1, <1>3, <1>4, <1>6, <1>7, <2>1, <2>2
<1>8. CASE PutErr /\ Return(p)
  <2>1. Rest(call'[p], call[p])
    BY <1>8, ReturnIs, IdleLists DEF Rest
  <2> QED BY <1>1, <1>3, <1>6, <1>8, <2>1
<1> QED BY <1>5, <1>7, <1>8

(* Escalation and the handlers list what they are going to write.          *)
LEMMA ListsAre ==
  ASSUME IInv, NEW p \in Calls, EscalateOverdue(p) \/ AckRead(p) \/ ResolveRead(p)
  PROVE  /\ UNCHANGED <<incidents, streak>> /\ call[p].op = "idle" /\ call'[p].op \notin Sweeping
         /\ Matches(call'[p], incidents) /\ NewOnly(call'[p], incidents)
<1>1. UNCHANGED <<incidents, streak>> /\ call[p].op = "idle"
  BY DEF EscalateOverdue, AckRead, ResolveRead, PersonRead
<1>2. CASE EscalateOverdue(p)
  <2> DEFINE due == {i \in IncIds : Overdue(incidents[i])}
             c == [IdleCall EXCEPT !.op = "escalate", !.todo = due,
                     !.snap = [i \in IncIds |-> IF i \in due THEN incidents[i] ELSE Unopened]]
  <2>1. call'[p] = c
    BY <1>2, Facts DEF EscalateOverdue
  <2>2. c.op = "escalate" /\ c.todo = due /\ c.toOpen = {} /\ \A i \in due : c.snap[i] = incidents[i]
    BY DEF IdleCall
  <2>3. \A i \in due : incidents[i].status = "open"
    BY DEF Overdue
  <2> HIDE DEF c, due
  <2> QED BY <1>1, <2>1, <2>2, <2>3 DEF Matches, NewOnly, Sweeping
<1>3. CASE AckRead(p) \/ ResolveRead(p)
  <2>1. PICK op \in {"ack", "resolve"}, i \in IncIds :
          /\ incidents[i].status # "none" /\ (op = "resolve" => incidents[i].status # "resolved")
          /\ call' = [call EXCEPT ![p] = [IdleCall EXCEPT !.op = op, !.todo = {i}, !.snap[i] = incidents[i]]]
    BY <1>3 DEF AckRead, ResolveRead, PersonRead, NotResolved
  <2> DEFINE c == [IdleCall EXCEPT !.op = op, !.todo = {i}, !.snap[i] = incidents[i]]
  <2>2. c.op = op /\ c.todo = {i} /\ c.toOpen = {} /\ c.snap[i] = incidents[i]
    BY DEF IdleCall, NoSnap
  <2>3. call'[p] = c
    BY <2>1, Facts
  <2>4. incidents[i].status \in {"open", "resolved"}
    BY <2>1, Facts DEF Incident
  <2> HIDE DEF c
  <2> QED BY <1>1, <2>1, <2>2, <2>3, <2>4 DEF Matches, NewOnly, Sweeping
<1> QED BY <1>2, <1>3

-----------------------------------------------------------------------------
(* One open incident per issue; what a person closed stays closed.         *)

PersonKept ==
  \A i \in IncIds : incidents[i].by = "person" => incidents'[i].by = "person" /\ incidents'[i].status = "resolved"

LEMMA OnlyCall ==
  ASSUME Sequential, IInv', NEW p \in Calls, Distinct(incidents'), Unowned(incidents'),
         Matches(call'[p], incidents'), NewOnly(call'[p], incidents')
  PROVE  SerialInv'
<1>1. \A q \in Calls : Matches(call'[q], incidents') /\ NewOnly(call'[q], incidents')
  BY DEF Sequential
<1> QED BY <1>1 DEF SerialInv

LEMMA NothingWritten ==
  ASSUME Sequential, SerialInv, IInv', NEW p \in Calls, UNCHANGED incidents,
         (Matches(call'[p], incidents) /\ NewOnly(call'[p], incidents)) \/ Rest(call'[p], call[p])
  PROVE  SerialInv' /\ PersonKept
<1>1. Matches(call[p], incidents) /\ NewOnly(call[p], incidents)
  BY DEF SerialInv
<1>2. Matches(call'[p], incidents) /\ NewOnly(call'[p], incidents)
  BY <1>1 DEF Rest, Matches, NewOnly
<1>3. Distinct(incidents') /\ Unowned(incidents')
  BY DEF SerialInv
<1>4. PersonKept
  BY Facts DEF PersonKept, SerialInv, Unowned
<1> QED BY <1>2, <1>3, <1>4, OnlyCall

LEMMA ListedWritten ==
  ASSUME Sequential, SerialInv, IInv', NEW p \in Calls, NEW i \in call[p].todo, NEW inc \in Incident,
         Rest(call'[p], call[p]), i \notin call'[p].todo, PutIncident(i, inc), inc.key = call[p].snap[i].key,
         \/ inc.status = call[p].snap[i].status /\ inc.by = call[p].snap[i].by
         \/ inc.status = "resolved" /\ (inc.by = "person" \/ call[p].op # "ack")
  PROVE  SerialInv' /\ PersonKept
<1>1. i \in IncIds /\ \A j \in call[p].todo : j \in IncIds
  BY Facts DEF SerialInv, Call
<1>2. incidents' = [incidents EXCEPT ![i] = inc] /\ incidents \in [IncIds -> Incident]
  BY Facts DEF PutIncident, SerialInv
<1>3. incidents'[i] = inc /\ \A j \in IncIds \ {i} : incidents'[j] = incidents[j]
  BY <1>1, <1>2
<1>4. Matches(call[p], incidents) /\ NewOnly(call[p], incidents) /\ Unowned(incidents) /\ Distinct(incidents)
  BY DEF SerialInv
<1>5. call[p].snap[i] = incidents[i] /\ (call[p].op # "ack" => incidents[i].status = "open")
  BY <1>4 DEF Matches
<1>6. inc.key = incidents[i].key /\ (inc.status = "open" => incidents[i].status = "open")
  BY <1>5
<1>7. Distinct(incidents')
  BY <1>1, <1>3, <1>4, <1>6 DEF Distinct
<1>8. Unowned(incidents')
  BY <1>1, <1>3, <1>4, <1>5 DEF Unowned
<1>9. Matches(call'[p], incidents')
  BY <1>1, <1>3, <1>4 DEF Matches, Rest
<1>10. NewOnly(call'[p], incidents')
  BY <1>1, <1>3, <1>4, <1>6 DEF NewOnly, Rest
<1>11. PersonKept
  <2>1. \A j \in IncIds : incidents[j].by = "person" => incidents[j].status = "resolved"
    BY <1>4 DEF Unowned
  <2> QED BY <1>3, <1>5, <2>1 DEF PersonKept
<1> QED BY <1>7, <1>8, <1>9, <1>10, <1>11, OnlyCall

LEMMA NewWritten ==
  ASSUME Sequential, SerialInv, IInv', NEW p \in Calls, OpenNew(p)
  PROVE  SerialInv' /\ PersonKept
<1>1. PICK k \in call[p].toOpen, i \in IncIds, inc \in Incident :
        /\ incidents[i].status = "none"
        /\ inc.status = "open" /\ inc.key = k /\ inc.absent = 0 /\ inc.by = "nobody"
        /\ Rest(call'[p], call[p])
        /\ \/ PutIncident(i, inc) /\ k \notin call'[p].toOpen
           \/ PutErr
  BY OpenNewIs DEF SerialInv
<1>2. CASE PutErr
  BY <1>1, <1>2, NothingWritten DEF PutErr
<1>3. CASE PutIncident(i, inc) /\ k \notin call'[p].toOpen
  <2>1. incidents'[i] = inc /\ \A j \in IncIds \ {i} : incidents'[j] = incidents[j]
    BY <1>3, Facts DEF PutIncident, SerialInv
  <2>2. Matches(call[p], incidents) /\ NewOnly(call[p], incidents) /\ Unowned(incidents) /\ Distinct(incidents)
    BY DEF SerialInv
  <2>3. \A j \in call[p].todo : j \in IncIds /\ j # i
    <3>1. \A j \in call[p].todo : j \in IncIds
      BY Facts DEF SerialInv, Call
    <3> QED BY <1>1, <2>2, <3>1 DEF Matches
  <2>4. Distinct(incidents')
    BY <1>1, <2>1, <2>2 DEF Distinct, NewOnly
  <2>5. Unowned(incidents')
    BY <1>1, <2>1, <2>2 DEF Unowned
  <2>6. Matches(call'[p], incidents')
    BY <1>1, <2>1, <2>2, <2>3 DEF Matches, Rest
  <2>7. NewOnly(call'[p], incidents')
    BY <1>1, <1>3, <2>1, <2>2 DEF NewOnly, Rest
  <2>8. PersonKept
    BY <1>1, <2>1, <2>2 DEF PersonKept, Unowned
  <2> QED BY <2>4, <2>5, <2>6, <2>7, <2>8, OnlyCall
<1> QED BY <1>1, <1>2, <1>3

(* What the sweep makes of an open record. *)
LEMMA SweptIs ==
  ASSUME NEW inc \in Incident, NEW present
  PROVE  LET s == Swept(inc, present)
         IN  /\ s \in Incident /\ s.key = inc.key
             /\ \/ s.status = inc.status /\ s.by = inc.by /\ inc.key \in present /\ s.absent = 0
                \/ s.status = inc.status /\ s.by = inc.by /\ inc.key \notin present /\ s.absent = inc.absent + 1
                \/ s.status = "resolved" /\ s.by = "scan" /\ inc.key \notin present /\ inc.absent + 1 >= ResolveAfterAbsent
<1>1. inc.absent \in 0..ResolveAfterAbsent /\ ResolveAfterAbsent \in Nat \ {0}
  BY DetectorAssumption DEF Incident
<1>2. CASE inc.key \in present
  BY <1>1, <1>2 DEF Swept, Incident
<1>3. CASE inc.key \notin present /\ inc.absent + 1 < ResolveAfterAbsent
  BY <1>1, <1>3 DEF Swept, Incident
<1>4. CASE inc.key \notin present /\ ~(inc.absent + 1 < ResolveAfterAbsent)
  <2> DEFINE d == [inc EXCEPT !.absent = ResolveAfterAbsent, !.status = "resolved", !.by = "scan"]
  <2>1. d \in Incident /\ d.key = inc.key /\ d.status = "resolved" /\ d.by = "scan"
    <3>1. ResolveAfterAbsent \in 0..ResolveAfterAbsent
      BY <1>1
    <3> QED BY <3>1 DEF Incident
  <2>2. Swept(inc, present) = d
    BY <1>4 DEF Swept
  <2> HIDE DEF d
  <2> QED BY <1>1, <1>4, <2>1, <2>2
<1> QED BY <1>2, <1>3, <1>4

LEMMA SweepWritten ==
  ASSUME Sequential, SerialInv, IInv', NEW p \in Calls, Sweep(p)
  PROVE  SerialInv' /\ PersonKept
<1>1. PICK i \in call[p].todo :
        /\ Rest(call'[p], call[p]) /\ i \notin call'[p].todo
        /\ PutIncident(i, Swept(call[p].snap[i], call[p].present)) \/ PutErr
  BY SweepIs DEF SerialInv
<1>2. call[p].op # "ack" /\ call[p].snap[i] \in Incident
  BY Facts, SweepIs DEF SerialInv, Call, Sweeping
<1>3. CASE PutErr
  BY <1>1, <1>3, NothingWritten DEF PutErr
<1>4. CASE PutIncident(i, Swept(call[p].snap[i], call[p].present))
  BY <1>1, <1>2, <1>4, SweptIs, ListedWritten
<1> QED BY <1>1, <1>3, <1>4

LEMMA PersonTurnWritten ==
  ASSUME Sequential, SerialInv, IInv', NEW p \in Calls, Page(p) \/ AckWrite(p) \/ ResolveWrite(p)
  PROVE  SerialInv' /\ PersonKept
<1>1. PICK i \in call[p].todo, inc \in Incident :
        /\ Rest(call'[p], call[p]) /\ i \notin call'[p].todo
        /\ PutIncident(i, inc) \/ UNCHANGED incidents
        /\ inc.key = call[p].snap[i].key /\ inc.absent = call[p].snap[i].absent
        /\ \/ inc.status = call[p].snap[i].status /\ inc.by = call[p].snap[i].by
           \/ inc.status = "resolved" /\ inc.by = "person"
  BY PersonTurnIs DEF SerialInv
<1>2. CASE UNCHANGED incidents
  BY <1>1, <1>2, NothingWritten
<1>3. CASE PutIncident(i, inc)
  BY <1>1, <1>3, ListedWritten
<1> QED BY <1>1, <1>2, <1>3

LEMMA ReadsList ==
  ASSUME Sequential, SerialInv, IInv', NEW p \in Calls, Reconcile(p) \/ OpenFor(p) \/ ReconcileStore(p)
  PROVE  SerialInv' /\ PersonKept
<1>1. /\ UNCHANGED incidents /\ NewOnly(call'[p], incidents)
      /\ call'[p].todo \in SUBSET Open(incidents)
      /\ \A i \in call'[p].todo : call'[p].snap[i] = incidents[i] /\ call'[p].op \in Sweeping
  BY ReadsAre DEF SerialInv
<1>2. Matches(call'[p], incidents)
  BY <1>1 DEF Matches, Open
<1> QED BY <1>1, <1>2, NothingWritten

(* The copies age with the store. *)
LEMMA WindowIs ==
  ASSUME IInv, WindowElapses
  PROVE  /\ \A i \in IncIds : /\ incidents'[i] = [incidents[i] EXCEPT !.recent = FALSE]
                              /\ incidents'[i].status = incidents[i].status /\ incidents'[i].key = incidents[i].key
                              /\ incidents'[i].by = incidents[i].by /\ incidents'[i].absent = incidents[i].absent
         /\ UNCHANGED streak
         /\ \A q \in Calls : /\ call'[q].todo = call[q].todo /\ call'[q].toOpen = call[q].toOpen
                             /\ call'[q].op = call[q].op /\ call'[q].present = call[q].present
                             /\ \A i \in call[q].todo : call'[q].snap[i] = [call[q].snap[i] EXCEPT !.recent = FALSE]
<1>1. \A inc \in Incident : LET d == [inc EXCEPT !.recent = FALSE]
                            IN  d.status = inc.status /\ d.key = inc.key /\ d.by = inc.by /\ d.absent = inc.absent
  BY DEF Incident
<1>2. \A i \in IncIds : incidents[i] \in Incident /\ incidents'[i] = [incidents[i] EXCEPT !.recent = FALSE]
  BY Facts DEF WindowElapses
<1>3. ASSUME NEW q \in Calls
      PROVE  /\ call'[q].todo = call[q].todo /\ call'[q].toOpen = call[q].toOpen
             /\ call'[q].op = call[q].op /\ call'[q].present = call[q].present
             /\ \A i \in call[q].todo : call'[q].snap[i] = [call[q].snap[i] EXCEPT !.recent = FALSE]
  <2>1. call[q] \in Call /\ \A i \in call[q].todo : i \in IncIds
    BY Facts DEF Call
  <2>2. call'[q] = [call[q] EXCEPT !.snap = [i \in IncIds |-> [call[q].snap[i] EXCEPT !.recent = FALSE]]]
    BY DEF WindowElapses
  <2> DEFINE s == [i \in IncIds |-> [call[q].snap[i] EXCEPT !.recent = FALSE]]
  <2>3. \A i \in IncIds : s[i] = [call[q].snap[i] EXCEPT !.recent = FALSE]
    OBVIOUS
  <2>4. call'[q] = [call[q] EXCEPT !.snap = s]
    BY <2>2
  <2> HIDE DEF s
  <2> QED BY <2>1, <2>3, <2>4 DEF Call
<1>4. UNCHANGED streak
  BY DEF WindowElapses
<1> QED BY <1>1, <1>2, <1>3, <1>4

LEMMA WindowAges ==
  ASSUME SerialInv, IInv', WindowElapses
  PROVE  SerialInv' /\ PersonKept
<1>1. \A i \in IncIds : /\ incidents'[i].status = incidents[i].status /\ incidents'[i].key = incidents[i].key
                        /\ incidents'[i].by = incidents[i].by
  BY WindowIs DEF SerialInv
<1>2. Distinct(incidents) /\ Unowned(incidents)
  BY DEF SerialInv
<1>3. Distinct(incidents') /\ Unowned(incidents')
  BY <1>1, <1>2 DEF Distinct, Unowned
<1>4. ASSUME NEW q \in Calls
      PROVE  Matches(call'[q], incidents') /\ NewOnly(call'[q], incidents')
  <2>1. Matches(call[q], incidents) /\ NewOnly(call[q], incidents) /\ \A i \in call[q].todo : i \in IncIds
    BY Facts DEF SerialInv, Call
  <2>2. /\ call'[q].todo = call[q].todo /\ call'[q].toOpen = call[q].toOpen /\ call'[q].op = call[q].op
        /\ \A i \in call[q].todo : call'[q].snap[i] = incidents'[i]
    <3>1. \A i \in call[q].todo : call[q].snap[i] = incidents[i]
      BY <2>1 DEF Matches
    <3>2. IInv
      BY DEF SerialInv
    <3>3. \A i \in call[q].todo : incidents'[i] = [incidents[i] EXCEPT !.recent = FALSE]
      BY <2>1, <3>2, WindowIs
    <3>4. /\ call'[q].todo = call[q].todo /\ call'[q].toOpen = call[q].toOpen /\ call'[q].op = call[q].op
          /\ \A i \in call[q].todo : call'[q].snap[i] = [call[q].snap[i] EXCEPT !.recent = FALSE]
      BY <3>2, WindowIs
    <3>5. \A i \in call[q].todo : call'[q].snap[i] = incidents'[i]
      BY <3>1, <3>3, <3>4
    <3> QED BY <3>4, <3>5
  <2> QED BY <1>1, <2>1, <2>2 DEF Matches, NewOnly
<1>5. PersonKept
  BY <1>1, <1>2 DEF PersonKept, Unowned
<1> QED BY <1>3, <1>4, <1>5 DEF SerialInv

LEMMA SerialStep ==
  ASSUME Sequential, SerialInv, [Next]_vars
  PROVE  SerialInv' /\ PersonKept
<1>1. IInv'
  BY NextOK DEF SerialInv
<1>2. ASSUME NEW p \in Calls, Step(p)
      PROVE  SerialInv' /\ PersonKept
  <2>1. CASE Reconcile(p) \/ OpenFor(p) \/ ReconcileStore(p)
    BY <1>1, <2>1, ReadsList
  <2>2. CASE EscalateOverdue(p) \/ AckRead(p) \/ ResolveRead(p)
    <3>1. UNCHANGED incidents /\ Matches(call'[p], incidents) /\ NewOnly(call'[p], incidents)
      BY <2>2, ListsAre DEF SerialInv
    <3> QED BY <1>1, <3>1, NothingWritten
  <2>3. CASE Page(p) \/ AckWrite(p) \/ ResolveWrite(p)
    BY <1>1, <2>3, PersonTurnWritten
  <2> QED BY <1>1, <1>2, <2>1, <2>2, <2>3, NewWritten, SweepWritten DEF Step
<1>3. CASE UNCHANGED vars
  BY <1>1, <1>3, Facts DEF vars, SerialInv, PersonKept, Unowned
<1> QED BY <1>1, <1>2, <1>3, WindowAges DEF Next

LEMMA SerialInit == Init => SerialInv
<1> SUFFICES ASSUME Init PROVE SerialInv
  OBVIOUS
<1>1. \A i \in IncIds : incidents[i].status = "none" /\ incidents[i].by = "nobody"
  BY DEF Init, NoSnap, Unopened
<1>2. \A p \in Calls : call[p] = IdleCall
  BY DEF Init
<1>3. Distinct(incidents) /\ Unowned(incidents)
  BY <1>1 DEF Distinct, Unowned
<1> QED BY <1>2, <1>3, IdleLists, InitOK DEF SerialInv

(* Reconcile and OpenFor open no second incident for an issue that has one *)
(* open, with any store error, as long as calls do not overlap.            *)
THEOREM OneIncidentPerIssue == ASSUME Sequential PROVE Spec => []OneOpenPerKey
<1>1. SerialInv => OneOpenPerKey
  BY DEF SerialInv, Distinct, OneOpenPerKey, Open
<1>2. SerialInv /\ [Next]_vars => SerialInv'
  BY SerialStep
<1> QED BY <1>1, <1>2, SerialInit, PTL DEF Spec

(* What a person closed stays closed and stays theirs: no sweep, no page   *)
(* and no acknowledgement takes it over, as long as calls do not overlap.  *)
THEOREM PersonsCloseIsFinal == ASSUME Sequential PROVE Spec => PersonCloseSticks
<1>1. SerialInv /\ [Next]_vars => SerialInv' /\ PersonKept
  BY SerialStep
<1>2. PersonKept => \A i \in IncIds : incidents[i].by = "person" => incidents'[i].by = "person"
                                                                    /\ incidents'[i].status = "resolved"
  BY DEF PersonKept
<1> QED BY <1>1, <1>2, SerialInit, PTL DEF Spec, PersonCloseSticks

-----------------------------------------------------------------------------
(* The misses were consecutive.                                            *)

Awaits(c, i) == c.op \in Sweeping /\ i \in c.todo

(* The stored count is at most the streak, but for what a sweep has still  *)
(* to write; an incident it is going to count once more was missed again.  *)
Streaks ==
  /\ \A i \in IncIds : ByScan(i) => streak[i] >= ResolveAfterAbsent
  /\ \A i \in IncIds : incidents[i].status = "open" /\ IsEvent(incidents[i].key) => incidents[i].absent = 0
  /\ \A p \in Calls, i \in IncIds :
       /\ incidents[i].status = "open" /\ ~Awaits(call[p], i) => incidents[i].absent <= streak[i]
       /\ Awaits(call[p], i) /\ incidents[i].key \notin call[p].present =>
            incidents[i].absent < streak[i] \/ streak[i] >= ResolveAfterAbsent

LEMMA StreakTypes ==
  ASSUME IInv, NEW i \in IncIds
  PROVE  /\ streak[i] \in Nat /\ incidents[i].absent \in Nat /\ ResolveAfterAbsent \in Nat \ {0}
         /\ streak[i] <= ResolveAfterAbsent /\ incidents[i].absent <= ResolveAfterAbsent
BY Facts, DetectorAssumption DEF IInv, TypeOK, Counter, Incident

(* One goroutine: its step decides. *)
LEMMA StreaksBy ==
  ASSUME Sequential, NEW p \in Calls,
         \A i \in IncIds :
           /\ ByScan(i)' => streak'[i] >= ResolveAfterAbsent
           /\ incidents'[i].status = "open" /\ IsEvent(incidents'[i].key) => incidents'[i].absent = 0
           /\ incidents'[i].status = "open" /\ ~Awaits(call'[p], i) => incidents'[i].absent <= streak'[i]
           /\ Awaits(call'[p], i) /\ incidents'[i].key \notin call'[p].present =>
                incidents'[i].absent < streak'[i] \/ streak'[i] >= ResolveAfterAbsent
  PROVE  Streaks'
BY DEF Streaks, Sequential, ByScan

LEMMA ReadCounts ==
  ASSUME Sequential, SerialInv, Streaks, NEW p \in Calls, Reconcile(p) \/ OpenFor(p) \/ ReconcileStore(p)
  PROVE  Streaks'
<1>1. /\ call[p].op = "idle" /\ UNCHANGED incidents
      /\ call'[p].todo \in SUBSET Open(incidents)
      /\ \A i \in call'[p].todo : call'[p].op \in Sweeping
      /\ \/ call'[p].todo = {} /\ UNCHANGED streak
         \/ \E present, findings, cov, T : Counted(call'[p], present, findings, cov, T)
  BY ReadsAre DEF SerialInv
<1>2. \A i \in IncIds :
        /\ incidents[i].status = "open" => incidents[i].absent <= streak[i]
        /\ ByScan(i) => streak[i] >= ResolveAfterAbsent
        /\ incidents[i].status = "open" /\ IsEvent(incidents[i].key) => incidents[i].absent = 0
  BY <1>1 DEF Streaks, Awaits, Sweeping
<1>3. CASE call'[p].todo = {} /\ UNCHANGED streak
  BY <1>1, <1>2, <1>3, StreaksBy DEF Awaits, ByScan
<1>4. ASSUME NEW present, NEW findings, NEW cov, NEW T, Counted(call'[p], present, findings, cov, T)
      PROVE  Streaks'
  <2>1. /\ Observe(present, findings, cov) /\ T \in ByKey(incidents)
        /\ call'[p].todo = ToSweep(incidents, T, cov, present) /\ (call'[p].todo # {} => call'[p].present = present)
    BY <1>4 DEF Counted
  <2>2. T = Open(incidents)
    <3>1. T \subseteq Open(incidents) /\ \A i \in Open(incidents) : \E j \in T : incidents[j].key = incidents[i].key
      BY <2>1 DEF ByKey, OpenKeys
    <3> QED BY <3>1 DEF SerialInv, Distinct, Open
  <2>3. ASSUME NEW i \in IncIds
        PROVE  /\ ByScan(i)' => streak'[i] >= ResolveAfterAbsent
               /\ incidents'[i].status = "open" /\ IsEvent(incidents'[i].key) => incidents'[i].absent = 0
               /\ incidents'[i].status = "open" /\ ~Awaits(call'[p], i) => incidents'[i].absent <= streak'[i]
               /\ Awaits(call'[p], i) /\ incidents'[i].key \notin call'[p].present =>
                    incidents'[i].absent < streak'[i] \/ streak'[i] >= ResolveAfterAbsent
    <3> DEFINE judged == incidents[i].status = "open" /\ ProducerOf[incidents[i].key] \in cov
               missed == judged /\ incidents[i].key \notin present
    <3>1. streak'[i] = IF missed THEN Bump(streak[i]) ELSE IF judged THEN 0 ELSE streak[i]
      BY <2>1 DEF Observe, Open
    <3>2. /\ streak[i] \in Nat /\ incidents[i].absent \in Nat /\ ResolveAfterAbsent \in Nat \ {0}
          /\ streak[i] <= ResolveAfterAbsent
      BY StreakTypes DEF SerialInv
    <3>3. Bump(streak[i]) \in Nat /\ Bump(streak[i]) >= streak[i]
          /\ (Bump(streak[i]) > streak[i] \/ Bump(streak[i]) >= ResolveAfterAbsent)
      BY <3>2 DEF Bump
    <3>4. i \in call'[p].todo <=> /\ judged /\ ~IsEvent(incidents[i].key)
                                  /\ incidents[i].key \in present => incidents[i].absent # 0
      BY <2>1, <2>2 DEF ToSweep, Open, Covers
    <3>5. Awaits(call'[p], i) <=> i \in call'[p].todo
      BY <1>1 DEF Awaits
    <3>6. ByScan(i)' => streak'[i] >= ResolveAfterAbsent
      BY <1>1, <1>2, <3>1 DEF ByScan
    <3>7. incidents[i].status = "open" /\ i \notin call'[p].todo => incidents[i].absent <= streak'[i]
      <4> SUFFICES ASSUME incidents[i].status = "open", i \notin call'[p].todo
                   PROVE  incidents[i].absent <= streak'[i]
        OBVIOUS
      <4>1. CASE ~judged
        BY <1>2, <3>1, <4>1
      <4>2. CASE missed
        BY <1>2, <3>1, <3>2, <3>3, <3>4, <4>2
      <4>3. CASE judged /\ ~missed
        BY <1>2, <3>1, <3>2, <3>4, <4>3
      <4> QED BY <4>1, <4>2, <4>3
    <3>8. i \in call'[p].todo /\ incidents[i].key \notin call'[p].present =>
            incidents[i].absent < streak'[i] \/ streak'[i] >= ResolveAfterAbsent
      <4> SUFFICES ASSUME i \in call'[p].todo, incidents[i].key \notin call'[p].present
                   PROVE  incidents[i].absent < streak'[i] \/ streak'[i] >= ResolveAfterAbsent
        OBVIOUS
      <4>1. missed
        BY <2>1, <3>4
      <4> QED BY <1>2, <3>1, <3>2, <3>3, <4>1
    <3> HIDE DEF judged, missed
    <3> QED BY <1>1, <1>2, <3>5, <3>6, <3>7, <3>8
  <2> QED BY <2>3, StreaksBy
<1> QED BY <1>1, <1>3, <1>4

(* A call that only lists, or that writes for a person, counts nothing.    *)
LEMMA OthersCount ==
  ASSUME Sequential, SerialInv, Streaks, NEW p \in Calls, call[p].op \notin Sweeping,
         call'[p].op \notin Sweeping \/ call'[p].todo = {}, UNCHANGED streak,
         \A i \in IncIds :
           \/ incidents'[i] = incidents[i]
           \/ /\ incidents'[i].key = incidents[i].key /\ incidents'[i].absent = incidents[i].absent
              /\ \/ incidents'[i].status = incidents[i].status /\ incidents'[i].by = incidents[i].by
                 \/ incidents'[i].status = "resolved" /\ incidents'[i].by = "person"
  PROVE  Streaks'
<1>1. \A i \in IncIds :
        /\ incidents[i].status = "open" => incidents[i].absent <= streak[i]
        /\ ByScan(i) => streak[i] >= ResolveAfterAbsent
        /\ incidents[i].status = "open" /\ IsEvent(incidents[i].key) => incidents[i].absent = 0
  BY DEF Streaks, Awaits
<1>2. \A i \in IncIds : ~Awaits(call'[p], i)
  BY DEF Awaits
<1> QED BY <1>1, <1>2, StreaksBy DEF ByScan

LEMMA NewCounts ==
  ASSUME Sequential, ~StoreFaults, SerialInv, Streaks, NEW p \in Calls, OpenNew(p)
  PROVE  Streaks'
<1>1. PICK k \in call[p].toOpen, i \in IncIds, inc \in Incident :
        /\ incidents[i].status = "none"
        /\ inc.status = "open" /\ inc.key = k /\ inc.absent = 0 /\ inc.by = "nobody"
        /\ Rest(call'[p], call[p])
        /\ PutIncident(i, inc) /\ call'[p].todo = call[p].todo
  BY OpenNewIs DEF SerialInv, PutErr
<1>2. incidents'[i] = inc /\ (\A j \in IncIds \ {i} : incidents'[j] = incidents[j]) /\ UNCHANGED streak
  BY <1>1, OpenNewIs, Facts DEF PutIncident, SerialInv
<1>3. \A j \in IncIds : Awaits(call'[p], j) <=> Awaits(call[p], j)
  BY <1>1 DEF Awaits, Rest
<1>4. ~Awaits(call[p], i)
  BY <1>1 DEF SerialInv, Matches, Awaits
<1>5. \A j \in IncIds : Awaits(call'[p], j) => call'[p].present = call[p].present
  BY <1>1 DEF Awaits, Rest
<1>6. 0 <= streak[i]
  BY StreakTypes DEF SerialInv
<1> QED BY <1>1, <1>2, <1>3, <1>4, <1>5, <1>6, StreaksBy DEF Streaks, ByScan

LEMMA SweepCounts ==
  ASSUME Sequential, ~StoreFaults, SerialInv, Streaks, NEW p \in Calls, Sweep(p)
  PROVE  Streaks'
<1>1. PICK i \in call[p].todo :
        /\ Rest(call'[p], call[p])
        /\ PutIncident(i, Swept(call[p].snap[i], call[p].present)) /\ call'[p].todo = call[p].todo \ {i}
  BY SweepIs DEF SerialInv, PutErr
<1>2. call[p].op \in Sweeping /\ UNCHANGED streak
  BY SweepIs DEF SerialInv
<1>3. i \in IncIds /\ incidents[i] \in Incident
  BY Facts DEF SerialInv, Call
<1>4. call[p].snap[i] = incidents[i] /\ incidents[i].status = "open" /\ ~IsEvent(incidents[i].key)
  <2>1. call[p].snap[i] = incidents[i] /\ incidents[i].status = "open"
    BY <1>2 DEF SerialInv, Matches, Sweeping
  <2>2. ~IsEvent(call[p].snap[i].key)
    BY <1>2, Facts DEF SerialInv, SnapOK
  <2> QED BY <2>1, <2>2
<1> DEFINE s == Swept(incidents[i], call[p].present)
<1>5. /\ s \in Incident /\ s.key = incidents[i].key
      /\ \/ s.status = "open" /\ incidents[i].key \in call[p].present /\ s.absent = 0
         \/ s.status = "open" /\ incidents[i].key \notin call[p].present /\ s.absent = incidents[i].absent + 1
         \/ s.status = "resolved" /\ incidents[i].key \notin call[p].present /\ incidents[i].absent + 1 >= ResolveAfterAbsent
  BY <1>3, <1>4, SweptIs
<1>6. incidents'[i] = s /\ \A j \in IncIds \ {i} : incidents'[j] = incidents[j]
  BY <1>1, <1>3, <1>4, Facts DEF PutIncident, SerialInv
<1> HIDE DEF s
<1>7. ~Awaits(call'[p], i) /\ \A j \in IncIds \ {i} : Awaits(call'[p], j) <=> Awaits(call[p], j)
  BY <1>1 DEF Awaits, Rest
<1>8. \A j \in IncIds : Awaits(call'[p], j) => call'[p].present = call[p].present
  BY <1>1 DEF Awaits, Rest
<1>9. /\ streak[i] \in Nat /\ incidents[i].absent \in Nat /\ ResolveAfterAbsent \in Nat \ {0}
      /\ incidents[i].absent <= ResolveAfterAbsent
  BY <1>3, StreakTypes DEF SerialInv
<1>10. Awaits(call[p], i)
  BY <1>2 DEF Awaits
<1>11. incidents[i].key \notin call[p].present => incidents[i].absent < streak[i] \/ streak[i] >= ResolveAfterAbsent
  BY <1>3, <1>10 DEF Streaks
<1>12. /\ s.status = "open" => s.absent <= streak[i]
       /\ s.status = "resolved" => streak[i] >= ResolveAfterAbsent
  <2>1. s.absent \in Nat /\ s.absent <= ResolveAfterAbsent
    BY <1>5, DetectorAssumption DEF Incident
  <2> QED BY <1>5, <1>9, <1>11, <2>1
<1>13. ASSUME NEW j \in IncIds
       PROVE  /\ ByScan(j)' => streak'[j] >= ResolveAfterAbsent
              /\ incidents'[j].status = "open" /\ IsEvent(incidents'[j].key) => incidents'[j].absent = 0
              /\ incidents'[j].status = "open" /\ ~Awaits(call'[p], j) => incidents'[j].absent <= streak'[j]
              /\ Awaits(call'[p], j) /\ incidents'[j].key \notin call'[p].present =>
                   incidents'[j].absent < streak'[j] \/ streak'[j] >= ResolveAfterAbsent
  <2>1. CASE j = i
    BY <1>2, <1>4, <1>5, <1>6, <1>7, <1>12, <2>1 DEF ByScan
  <2>2. CASE j # i
    BY <1>2, <1>6, <1>7, <1>8, <2>2 DEF Streaks, ByScan
  <2> QED BY <2>1, <2>2
<1> QED BY <1>13, StreaksBy

LEMMA StreakStep ==
  ASSUME Sequential, ~StoreFaults, SerialInv, Streaks, [Next]_vars
  PROVE  Streaks'
<1>1. ASSUME NEW p \in Calls, EscalateOverdue(p) \/ AckRead(p) \/ ResolveRead(p)
      PROVE  Streaks'
  <2>1. UNCHANGED <<incidents, streak>> /\ call[p].op \notin Sweeping /\ call'[p].op \notin Sweeping
    BY <1>1, ListsAre DEF SerialInv, Sweeping
  <2> QED BY <2>1, OthersCount
<1>2. ASSUME NEW p \in Calls, Page(p) \/ AckWrite(p) \/ ResolveWrite(p)
      PROVE  Streaks'
  <2>1. call[p].op \notin Sweeping /\ UNCHANGED streak
    BY <1>2, PersonTurnIs DEF SerialInv
  <2>2. PICK i \in call[p].todo, inc \in Incident :
          /\ Rest(call'[p], call[p]) /\ (PutIncident(i, inc) \/ UNCHANGED incidents)
          /\ inc.key = call[p].snap[i].key /\ inc.absent = call[p].snap[i].absent
          /\ \/ inc.status = call[p].snap[i].status /\ inc.by = call[p].snap[i].by
             \/ inc.status = "resolved" /\ inc.by = "person"
    BY <1>2, PersonTurnIs DEF SerialInv
  <2>3. call[p].snap[i] = incidents[i] /\ i \in IncIds
    BY Facts DEF SerialInv, Matches, Call
  <2>4. call'[p].op \notin Sweeping \/ call'[p].todo = {}
    BY <2>1, <2>2 DEF Rest
  <2>5. \A j \in IncIds : incidents'[j] = incidents[j] \/ (j = i /\ incidents'[j] = inc)
    BY <2>2, <2>3, Facts DEF PutIncident, SerialInv
  <2> QED BY <2>1, <2>2, <2>3, <2>4, <2>5, OthersCount
<1>3. ASSUME NEW p \in Calls, Step(p)
      PROVE  Streaks'
  BY <1>1, <1>2, <1>3, ReadCounts, NewCounts, SweepCounts DEF Step
<1>4. CASE WindowElapses
  <2>1. /\ \A i \in IncIds : /\ incidents'[i].status = incidents[i].status /\ incidents'[i].key = incidents[i].key
                             /\ incidents'[i].by = incidents[i].by /\ incidents'[i].absent = incidents[i].absent
        /\ UNCHANGED streak
        /\ \A q \in Calls : /\ call'[q].todo = call[q].todo /\ call'[q].op = call[q].op /\ call'[q].present = call[q].present
    BY <1>4, WindowIs DEF SerialInv
  <2> QED BY <2>1 DEF Streaks, Awaits, ByScan
<1>5. CASE UNCHANGED vars
  BY <1>5 DEF vars, Streaks, ByScan
<1> QED BY <1>3, <1>4, <1>5 DEF Next

(* The sweep closes an incident only after ResolveAfterAbsent covering     *)
(* passes in a row missed its issue: AbsentPasses starts again whenever    *)
(* such a pass reports it.  Needs every write to land and calls one after  *)
(* another: a reset that is lost leaves the old count in the store.        *)
THEOREM MissesInARow == ASSUME Sequential, ~StoreFaults PROVE Spec => []ConsecutiveMisses
<1>1. Init => SerialInv /\ Streaks
  <2> SUFFICES ASSUME Init PROVE Streaks
    BY SerialInit
  <2>1. \A i \in IncIds : incidents[i].status = "none"
    BY DEF Init, NoSnap, Unopened
  <2>2. \A p \in Calls, i \in IncIds : ~Awaits(call[p], i)
    BY IdleLists DEF Init, Awaits
  <2> QED BY <2>1, <2>2 DEF Streaks, ByScan
<1>2. SerialInv /\ Streaks /\ [Next]_vars => (SerialInv /\ Streaks)'
  BY SerialStep, StreakStep
<1>3. Streaks => ConsecutiveMisses
  BY DEF Streaks, ConsecutiveMisses
<1> QED BY <1>1, <1>2, <1>3, PTL DEF Spec
=============================================================================
