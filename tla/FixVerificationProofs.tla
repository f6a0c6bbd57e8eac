----------------------- MODULE FixVerificationProofs -----------------------
(***************************************************************************)
(* Proofs about FixVerification, for any actions, history length and bars, *)
(* and whatever the re-scans and the exploits report.  The guarantees are  *)
(* those of passes that run one after another (Alone): two passes of one   *)
(* tenant write back the copies they listed and lose each other's verdicts.*)
(***************************************************************************)
EXTENDS FixVerification, FiniteSetTheorems, TLAPS

Alone == \A p, q \in Passes : p = q

-----------------------------------------------------------------------------
(* RecordVerification: a history grows at its end, or becomes full.        *)
Grown(h, g) ==
  \/ Len(g) = MaxHistory
  \/ Len(h) <= Len(g) /\ \A n \in 1..Len(h) : g[n] = h[n]

(* A record is well formed, and its current verdict is its last entry.     *)
Kept(a) ==
  /\ a \in ActionType /\ Len(a.hist) <= MaxHistory
  /\ a.ver # Unverified => a.hist # <<>> /\ a.hist[Len(a.hist)] = a.ver

LEMMA HistoryGrows ==
  ASSUME NEW h \in Seq(FixRecord), Len(h) <= MaxHistory, NEW v \in FixRecord
  PROVE  LET g == IF h # <<>> /\ h[Len(h)] = v THEN h ELSE LastN(Append(h, v), MaxHistory)
         IN  /\ g \in Seq(FixRecord) /\ Len(g) <= MaxHistory /\ g # <<>> /\ g[Len(g)] = v
             /\ Grown(h, g)
<1>1. MaxHistory \in Nat \ {0} /\ Len(h) \in Nat
  BY FixAssumption
<1>2. CASE h # <<>> /\ h[Len(h)] = v
  BY <1>1, <1>2 DEF Grown
<1>3. CASE ~(h # <<>> /\ h[Len(h)] = v)
  <2> DEFINE s == Append(h, v)
  <2>1. /\ s \in Seq(FixRecord) /\ Len(s) = Len(h) + 1 /\ s[Len(h) + 1] = v
        /\ \A n \in 1..Len(h) : s[n] = h[n]
    OBVIOUS
  <2> HIDE DEF s
  <2>2. CASE Len(h) < MaxHistory
    <3>1. LastN(s, MaxHistory) = s
      BY <1>1, <2>1, <2>2 DEF LastN
    <3>2. s # <<>> /\ Len(s) <= MaxHistory
      BY <1>1, <2>1, <2>2
    <3> QED BY <1>1, <1>3, <2>1, <3>1, <3>2 DEF Grown, s
  <2>3. CASE Len(h) = MaxHistory
    <3> DEFINE g == SubSeq(s, 2, MaxHistory + 1)
    <3>1. Len(s) = MaxHistory + 1 /\ Len(s) - MaxHistory + 1 = 2 /\ Len(s) > MaxHistory
      BY <1>1, <2>1, <2>3
    <3>2. LastN(s, MaxHistory) = g
      BY <3>1 DEF LastN
    <3>3. g \in Seq(FixRecord) /\ Len(g) = MaxHistory
      BY <1>1, <2>1, <3>1
    <3>4. g[MaxHistory] = s[MaxHistory + 1]
      BY <1>1, <2>1, <3>1
    <3>5. g[Len(g)] = v /\ g # <<>>
      BY <1>1, <2>1, <2>3, <3>3, <3>4
    <3> HIDE DEF g
    <3>6. (IF h # <<>> /\ h[Len(h)] = v THEN h ELSE LastN(Append(h, v), MaxHistory)) = g
      BY <1>3, <3>2 DEF s
    <3> QED BY <1>1, <2>3, <3>3, <3>5, <3>6 DEF Grown
  <2> QED BY <1>1, <2>2, <2>3
<1> QED BY <1>2, <1>3

LEMMA Recording ==
  ASSUME NEW a, Kept(a), NEW v \in FixRecord
  PROVE  /\ Kept(RecordVerification(a, v))
         /\ RecordVerification(a, v).ver = v
         /\ RecordVerification(a, v).applied = a.applied
         /\ Grown(a.hist, RecordVerification(a, v).hist)
<1> DEFINE g == IF a.hist # <<>> /\ a.hist[Len(a.hist)] = v THEN a.hist
                ELSE LastN(Append(a.hist, v), MaxHistory)
           b1 == [a EXCEPT !.ver = v]
           b == [b1 EXCEPT !.hist = g]
<1>1. a \in ActionType /\ a.hist \in Seq(FixRecord) /\ Len(a.hist) <= MaxHistory
  BY DEF Kept, ActionType
<1>2. /\ g \in Seq(FixRecord) /\ Len(g) <= MaxHistory /\ g # <<>> /\ g[Len(g)] = v
      /\ Grown(a.hist, g)
  BY <1>1, HistoryGrows
<1>3. b1 \in ActionType /\ b1.ver = v /\ b1.applied = a.applied /\ b1.hist = a.hist
  BY <1>1 DEF ActionType
<1> HIDE DEF g
<1>4. RecordVerification(a, v) = b
  <2>1. RecordVerification(a, v) = [b1 EXCEPT !.hist = IF @ # <<>> /\ @[Len(@)] = v THEN @ ELSE LastN(Append(@, v), MaxHistory)]
    BY DEF RecordVerification
  <2>2. b1.hist = a.hist
    BY <1>3
  <2> HIDE DEF b1
  <2> QED BY <2>1, <2>2 DEF g
<1> HIDE DEF b1
<1>5. b \in ActionType /\ b.ver = v /\ b.applied = a.applied /\ b.hist = g
  BY <1>2, <1>3 DEF ActionType
<1> HIDE DEF b
<1> QED BY <1>2, <1>4, <1>5 DEF Kept

-----------------------------------------------------------------------------
(* The pass that runs and the store it copied.  It writes only what is     *)
(* applied, so it un-applies nothing; and whichever of its writes failed,  *)
(* its copies only add to the stored histories.                            *)
Copied ==
  \A p \in Passes : pass[p].pc # "idle" =>
    /\ \A i \in pass[p].todo : pass[p].snap[i].applied
    /\ \A i \in ActionIds : pass[p].snap[i].applied =>
         acts[i].applied /\ Grown(acts[i].hist, pass[p].snap[i].hist)

WellKept ==
  /\ \A i \in ActionIds : Kept(acts[i])
  /\ \A p \in Passes, i \in ActionIds : Kept(pass[p].snap[i])

(* A failure recorded since the grant is in the history of something       *)
(* applied since the grant, or that history is full.                       *)
HasFailed(h) == Len(h) = MaxHistory \/ \E n \in 1..Len(h) : Failed(h[n].status)

Remembered == \A i \in failures : i \in since /\ acts[i].applied /\ HasFailed(acts[i].hist)

(* An exploit that ran is in the store, about to be, or its write failed;  *)
(* without a Reattacker none runs.                                         *)
Exploited ==
  /\ ~Attack => \A i \in ActionIds : attacked[i] = "unverifiable"
  /\ \A p \in Passes : pass[p].pc = "proof" => \A i \in ActionIds :
       attacked[i] = "works" =>
         /\ pass[p].snap[i].applied /\ pass[p].snap[i].ver.status = "still_exploitable"
         /\ i \in pass[p].todo \/ i \in lost \/ acts[i] = pass[p].snap[i]
  /\ (\A p \in Passes : pass[p].pc = "idle") => \A i \in ActionIds \ lost :
       attacked[i] = "works" => acts[i].ver.status = "still_exploitable"

FixInv == TypeOK /\ WellKept /\ Copied /\ Remembered /\ Exploited

LEMMA GrownTwice ==
  ASSUME NEW h \in Seq(FixRecord), NEW g \in Seq(FixRecord), NEW f \in Seq(FixRecord),
         Len(g) <= MaxHistory, Len(f) <= MaxHistory, Grown(h, g), Grown(g, f)
  PROVE  Grown(h, f)
BY FixAssumption DEF Grown

LEMMA Judging ==
  ASSUME NEW a, Kept(a), NEW r \in Scan, NEW d \in BOOLEAN
  PROVE  /\ Kept(Rescanned(a, r, d)) /\ Rescanned(a, r, d).applied = a.applied
         /\ Grown(a.hist, Rescanned(a, r, d).hist)
         /\ Rescanned(a, r, d) # a => a.applied
<1> DEFINE v == [status |-> RescanStatus(r, d), dis |-> "none", said |-> FALSE]
<1>1. v \in FixRecord
  BY DEF RescanStatus, FixRecord, VerStatus, Disagreement
<1>2. Grown(a.hist, a.hist)
  BY DEF Grown, Kept, ActionType
<1>3. Rescanned(a, r, d) = IF Rescannable(a, r) /\ a.ver.status # RescanStatus(r, d) THEN RecordVerification(a, v) ELSE a
  BY DEF Rescanned
<1> HIDE DEF v
<1> QED BY <1>1, <1>2, <1>3, Recording DEF Rescannable

LEMMA Attacking ==
  ASSUME NEW a, Kept(a), NEW v \in Verdict
  PROVE  /\ Kept(Reattacked(a, v)) /\ Reattacked(a, v).applied = a.applied
         /\ Grown(a.hist, Reattacked(a, v).hist)
         /\ v = "works" /\ a.applied => Reattacked(a, v).ver.status = "still_exploitable"
         /\ v = "unverifiable" => Reattacked(a, v) = a
<1> DEFINE said == RescanSaidFixed(a)
           works == [status |-> "still_exploitable", said |-> said,
                     dis |-> IF said THEN "rescan_missed_live_exploit" ELSE "none"]
           gone == [status |-> "closed_with_proof", said |-> said,
                    dis |-> IF said THEN "none" ELSE "scanner_sees_variant"]
<1>1. said \in BOOLEAN
  BY DEF RescanSaidFixed
<1>2. works \in FixRecord /\ gone \in FixRecord /\ works.status = "still_exploitable"
  <2> HIDE DEF said
  <2> QED BY <1>1 DEF FixRecord, VerStatus, Disagreement
<1>3. Grown(a.hist, a.hist)
  BY DEF Grown, Kept, ActionType
<1>4. Reattacked(a, v) = IF ~a.applied \/ v = "unverifiable" THEN a
                         ELSE RecordVerification(a, IF v = "works" THEN works ELSE gone)
  BY DEF Reattacked
<1> HIDE DEF works, gone
<1> QED BY <1>2, <1>3, <1>4, Recording

-----------------------------------------------------------------------------
(* The invariant is kept.                                                  *)
LEMMA FixInvInit == Init => FixInv
<1> SUFFICES ASSUME Init PROVE FixInv
  OBVIOUS
<1>1. Kept(Proposed) /\ Proposed \in ActionType
  BY FixAssumption DEF Proposed, Kept, ActionType, Unverified
<1>2. \A i \in ActionIds : acts[i] = Proposed /\ attacked[i] = "unverifiable"
  BY DEF Init, NoSnap
<1>3. \A p \in Passes : pass[p] = IdlePass
  BY DEF Init
<1>4. NoSnap \in [ActionIds -> ActionType] /\ \A i \in ActionIds : NoSnap[i] = Proposed
  BY <1>1 DEF NoSnap
<1>5. IdlePass \in Pass /\ IdlePass.pc = "idle" /\ IdlePass.snap = NoSnap
  BY <1>4 DEF IdlePass, Pass
<1>6. TypeOK
  <2>1. pass \in [Passes -> Pass]
    BY <1>5 DEF Init
  <2>2. grant \in BOOLEAN
    BY DEF Init
  <2>5. started \in 0..MaxPasses
    BY FixAssumption DEF Init
  <2>3. \A i \in ActionIds : Len(acts[i].hist) <= MaxHistory
    BY <1>1, <1>2 DEF Kept
  <2>4. reported \in [ActionIds -> Scan] /\ attacked \in [ActionIds -> Verdict]
    BY DEF Init, Scan, Verdict
  <2> QED BY <1>4, <2>1, <2>2, <2>3, <2>4, <2>5 DEF Init, TypeOK
<1>7. WellKept
  BY <1>1, <1>2, <1>3, <1>4, <1>5 DEF WellKept
<1>8. Copied /\ Remembered /\ Exploited
  BY <1>2, <1>3, <1>5 DEF Copied, Remembered, Exploited, Init
<1> QED BY <1>6, <1>7, <1>8 DEF FixInv

LEMMA FixInvApply ==
  ASSUME FixInv, NEW i \in ActionIds, Apply(i)
  PROVE  FixInv'
<1>1. TypeOK /\ acts \in [ActionIds -> ActionType] /\ Kept(acts[i]) /\ ~acts[i].applied
  BY DEF FixInv, TypeOK, WellKept, Apply
<1>2. \A j \in ActionIds \ {i} : acts'[j] = acts[j]
  BY <1>1 DEF Apply
<1>3. acts'[i] = [acts[i] EXCEPT !.applied = TRUE]
  BY <1>1 DEF Apply
<1>4. acts'[i] \in ActionType /\ acts'[i].applied /\ acts'[i].ver = acts[i].ver /\ acts'[i].hist = acts[i].hist
  BY <1>1, <1>3 DEF ActionType
<1>5. UNCHANGED <<grant, pass, started, reported, attacked, lost, contra, failures, exploits>> /\ since \subseteq since'
      /\ since' \subseteq ActionIds
  BY <1>1 DEF Apply, TypeOK
<1>6. Kept(acts'[i])
  BY <1>1, <1>4 DEF Kept
<1>7. acts' \in [ActionIds -> ActionType]
  BY <1>1, <1>4 DEF Apply
<1>8. TypeOK'
  BY <1>1, <1>2, <1>4, <1>5, <1>7 DEF TypeOK
<1>9. WellKept'
  BY <1>2, <1>5, <1>6 DEF FixInv, WellKept
<1>10. Copied'
  <2> SUFFICES ASSUME NEW p \in Passes, pass[p].pc # "idle"
               PROVE  /\ \A j \in pass[p].todo : pass[p].snap[j].applied
                      /\ \A j \in ActionIds : pass[p].snap[j].applied =>
                           acts'[j].applied /\ Grown(acts'[j].hist, pass[p].snap[j].hist)
    BY <1>5 DEF Copied
  <2> QED BY <1>2, <1>4 DEF FixInv, Copied
<1>11. Remembered'
  <2> SUFFICES ASSUME NEW j \in failures PROVE j \in since' /\ acts'[j].applied /\ HasFailed(acts'[j].hist)
    BY <1>5 DEF Remembered, HasFailed
  <2>1. j \in since /\ acts[j].applied /\ HasFailed(acts[j].hist) /\ j \in ActionIds
    BY <1>1 DEF FixInv, Remembered, TypeOK
  <2> QED BY <1>1, <1>2, <1>5, <2>1
<1>12. Exploited'
  <2>1. \A j \in ActionIds : acts'[j].ver = acts[j].ver /\ (acts[j].applied => acts'[j] = acts[j])
    BY <1>1, <1>2, <1>4
  <2> QED BY <1>5, <2>1 DEF FixInv, Exploited
<1> QED BY <1>8, <1>9, <1>10, <1>11, <1>12 DEF FixInv

LEMMA FixInvGrant ==
  ASSUME FixInv, SetGrant \/ WithdrawGrant \/ UNCHANGED vars
  PROVE  FixInv'
<1>1. UNCHANGED <<acts, pass, started, reported, attacked, lost, contra>>
  BY DEF SetGrant, WithdrawGrant, vars
<1>2. (failures' = {} /\ exploits' = {} /\ since' = {} /\ grant' \in BOOLEAN) \/ UNCHANGED <<failures, exploits, since, grant>>
  BY DEF SetGrant, WithdrawGrant, vars
<1>3. TypeOK'
  BY <1>1, <1>2 DEF FixInv, TypeOK
<1>4. WellKept' /\ Copied'
  BY <1>1 DEF FixInv, WellKept, Copied
<1>5. Remembered'
  BY <1>1, <1>2 DEF FixInv, Remembered, HasFailed
<1>6. Exploited'
  BY <1>1 DEF FixInv, Exploited
<1> QED BY <1>3, <1>4, <1>5, <1>6 DEF FixInv

LEMMA FixInvRescan ==
  ASSUME FixInv, Alone, NEW p \in Passes, PassRescan(p)
  PROVE  FixInv'
<1>1. TypeOK /\ WellKept /\ pass \in [Passes -> Pass] /\ acts \in [ActionIds -> ActionType]
  BY DEF FixInv, TypeOK
<1>2. UNCHANGED <<acts, grant, since, attacked, lost, contra, failures, exploits>>
      /\ started < MaxPasses /\ started' = started + 1
  BY DEF PassRescan
<1> DEFINE judged(r) == [i \in ActionIds |-> Rescanned(acts[i], r[i], Distrusted(acts))]
           record(r) == [pc |-> "rescan", snap |-> judged(r),
                         todo |-> {i \in ActionIds : judged(r)[i] # acts[i]},
                         news |-> {i \in ActionIds : r[i] # reported[i]},
                         disproved |-> {}]
<1>3. PICK r \in [ActionIds -> Scan] :
        /\ pass' = [pass EXCEPT ![p] = record(r)]
        /\ reported' = [i \in ActionIds |-> IF r[i] = "uncovered" THEN reported[i] ELSE r[i]]
  BY DEF PassRescan
<1> DEFINE snap == judged(r)
<1>4. Distrusted(acts) \in BOOLEAN
  BY DEF Distrusted
<1>5. ASSUME NEW i \in ActionIds
      PROVE  /\ Kept(snap[i]) /\ snap[i].applied = acts[i].applied
             /\ Grown(acts[i].hist, snap[i].hist) /\ (snap[i] # acts[i] => acts[i].applied)
  <2>1. Kept(acts[i]) /\ r[i] \in Scan
    BY <1>1 DEF WellKept
  <2>2. snap[i] = Rescanned(acts[i], r[i], Distrusted(acts))
    OBVIOUS
  <2> HIDE DEF snap
  <2> QED BY <1>4, <2>1, <2>2, Judging
<1>6. pass'[p].pc = "rescan" /\ pass'[p].snap = snap /\ pass'[p].todo = {i \in ActionIds : snap[i] # acts[i]}
      /\ pass'[p].news \subseteq ActionIds /\ pass'[p] = record(r)
  BY <1>1, <1>3
<1>7. snap \in [ActionIds -> ActionType]
  <2>1. snap = [i \in ActionIds |-> snap[i]]
    OBVIOUS
  <2> HIDE DEF snap
  <2> QED BY <1>5, <2>1 DEF Kept
<1>8. pass' \in [Passes -> Pass]
  <2>1. record(r) \in Pass
    BY <1>7 DEF Pass
  <2> HIDE DEF record
  <2> QED BY <1>1, <1>3, <2>1
<1> HIDE DEF judged, record, snap
<1>9. \A q \in Passes : q = p
  BY DEF Alone
<1>10. TypeOK'
  <2>1. reported' \in [ActionIds -> Scan]
    BY <1>1, <1>3 DEF TypeOK
  <2>2. started' \in 0..MaxPasses
    BY <1>1, <1>2, FixAssumption DEF TypeOK
  <2> QED BY <1>1, <1>2, <1>8, <2>1, <2>2 DEF TypeOK
<1>11. WellKept'
  BY <1>1, <1>2, <1>5, <1>6, <1>9 DEF WellKept
<1>12. Copied'
  BY <1>2, <1>5, <1>6, <1>9 DEF Copied
<1>13. Remembered'
  BY <1>2 DEF FixInv, Remembered, HasFailed
<1>14. Exploited'
  <2>1. ~(\A q \in Passes : pass'[q].pc = "idle") /\ ~(\E q \in Passes : pass'[q].pc = "proof")
    BY <1>6, <1>9
  <2> QED BY <1>2, <2>1 DEF FixInv, Exploited
<1> QED BY <1>10, <1>11, <1>12, <1>13, <1>14 DEF FixInv

(* What grew keeps a failure, or is full. *)
LEMMA FailureGrows ==
  ASSUME NEW h \in Seq(FixRecord), NEW g \in Seq(FixRecord), Len(h) <= MaxHistory, Len(g) <= MaxHistory,
         Grown(h, g), HasFailed(h)
  PROVE  HasFailed(g)
BY FixAssumption DEF Grown, HasFailed

LEMMA FixInvStored ==
  ASSUME FixInv, Alone, NEW p \in Passes, PutVerdict(p),
         NEW i \in pass[p].todo, pass' = [pass EXCEPT ![p].todo = @ \ {i}], Stored(p, i)
  PROVE  FixInv'
<1>1. TypeOK /\ WellKept /\ pass \in [Passes -> Pass] /\ acts \in [ActionIds -> ActionType]
  BY DEF FixInv, TypeOK
<1>2. /\ acts' = [acts EXCEPT ![i] = pass[p].snap[i]]
      /\ pass' = [pass EXCEPT ![p].todo = @ \ {i}]
      /\ failures' = IF i \in since /\ Failed(pass[p].snap[i].ver.status) THEN failures \cup {i} ELSE failures
      /\ exploits' = IF i \in since /\ pass[p].snap[i].ver.status = "still_exploitable" THEN exploits \cup {i} ELSE exploits
      /\ contra' = contra \cup ({i} \cap pass[p].disproved)
  BY DEF Stored
<1>3. UNCHANGED <<grant, since, started, reported, attacked, lost>> /\ pass[p].pc \in {"rescan", "proof"}
  BY DEF PutVerdict, Stored
<1>4. \A q \in Passes : q = p
  BY DEF Alone
<1>5. pass[p] \in Pass /\ i \in ActionIds
  BY <1>1 DEF Pass
<1> DEFINE a == pass[p].snap[i]
<1>6. /\ Kept(a) /\ a.applied /\ Grown(acts[i].hist, a.hist) /\ Kept(acts[i])
      /\ a \in ActionType /\ Grown(a.hist, a.hist)
  <2>1. Kept(a) /\ a.applied /\ Grown(acts[i].hist, a.hist) /\ Kept(acts[i]) /\ a \in ActionType
    BY <1>1, <1>3, <1>5 DEF FixInv, Copied, WellKept, Kept
  <2> HIDE DEF a
  <2> QED BY <2>1 DEF Grown, ActionType
<1>7. acts'[i] = a /\ \A j \in ActionIds \ {i} : acts'[j] = acts[j]
  BY <1>1, <1>2, <1>5
<1>8. pass'[p] = [pass[p] EXCEPT !.todo = @ \ {i}]
  BY <1>1, <1>2
<1>9. pass'[p] \in Pass /\ pass'[p].pc = pass[p].pc /\ pass'[p].snap = pass[p].snap /\ pass'[p].todo = pass[p].todo \ {i}
  BY <1>5, <1>8 DEF Pass
<1> HIDE DEF a
<1>10. TypeOK'
  <2>1. acts' \in [ActionIds -> ActionType]
    BY <1>1, <1>2, <1>6 DEF a
  <2>2. pass' \in [Passes -> Pass]
    <3>1. pass' = [q \in Passes |-> pass'[q]]
      BY <1>1, <1>2
    <3> QED BY <1>4, <1>9, <3>1
  <2>3. \A j \in ActionIds : Len(acts'[j].hist) <= MaxHistory
    BY <1>1, <1>6, <1>7 DEF TypeOK, Kept
  <2>4. failures' \subseteq ActionIds /\ exploits' \subseteq ActionIds /\ contra' \subseteq ActionIds
    BY <1>1, <1>2, <1>5 DEF TypeOK
  <2> QED BY <1>1, <1>3, <2>1, <2>2, <2>3, <2>4 DEF TypeOK
<1>11. WellKept'
  BY <1>1, <1>4, <1>6, <1>7, <1>9 DEF WellKept
<1>12. Copied'
  <2> SUFFICES /\ \A j \in pass[p].todo \ {i} : pass[p].snap[j].applied
               /\ \A j \in ActionIds : pass[p].snap[j].applied =>
                    acts'[j].applied /\ Grown(acts'[j].hist, pass[p].snap[j].hist)
    BY <1>4, <1>9 DEF Copied
  <2>1. \A j \in pass[p].todo \ {i} : pass[p].snap[j].applied
    BY <1>3 DEF FixInv, Copied
  <2>2. \A j \in ActionIds : pass[p].snap[j].applied =>
          acts'[j].applied /\ Grown(acts'[j].hist, pass[p].snap[j].hist)
    BY <1>3, <1>6, <1>7 DEF FixInv, Copied, a
  <2> QED BY <2>1, <2>2
<1>13. Remembered'
  <2>1. a.hist \in Seq(FixRecord) /\ acts[i].hist \in Seq(FixRecord)
    BY <1>6 DEF Kept, ActionType
  <2>2. ASSUME i \in since, Failed(a.ver.status) PROVE HasFailed(a.hist)
    <3>1. a.ver # Unverified
      BY <2>2 DEF Failed, Unverified
    <3>2. a.hist # <<>> /\ a.hist[Len(a.hist)] = a.ver
      BY <1>6, <3>1 DEF Kept
    <3>3. Len(a.hist) \in 1..Len(a.hist)
      BY <2>1, <3>2
    <3> QED BY <2>2, <3>2, <3>3 DEF HasFailed
  <2>3. ASSUME NEW j \in failures PROVE j \in since /\ acts'[j].applied /\ HasFailed(acts'[j].hist)
    <3>1. j \in since /\ acts[j].applied /\ HasFailed(acts[j].hist) /\ j \in ActionIds
      BY <1>1 DEF FixInv, Remembered, TypeOK
    <3>2. CASE j # i
      BY <1>7, <3>1, <3>2
    <3>3. CASE j = i
      <4>1. HasFailed(a.hist)
        BY <1>6, <2>1, <3>1, <3>3, FailureGrows DEF Kept
      <4> QED BY <1>6, <1>7, <3>1, <3>3, <4>1
    <3> QED BY <3>2, <3>3
  <2>4. ASSUME NEW j \in failures' PROVE j \in since' /\ acts'[j].applied /\ HasFailed(acts'[j].hist)
    <3>1. CASE j \in failures
      BY <1>3, <2>3, <3>1
    <3>2. CASE j \notin failures
      <4>1. j = i /\ i \in since /\ Failed(a.ver.status)
        BY <1>2, <2>4, <3>2 DEF a
      <4> QED BY <1>3, <1>6, <1>7, <2>2, <4>1
    <3> QED BY <3>1, <3>2
  <2> QED BY <2>4 DEF Remembered, HasFailed
<1>14. Exploited'
  <2>1. ~(\A q \in Passes : pass'[q].pc = "idle")
    BY <1>3, <1>9
  <2>2. ASSUME pass[p].pc = "proof", NEW j \in ActionIds, attacked[j] = "works"
        PROVE  /\ pass[p].snap[j].applied /\ pass[p].snap[j].ver.status = "still_exploitable"
               /\ j \in pass[p].todo \ {i} \/ j \in lost \/ acts'[j] = pass[p].snap[j]
    BY <1>7, <2>2 DEF FixInv, Exploited, a
  <2> QED BY <1>3, <1>4, <1>9, <2>1, <2>2 DEF FixInv, Exploited
<1> QED BY <1>10, <1>11, <1>12, <1>13, <1>14 DEF FixInv

(* A write that failed leaves the store as it was. *)
LEMMA FixInvUnstored ==
  ASSUME FixInv, Alone, NEW p \in Passes, PutVerdict(p),
         NEW i \in pass[p].todo, pass' = [pass EXCEPT ![p].todo = @ \ {i}], Unstored(p, i)
  PROVE  FixInv'
<1>1. TypeOK /\ WellKept /\ pass \in [Passes -> Pass] /\ pass[p] \in Pass /\ i \in ActionIds
  BY DEF FixInv, TypeOK, Pass
<1>2. /\ UNCHANGED <<acts, grant, since, started, reported, attacked, contra, failures, exploits>>
      /\ lost' = (IF pass[p].pc = "proof" THEN lost \cup {i} ELSE lost)
      /\ pass[p].pc \in {"rescan", "proof"}
  BY DEF PutVerdict, Unstored
<1>3. \A q \in Passes : q = p
  BY DEF Alone
<1>4. /\ pass'[p] \in Pass /\ pass'[p].pc = pass[p].pc /\ pass'[p].snap = pass[p].snap
      /\ pass'[p].todo = pass[p].todo \ {i}
  <2>1. pass'[p] = [pass[p] EXCEPT !.todo = @ \ {i}]
    BY <1>1
  <2> QED BY <1>1, <2>1 DEF Pass
<1>5. TypeOK'
  <2>1. pass' \in [Passes -> Pass]
    <3>1. pass' = [q \in Passes |-> pass'[q]]
      BY <1>1
    <3> QED BY <1>3, <1>4, <3>1
  <2>2. lost' \subseteq ActionIds
    BY <1>1, <1>2 DEF TypeOK
  <2> QED BY <1>1, <1>2, <2>1, <2>2 DEF TypeOK
<1>6. WellKept'
  BY <1>1, <1>2, <1>3, <1>4 DEF WellKept
<1>7. Copied'
  BY <1>2, <1>3, <1>4 DEF FixInv, Copied
<1>8. Remembered'
  BY <1>2 DEF FixInv, Remembered, HasFailed
<1>9. Exploited'
  <2>1. ~(\A q \in Passes : pass'[q].pc = "idle")
    BY <1>2, <1>4
  <2>2. ASSUME pass[p].pc = "proof", NEW j \in ActionIds, attacked[j] = "works"
        PROVE  /\ pass[p].snap[j].applied /\ pass[p].snap[j].ver.status = "still_exploitable"
               /\ j \in pass[p].todo \ {i} \/ j \in lost' \/ acts[j] = pass[p].snap[j]
    BY <1>2, <2>2 DEF FixInv, Exploited
  <2> QED BY <1>2, <1>3, <1>4, <2>1, <2>2 DEF FixInv, Exploited
<1> QED BY <1>5, <1>6, <1>7, <1>8, <1>9 DEF FixInv

LEMMA FixInvPut ==
  ASSUME FixInv, Alone, NEW p \in Passes, PutVerdict(p)
  PROVE  FixInv'
<1>1. PICK i \in pass[p].todo :
        pass' = [pass EXCEPT ![p].todo = @ \ {i}] /\ (Stored(p, i) \/ Unstored(p, i))
  BY DEF PutVerdict
<1> QED BY <1>1, FixInvStored, FixInvUnstored

LEMMA FixInvReattack ==
  ASSUME FixInv, Alone, NEW p \in Passes, PassReattack(p)
  PROVE  FixInv'
<1>1. TypeOK /\ WellKept /\ pass \in [Passes -> Pass] /\ pass[p] \in Pass
  BY DEF FixInv, TypeOK
<1>2. UNCHANGED <<acts, grant, since, started, reported, contra, failures, exploits>>
      /\ pass[p].pc = "rescan" /\ pass[p].todo = {} /\ Attack /\ lost' = {}
  BY DEF PassReattack
<1> DEFINE proved(v) == [i \in ActionIds |-> Reattacked(pass[p].snap[i], v[i])]
           record(v) == [pc |-> "proof", snap |-> proved(v),
                         todo |-> {i \in ActionIds : v[i] # "unverifiable"},
                         news |-> pass[p].news \cup {i \in ActionIds : v[i] # attacked[i]},
                         disproved |-> {i \in ActionIds :
                           v[i] = "works" /\ RescanSaidFixed(pass[p].snap[i])}]
<1>3. PICK v \in [ActionIds -> Verdict] :
        /\ \A i \in ActionIds : ~pass[p].snap[i].applied => v[i] = "unverifiable"
        /\ pass' = [pass EXCEPT ![p] = record(v)]
        /\ attacked' = v
  BY DEF PassReattack
<1> DEFINE snap == proved(v)
<1>4. ASSUME NEW i \in ActionIds
      PROVE  /\ Kept(snap[i]) /\ snap[i].applied = pass[p].snap[i].applied
             /\ Grown(pass[p].snap[i].hist, snap[i].hist)
             /\ v[i] = "works" => snap[i].applied /\ snap[i].ver.status = "still_exploitable"
             /\ v[i] = "unverifiable" => snap[i] = pass[p].snap[i]
  <2>1. Kept(pass[p].snap[i]) /\ v[i] \in Verdict
    BY <1>1 DEF WellKept
  <2>2. snap[i] = Reattacked(pass[p].snap[i], v[i])
    OBVIOUS
  <2> HIDE DEF snap
  <2>3. pass[p].snap[i].applied \/ ~pass[p].snap[i].applied
    OBVIOUS
  <2>4. v[i] = "works" => pass[p].snap[i].applied
    BY <1>3
  <2> QED BY <2>1, <2>2, <2>4, Attacking
<1>5. pass'[p].pc = "proof" /\ pass'[p].snap = snap /\ pass'[p].todo = {i \in ActionIds : v[i] # "unverifiable"}
  BY <1>1, <1>3
<1>6. snap \in [ActionIds -> ActionType]
  <2>1. snap = [i \in ActionIds |-> snap[i]]
    OBVIOUS
  <2> HIDE DEF snap
  <2> QED BY <1>4, <2>1 DEF Kept
<1>7. pass' \in [Passes -> Pass]
  <2>1. record(v) \in Pass
    BY <1>1, <1>6 DEF Pass
  <2> HIDE DEF record
  <2> QED BY <1>1, <1>3, <2>1
<1> HIDE DEF proved, record, snap
<1>8. \A q \in Passes : q = p
  BY DEF Alone
(* What the pass copied is applied, and only adds to what is stored.       *)
<1>9. \A i \in ActionIds : pass[p].snap[i].applied =>
        acts[i].applied /\ Grown(acts[i].hist, pass[p].snap[i].hist)
  BY <1>2 DEF FixInv, Copied
<1>10. TypeOK'
  BY <1>1, <1>2, <1>3, <1>7 DEF TypeOK
<1>11. WellKept'
  BY <1>1, <1>2, <1>4, <1>5, <1>8 DEF WellKept
<1>12. Copied'
  <2>1. \A i \in pass'[p].todo : snap[i].applied
    BY <1>3, <1>4, <1>5
  <2>2. ASSUME NEW i \in ActionIds, snap[i].applied
        PROVE  acts[i].applied /\ Grown(acts[i].hist, snap[i].hist)
    <3>1. Kept(acts[i]) /\ Kept(pass[p].snap[i]) /\ Kept(snap[i])
      BY <1>1, <1>4 DEF WellKept
    <3>2. /\ acts[i].hist \in Seq(FixRecord) /\ snap[i].hist \in Seq(FixRecord)
          /\ pass[p].snap[i].hist \in Seq(FixRecord)
          /\ Len(pass[p].snap[i].hist) <= MaxHistory /\ Len(snap[i].hist) <= MaxHistory
      BY <3>1 DEF Kept, ActionType
    <3>3. acts[i].applied /\ Grown(acts[i].hist, pass[p].snap[i].hist) /\ Grown(pass[p].snap[i].hist, snap[i].hist)
      BY <1>4, <1>9, <2>2
    <3> QED BY <3>2, <3>3, GrownTwice
  <2> QED BY <1>2, <1>5, <1>8, <2>1, <2>2 DEF Copied
<1>13. Remembered'
  BY <1>2 DEF FixInv, Remembered, HasFailed
<1>14. Exploited'
  <2>1. \A i \in ActionIds : v[i] = "works" => i \in pass'[p].todo
    BY <1>5
  <2> QED BY <1>2, <1>3, <1>4, <1>5, <1>8, <2>1 DEF Exploited
<1> QED BY <1>10, <1>11, <1>12, <1>13, <1>14 DEF FixInv

LEMMA FixInvEnd ==
  ASSUME FixInv, Alone, NEW p \in Passes, PassEnd(p)
  PROVE  FixInv'
<1>1. TypeOK /\ WellKept /\ pass \in [Passes -> Pass]
  BY DEF FixInv, TypeOK
<1>2. UNCHANGED <<acts, grant, since, started, reported, attacked, lost, contra, failures, exploits>>
      /\ pass[p].pc = (IF Attack THEN "proof" ELSE "rescan") /\ pass[p].todo = {}
      /\ pass' = [pass EXCEPT ![p] = IdlePass]
  BY DEF PassEnd
<1>3. \A q \in Passes : q = p
  BY DEF Alone
<1>4. pass'[p] = IdlePass /\ IdlePass.pc = "idle" /\ IdlePass.snap = NoSnap
  BY <1>1, <1>2 DEF IdlePass
<1>5. Kept(Proposed) /\ \A i \in ActionIds : NoSnap[i] = Proposed
  BY FixAssumption DEF Proposed, Kept, ActionType, Unverified, NoSnap
<1>6. TypeOK'
  <2>1. NoSnap \in [ActionIds -> ActionType]
    BY <1>5 DEF NoSnap, Kept
  <2>2. IdlePass \in Pass
    BY <2>1 DEF IdlePass, Pass
  <2>3. pass' \in [Passes -> Pass]
    BY <1>1, <1>2, <2>2
  <2> QED BY <1>1, <1>2, <2>3 DEF TypeOK
<1>7. WellKept'
  BY <1>1, <1>2, <1>3, <1>4, <1>5 DEF WellKept
<1>8. Copied' /\ Remembered'
  BY <1>2, <1>3, <1>4 DEF FixInv, Copied, Remembered, HasFailed
<1>9. Exploited'
  <2>1. ASSUME NEW i \in ActionIds \ lost, attacked[i] = "works" PROVE acts[i].ver.status = "still_exploitable"
    <3>1. Attack /\ pass[p].pc = "proof"
      BY <1>2, <2>1 DEF FixInv, Exploited
    <3>2. /\ pass[p].snap[i].ver.status = "still_exploitable"
          /\ i \in pass[p].todo \/ i \in lost \/ acts[i] = pass[p].snap[i]
      BY <2>1, <3>1 DEF FixInv, Exploited
    <3> QED BY <1>2, <2>1, <3>2
  <2>2. ~Attack => \A i \in ActionIds : attacked[i] = "unverifiable"
    BY DEF FixInv, Exploited
  <2> QED BY <1>2, <1>3, <1>4, <2>1, <2>2 DEF Exploited
<1> QED BY <1>6, <1>7, <1>8, <1>9 DEF FixInv

LEMMA FixInvariant == ASSUME Alone PROVE Spec => []FixInv
<1>1. FixInv /\ [Next]_vars => FixInv'
  BY FixInvApply, FixInvGrant, FixInvRescan, FixInvPut, FixInvReattack, FixInvEnd DEF Next
<1> QED BY <1>1, FixInvInit, PTL DEF Spec

-----------------------------------------------------------------------------
(* The theorems.                                                           *)

(* The pass and its records keep their types, and RecordVerification keeps *)
(* no history longer than maxVerificationHistory.                          *)
THEOREM FixTypeCorrect == ASSUME Alone PROVE Spec => []TypeOK
<1>1. FixInv => TypeOK
  BY DEF FixInv
<1>2. Spec => []FixInv
  BY FixInvariant
<1> QED BY <1>1, <1>2, PTL

(* autonomy.status, fieldevidence and RecordVerification together: whoever *)
(* re-scans, re-attacks, applies or trims, one failure recorded since the  *)
(* grant keeps it inactive, as long as its action's history is not full.   *)
THEOREM OneFailureEndsIt == ASSUME Alone PROVE Spec => []FailureEndsGrant
<1>1. FixInv => FailureEndsGrant
  <2> SUFFICES ASSUME FixInv, NEW i \in failures, ~Full(i), GrantActive(acts) PROVE FALSE
    BY DEF FailureEndsGrant
  <2>1. i \in since /\ acts[i].applied /\ \E n \in 1..Len(acts[i].hist) : Failed(acts[i].hist[n].status)
    BY DEF FixInv, Remembered, HasFailed, Full
  <2> QED BY <2>1 DEF GrantActive
<1>2. Spec => []FixInv
  BY FixInvariant
<1> QED BY <1>1, <1>2, PTL

(* ApplyReattack after VerifyWithPolicy: between passes, an action whose   *)
(* exploit the last pass ran successfully stands as still_exploitable,     *)
(* whichever writes failed, the one of that verdict excepted.              *)
THEOREM AnExploitBeatsSilence == ASSUME Alone PROVE Spec => []LiveExploitWins
<1>1. FixInv => LiveExploitWins
  BY DEF FixInv, Exploited, LiveExploitWins, Quiet
<1>2. Spec => []FixInv
  BY FixInvariant
<1> QED BY <1>1, <1>2, PTL

(* PutVerdict writes whole records back, yet a verification history is     *)
(* append-only, whichever writes fail: nothing is un-applied, and no entry *)
(* is lost except to a full history, which dropped its oldest.             *)
THEOREM HistoryIsAppendOnly == ASSUME Alone PROVE Spec => AppendOnly
<1> DEFINE Adds == \A i \in ActionIds : /\ acts[i].applied => acts'[i].applied
                                        /\ KeepsEntry(acts[i].hist, acts'[i].hist)
<1>1. ASSUME NEW h \in Seq(FixRecord), NEW g \in Seq(FixRecord), Grown(h, g) PROVE KeepsEntry(h, g)
  <2>1. CASE Len(g) = MaxHistory
    BY <2>1 DEF KeepsEntry
  <2>2. CASE Len(h) <= Len(g) /\ \A n \in 1..Len(h) : g[n] = h[n]
    <3>1. SubSeq(g, 1, Len(h)) = h
      BY <2>2
    <3> QED BY <2>2, <3>1 DEF KeepsEntry
  <2> QED BY <1>1, <2>1, <2>2 DEF Grown
<1>2. ASSUME FixInv, Next PROVE Adds
  <2>1. \A i \in ActionIds : acts[i] \in ActionType /\ acts[i].hist \in Seq(FixRecord)
    BY <1>2 DEF FixInv, WellKept, Kept, ActionType
  <2>2. \A h \in Seq(FixRecord) : Grown(h, h)
    BY DEF Grown
  <2>3. ASSUME NEW i \in ActionIds, NEW j \in ActionIds, Apply(j)
        PROVE  (acts[i].applied => acts'[i].applied) /\ acts'[i].hist = acts[i].hist
    <3>1. acts'[i] = IF i = j THEN [acts[i] EXCEPT !.applied = TRUE] ELSE acts[i]
      BY <1>2, <2>3 DEF Apply, FixInv, TypeOK
    <3> QED BY <2>1, <3>1 DEF ActionType
  <2>4. ASSUME NEW i \in ActionIds, NEW p \in Passes, PutVerdict(p)
        PROVE  (acts[i].applied => acts'[i].applied) /\ acts'[i].hist \in Seq(FixRecord) /\ Grown(acts[i].hist, acts'[i].hist)
    <3>1. PICK j \in pass[p].todo : acts' = [acts EXCEPT ![j] = pass[p].snap[j]] \/ acts' = acts
      BY <2>4 DEF PutVerdict, Stored, Unstored
    <3>2. acts'[i] = (IF i = j THEN pass[p].snap[i] ELSE acts[i]) \/ acts'[i] = acts[i]
      BY <1>2, <3>1 DEF FixInv, TypeOK
    <3>3. pass[p].snap[i].hist \in Seq(FixRecord)
      BY <1>2 DEF FixInv, WellKept, Kept, ActionType
    <3>4. j \in ActionIds => pass[p].snap[j].applied /\ Grown(acts[j].hist, pass[p].snap[j].hist)
      BY <1>2, <2>4, <3>1 DEF FixInv, Copied, PutVerdict
    <3> QED BY <2>1, <2>2, <3>2, <3>3, <3>4
  <2>5. CASE UNCHANGED acts
    BY <1>1, <2>1, <2>2, <2>5
  <2>6. CASE \E j \in ActionIds : Apply(j)
    BY <1>1, <2>1, <2>2, <2>3, <2>6
  <2>7. CASE \E p \in Passes : PutVerdict(p)
    BY <1>1, <2>1, <2>4, <2>7
  <2>8. UNCHANGED acts \/ (\E j \in ActionIds : Apply(j)) \/ (\E p \in Passes : PutVerdict(p))
    BY <1>2 DEF Next, SetGrant, WithdrawGrant, PassRescan, PassReattack, PassEnd
  <2> QED BY <2>5, <2>6, <2>7, <2>8
<1>3. FixInv /\ [Next]_vars => [Adds]_vars
  BY <1>2
<1>4. Spec => []FixInv
  BY FixInvariant
<1> QED BY <1>3, <1>4, PTL DEF Spec, AppendOnly, Adds

-----------------------------------------------------------------------------
(* The field record.  A contradiction the store took is in the history of  *)
(* its action, and one the pass found is in the copy it is to write.       *)
Contradicts(v) == v.said /\ v.dis = "rescan_missed_live_exploit"
Missed(h) == Len(h) = MaxHistory \/ \E n \in 1..Len(h) : Contradicts(h[n])

Noted ==
  /\ \A i \in contra : Missed(acts[i].hist)
  /\ \A p \in Passes : \A i \in pass[p].disproved : Missed(pass[p].snap[i].hist)

LEMMA MissedGrows ==
  ASSUME NEW h \in Seq(FixRecord), NEW g \in Seq(FixRecord), Len(h) <= MaxHistory, Len(g) <= MaxHistory,
         Grown(h, g), Missed(h)
  PROVE  Missed(g)
BY FixAssumption DEF Grown, Missed

(* ApplyReattack records what it disproved. *)
LEMMA DisprovedIsRecorded ==
  ASSUME NEW a, Kept(a), a.applied, RescanSaidFixed(a)
  PROVE  Missed(Reattacked(a, "works").hist)
<1> DEFINE v == [status |-> "still_exploitable", said |-> TRUE, dis |-> "rescan_missed_live_exploit"]
           b == RecordVerification(a, v)
<1>1. v \in FixRecord /\ Contradicts(v) /\ v # Unverified
  BY DEF FixRecord, VerStatus, Disagreement, Contradicts, Unverified
<1>2. RescanSaidFixed(a) = TRUE
  BY DEF RescanSaidFixed
<1>3. Reattacked(a, "works") = b
  BY <1>2 DEF Reattacked
<1>4. Kept(b) /\ b.ver = v
  BY <1>1, Recording
<1> HIDE DEF b
<1>5. b.hist # <<>> /\ b.hist[Len(b.hist)] = v /\ b.hist \in Seq(FixRecord)
  BY <1>1, <1>4 DEF Kept, ActionType
<1>6. Len(b.hist) \in 1..Len(b.hist)
  BY <1>5
<1> QED BY <1>1, <1>3, <1>5, <1>6 DEF Missed

LEMMA NotedStep ==
  ASSUME FixInv, Noted, Alone, [Next]_vars
  PROVE  Noted'
<1>1. /\ acts \in [ActionIds -> ActionType] /\ pass \in [Passes -> Pass] /\ contra \subseteq ActionIds
      /\ \A i \in ActionIds : Kept(acts[i]) /\ acts[i].hist \in Seq(FixRecord)
      /\ \A p \in Passes, i \in ActionIds :
           Kept(pass[p].snap[i]) /\ pass[p].snap[i].hist \in Seq(FixRecord)
  BY DEF FixInv, TypeOK, WellKept, Kept, ActionType
<1>2. CASE UNCHANGED <<acts, pass, contra>>
  BY <1>2 DEF Noted, Missed
<1>3. ASSUME NEW j \in ActionIds, Apply(j) PROVE Noted'
  <2>1. UNCHANGED <<pass, contra>>
    BY <1>3 DEF Apply
  <2>2. ASSUME NEW i \in ActionIds PROVE acts'[i].hist = acts[i].hist
    <3>1. acts[i] \in ActionType /\ acts'[i] = IF i = j THEN [acts[i] EXCEPT !.applied = TRUE] ELSE acts[i]
      BY <1>1, <1>3 DEF Apply
    <3> QED BY <3>1 DEF ActionType
  <2> QED BY <1>1, <2>1, <2>2 DEF Noted, Missed
<1>4. ASSUME NEW p \in Passes, PassRescan(p) \/ PassEnd(p) PROVE Noted'
  <2>1. UNCHANGED <<acts, contra>>
    BY <1>4 DEF PassRescan, PassEnd
  <2>2. pass'[p].disproved = {}
    BY <1>1, <1>4 DEF PassRescan, PassEnd, IdlePass
  <2> QED BY <2>1, <2>2 DEF Alone, Noted, Missed
<1>5. ASSUME NEW p \in Passes, PutVerdict(p) PROVE Noted'
  <2>1. PICK j \in pass[p].todo :
          pass' = [pass EXCEPT ![p].todo = @ \ {j}] /\ (Stored(p, j) \/ Unstored(p, j))
    BY <1>5 DEF PutVerdict
  <2>2. pass[p].pc # "idle" /\ j \in ActionIds /\ pass[p] \in Pass
    BY <1>1, <1>5 DEF PutVerdict, Pass
  <2>3. pass'[p].snap = pass[p].snap /\ pass'[p].disproved = pass[p].disproved
    BY <1>1, <2>1, <2>2 DEF Pass
  <2>4. \A i \in pass'[p].disproved : Missed(pass'[p].snap[i].hist)
    BY <2>3 DEF Noted
  <2>5. CASE Unstored(p, j)
    BY <2>4, <2>5 DEF Unstored, Alone, Noted, Missed
  <2>6. CASE Stored(p, j)
    <3>1. contra' = contra \cup ({j} \cap pass[p].disproved)
          /\ acts'[j] = pass[p].snap[j] /\ \A i \in ActionIds \ {j} : acts'[i] = acts[i]
      BY <1>1, <2>2, <2>6 DEF Stored
    <3>2. Missed(acts[j].hist) => Missed(pass[p].snap[j].hist)
      <4>1. pass[p].snap[j].applied => Grown(acts[j].hist, pass[p].snap[j].hist)
        BY <2>2 DEF FixInv, Copied
      <4>2. pass[p].snap[j].applied
        BY <2>1, <2>2 DEF FixInv, Copied
      <4> QED BY <1>1, <2>2, <4>1, <4>2, MissedGrows DEF Kept
    <3>3. ASSUME NEW i \in contra' PROVE Missed(acts'[i].hist)
      <4>1. CASE i = j
        BY <3>1, <3>2, <3>3, <4>1 DEF Noted
      <4>2. CASE i # j
        BY <1>1, <3>1, <3>3, <4>2 DEF Noted
      <4> QED BY <4>1, <4>2
    <3> QED BY <2>4, <3>3 DEF Alone, Noted, Missed
  <2> QED BY <2>1, <2>5, <2>6
<1>6. ASSUME NEW p \in Passes, PassReattack(p) PROVE Noted'
  <2>1. PICK v \in [ActionIds -> Verdict] :
          /\ \A i \in ActionIds : ~pass[p].snap[i].applied => v[i] = "unverifiable"
          /\ pass'[p] = [pc |-> "proof",
                         snap |-> [i \in ActionIds |-> Reattacked(pass[p].snap[i], v[i])],
                         todo |-> {i \in ActionIds : v[i] # "unverifiable"},
                         news |-> pass[p].news \cup {i \in ActionIds : v[i] # attacked[i]},
                         disproved |-> {i \in ActionIds :
                           v[i] = "works" /\ RescanSaidFixed(pass[p].snap[i])}]
    BY <1>1, <1>6 DEF PassReattack
  <2>2. acts' = acts /\ contra' = contra
    BY <1>6 DEF PassReattack
  <2>3. ASSUME NEW i \in pass'[p].disproved PROVE Missed(pass'[p].snap[i].hist)
    <3>1. i \in ActionIds /\ v[i] = "works" /\ RescanSaidFixed(pass[p].snap[i])
      BY <2>1, <2>3
    <3>2. pass[p].snap[i].applied /\ Kept(pass[p].snap[i])
      BY <1>1, <2>1, <3>1
    <3>3. Missed(Reattacked(pass[p].snap[i], "works").hist)
      BY <3>1, <3>2, DisprovedIsRecorded
    <3>4. pass'[p].snap[i] = Reattacked(pass[p].snap[i], "works")
      BY <2>1, <3>1
    <3> QED BY <3>3, <3>4
  <2> QED BY <2>2, <2>3 DEF Alone, Noted, Missed
<1> QED BY <1>2, <1>3, <1>4, <1>5, <1>6 DEF Next, SetGrant, WithdrawGrant, vars

(* fieldevidence: the record is comparable when, at a time a contradiction *)
(* is on it and no pass is under way, it has the floor of labelled         *)
(* examples and at most ten of them, of which one is a tenth.              *)
Comparable ==
  Quiet /\ (\E i \in contra : ~Full(i)) =>
    LET clean == Labelled(acts, FALSE)
    IN  IsFiniteSet(clean) /\ Cardinality(clean) \in MinObservations..10

(* It always is when the floor is one and there is no room for more.       *)
FewLabelled == /\ IsFiniteSet(ActionIds) /\ Cardinality(ActionIds) * MaxHistory <= 10
               /\ MinObservations = 1

LEMMA ContradictionsAreLabelled ==
  ASSUME FixInv, NEW i \in ActionIds, NEW n \in 1..Len(acts[i].hist), Contradicts(acts[i].hist[n])
  PROVE  <<i, n>> \in Labelled(acts, TRUE) /\ Labelled(acts, TRUE) \subseteq Labelled(acts, FALSE)
<1>1. Len(acts[i].hist) \in Nat /\ Len(acts[i].hist) <= MaxHistory /\ MaxHistory \in Nat
  BY FixAssumption DEF FixInv, WellKept, Kept, ActionType
<1>2. n \in 1..MaxHistory /\ n <= Len(acts[i].hist)
  BY <1>1
<1>3. <<i, n>> \in Labelled(acts, TRUE)
  BY <1>2 DEF Labelled, Contradicts
<1>4. Labelled(acts, TRUE) \subseteq Labelled(acts, FALSE)
  BY DEF Labelled
<1> QED BY <1>3, <1>4

LEMMA FewAreComparable ==
  ASSUME FewLabelled, FixInv, Noted
  PROVE  Comparable
<1> SUFFICES ASSUME Quiet, NEW i \in contra, ~Full(i)
             PROVE  /\ IsFiniteSet(Labelled(acts, FALSE))
                    /\ Cardinality(Labelled(acts, FALSE)) \in 1..10
  BY DEF Comparable, FewLabelled
<1> DEFINE all == ActionIds \X (1..MaxHistory)
           clean == Labelled(acts, FALSE)
<1>1. MaxHistory \in Nat /\ IsFiniteSet(ActionIds) /\ Cardinality(ActionIds) * MaxHistory <= 10
  BY FixAssumption DEF FewLabelled
<1>2. IsFiniteSet(1..MaxHistory) /\ Cardinality(1..MaxHistory) = MaxHistory
  BY <1>1, FS_Interval
<1>3. IsFiniteSet(all) /\ Cardinality(all) <= 10
  BY <1>1, <1>2, FS_Product
<1>4. clean \subseteq all
  BY DEF Labelled
<1>5. clean # {}
  <2>1. i \in ActionIds
    BY DEF FixInv, TypeOK
  <2>2. Missed(acts[i].hist) /\ Len(acts[i].hist) # MaxHistory
    BY DEF Noted, Quiet, Full
  <2>3. PICK n \in 1..Len(acts[i].hist) : Contradicts(acts[i].hist[n])
    BY <2>2 DEF Missed
  <2>4. <<i, n>> \in clean
    BY <2>1, <2>3, ContradictionsAreLabelled
  <2> QED BY <2>4
<1> HIDE DEF all, clean
<1>6. IsFiniteSet(clean) /\ Cardinality(clean) <= Cardinality(all)
  BY <1>3, <1>4, FS_Subset
<1>7. Cardinality(all) \in Nat /\ Cardinality(clean) \in Nat /\ Cardinality(clean) # 0
  BY <1>3, <1>5, <1>6, FS_CardinalityType, FS_EmptySet
<1>8. Cardinality(clean) \in 1..10
  BY <1>3, <1>6, <1>7
<1> QED BY <1>6, <1>8 DEF clean

LEMMA OneContradictionDistrusts ==
  ASSUME FixInv, NEW i \in ActionIds, NEW n \in 1..Len(acts[i].hist), Contradicts(acts[i].hist[n]),
         IsFiniteSet(Labelled(acts, FALSE)), Cardinality(Labelled(acts, FALSE)) \in MinObservations..10
  PROVE  Distrusted(acts) = TRUE
<1> DEFINE clean == Labelled(acts, FALSE)
           wrong == Labelled(acts, TRUE)
<1>1. <<i, n>> \in wrong /\ wrong \subseteq clean
  BY ContradictionsAreLabelled
<1>2. MinObservations \in Nat
  BY FixAssumption
<1>3. IsFiniteSet(clean) /\ Cardinality(clean) \in MinObservations..10
  OBVIOUS
<1> HIDE DEF clean, wrong
<1>4. IsFiniteSet(wrong)
  BY <1>1, <1>3, FS_Subset
<1>5. Cardinality(wrong) \in Nat /\ Cardinality(wrong) # 0
  BY <1>1, <1>4, FS_CardinalityType, FS_EmptySet
<1>6. Cardinality(clean) >= MinObservations /\ 10 * Cardinality(wrong) >= Cardinality(clean)
  BY <1>2, <1>3, <1>5
<1> QED BY <1>6 DEF Distrusted, clean, wrong

(* Under a distrusted record no pass starts out confirming a fix. *)
LEMMA DistrustWithholds ==
  ASSUME FixInv, Alone, NEW p \in Passes, PassRescan(p), Distrusted(acts) = TRUE,
         NEW i \in pass'[p].todo
  PROVE  pass'[p].snap[i].ver.status # "fixed"
<1> DEFINE judged(r) == [j \in ActionIds |-> Rescanned(acts[j], r[j], Distrusted(acts))]
           record(r) == [pc |-> "rescan", snap |-> judged(r),
                         todo |-> {j \in ActionIds : judged(r)[j] # acts[j]},
                         news |-> {j \in ActionIds : r[j] # reported[j]},
                         disproved |-> {}]
<1>0. PICK r \in [ActionIds -> Scan] : pass' = [pass EXCEPT ![p] = record(r)]
  BY DEF PassRescan
<1>1. /\ i \in ActionIds /\ judged(r)[i] # acts[i] /\ judged(r)[i] = Rescanned(acts[i], r[i], Distrusted(acts))
      /\ pass'[p].snap[i] = judged(r)[i]
  <2>1. pass'[p].snap = judged(r) /\ pass'[p].todo = {j \in ActionIds : judged(r)[j] # acts[j]}
    BY <1>0 DEF FixInv, TypeOK
  <2>2. \A j \in ActionIds : judged(r)[j] = Rescanned(acts[j], r[j], Distrusted(acts))
    OBVIOUS
  <2> HIDE DEF judged
  <2> QED BY <2>1, <2>2
<1> HIDE DEF judged, record
<1>2. /\ i \in ActionIds /\ Kept(acts[i])
      /\ Rescanned(acts[i], r[i], TRUE) # acts[i] /\ pass'[p].snap[i] = Rescanned(acts[i], r[i], TRUE)
  <2>1. Rescanned(acts[i], r[i], Distrusted(acts)) = Rescanned(acts[i], r[i], TRUE)
    BY Zenon
  <2> QED BY <1>1, <2>1 DEF FixInv, WellKept
<1> DEFINE v == [status |-> RescanStatus(r[i], TRUE), dis |-> "none", said |-> FALSE]
<1>3. v \in FixRecord /\ v.status # "fixed"
  BY DEF RescanStatus, FixRecord, VerStatus, Disagreement
<1>4. Rescanned(acts[i], r[i], TRUE) = RecordVerification(acts[i], v)
  BY <1>2 DEF Rescanned
<1> HIDE DEF v
<1>5. Rescanned(acts[i], r[i], TRUE).ver = v
  <2>1. RecordVerification(acts[i], v).ver = v
    BY <1>2, <1>3, Recording
  <2> QED BY <1>4, <2>1
<1> QED BY <1>2, <1>3, <1>5

(* fieldevidence and VerifyWithPolicy together: once a live exploit has    *)
(* disproved a clean re-scan and the store took that verdict, no later     *)
(* pass confirms a fix on a re-scan alone, through any number of clean     *)
(* verdicts and of writes that fail, as long as the record stays           *)
(* comparable: below the floor, or outvoted ten to one, the code trusts    *)
(* the re-scan by design.                                                  *)
THEOREM ContradictionLasts ==
  ASSUME Alone
  PROVE  Spec /\ []Comparable => ContradictedNotConfirmed
<1> DEFINE Withheld == Quiet /\ ~Quiet' /\ (\E i \in contra : ~Full(i)) =>
             \A p \in Passes : \A i \in pass'[p].todo : pass'[p].snap[i].ver.status # "fixed"
<1>1. Init => Noted
  BY DEF Init, Noted, IdlePass
<1>2. FixInv /\ Noted /\ [Next]_vars => Noted'
  BY NotedStep
<1>3. ASSUME FixInv, Noted, Comparable, Next, Quiet, ~Quiet', NEW i \in contra, ~Full(i),
             NEW p \in Passes, NEW j \in pass'[p].todo
      PROVE  pass'[p].snap[j].ver.status # "fixed"
  <2>1. i \in ActionIds
    BY <1>3 DEF FixInv, TypeOK
  <2>2. Missed(acts[i].hist) /\ Len(acts[i].hist) # MaxHistory
    BY <1>3 DEF Noted, Quiet, Full
  <2>3. /\ IsFiniteSet(Labelled(acts, FALSE))
        /\ Cardinality(Labelled(acts, FALSE)) \in MinObservations..10
    BY <1>3 DEF Comparable
  <2>4. Distrusted(acts) = TRUE
    BY <1>3, <2>1, <2>2, <2>3, OneContradictionDistrusts DEF Missed
  <2>5. PassRescan(p)
    <3>1. \E q \in Passes : PassRescan(q)
      BY <1>3 DEF Next, Quiet, SetGrant, WithdrawGrant, Apply, PutVerdict, PassReattack, PassEnd
    <3> QED BY <3>1 DEF Alone
  <2> QED BY <1>3, <2>4, <2>5, DistrustWithholds
<1>4. FixInv /\ Noted /\ Comparable /\ [Next]_vars => [Withheld]_vars
  BY <1>3
<1>5. Spec => []FixInv
  BY FixInvariant
<1> QED BY <1>1, <1>2, <1>4, <1>5, PTL DEF Spec, ContradictedNotConfirmed, Withheld

(* Where there is no room for more than ten examples and one is enough,    *)
(* the record is comparable throughout and nothing is left to assume.      *)
THEOREM ContradictionLastsAmongFew ==
  ASSUME Alone, FewLabelled
  PROVE  Spec => ContradictedNotConfirmed
<1>1. Init => Noted
  BY DEF Init, Noted, IdlePass
<1>2. FixInv /\ Noted /\ [Next]_vars => Noted'
  BY NotedStep
<1>3. FixInv /\ Noted => Comparable
  BY FewAreComparable
<1>4. Spec => []FixInv
  BY FixInvariant
<1>5. Spec => []Comparable
  BY <1>1, <1>2, <1>3, <1>4, PTL DEF Spec
<1> QED BY <1>5, ContradictionLasts, PTL
=============================================================================
