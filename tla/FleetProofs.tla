---------------------------- MODULE FleetProofs ----------------------------
(* Theorems about the fleet coordinator, for any plan, any number of       *)
(* workers and any envelope.                                               *)
EXTENDS Fleet, FiniteSetTheorems, WellFoundedInduction, TLAPS

-----------------------------------------------------------------------------
(* Recursive functions over 0..n: induction for a set of numbers, from the *)
(* well-foundedness of < on Nat.                                           *)

LEMMA NatSetInduction ==
  ASSUME NEW S, 0 \in S, \A n \in Nat : n \in S => n + 1 \in S
  PROVE  Nat \subseteq S
<1> SUFFICES ASSUME Nat \ S # {} PROVE FALSE
  OBVIOUS
<1> DEFINE T == Nat \ S
           R == OpToRel(<, Nat)
<1>1. T \subseteq Nat /\ T # {}
  OBVIOUS
<1>2. PICK x \in T : \A y \in T : ~ (<<y, x>> \in R)
  <2> HIDE DEF T
  <2> QED BY <1>1, NatLessThanWellFounded, WFMin
<1>3. x \in Nat \ {0} /\ x - 1 \in Nat /\ x - 1 < x
  OBVIOUS
<1>4. <<x - 1, x>> \in R
  BY <1>3 DEF OpToRel
<1>5. x - 1 \in S
  BY <1>2, <1>3, <1>4
<1>6. (x - 1) + 1 \in S
  BY <1>3, <1>5
<1> QED BY <1>3, <1>6

(* A set of numbers with an element has a least one. *)
LEMMA LeastNumber ==
  ASSUME NEW N \in SUBSET Nat, N # {}
  PROVE  \E w \in N : \A v \in N : w <= v
<1> DEFINE R == OpToRel(<, Nat)
<1>1. PICK w \in N : \A v \in N : ~ (<<v, w>> \in R)
  <2> HIDE DEF R
  <2>1. IsWellFoundedOn(R, Nat)
    BY NatLessThanWellFounded DEF R
  <2> QED BY <2>1, WFMin
<1>2. ASSUME NEW v \in N, v < w PROVE FALSE
  <2>1. v \in Nat /\ w \in Nat
    OBVIOUS
  <2>2. <<v, w>> \in R
    BY <2>1, <1>2 DEF OpToRel
  <2> QED BY <1>1, <2>2
<1>3. \A v \in N : w <= v
  BY <1>2
<1> QED BY <1>3

-----------------------------------------------------------------------------
(* PartitionWaves: every chunk is in a wave, no wave has two chunks of one *)
(* route.                                                                  *)

(* ws holds the first n chunks, in waves a worker each can run at once.    *)
Partition(ws, n) ==
  /\ ws \in Seq(SUBSET Chunks)
  /\ Len(ws) <= n
  /\ UNION {ws[w] : w \in DOMAIN ws} = 1..n
  /\ \A w \in DOMAIN ws : \A a, b \in ws[w] : a # b => ~Excluded(a, b)

(* Place adds one chunk and keeps the routes of a wave apart.              *)
LEMMA PlacePartition ==
  ASSUME NEW ws, NEW n \in Nat, n + 1 \in Chunks, Partition(ws, n)
  PROVE  Partition(Place(ws, n + 1), n + 1)
<1> DEFINE c == n + 1
           fits == {w \in DOMAIN ws : \A m \in ws[w] : ~Excluded(m, c)}
<1>1. CASE fits = {}
  <2>1. Place(ws, c) = Append(ws, {c})
    BY <1>1 DEF Place
  <2>2. Append(ws, {c}) \in Seq(SUBSET Chunks) /\ Len(Append(ws, {c})) <= c
    BY DEF Partition
  <2>3. /\ DOMAIN Append(ws, {c}) = DOMAIN ws \cup {Len(ws) + 1}
        /\ \A w \in DOMAIN ws : Append(ws, {c})[w] = ws[w]
        /\ Append(ws, {c})[Len(ws) + 1] = {c}
    BY DEF Partition
  <2> HIDE DEF fits
  <2>4. UNION {Append(ws, {c})[w] : w \in DOMAIN Append(ws, {c})} = 1..c
    <3>1. 1..c = 1..n \cup {c}
      OBVIOUS
    <3> HIDE DEF c
    <3> QED BY <2>3, <3>1 DEF Partition
  <2>5. \A w \in DOMAIN Append(ws, {c}) : \A a, b \in Append(ws, {c})[w] : a # b => ~Excluded(a, b)
    BY <2>3 DEF Partition
  <2> QED BY <2>1, <2>2, <2>4, <2>5 DEF Partition
<1>2. CASE fits # {}
  <2> DEFINE w == CHOOSE u \in fits : \A v \in fits : u <= v
  <2>1. fits \in SUBSET Nat
    BY DEF Partition
  <2>2. w \in fits
    <3> HIDE DEF fits
    <3> QED BY <1>2, <2>1, LeastNumber
  <2>4. w \in DOMAIN ws /\ \A m \in ws[w] : ~Excluded(m, c)
    BY <2>2
  <2> DEFINE q == [ws EXCEPT ![w] = @ \cup {c}]
  <2>3. Place(ws, c) = q
    BY <1>2 DEF Place
  <2> HIDE DEF w, fits
  <2>5. /\ q \in Seq(SUBSET Chunks) /\ Len(q) = Len(ws) /\ DOMAIN q = DOMAIN ws
        /\ q[w] = ws[w] \cup {c}
        /\ \A v \in DOMAIN ws : v # w => q[v] = ws[v]
    BY <2>4 DEF Partition
  <2> HIDE DEF q
  <2>6. Len(q) <= c
    BY <2>5 DEF Partition
  <2>7. UNION {q[v] : v \in DOMAIN q} = 1..c
    <3>1. 1..c = 1..n \cup {c}
      OBVIOUS
    <3> HIDE DEF c
    <3>2. ASSUME NEW v \in DOMAIN ws, NEW m \in q[v] PROVE m \in 1..c
      BY <2>4, <2>5, <3>1 DEF Partition
    <3>3. ASSUME NEW m \in 1..n PROVE \E v \in DOMAIN ws : m \in q[v]
      <4>1. PICK v \in DOMAIN ws : m \in ws[v]
        BY DEF Partition
      <4> QED BY <2>4, <2>5, <4>1
    <3>4. \E v \in DOMAIN ws : c \in q[v]
      BY <2>4, <2>5
    <3> QED BY <2>5, <3>1, <3>2, <3>3, <3>4
  <2>8. \A v \in DOMAIN q : \A a, b \in q[v] : a # b => ~Excluded(a, b)
    <3>1. \A a : Excluded(c, a) <=> Excluded(a, c)
      BY DEF Excluded
    <3>2. \A v \in DOMAIN ws : \A a, b \in ws[v] : a # b => ~Excluded(a, b)
      BY DEF Partition
    <3> HIDE DEF c
    <3>3. ASSUME NEW v \in DOMAIN ws, v # w
          PROVE  \A a, b \in q[v] : a # b => ~Excluded(a, b)
      BY <2>5, <3>2, <3>3
    <3>4. \A a, b \in ws[w] \cup {c} : a # b => ~Excluded(a, b)
      BY <2>4, <3>1, <3>2
    <3> QED BY <2>5, <3>3, <3>4
  <2>9. Partition(q, c)
    BY <2>5, <2>6, <2>7, <2>8 DEF Partition
  <2> QED BY <2>3, <2>9
<1> QED BY <1>1, <1>2

(* The recursive function of PartitionWaves exists: it is built one chunk  *)
(* at a time.                                                              *)
LEMMA PlacedExists ==
  ASSUME NEW L \in Nat
  PROVE  \E f : f = [n \in 0..L |-> IF n = 0 THEN <<>> ELSE Place(f[n - 1], n)]
<1> DEFINE UpTo(m, f) == f = [n \in 0..m |-> IF n = 0 THEN <<>> ELSE Place(f[n - 1], n)]
           S == {m \in Nat : \E f : UpTo(m, f)}
<1>1. 0 \in S
  <2>1. UpTo(0, [n \in 0..0 |-> <<>>])
    OBVIOUS
  <2> QED BY <2>1
<1>2. ASSUME NEW m \in Nat, m \in S PROVE m + 1 \in S
  <2>1. PICK f : UpTo(m, f)
    BY <1>2
  <2> DEFINE g == [n \in 0..m + 1 |-> IF n = m + 1 THEN Place(f[m], m + 1) ELSE f[n]]
             h == [n \in 0..m + 1 |-> IF n = 0 THEN <<>> ELSE Place(g[n - 1], n)]
  <2>2. ASSUME NEW n \in 0..m + 1 PROVE g[n] = h[n]
    <3>1. CASE n = m + 1
      <4>1. n - 1 = m /\ n - 1 \in 0..m + 1 /\ g[n - 1] = f[m]
        BY <3>1
      <4> QED BY <3>1, <4>1
    <3>2. CASE n \in 1..m
      <4>1. n \in 0..m /\ n - 1 \in 0..m /\ n - 1 \in 0..m + 1 /\ n - 1 # m + 1 /\ n # m + 1
        BY <3>2
      <4>2. g[n - 1] = f[n - 1] /\ g[n] = f[n]
        BY <4>1
      <4>3. f[n] = Place(f[n - 1], n)
        BY <2>1, <3>2, <4>1
      <4> QED BY <3>2, <4>1, <4>2, <4>3
    <3>3. CASE n = 0
      BY <2>1, <3>3
    <3> QED BY <3>1, <3>2, <3>3
  <2>3. UpTo(m + 1, g)
    <3>1. g = h
      <4> HIDE DEF g, h
      <4>1. g = [n \in 0..m + 1 |-> g[n]] /\ h = [n \in 0..m + 1 |-> h[n]]
        BY DEF g, h
      <4> QED BY <2>2, <4>1
    <3> QED BY <3>1 DEF h
  <2>4. \E x : UpTo(m + 1, x)
    <3> HIDE DEF UpTo
    <3> QED BY <2>3
  <2> QED BY <2>4
<1>3. L \in S
  <2> HIDE DEF S
  <2> QED BY <1>1, <1>2, NatSetInduction
<1> QED BY <1>3

LEMMA PartitionWavesCorrect ==
  ASSUME Len(plan) \in Nat, Chunks = 1..Len(plan)
  PROVE  Partition(PartitionWaves, Len(plan))
<1> DEFINE L == Len(plan)
           placed == CHOOSE f : f = [n \in 0..L |-> IF n = 0 THEN <<>> ELSE Place(f[n - 1], n)]
<1>1. PartitionWaves = placed[L]
  BY DEF PartitionWaves
<1>2. placed = [n \in 0..L |-> IF n = 0 THEN <<>> ELSE Place(placed[n - 1], n)]
  BY PlacedExists
<1> HIDE DEF placed
<1> DEFINE S == {n \in Nat : n <= L => Partition(placed[n], n)}
<1>3. 0 \in S
  <2>1. placed[0] = <<>>
    BY <1>2
  <2>2. Partition(<<>>, 0)
    BY DEF Partition
  <2> QED BY <2>1, <2>2
<1>4. ASSUME NEW n \in Nat, n \in S PROVE n + 1 \in S
  <2> SUFFICES ASSUME n + 1 <= L PROVE Partition(placed[n + 1], n + 1)
    OBVIOUS
  <2>1. n + 1 \in 0..L /\ n + 1 # 0 /\ (n + 1) - 1 = n /\ n + 1 \in Chunks
    OBVIOUS
  <2>2. placed[n + 1] = Place(placed[n], n + 1)
    BY <1>2, <2>1
  <2>3. Partition(placed[n], n)
    BY <1>4
  <2> QED BY <2>1, <2>2, <2>3, PlacePartition
<1>5. L \in S
  <2> HIDE DEF S
  <2> QED BY <1>3, <1>4, NatSetInduction
<1> QED BY <1>1, <1>5

-----------------------------------------------------------------------------
(* Types, and where goroutines can be in each phase.                       *)

ClassVerdict ==
  [verdict : Verdicts \cup {"none"}, vuln : BOOLEAN, clean : BOOLEAN, looks : Nat]

(* A wave runs chunks of that wave only, gapfill runs its one worker, and  *)
(* between them nobody runs.  A request that was cleared is within its     *)
(* worker's cap.                                                           *)
Shape ==
  /\ view \in [Pairs -> ClassVerdict]
  /\ Partition(waves, Len(plan))
  /\ wi \in 1..Len(waves) + 1
  /\ phase = "wave" => wi <= Len(waves) /\ Ran \subseteq waves[wi]
  /\ phase = "gap" => Ran \subseteq {0}
  /\ phase \notin {"wave", "gap"} => Ran = {}
  /\ \A c \in Ids : worker[c].pc = "cleared" => worker[c].sent < worker[c].cap

FleetInv == TypeOK /\ Shape

LEMMA PlanFacts ==
  ASSUME plan \in Plans
  PROVE  /\ Len(plan) \in Nat /\ Chunks = 1..Len(plan) /\ 0 \notin Chunks
         /\ IsFiniteSet(Ids)
         /\ \A T \in SUBSET Ids : IsFiniteSet(T) /\ Cardinality(T) \in Nat
<1>1. plan \in Seq([tier : Tiers, route : STRING, class : STRING])
  BY FleetAssumption
<1>2. Len(plan) \in Nat /\ Chunks = 1..Len(plan)
  BY <1>1 DEF Chunks
<1>3. IsFiniteSet(Chunks)
  BY <1>2, FS_Interval
<1>4. IsFiniteSet(Ids)
  BY <1>3, FS_AddElement DEF Ids
<1>5. \A T \in SUBSET Ids : IsFiniteSet(T) /\ Cardinality(T) \in Nat
  BY <1>4, FS_Subset, FS_CardinalityType
<1> QED BY <1>2, <1>4, <1>5

LEMMA FleetInvInit == Init => FleetInv
<1> SUFFICES ASSUME Init PROVE FleetInv
  OBVIOUS
<1>1. plan \in Plans /\ waves = PartitionWaves
  BY DEF Init
<1>2. Partition(waves, Len(plan)) /\ Len(plan) \in Nat /\ Chunks = 1..Len(plan)
  BY <1>1, PlanFacts, PartitionWavesCorrect
<1>3. UNION {waves[w] : w \in DOMAIN waves} = Chunks /\ Len(waves) \in Nat
  BY <1>2 DEF Partition
<1>4. Absent \in Worker
  BY FleetAssumption DEF Absent, Worker, NoClaims
<1>5. worker \in [Ids -> Worker] /\ Ran = {} /\ Busy = {}
  BY <1>4 DEF Init, Ran, Busy, Absent
<1>6. Cardinality({c \in Ids : worker[c].pc \in {"run", "cleared", "refused"}}) <= Workers
  <2>1. {c \in Ids : worker[c].pc \in {"run", "cleared", "refused"}} = {}
    BY <1>5 DEF Busy
  <2>2. Cardinality({}) = 0 /\ 0 <= Workers
    BY FS_EmptySet, FleetAssumption
  <2> QED BY <2>1, <2>2, Zenon
<1>7. view \in [Pairs -> ClassVerdict]
  BY DEF Init, ClassVerdict, Unseen
<1>8. TypeOK
  <2>1. wi \in 1..Len(plan) + 1
    BY <1>2 DEF Init
  <2>2. left \in 0..Total /\ sent \in Nat /\ late \in Nat /\ events \in 0..Limit /\ stale \in 0..StaleWaves
    BY FleetAssumption DEF Init
  <2>3. \A p \in Pairs : view[p].verdict \in Verdicts \cup {"none"} /\ view[p].looks \in Nat
    BY <1>7 DEF ClassVerdict
  <2>4. phase \in {"between", "wave", "gapfill", "gap", "judge", "done", "failed"}
    BY DEF Init
  <2>4b. tripped \in BOOLEAN /\ todo \subseteq Pairs
    BY DEF Init
  <2>4c. skipped \subseteq Chunks /\ disclosed \subseteq Chunks /\ reported \subseteq Chunks
    BY DEF Init
  <2>4d. lastVerdicts \in Int
    BY DEF Init
  <2>4a. said \subseteq Pairs \X Verdicts \X Ids
    BY Zenon DEF Init
  <2>5. plan \in Plans /\ UNION {waves[w] : w \in DOMAIN waves} = Chunks /\ worker \in [Ids -> Worker]
    BY <1>1, <1>3, <1>5
  <2> QED BY <1>6, <2>1, <2>2, <2>3, <2>4, <2>4a, <2>4b, <2>4c, <2>4d, <2>5, Zenon DEF TypeOK
<1>9. Shape
  BY <1>2, <1>3, <1>5, <1>7 DEF Init, Shape, Absent
<1> QED BY <1>8, <1>9 DEF FleetInv

(* What a step of a worker, or of the window, leaves to be shown.          *)
LEMMA WorkerShape ==
  ASSUME FleetInv, UNCHANGED <<plan, waves, coord>>,
         worker' \in [Ids -> Worker], Ran' = Ran,
         \A c \in Ids : worker'[c].pc = "cleared" => worker'[c].sent < worker'[c].cap,
         Busy' \subseteq Busy \/ \E c \in Ids : Cardinality(Busy) < Workers /\ Busy' = Busy \cup {c},
         left' \in 0..Total, sent' \in Nat, late' \in Nat, events' \in 0..Limit, tripped' \in BOOLEAN
  PROVE  FleetInv'
<1>1. UNCHANGED <<plan, waves, phase, wi, todo, skipped, disclosed, reported, stale, lastVerdicts, view, said>>
  BY DEF coord
<1>2. Ids' = Ids /\ Chunks' = Chunks
  BY <1>1 DEF Ids, Chunks
<1>3. Cardinality(Busy') <= Workers
  <2>1. plan \in Plans /\ Cardinality(Busy) <= Workers /\ Busy \subseteq Ids
    BY DEF FleetInv, TypeOK, Busy
  <2>2. IsFiniteSet(Busy) /\ Cardinality(Busy) \in Nat
    BY <2>1, PlanFacts
  <2>3. CASE Busy' \subseteq Busy
    <3>1. Cardinality(Busy') \in Nat /\ Cardinality(Busy') <= Cardinality(Busy)
      BY <2>2, <2>3, FS_Subset, FS_CardinalityType
    <3> QED BY <3>1, <2>1, <2>2, FleetAssumption
  <2>4. CASE \E c \in Ids : Cardinality(Busy) < Workers /\ Busy' = Busy \cup {c}
    <3>1. PICK c \in Ids : Cardinality(Busy) < Workers /\ Busy' = Busy \cup {c}
      BY <2>4
    <3>2. Cardinality(Busy') = IF c \in Busy THEN Cardinality(Busy) ELSE Cardinality(Busy) + 1
      BY <2>2, <3>1, FS_AddElement
    <3> QED BY <3>1, <3>2, <2>2, FleetAssumption
  <2> QED BY <2>3, <2>4
<1>4. TypeOK'
  BY <1>1, <1>2, <1>3 DEF FleetInv, TypeOK, Busy
<1>5. Shape'
  BY <1>1, <1>2 DEF FleetInv, Shape, Partition, Excluded
<1> QED BY <1>4, <1>5 DEF FleetInv

LEMMA FleetInvWork ==
  ASSUME FleetInv, NEW c \in Ids, Work(c) \/ Clear(c) \/ Signal(c)
  PROVE  FleetInv' /\ Ran' = Ran /\ UNCHANGED <<plan, waves, coord>>
<1> USE DEF FleetInv
<1>0. /\ worker \in [Ids -> Worker] /\ left \in 0..Total /\ sent \in Nat /\ late \in Nat
      /\ events \in 0..Limit /\ tripped \in BOOLEAN /\ Limit \in Nat \ {0} /\ MaxRequests \in Nat \ {0}
      /\ Total \in Nat
  BY FleetAssumption DEF TypeOK
<1>1. CASE Start(c)
  <2>1. worker' = [worker EXCEPT ![c].pc = "run"] /\ worker[c].pc = "queued" /\ Cardinality(Busy) < Workers
    BY <1>1 DEF Start
  <2>2. worker' \in [Ids -> Worker]
    BY <1>0, <2>1 DEF Worker
  <2>3. UNCHANGED <<plan, waves, coord, left, events, tripped, sent, late>> /\ Ids' = Ids
    BY <1>1 DEF Start, Ids, Chunks
  <2>4. Ran' = Ran /\ Busy' = Busy \cup {c}
    BY <1>0, <2>1, <2>3 DEF Ran, Busy, Worker
  <2>5. \A d \in Ids : worker'[d].pc = "cleared" => worker'[d].sent < worker'[d].cap
    BY <1>0, <2>1 DEF Shape
  <2> QED BY <1>0, <2>1, <2>2, <2>3, <2>4, <2>5, WorkerShape
<1>2. CASE Clear(c)
  <2>1. worker' = [worker EXCEPT ![c].pc = "cleared"] /\ worker[c].pc = "run"
    BY <1>2 DEF Clear
  <2>2. worker' \in [Ids -> Worker]
    BY <1>0, <2>1 DEF Worker
  <2>3. UNCHANGED <<plan, waves, coord, left, events, tripped, sent, late>> /\ Ids' = Ids
    BY <1>2 DEF Clear, Ids, Chunks
  <2>4. Ran' = Ran /\ Busy' = Busy
    BY <1>0, <2>1, <2>3 DEF Ran, Busy, Worker
  <2>5. \A d \in Ids : worker'[d].pc = "cleared" => worker'[d].sent < worker'[d].cap
    BY <1>0, <1>2, <2>1 DEF Shape, Clear
  <2> QED BY <1>0, <2>2, <2>3, <2>4, <2>5, WorkerShape
<1>3. CASE Refuse(c)
  <2>1. worker' = [worker EXCEPT ![c].pc = "refused"] /\ worker[c].pc = "cleared"
    BY <1>3 DEF Refuse
  <2>2. worker' \in [Ids -> Worker]
    BY <1>0, <2>1 DEF Worker
  <2>3. UNCHANGED <<plan, waves, coord, left, events, tripped, sent, late>> /\ Ids' = Ids
    BY <1>3 DEF Refuse, Ids, Chunks
  <2>4. Ran' = Ran /\ Busy' = Busy
    BY <1>0, <2>1, <2>3 DEF Ran, Busy, Worker
  <2>5. \A d \in Ids : worker'[d].pc = "cleared" => worker'[d].sent < worker'[d].cap
    BY <1>0, <2>1 DEF Shape
  <2> QED BY <1>0, <2>2, <2>3, <2>4, <2>5, WorkerShape
<1>4. CASE Signal(c)
  <2>1. UNCHANGED <<plan, waves, coord, worker, left, sent, late>> /\ Ids' = Ids
    BY <1>4 DEF Signal, Ids, Chunks
  <2>2. events' \in 0..Limit /\ tripped' \in BOOLEAN
    BY <1>0, <1>4 DEF Signal, Record
  <2>3. Ran' = Ran /\ Busy' = Busy
    BY <2>1 DEF Ran, Busy
  <2>4. \A d \in Ids : worker'[d].pc = "cleared" => worker'[d].sent < worker'[d].cap
    BY <2>1 DEF Shape
  <2> QED BY <1>0, <2>1, <2>2, <2>3, <2>4, WorkerShape
<1>5. CASE Fail(c)
  <2>1. worker' = [worker EXCEPT ![c] = [Absent EXCEPT !.pc = "failed"]] /\ worker[c].pc \in {"run", "refused"}
    BY <1>5 DEF Fail
  <2>2. worker' \in [Ids -> Worker]
    BY <1>0, <2>1 DEF Worker, Absent, NoClaims
  <2>3. UNCHANGED <<plan, waves, coord, left, events, tripped, sent, late>> /\ Ids' = Ids
    BY <1>5 DEF Fail, Ids, Chunks
  <2>4. Ran' = Ran /\ Busy' \subseteq Busy
    BY <1>0, <2>1, <2>3 DEF Ran, Busy, Worker, Absent
  <2>5. \A d \in Ids : worker'[d].pc = "cleared" => worker'[d].sent < worker'[d].cap
    BY <1>0, <2>1 DEF Shape, Absent
  <2> QED BY <1>0, <2>2, <2>3, <2>4, <2>5, WorkerShape
<1>6. CASE Take(c)
  <2>1. UNCHANGED <<plan, waves, coord, events, tripped>> /\ Ids' = Ids /\ worker[c].pc = "cleared"
    BY <1>6 DEF Take, Ids, Chunks
  <2>2. left' \in 0..Total /\ sent' \in Nat /\ late' \in Nat
    BY <1>0, <1>6 DEF Take
  <2>3. worker' \in [Ids -> Worker] /\ worker'[c].pc = "run" /\ \A d \in Ids \ {c} : worker'[d] = worker[d]
    <3>1. CASE worker' = [worker EXCEPT ![c].pc = "run", ![c].sent = @ + 1]
      <4>1. worker[c].sent + 1 \in 0..MaxRequests
        <5>1. worker[c].sent < worker[c].cap
          BY <2>1 DEF Shape
        <5>2. worker[c].sent \in 0..MaxRequests /\ worker[c].cap \in 0..MaxRequests
          BY <1>0 DEF Worker
        <5> QED BY <1>0, <5>1, <5>2
      <4> QED BY <1>0, <3>1, <4>1 DEF Worker
    <3>2. CASE worker' = [worker EXCEPT ![c].pc = "run"]
      BY <1>0, <3>2 DEF Worker
    <3> QED BY <1>6, <3>1, <3>2 DEF Take
  <2>4. Ran' = Ran /\ Busy' = Busy
    BY <1>0, <2>1, <2>3 DEF Ran, Busy
  <2>5. \A d \in Ids : worker'[d].pc = "cleared" => worker'[d].sent < worker'[d].cap
    BY <2>3 DEF Shape
  <2> QED BY <1>0, <2>1, <2>2, <2>3, <2>4, <2>5, WorkerShape
<1>7. CASE Finish(c)
  <2>1. UNCHANGED <<plan, waves, coord, left, sent, late>> /\ Ids' = Ids /\ worker[c].pc \in {"run", "refused"}
    BY <1>7 DEF Finish, Ids, Chunks
  <2>2. events' \in 0..Limit /\ tripped' \in BOOLEAN
    <3>1. CASE Record
      <4>1. events' \in 0..Limit
        BY <1>0, <3>1 DEF Record
      <4>2. tripped' \in BOOLEAN
        BY <3>1 DEF Record
      <4> QED BY <4>1, <4>2
    <3>2. CASE UNCHANGED <<events, tripped>>
      BY <1>0, <3>2
    <3> QED BY <1>7, <3>1, <3>2 DEF Finish
  <2>3. PICK found \in SUBSET Pairs, touched \in SUBSET worker[c].decl :
          \E attempted \in SUBSET touched, times \in {1, 2} :
            worker' = [worker EXCEPT
              ![c] = [@ EXCEPT !.pc = "done", !.times = IF found = {} THEN 1 ELSE times,
                               !.claims = ClaimsFromChunk(worker[c].decl, found, touched, attempted)]]
    BY <1>7 DEF Finish
  <2>4. PICK attempted \in SUBSET touched, times \in {1, 2} :
          worker' = [worker EXCEPT
            ![c] = [@ EXCEPT !.pc = "done", !.times = IF found = {} THEN 1 ELSE times,
                             !.claims = ClaimsFromChunk(worker[c].decl, found, touched, attempted)]]
    BY <2>3
  <2>5. worker' \in [Ids -> Worker] /\ worker'[c].pc = "done" /\ \A d \in Ids \ {c} : worker'[d] = worker[d]
    <3> DEFINE claims == ClaimsFromChunk(worker[c].decl, found, touched, attempted)
               n == IF found = {} THEN 1 ELSE times
    <3>1. claims \in [Pairs -> Verdicts \cup {"none"}] /\ n \in {1, 2}
      BY DEF ClaimsFromChunk, Verdicts
    <3>2. worker' = [worker EXCEPT ![c] = [@ EXCEPT !.pc = "done", !.times = n, !.claims = claims]]
      BY <2>4
    <3> HIDE DEF claims, n
    <3>3. worker[c] \in Worker
      BY <1>0
    <3>4. [worker[c] EXCEPT !.pc = "done", !.times = n, !.claims = claims] \in Worker
      BY <3>1, <3>3 DEF Worker
    <3>5. [worker[c] EXCEPT !.pc = "done", !.times = n, !.claims = claims].pc = "done"
      BY <3>3 DEF Worker
    <3> QED BY <1>0, <3>2, <3>4, <3>5
  <2>6. Ran' = Ran /\ Busy' \subseteq Busy
    BY <1>0, <2>1, <2>5 DEF Ran, Busy
  <2>7. \A d \in Ids : worker'[d].pc = "cleared" => worker'[d].sent < worker'[d].cap
    BY <2>5 DEF Shape
  <2> QED BY <1>0, <2>1, <2>2, <2>5, <2>6, <2>7, WorkerShape
<1> QED BY <1>1, <1>2, <1>3, <1>4, <1>5, <1>6, <1>7 DEF Work

LEMMA FleetInvExpire == ASSUME FleetInv, Expire PROVE FleetInv'
<1>0. Limit \in Nat /\ events \in 0..Limit
  BY FleetAssumption DEF FleetInv, TypeOK
<1>1. UNCHANGED <<plan, waves, coord, worker, left, tripped, sent, late>> /\ events' \in 0..Limit
  BY <1>0 DEF Expire
<1>2. Ran' = Ran /\ Busy' = Busy
  BY <1>1 DEF Ran, Busy, Ids, Chunks
<1>3. \A d \in Ids : worker'[d].pc = "cleared" => worker'[d].sent < worker'[d].cap
  BY <1>1 DEF FleetInv, Shape
<1> QED BY <1>1, <1>2, <1>3, WorkerShape DEF FleetInv, TypeOK

-----------------------------------------------------------------------------
(* Merged, one chunk of the plan after the other.                          *)

MergeStep(cv, p, run, n) ==
  IF n \in run THEN Update(cv, worker[n].claims[p], worker[n].times) ELSE cv

(* f is the entry of p after each of the first m chunks. *)
MergeTable(m, p, run, f) ==
  f = [n \in 0..m |-> IF n = 0 THEN view[p] ELSE MergeStep(f[n - 1], p, run, n)]

LEMMA MergeExists ==
  ASSUME NEW L \in Nat, NEW p, NEW run
  PROVE  \E f : MergeTable(L, p, run, f)
<1> USE DEF MergeTable
<1> DEFINE UpTo(m, f) == MergeTable(m, p, run, f)
           S == {m \in Nat : \E f : UpTo(m, f)}
<1>1. 0 \in S
  <2>1. UpTo(0, [n \in 0..0 |-> view[p]])
    OBVIOUS
  <2> QED BY <2>1
<1>2. ASSUME NEW m \in Nat, m \in S PROVE m + 1 \in S
  <2>1. PICK f : UpTo(m, f)
    BY <1>2
  <2> DEFINE g == [n \in 0..m + 1 |-> IF n = m + 1 THEN MergeStep(f[m], p, run, m + 1) ELSE f[n]]
             h == [n \in 0..m + 1 |-> IF n = 0 THEN view[p] ELSE MergeStep(g[n - 1], p, run, n)]
  <2>2. ASSUME NEW n \in 0..m + 1 PROVE g[n] = h[n]
    <3>1. CASE n = m + 1
      <4>1. n - 1 = m /\ n - 1 \in 0..m + 1 /\ g[n - 1] = f[m]
        BY <3>1
      <4> QED BY <3>1, <4>1
    <3>2. CASE n \in 1..m
      <4>1. n \in 0..m /\ n - 1 \in 0..m /\ n - 1 \in 0..m + 1 /\ n - 1 # m + 1 /\ n # m + 1
        BY <3>2
      <4>2. g[n - 1] = f[n - 1] /\ g[n] = f[n]
        BY <4>1
      <4>3. f[n] = MergeStep(f[n - 1], p, run, n)
        BY <2>1, <3>2, <4>1
      <4> QED BY <3>2, <4>1, <4>2, <4>3
    <3>3. CASE n = 0
      BY <2>1, <3>3
    <3> QED BY <3>1, <3>2, <3>3
  <2>3. UpTo(m + 1, g)
    <3>1. g = h
      <4> HIDE DEF g, h
      <4>1. g = [n \in 0..m + 1 |-> g[n]] /\ h = [n \in 0..m + 1 |-> h[n]]
        BY DEF g, h
      <4> QED BY <2>2, <4>1
    <3> QED BY <3>1 DEF h
  <2>4. \E x : UpTo(m + 1, x)
    <3> HIDE DEF UpTo
    <3> QED BY <2>3
  <2> QED BY <2>4
<1>3. L \in S
  <2> HIDE DEF S
  <2> QED BY <1>1, <1>2, NatSetInduction
<1> QED BY <1>3

(* What holds of the old entry and is kept by every chunk's claims holds   *)
(* of the merged entry.                                                    *)
LEMMA MergeInduction ==
  ASSUME Len(plan) \in Nat, NEW p, NEW run, NEW G,
         <<0, view[p]>> \in G,
         \A n \in 1..Len(plan) : \A cv : <<n - 1, cv>> \in G => <<n, MergeStep(cv, p, run, n)>> \in G
  PROVE  <<Len(plan), Merged(p, run)>> \in G
<1> DEFINE L == Len(plan)
           upTo == CHOOSE f : MergeTable(L, p, run, f)
<1>1. Merged(p, run) = upTo[L]
  BY DEF Merged, MergeStep, MergeTable
<1>2. upTo = [n \in 0..L |-> IF n = 0 THEN view[p] ELSE MergeStep(upTo[n - 1], p, run, n)]
  <2>1. \E f : MergeTable(L, p, run, f)
    BY MergeExists
  <2>2. MergeTable(L, p, run, upTo)
    BY <2>1
  <2> QED BY <2>2 DEF MergeTable
<1> HIDE DEF upTo
<1> DEFINE S == {n \in Nat : n <= L => <<n, upTo[n]>> \in G}
<1>3. 0 \in S
  BY <1>2
<1>4. ASSUME NEW n \in Nat, n \in S PROVE n + 1 \in S
  <2> SUFFICES ASSUME n + 1 <= L PROVE <<n + 1, upTo[n + 1]>> \in G
    OBVIOUS
  <2>1. n + 1 \in 0..L /\ n + 1 \in 1..L /\ n + 1 # 0 /\ (n + 1) - 1 = n
    OBVIOUS
  <2>2. upTo[n + 1] = MergeStep(upTo[n], p, run, n + 1)
    BY <1>2, <2>1
  <2>3. <<n, upTo[n]>> \in G
    BY <1>4
  <2> QED BY <2>1, <2>2, <2>3
<1>5. L \in S
  <2> HIDE DEF S
  <2> QED BY <1>3, <1>4, NatSetInduction
<1> QED BY <1>1, <1>5

LEMMA UpdateType ==
  ASSUME NEW cv \in ClassVerdict, NEW v \in Verdicts \cup {"none"}, NEW times \in {1, 2}
  PROVE  Update(cv, v, times) \in ClassVerdict
<1> DEFINE nv == IF cv.verdict = "none" THEN v ELSE Resolve(cv.verdict, v)
<1>1. CASE v = "none"
  BY <1>1 DEF Update
<1>2. CASE v # "none"
  <2>1. nv \in Verdicts
    BY <1>2 DEF Resolve, ClassVerdict, Verdicts
  <2>2. cv.looks + (IF v = "vulnerable" THEN times ELSE 1) \in Nat
    BY DEF ClassVerdict
  <2>3. Update(cv, v, times) =
          [verdict |-> nv, vuln |-> cv.vuln \/ v = "vulnerable", clean |-> cv.clean \/ v # "vulnerable",
           looks |-> cv.looks + (IF v = "vulnerable" THEN times ELSE 1)]
    BY <1>2 DEF Update
  <2> HIDE DEF nv
  <2>4. (cv.vuln \/ v = "vulnerable") \in BOOLEAN /\ (cv.clean \/ v # "vulnerable") \in BOOLEAN
    OBVIOUS
  <2> QED BY <2>1, <2>2, <2>3, <2>4 DEF ClassVerdict
<1> QED BY <1>1, <1>2

LEMMA MergedType ==
  ASSUME plan \in Plans, view \in [Pairs -> ClassVerdict], worker \in [Ids -> Worker],
         NEW p \in Pairs, NEW run
  PROVE  Merged(p, run) \in ClassVerdict
<1> DEFINE G == Nat \X ClassVerdict
<1>1. Len(plan) \in Nat /\ \A n \in 1..Len(plan) : n \in Ids
  BY PlanFacts DEF Ids
<1>2. \A n \in 1..Len(plan) : \A cv : <<n - 1, cv>> \in G => <<n, MergeStep(cv, p, run, n)>> \in G
  <2> SUFFICES ASSUME NEW n \in 1..Len(plan), NEW cv \in ClassVerdict PROVE MergeStep(cv, p, run, n) \in ClassVerdict
    OBVIOUS
  <2>1. worker[n].claims[p] \in Verdicts \cup {"none"} /\ worker[n].times \in {1, 2}
    BY <1>1 DEF Worker
  <2> QED BY <2>1, UpdateType DEF MergeStep
<1>3. <<0, view[p]>> \in G
  OBVIOUS
<1> HIDE DEF G
<1>4. <<Len(plan), Merged(p, run)>> \in G
  BY <1>1, <1>2, <1>3, MergeInduction
<1> QED BY <1>4 DEF G

-----------------------------------------------------------------------------
(* The coordinator's steps.                                                *)

LEMMA WaveFacts ==
  ASSUME FleetInv
  PROVE  /\ Len(waves) \in Nat /\ DOMAIN waves = 1..Len(waves) /\ Len(waves) <= Len(plan)
         /\ \A w \in 1..Len(waves) : waves[w] \subseteq Chunks
         /\ \A w \in 1..Len(waves) + 1 : Later(w) \subseteq Chunks
         /\ \A w \in 1..Len(waves) : Later(w) = waves[w] \cup Later(w + 1)
         /\ Later(1) = Chunks /\ Later(Len(waves) + 1) = {}
<1>1. Partition(waves, Len(plan)) /\ Chunks = 1..Len(plan)
  BY PlanFacts DEF FleetInv, TypeOK, Shape
<1>2. Len(waves) \in Nat /\ DOMAIN waves = 1..Len(waves) /\ Len(waves) <= Len(plan)
  BY <1>1 DEF Partition
<1>3. \A w \in 1..Len(waves) : waves[w] \subseteq Chunks
  BY <1>1, <1>2 DEF Partition
<1>4. \A w \in 1..Len(waves) + 1 : Later(w) \subseteq Chunks
  BY <1>2, <1>3 DEF Later
<1>5. ASSUME NEW w \in 1..Len(waves) PROVE Later(w) = waves[w] \cup Later(w + 1)
  <2>1. w..Len(waves) = {w} \cup (w + 1)..Len(waves)
    BY <1>2
  <2> QED BY <2>1 DEF Later
<1>6. Later(1) = Chunks
  BY <1>1, <1>2 DEF Later, Partition
<1>7. Later(Len(waves) + 1) = {}
  BY <1>2 DEF Later
<1> QED BY <1>2, <1>3, <1>4, <1>5, <1>6, <1>7

(* What a step of the coordinator leaves to be shown.                      *)
LEMMA CoordShape ==
  ASSUME FleetInv, UNCHANGED <<plan, waves, left, events, tripped, sent, late>>,
         phase' \in {"between", "wave", "gapfill", "gap", "judge", "done", "failed"},
         wi' \in 1..Len(waves) + 1,
         worker' \in [Ids -> Worker],
         \A c \in Ids : worker'[c].pc \in {"absent", "queued"} \/ worker'[c] = worker[c],
         view' \in [Pairs -> ClassVerdict], todo' \subseteq Pairs,
         skipped' \subseteq Chunks, disclosed' \subseteq Chunks, reported' \subseteq Chunks,
         stale' \in 0..StaleWaves, lastVerdicts' \in Int, said' \subseteq Pairs \X Verdicts \X Ids,
         phase' = "wave" => wi' <= Len(waves) /\ Ran' \subseteq waves[wi'],
         phase' = "gap" => Ran' \subseteq {0},
         phase' \notin {"wave", "gap"} => Ran' = {}
  PROVE  FleetInv'
<1>1. Ids' = Ids /\ Chunks' = Chunks
  BY DEF Ids, Chunks
<1>2. Cardinality(Busy') <= Workers
  <2>1. plan \in Plans /\ Cardinality(Busy) <= Workers /\ Busy \subseteq Ids
    BY DEF FleetInv, TypeOK, Busy
  <2>2. IsFiniteSet(Busy) /\ Cardinality(Busy) \in Nat
    BY <2>1, PlanFacts
  <2>3. Busy' \subseteq Busy
    BY <1>1 DEF Busy
  <2>4. Cardinality(Busy') \in Nat /\ Cardinality(Busy') <= Cardinality(Busy)
    BY <2>2, <2>3, FS_Subset, FS_CardinalityType
  <2> QED BY <2>1, <2>2, <2>4, FleetAssumption
<1>3. wi' \in 1..Len(plan) + 1
  <2>1. Len(waves) \in Nat /\ Len(waves) <= Len(plan)
    BY WaveFacts
  <2>2. Len(plan) \in Nat
    BY PlanFacts DEF FleetInv, TypeOK
  <2> QED BY <2>1, <2>2
<1>4. \A p \in Pairs : view'[p].verdict \in Verdicts \cup {"none"} /\ view'[p].looks \in Nat
  BY DEF ClassVerdict
<1>5. TypeOK'
  <2>1. /\ left' \in 0..Total /\ sent' \in Nat /\ late' \in Nat /\ events' \in 0..Limit /\ tripped' \in BOOLEAN
        /\ plan' \in Plans /\ UNION {waves'[w] : w \in DOMAIN waves'} = Chunks'
    BY <1>1 DEF FleetInv, TypeOK
  <2> QED BY <1>1, <1>2, <1>3, <1>4, <2>1 DEF TypeOK, Busy
<1>6. Shape'
  <2>1. Partition(waves, Len(plan))'
    BY DEF FleetInv, Shape, Partition, Chunks, Excluded
  <2>2. \A c \in Ids' : worker'[c].pc = "cleared" => worker'[c].sent < worker'[c].cap
    BY <1>1 DEF FleetInv, Shape
  <2>3. view' \in [Pairs -> ClassVerdict] /\ wi' \in 1..Len(waves') + 1
    OBVIOUS
  <2> QED BY <2>1, <2>2, <2>3 DEF Shape
<1> QED BY <1>5, <1>6 DEF FleetInv

LEMMA LaunchedType ==
  ASSUME NEW share \in Nat, NEW decl \in SUBSET Pairs
  PROVE  Launched(share, decl) \in Worker /\ Launched(share, decl).pc = "queued"
<1>1. MaxRequests \in Nat \ {0} /\ Cap(share) \in 0..MaxRequests
  BY FleetAssumption DEF Cap
<1>2. Absent \in Worker
  BY <1>1 DEF Absent, Worker, NoClaims
<1> QED BY <1>1, <1>2 DEF Launched, Worker

LEMMA ShareType ==
  ASSUME FleetInv, NEW run \in SUBSET Ids, run # {}, NEW c
  PROVE  Share(run, c) \in Nat
<1>1. IsFiniteSet(run) /\ Cardinality(run) \in Nat /\ Cardinality(run) # 0
  BY PlanFacts, FS_EmptySet DEF FleetInv, TypeOK
<1>2. left \in Nat
  BY FleetAssumption DEF FleetInv, TypeOK
<1> DEFINE n == Cardinality(run)
<1>3. left \div n \in Nat
  <2> HIDE DEF n
  <2>1. n \in Nat \ {0}
    BY <1>1 DEF n
  <2> QED BY <1>2, <2>1
<1> HIDE DEF n
<1> QED BY <1>3 DEF Share, n

LEMMA FleetInvPlan ==
  ASSUME FleetInv, EnvelopeSpent \/ HaltedByBreaker \/ LaunchWave \/ WavesDone
  PROVE  FleetInv'
<1> USE DEF FleetInv
<1>0. /\ UNCHANGED <<plan, waves, left, events, tripped, view, todo, reported, stale, lastVerdicts, sent, late, said>>
      /\ phase = "between" /\ Ids' = Ids
  BY DEF EnvelopeSpent, HaltedByBreaker, LaunchWave, WavesDone, Ids, Chunks
<1>1. /\ Ran = {} /\ worker \in [Ids -> Worker] /\ wi \in 1..Len(waves) + 1
      /\ view \in [Pairs -> ClassVerdict] /\ todo \subseteq Pairs
      /\ skipped \subseteq Chunks /\ disclosed \subseteq Chunks /\ reported \subseteq Chunks
      /\ stale \in 0..StaleWaves /\ lastVerdicts \in Int /\ said \subseteq Pairs \X Verdicts \X Ids
  BY <1>0 DEF TypeOK, Shape
<1>2. /\ Len(waves) \in Nat /\ \A w \in 1..Len(waves) : waves[w] \subseteq Chunks
      /\ \A w \in 1..Len(waves) + 1 : Later(w) \subseteq Chunks
  BY WaveFacts
<1>3. CASE EnvelopeSpent \/ HaltedByBreaker \/ WavesDone
  <2>1. worker' = worker /\ wi' = wi /\ phase' = "gapfill" /\ Ran' = {}
    BY <1>0, <1>1, <1>3 DEF EnvelopeSpent, HaltedByBreaker, WavesDone, Ran
  <2>2. skipped' \subseteq Chunks /\ disclosed' \subseteq Chunks
    <3>1. CASE EnvelopeSpent
      <4>1. wi <= Len(waves) /\ wi \in 1..Len(waves) /\ wi + 1 \in 1..Len(waves) + 1
        BY <1>1, <1>2, <3>1 DEF EnvelopeSpent
      <4> QED BY <1>1, <1>2, <3>1, <4>1 DEF EnvelopeSpent, Runnable
    <3>2. CASE HaltedByBreaker
      BY <1>1, <1>2, <3>2 DEF HaltedByBreaker
    <3>3. CASE WavesDone
      BY <1>1, <3>3 DEF WavesDone
    <3> QED BY <1>3, <3>1, <3>2, <3>3
  <2> QED BY <1>0, <1>1, <2>1, <2>2, CoordShape
<1>4. CASE LaunchWave
  <2>1. wi <= Len(waves) /\ wi \in 1..Len(waves) /\ wi + 1 \in 1..Len(waves) + 1 /\ disclosed' = disclosed
    BY <1>1, <1>2, <1>4 DEF LaunchWave
  <2>2. skipped' \subseteq Chunks /\ Runnable \subseteq waves[wi] /\ Runnable \subseteq Ids
    BY <1>1, <1>2, <1>4, <2>1 DEF LaunchWave, Runnable, Ids
  <2>3. CASE Runnable = {}
    <3>1. wi' = wi + 1 /\ phase' = "between" /\ worker' = worker /\ Ran' = {}
      BY <1>0, <1>1, <1>4, <2>3 DEF LaunchWave, Ran
    <3> QED BY <1>0, <1>1, <2>1, <2>2, <3>1, CoordShape
  <2>4. CASE Runnable # {}
    <3>1. /\ phase' = "wave" /\ wi' = wi
          /\ worker' = [c \in Ids |-> IF c \in Runnable THEN Launched(Share(Runnable, c), Declared(c)) ELSE Absent]
      BY <1>4, <2>4 DEF LaunchWave
    <3>2. Absent \in Worker /\ Absent.pc = "absent"
      BY FleetAssumption DEF Absent, Worker, NoClaims
    <3>3. ASSUME NEW c \in Runnable
          PROVE  Launched(Share(Runnable, c), Declared(c)) \in Worker
                 /\ Launched(Share(Runnable, c), Declared(c)).pc = "queued"
      <4>1. Share(Runnable, c) \in Nat
        BY <2>2, <2>4, ShareType
      <4>2. Declared(c) \in SUBSET Pairs
        BY DEF Declared
      <4> QED BY <4>1, <4>2, LaunchedType
    <3>4. worker' \in [Ids -> Worker] /\ \A c \in Ids : worker'[c].pc \in {"absent", "queued"}
      BY <3>1, <3>2, <3>3
    <3>5. Ran' \subseteq waves[wi']
      BY <1>0, <2>2, <3>1, <3>2 DEF Ran
    <3> QED BY <1>0, <1>1, <2>1, <2>2, <3>1, <3>4, <3>5, CoordShape
  <2> QED BY <2>3, <2>4
<1> QED BY <1>3, <1>4

LEMMA FleetInvJoins ==
  ASSUME FleetInv, Join \/ JoinFails \/ GapJoin
  PROVE  FleetInv'
<1> USE DEF FleetInv
<1>0. /\ UNCHANGED <<plan, waves, left, events, tripped, todo, skipped, sent, late>> /\ Ids' = Ids
  BY DEF Join, JoinFails, GapJoin, Ids, Chunks
<1>1. /\ plan \in Plans /\ worker \in [Ids -> Worker] /\ wi \in 1..Len(waves) + 1
      /\ view \in [Pairs -> ClassVerdict] /\ todo \subseteq Pairs
      /\ skipped \subseteq Chunks /\ disclosed \subseteq Chunks /\ reported \subseteq Chunks
      /\ stale \in 0..StaleWaves /\ lastVerdicts \in Int /\ said \subseteq Pairs \X Verdicts \X Ids
  BY DEF TypeOK, Shape
<1>2. Absent \in Worker /\ Absent.pc = "absent"
  BY FleetAssumption DEF Absent, Worker, NoClaims
<1>3. \A run \in SUBSET Ids : Claimed(run) \subseteq Pairs \X Verdicts \X Ids
  <2> SUFFICES ASSUME NEW run \in SUBSET Ids, NEW t \in Pairs \X Verdicts \X run PROVE t \in Pairs \X Verdicts \X Ids
    BY DEF Claimed
  <2> QED OBVIOUS
<1>4. CASE JoinFails
  <2>1. phase' = "failed" /\ worker' = [c \in Ids |-> Absent]
        /\ UNCHANGED <<wi, view, disclosed, reported, stale, lastVerdicts, said>>
    BY <1>4 DEF JoinFails
  <2>2. worker' \in [Ids -> Worker] /\ Ran' = {} /\ \A c \in Ids : worker'[c].pc = "absent"
    BY <1>0, <1>2, <2>1 DEF Ran
  <2> QED BY <1>0, <1>1, <2>1, <2>2, CoordShape
<1>5. CASE GapJoin
  <2>1. /\ view' = [p \in Pairs |-> Update(view[p], worker[0].claims[p], worker[0].times)]
        /\ said' = said \cup Claimed({0}) /\ worker' = [worker EXCEPT ![0] = Absent] /\ phase = "gap"
        /\ UNCHANGED <<phase, wi, disclosed, reported, stale, lastVerdicts>>
    BY <1>5 DEF GapJoin
  <2>2. 0 \in Ids
    BY DEF Ids
  <2>3. view' \in [Pairs -> ClassVerdict]
    <3> SUFFICES ASSUME NEW p \in Pairs PROVE Update(view[p], worker[0].claims[p], worker[0].times) \in ClassVerdict
      BY <2>1
    <3>1. worker[0].claims[p] \in Verdicts \cup {"none"} /\ worker[0].times \in {1, 2}
      BY <1>1, <2>2 DEF Worker
    <3> QED BY <1>1, <3>1, UpdateType
  <2>4. said' \subseteq Pairs \X Verdicts \X Ids
    BY <1>1, <1>3, <2>1, <2>2
  <2>5. worker' \in [Ids -> Worker] /\ \A c \in Ids : worker'[c].pc = "absent" \/ worker'[c] = worker[c]
    BY <1>1, <1>2, <2>1
  <2>6. Ran' \subseteq {0}
    BY <1>0, <1>1, <2>1 DEF Ran, Shape
  <2>7. phase' \in {"between", "wave", "gapfill", "gap", "judge", "done", "failed"} /\ phase' = "gap"
    BY <2>1
  <2> QED BY <1>0, <1>1, <2>1, <2>3, <2>4, <2>5, <2>6, <2>7, CoordShape
<1>6. CASE Join
  <2> DEFINE known == Cardinality({p \in Pairs : view'[p].verdict # "none"})
             idle  == IF known = lastVerdicts THEN stale + 1 ELSE 0
             stall == idle >= StaleWaves /\ wi < Len(waves)
  <2>1. /\ phase = "wave" /\ wi' = wi + 1
        /\ view' = [p \in Pairs |-> Merged(p, Ran)]
        /\ said' = said \cup Claimed(Ran)
        /\ reported' = reported \cup Ran
        /\ worker' = [c \in Ids |-> Absent]
        /\ stale' = (IF idle > StaleWaves THEN StaleWaves ELSE idle) /\ lastVerdicts' = known
        /\ disclosed' = (IF stall THEN disclosed \cup Later(wi + 1) ELSE disclosed)
        /\ phase' = IF stall THEN "gapfill" ELSE "between"
    BY <1>6 DEF Join
  <2>2. known \in Nat
    <3>1. IsFiniteSet({p \in Pairs : view'[p].verdict # "none"})
      BY FleetAssumption, FS_Subset
    <3> QED BY <3>1, FS_CardinalityType
  <2>3. stale' \in 0..StaleWaves /\ lastVerdicts' \in Int
    <3>1. StaleWaves \in Nat /\ stale \in 0..StaleWaves
      BY <1>1, FleetAssumption
    <3> HIDE DEF known
    <3>2. idle \in 0..StaleWaves + 1
      BY <3>1
    <3> HIDE DEF idle
    <3> QED BY <2>1, <2>2, <3>1, <3>2
  <2>4. phase' \in {"between", "gapfill"}
    BY <2>1
  <2>5. wi \in 1..Len(waves) /\ Len(waves) \in Nat /\ wi' \in 1..Len(waves) + 1 /\ Ran \subseteq waves[wi]
    BY <1>1, <2>1, WaveFacts DEF Shape
  <2>6. disclosed' \subseteq Chunks /\ reported' \subseteq Chunks
    <3>1. Later(wi + 1) \subseteq Chunks /\ waves[wi] \subseteq Chunks
      BY <2>5, WaveFacts
    <3> HIDE DEF stall
    <3> QED BY <1>1, <2>1, <2>5, <3>1
  <2> HIDE DEF stall, idle, known
  <2>7. view' \in [Pairs -> ClassVerdict]
    BY <1>1, <2>1, MergedType
  <2>8. said' \subseteq Pairs \X Verdicts \X Ids
    <3>1. Ran \subseteq Ids
      BY DEF Ran
    <3> QED BY <1>1, <1>3, <2>1, <3>1
  <2>9. worker' \in [Ids -> Worker] /\ Ran' = {} /\ \A c \in Ids : worker'[c].pc = "absent"
    BY <1>0, <1>2, <2>1 DEF Ran
  <2>10. phase' \notin {"wave", "gap"} /\ phase' \in {"between", "wave", "gapfill", "gap", "judge", "done", "failed"}
    BY <2>4
  <2> QED BY <1>0, <1>1, <2>3, <2>5, <2>6, <2>7, <2>8, <2>9, <2>10, CoordShape
<1> QED BY <1>4, <1>5, <1>6

LEMMA ResolveContestedType ==
  ASSUME NEW cv \in ClassVerdict, NEW to \in Verdicts
  PROVE  ResolveContested(cv, to) \in ClassVerdict
BY DEF ResolveContested, ClassVerdict

LEMMA FleetInvAfterWaves ==
  ASSUME FleetInv, Gapfill \/ GapNext \/ Adjudicate
  PROVE  FleetInv'
<1> USE DEF FleetInv
<1>0. /\ UNCHANGED <<plan, waves, wi, left, events, tripped, skipped, disclosed, reported, stale, lastVerdicts,
                     sent, late, said>>
      /\ Ids' = Ids
  BY DEF Gapfill, GapNext, Adjudicate, Ids, Chunks
<1>1. /\ worker \in [Ids -> Worker] /\ wi \in 1..Len(waves) + 1
      /\ view \in [Pairs -> ClassVerdict] /\ todo \subseteq Pairs
      /\ skipped \subseteq Chunks /\ disclosed \subseteq Chunks /\ reported \subseteq Chunks
      /\ stale \in 0..StaleWaves /\ lastVerdicts \in Int /\ said \subseteq Pairs \X Verdicts \X Ids
  BY DEF TypeOK, Shape
<1>2. CASE Gapfill
  <2>1. worker' = worker /\ view' = view /\ phase = "gapfill" /\ phase' \in {"gap", "judge"} /\ todo' \subseteq Pairs
    BY <1>1, <1>2 DEF Gapfill, Inconclusive
  <2>2. Ran = {} /\ Ran' = {}
    BY <1>0, <2>1 DEF Shape, Ran
  <2> QED BY <1>0, <1>1, <2>1, <2>2, CoordShape
<1>3. CASE GapNext
  <2>1. view' = view /\ phase = "gap" /\ phase' \in {"gap", "judge"} /\ todo' \subseteq Pairs /\ Ran = {}
    BY <1>1, <1>3 DEF GapNext
  <2>2. CASE worker' = worker
    <3>1. Ran' = {}
      BY <1>0, <2>1, <2>2 DEF Ran
    <3> QED BY <1>0, <1>1, <2>1, <2>2, <3>1, CoordShape
  <2>3. CASE worker' # worker
    <3>1. phase' = "gap" /\ \E p \in todo : worker' = [worker EXCEPT ![0] = Launched(0, {p})]
      BY <1>3, <2>1, <2>3 DEF GapNext
    <3>2. PICK p \in todo : worker' = [worker EXCEPT ![0] = Launched(0, {p})]
      BY <3>1
    <3>3. Launched(0, {p}) \in Worker /\ Launched(0, {p}).pc = "queued"
      <4>1. {p} \in SUBSET Pairs /\ 0 \in Nat
        BY <1>1
      <4> QED BY <4>1, LaunchedType
    <3>4. worker' \in [Ids -> Worker] /\ \A c \in Ids : worker'[c].pc = "queued" \/ worker'[c] = worker[c]
      BY <1>1, <3>2, <3>3
    <3>5. Ran' \subseteq {0}
      BY <1>0, <1>1, <2>1, <3>2 DEF Ran
    <3> QED BY <1>0, <1>1, <2>1, <3>1, <3>4, <3>5, CoordShape
  <2> QED BY <2>2, <2>3
<1>4. CASE Adjudicate
  <2>1. worker' = worker /\ todo' = todo /\ phase = "judge" /\ phase' = "done"
    BY <1>4 DEF Adjudicate
  <2>2. Ran = {} /\ Ran' = {}
    BY <1>0, <2>1 DEF Shape, Ran
  <2>3. PICK ballot \in [{p \in Pairs : view[p].verdict = "contested"} -> Votes] :
          view' = [p \in Pairs |-> IF Jurors > 0 /\ p \in DOMAIN ballot
                                     THEN ResolveContested(view[p], Majority(ballot[p][1], ballot[p][2]))
                                     ELSE view[p]]
    BY <1>4 DEF Adjudicate
  <2>4. \A v, c : Majority(v, c) \in Verdicts
    BY DEF Majority, Verdicts
  <2>5. view' \in [Pairs -> ClassVerdict]
    BY <1>1, <2>3, <2>4, ResolveContestedType
  <2> QED BY <1>0, <1>1, <2>1, <2>2, <2>5, CoordShape
<1> QED BY <1>2, <1>3, <1>4

(* Types hold, a wave runs only its own chunks and no two of one route.    *)
LEMMA FleetInvariant == Spec => []FleetInv
<1>1. FleetInv /\ [Next]_vars => FleetInv'
  <2> SUFFICES ASSUME FleetInv, [Next]_vars PROVE FleetInv'
    OBVIOUS
  <2>1. CASE Coordinate
    BY <2>1, FleetInvPlan, FleetInvJoins, FleetInvAfterWaves DEF Coordinate
  <2>2. CASE \E c \in Ids : Work(c) \/ Clear(c) \/ Signal(c)
    BY <2>2, FleetInvWork
  <2>3. CASE Expire
    BY <2>3, FleetInvExpire
  <2>4. CASE UNCHANGED vars
    BY <2>4 DEF vars, coord, FleetInv, TypeOK, Shape, Partition, Excluded, Chunks, Ids, Ran
  <2> QED BY <2>1, <2>2, <2>3, <2>4 DEF Next
<1> QED BY <1>1, FleetInvInit, PTL DEF Spec

(* RunFleet's state keeps its types; in particular the waves hold exactly  *)
(* the plan, and no more than Workers goroutines run at once.              *)
THEOREM FleetTypeCorrect == Spec => []TypeOK
<1>1. FleetInv => TypeOK
  BY DEF FleetInv
<1> QED BY <1>1, FleetInvariant, PTL

(* Two workers that are running never work on one route, whatever the plan *)
(* and however wide the wave.                                              *)
THEOREM OneRouteOneWorker == Spec => []OneWorkerPerRoute
<1>1. FleetInv => OneWorkerPerRoute
  <2> SUFFICES ASSUME FleetInv, NEW c \in Busy, NEW d \in Busy, c # d PROVE plan[c].route # plan[d].route
    BY DEF OneWorkerPerRoute
  <2>1. c \in Ran /\ d \in Ran
    BY DEF Busy, Ran
  <2>2. phase = "wave"
    BY <2>1 DEF FleetInv, Shape
  <2>3. c \in waves[wi] /\ d \in waves[wi] /\ wi \in 1..Len(waves)
    BY <2>1, <2>2, WaveFacts DEF FleetInv, Shape
  <2>4. ~Excluded(c, d)
    BY <2>3, WaveFacts DEF FleetInv, Shape, Partition
  <2> QED BY <2>4 DEF Excluded
<1> QED BY <1>1, FleetInvariant, PTL

(* Requests go out, and the envelope shrinks, in Take alone.               *)
LEMMA OnlyTakeSends ==
  ASSUME [Next]_vars
  PROVE  (\E c \in Ids : Take(c)) \/ UNCHANGED <<sent, left, late>>
<1>1. CASE Coordinate
  <2>1. Coordinate => UNCHANGED <<sent, left, late>>
    BY DEF Coordinate, EnvelopeSpent, HaltedByBreaker, LaunchWave, WavesDone, Join, JoinFails, Gapfill, GapNext,
           GapJoin, Adjudicate
  <2> QED BY <1>1, <2>1
<1>2. CASE \E c \in Ids : Work(c) \/ Clear(c) \/ Signal(c)
  <2>1. PICK c \in Ids : Work(c) \/ Clear(c) \/ Signal(c)
    BY <1>2
  <2>2. Start(c) \/ Refuse(c) \/ Finish(c) \/ Fail(c) \/ Clear(c) \/ Signal(c) => UNCHANGED <<sent, left, late>>
    BY DEF Start, Refuse, Finish, Fail, Clear, Signal
  <2> QED BY <2>1, <2>2 DEF Work
<1>3. CASE Expire
  BY <1>3 DEF Expire
<1>4. CASE UNCHANGED vars
  BY <1>4 DEF vars
<1> QED BY <1>1, <1>2, <1>3, <1>4 DEF Next

(* Requests sent and what is left of the envelope never exceed it.         *)
THEOREM EnvelopeIsAWall == Spec => []EnvelopeHolds
<1>1. Init => EnvelopeHolds
  BY FleetAssumption DEF Init, EnvelopeHolds
<1>2. FleetInv /\ EnvelopeHolds /\ [Next]_vars => EnvelopeHolds'
  <2> SUFFICES ASSUME FleetInv, EnvelopeHolds, [Next]_vars PROVE EnvelopeHolds'
    OBVIOUS
  <2>1. ASSUME NEW c \in Ids, Take(c) PROVE EnvelopeHolds'
    <3>1. left \in Nat /\ sent \in Nat /\ Total \in Nat
      BY FleetAssumption DEF FleetInv, TypeOK
    <3>2. left' = left - 1 /\ (sent' = sent + 1 \/ sent' = sent)
      BY <2>1 DEF Take
    <3> QED BY <3>1, <3>2 DEF EnvelopeHolds
  <2>2. CASE UNCHANGED <<sent, left>>
    BY <2>2 DEF EnvelopeHolds
  <2> QED BY <2>1, <2>2, OnlyTakeSends
<1> QED BY <1>1, <1>2, FleetInvariant, PTL DEF Spec

-----------------------------------------------------------------------------
(* The halt.                                                               *)

(* Requests past the breaker's check and not yet sent. *)
Cleared == {c \in Ids : worker[c].pc = "cleared"}

(* Nothing is late before the breaker trips; after it, every request that  *)
(* went out late was one of the cleared ones, and no other is cleared.     *)
HaltInv ==
  /\ ~tripped => late = 0
  /\ tripped => late + Cardinality(Cleared) <= Workers

LEMMA ClearedFits ==
  ASSUME FleetInv
  PROVE  IsFiniteSet(Cleared) /\ Cardinality(Cleared) \in Nat /\ Cardinality(Cleared) <= Workers
<1>1. Cleared \subseteq Busy /\ Busy \subseteq Ids /\ plan \in Plans /\ Cardinality(Busy) <= Workers
  BY DEF Cleared, Busy, FleetInv, TypeOK
<1>2. IsFiniteSet(Busy) /\ Cardinality(Busy) \in Nat
  BY <1>1, PlanFacts
<1>3. IsFiniteSet(Cleared) /\ Cardinality(Cleared) \in Nat /\ Cardinality(Cleared) <= Cardinality(Busy)
  BY <1>1, <1>2, FS_Subset, FS_CardinalityType
<1>4. Workers \in Nat
  BY FleetAssumption
<1> QED BY <1>1, <1>2, <1>3, <1>4

(* Once tripped, always tripped, and no further request is cleared.        *)
LEMMA TrippedClearsNothing ==
  ASSUME FleetInv, tripped, [Next]_vars
  PROVE  tripped' /\ Cleared' \subseteq Cleared
<1> USE DEF FleetInv
<1>1. worker \in [Ids -> Worker]
  BY DEF TypeOK
<1>2. CASE Coordinate
  <2>1. tripped' = tripped /\ Ids' = Ids
    BY <1>2 DEF Coordinate, EnvelopeSpent, HaltedByBreaker, LaunchWave, WavesDone, Join, JoinFails, Gapfill, GapNext,
           GapJoin, Adjudicate, Ids, Chunks
  <2>2. \A c \in Ids : worker'[c].pc = "cleared" => worker'[c] = worker[c]
    <3>1. CASE EnvelopeSpent \/ HaltedByBreaker \/ WavesDone \/ Gapfill \/ Adjudicate
      BY <3>1 DEF EnvelopeSpent, HaltedByBreaker, WavesDone, Gapfill, Adjudicate
    <3>2. CASE LaunchWave
      BY <3>2 DEF LaunchWave
    <3>3. CASE Join \/ JoinFails
      <4>1. worker' = [c \in Ids |-> Absent]
        BY <3>3 DEF Join, JoinFails
      <4>2. Absent.pc = "absent"
        BY DEF Absent
      <4> QED BY <4>1, <4>2
    <3>4. CASE GapNext
      <4>1. Launched(0, {}).pc = "queued" /\ \A p : Launched(0, {p}).pc = "queued"
        BY DEF Launched, Absent
      <4> QED BY <1>1, <3>4, <4>1 DEF GapNext
    <3>5. CASE GapJoin
      BY <1>1, <3>5 DEF GapJoin, Absent
    <3> QED BY <1>2, <3>1, <3>2, <3>3, <3>4, <3>5 DEF Coordinate
  <2> QED BY <2>1, <2>2 DEF Cleared
<1>3. CASE \E c \in Ids : Work(c) \/ Clear(c) \/ Signal(c)
  <2>1. PICK c \in Ids : Work(c) \/ Clear(c) \/ Signal(c)
    BY <1>3
  <2>2. ~Clear(c) /\ ~Signal(c)
    BY DEF Clear, Signal
  <2>3. tripped'
    BY <2>1, <2>2 DEF Work, Start, Take, Refuse, Finish, Fail, Record
  <2>4. \A d \in Ids : worker'[d].pc = "cleared" => worker[d].pc = "cleared"
    <3>1. CASE Start(c)  BY <1>1, <3>1 DEF Start
    <3>2. CASE Take(c)   BY <1>1, <3>2 DEF Take
    <3>3. CASE Refuse(c) BY <1>1, <3>3 DEF Refuse
    <3>4. CASE Fail(c)   BY <1>1, <3>4 DEF Fail, Absent
    <3>5. CASE Finish(c)
      <4>1. \A d \in Ids \ {c} : worker'[d] = worker[d]
        BY <1>1, <3>5 DEF Finish
      <4>2. worker'[c].pc = "done"
        BY <1>1, <3>5 DEF Finish, Worker
      <4> QED BY <4>1, <4>2
    <3> QED BY <2>1, <2>2, <3>1, <3>2, <3>3, <3>4, <3>5 DEF Work
  <2>5. Ids' = Ids
    BY <2>1, FleetInvWork DEF Ids, Chunks
  <2> QED BY <2>3, <2>4, <2>5 DEF Cleared
<1>4. CASE Expire
  BY <1>4 DEF Expire
<1>5. CASE UNCHANGED vars
  BY <1>5 DEF vars, Cleared, Ids, Chunks
<1> QED BY <1>2, <1>3, <1>4, <1>5 DEF Next

(* After the breaker has tripped at most one request per running worker    *)
(* still goes out, in the whole rest of the engagement.                    *)
THEOREM HaltStopsWorkers == Spec => []HaltIsPrompt
<1>1. Init => HaltInv
  BY DEF Init, HaltInv
<1> DEFINE Bound == Cardinality(Cleared) \in Nat /\ Cardinality(Cleared) <= Workers
<1>a. FleetInv => Bound
  BY ClearedFits
<1>b. FleetInv' => Bound'
  BY <1>a, PTL
<1>2. FleetInv /\ HaltInv /\ FleetInv' /\ [Next]_vars => HaltInv'
  <2> SUFFICES ASSUME FleetInv, HaltInv, FleetInv', [Next]_vars PROVE HaltInv'
    OBVIOUS
  <2>1. /\ IsFiniteSet(Cleared) /\ Cardinality(Cleared) \in Nat
        /\ late \in Nat /\ tripped \in BOOLEAN /\ Workers \in Nat
    BY ClearedFits, FleetAssumption DEF FleetInv, TypeOK
  <2>2. Cardinality(Cleared') \in Nat /\ Cardinality(Cleared') <= Workers
    BY <1>b
  <2>3. CASE ~tripped
    <3>1. late' = 0
      <4>1. CASE \E c \in Ids : Take(c)
        BY <2>3, <4>1 DEF Take, HaltInv
      <4>2. CASE UNCHANGED late
        BY <2>3, <4>2 DEF HaltInv
      <4> QED BY <4>1, <4>2, OnlyTakeSends
    <3> QED BY <2>1, <2>2, <3>1 DEF HaltInv
  <2>4. CASE tripped
    <3>1. tripped' /\ Cleared' \subseteq Cleared
      BY <2>4, TrippedClearsNothing
    <3>2. late + Cardinality(Cleared) <= Workers
      BY <2>4 DEF HaltInv
    <3>3. late' + Cardinality(Cleared') <= late + Cardinality(Cleared)
      <4>1. CASE \E c \in Ids : Take(c)
        <5>1. PICK c \in Ids : Take(c)
          BY <4>1
        <5>2. c \in Cleared /\ worker'[c].pc = "run" /\ (late' = late + 1 \/ late' = late)
          <6>1. worker \in [Ids -> Worker]
            BY DEF FleetInv, TypeOK
          <6>2. worker'[c].pc = "run"
            BY <5>1, <6>1 DEF Take, Worker
          <6> QED BY <2>4, <5>1, <6>2 DEF Take, Cleared
        <5>3. Cleared' \subseteq Cleared \ {c}
          BY <3>1, <5>2 DEF Cleared
        <5>4. Cardinality(Cleared \ {c}) = Cardinality(Cleared) - 1 /\ IsFiniteSet(Cleared \ {c})
          BY <2>1, <5>2, FS_RemoveElement
        <5>5. Cardinality(Cleared') <= Cardinality(Cleared \ {c})
          BY <5>3, <5>4, FS_Subset
        <5> QED BY <2>1, <2>2, <5>2, <5>4, <5>5
      <4>2. CASE UNCHANGED late
        <5>1. Cardinality(Cleared') <= Cardinality(Cleared)
          BY <2>1, <3>1, FS_Subset
        <5> QED BY <2>1, <2>2, <4>2, <5>1
      <4> QED BY <4>1, <4>2, OnlyTakeSends
    <3>4. late' \in Nat
      BY DEF FleetInv, TypeOK
    <3> QED BY <2>1, <2>2, <3>1, <3>2, <3>3, <3>4 DEF HaltInv
  <2> QED BY <2>1, <2>3, <2>4
<1>3. FleetInv /\ HaltInv => HaltIsPrompt
  <2> SUFFICES ASSUME FleetInv, HaltInv PROVE late <= Workers
    BY DEF HaltIsPrompt
  <2>1. Cardinality(Cleared) \in Nat /\ Workers \in Nat /\ late \in Nat
    BY ClearedFits, FleetAssumption DEF FleetInv, TypeOK
  <2> QED BY <2>1 DEF HaltInv
<1> QED BY <1>1, <1>2, <1>3, FleetInvariant, PTL DEF Spec

-----------------------------------------------------------------------------
(* The account of the plan.                                                *)

Accounted == reported \cup skipped \cup disclosed

(* Every chunk is accounted for, running, or still to come.                *)
PlanInv ==
  /\ phase = "between" => Accounted \cup Later(wi) = Chunks
  /\ phase = "wave" => Accounted \cup Ran \cup Later(wi + 1) = Chunks
  /\ phase \in {"gapfill", "gap", "judge", "done"} => Accounted = Chunks

LEMMA PlanInvStep ==
  ASSUME FleetInv, PlanInv, [Next]_vars
  PROVE  PlanInv'
<1> USE DEF FleetInv
<1>0. plan' = plan /\ waves' = waves
  BY DEF Next, Coordinate, Work, vars, EnvelopeSpent, HaltedByBreaker, LaunchWave, WavesDone,
        Join, JoinFails, Gapfill, GapNext, GapJoin, Adjudicate, Start, Take, Refuse, Finish, Fail, Clear, Signal, Expire
<1>1. Chunks' = Chunks /\ Ids' = Ids /\ \A w : Later(w)' = Later(w)
  BY <1>0 DEF Chunks, Ids, Later
<1>2. /\ Len(waves) \in Nat /\ wi \in 1..Len(waves) + 1
      /\ \A w \in 1..Len(waves) : Later(w) = waves[w] \cup Later(w + 1)
      /\ Later(Len(waves) + 1) = {}
  BY WaveFacts DEF Shape
<1>3. ASSUME wi <= Len(waves) PROVE Later(wi) = Runnable \cup (waves[wi] \ Runnable) \cup Later(wi + 1)
  BY <1>2, <1>3 DEF Runnable
<1>3a. Accounted \subseteq Chunks
  BY DEF TypeOK, Accounted
<1>4. CASE EnvelopeSpent
  BY <1>1, <1>3, <1>4 DEF EnvelopeSpent, PlanInv, Accounted
<1>5. CASE HaltedByBreaker
  BY <1>1, <1>5 DEF HaltedByBreaker, PlanInv, Accounted
<1>6. CASE WavesDone
  <2>1. wi = Len(waves) + 1
    BY <1>2, <1>6 DEF WavesDone
  <2> QED BY <1>1, <1>2, <1>6, <2>1 DEF WavesDone, PlanInv, Accounted
<1>7. CASE LaunchWave
  <2>1. Runnable \subseteq Ids
    <3>1. wi \in 1..Len(waves)
      BY <1>2, <1>7 DEF LaunchWave
    <3> QED BY <3>1, WaveFacts DEF Runnable, Ids
  <2>2. phase = "between" /\ wi <= Len(waves) /\ skipped' = skipped \cup (waves[wi] \ Runnable)
        /\ UNCHANGED <<disclosed, reported>>
    BY <1>7 DEF LaunchWave
  <2>3. CASE Runnable = {}
    <3>1. phase' = "between" /\ wi' = wi + 1
      BY <1>7, <2>2, <2>3 DEF LaunchWave
    <3> QED BY <1>1, <1>3, <2>2, <2>3, <3>1 DEF PlanInv, Accounted
  <2>4. CASE Runnable # {}
    <3>1. /\ phase' = "wave" /\ wi' = wi
          /\ worker' = [c \in Ids |-> IF c \in Runnable THEN Launched(Share(Runnable, c), Declared(c)) ELSE Absent]
      BY <1>7, <2>4 DEF LaunchWave
    <3>2. Ran' = Runnable
      BY <1>1, <2>1, <3>1 DEF Ran, Launched, Absent
    <3> QED BY <1>1, <1>3, <2>2, <3>1, <3>2 DEF PlanInv, Accounted
  <2> QED BY <2>3, <2>4
<1>8. CASE Join
  <2>1. /\ phase = "wave" /\ wi' = wi + 1 /\ reported' = reported \cup Ran /\ skipped' = skipped
        /\ \/ phase' = "between" /\ disclosed' = disclosed
           \/ phase' = "gapfill" /\ disclosed' = disclosed \cup Later(wi + 1)
    BY <1>8 DEF Join
  <2> QED BY <1>1, <2>1 DEF PlanInv, Accounted
<1>9. CASE JoinFails
  BY <1>9 DEF JoinFails, PlanInv
<1>10. CASE Gapfill \/ GapNext \/ GapJoin \/ Adjudicate
  <2>1. /\ UNCHANGED <<reported, skipped, disclosed>>
        /\ phase \in {"gapfill", "gap", "judge"} /\ phase' \in {"gap", "judge", "done"}
    BY <1>10 DEF Gapfill, GapNext, GapJoin, Adjudicate
  <2> QED BY <1>1, <2>1 DEF PlanInv, Accounted
<1>11. CASE \E c \in Ids : Work(c) \/ Clear(c) \/ Signal(c)
  <2>1. Ran' = Ran /\ UNCHANGED <<plan, waves, coord>>
    BY <1>11, FleetInvWork
  <2> QED BY <1>1, <2>1 DEF PlanInv, Accounted, coord
<1>12. CASE Expire \/ UNCHANGED vars
  <2>1. UNCHANGED <<phase, wi, worker, reported, skipped, disclosed>>
    BY <1>12 DEF Expire, vars, coord
  <2>2. Ran' = Ran
    BY <1>1, <2>1 DEF Ran
  <2> QED BY <1>1, <2>1, <2>2 DEF PlanInv, Accounted
<1> QED BY <1>4, <1>5, <1>6, <1>7, <1>8, <1>9, <1>10, <1>11, <1>12 DEF Next, Coordinate

(* A result accounts for every chunk of the plan, whatever stopped it.     *)
THEOREM PlanIsAccounted == Spec => []NothingDropped
<1>1. FleetInv /\ Init => PlanInv
  BY WaveFacts DEF Init, PlanInv, Accounted
<1>2. PlanInv => NothingDropped
  BY DEF PlanInv, NothingDropped, Accounted
<1> QED BY <1>1, <1>2, PlanInvStep, FleetInvariant, PTL DEF Spec

-----------------------------------------------------------------------------
(* The ledger.                                                             *)

(* What a worker's report can say of a pair. *)
Claimable == {"vulnerable", "clean", "inconclusive"}

(* The verdict a set of claims amounts to before any panel. *)
Tally(vs) ==
  CASE vs = {} -> "none"
    [] {"vulnerable", "clean"} \subseteq vs -> "contested"
    [] "vulnerable" \in vs /\ "clean" \notin vs -> "vulnerable"
    [] "clean" \in vs /\ "vulnerable" \notin vs -> "clean"
    [] OTHER -> "inconclusive"

(* The entry cv says what the claims vs say. *)
Tells(cv, vs) ==
  /\ vs \subseteq Claimable
  /\ cv.verdict = Tally(vs)
  /\ cv.vuln <=> "vulnerable" \in vs
  /\ cv.clean <=> vs \ {"vulnerable"} # {}

(* The claims about a pair in a history, and those made so far. *)
Heard(history, ids, p) == {v \in Verdicts : \E c \in ids : <<p, v, c>> \in history}
Said(p) == Heard(said, Ids, p)

(* The claims about p in the reports of run. *)
ClaimsOf(run, p) == {v \in Claimable : \E c \in run : worker[c].claims[p] = v}

(* The verdicts the summary of vs allows in a phase. *)
Allowed(ph, vs) ==
  CASE vs = {} -> {"none"}
    [] {"vulnerable", "clean"} \subseteq vs ->
         IF ph = "done" /\ Jurors > 0 THEN {"contested", "vulnerable", "clean"} ELSE {"contested"}
    [] OTHER -> {CHOOSE v \in vs : \A u \in vs : Precedence[u] <= Precedence[v]}

LedgerInv ==
  /\ \A c \in Ids, p \in Pairs : worker[c].claims[p] \in Claimable \cup {"none"}
  /\ phase # "done" => \A p \in Pairs : Tells(view[p], Said(p))
  /\ \A p \in Pairs : view[p].verdict \in Allowed(phase, Said(p))

(* One more claim: Update tells what the claims and the new one say, in    *)
(* whatever order they came.                                               *)
LEMMA UpdateTells ==
  ASSUME NEW cv \in ClassVerdict, NEW vs, Tells(cv, vs),
         NEW v \in Claimable \cup {"none"}, NEW times \in {1, 2}
  PROVE  Tells(Update(cv, v, times), vs \cup ({v} \ {"none"}))
<1>1. CASE v = "none"
  BY <1>1 DEF Update
<1>2. CASE v \in Claimable
  <2>1. v # "none" /\ vs \cup ({v} \ {"none"}) = vs \cup {v}
    BY <1>2 DEF Claimable
  <2> DEFINE u == Update(cv, v, times)
  <2>2. /\ u.verdict = IF cv.verdict = "none" THEN v ELSE Resolve(cv.verdict, v)
        /\ u.vuln = (cv.vuln \/ v = "vulnerable")
        /\ u.clean = (cv.clean \/ v # "vulnerable")
    BY <2>1 DEF Update
  <2> HIDE DEF u
  <2>3. (u.vuln <=> "vulnerable" \in vs \cup {v}) /\ (u.clean <=> (vs \cup {v}) \ {"vulnerable"} # {})
    <3>1. cv.vuln <=> "vulnerable" \in vs
      BY DEF Tells
    <3>2. cv.clean <=> vs \ {"vulnerable"} # {}
      BY DEF Tells
    <3>3. u.vuln <=> "vulnerable" \in vs \cup {v}
      BY <2>2, <3>1
    <3>4. u.clean <=> (vs \cup {v}) \ {"vulnerable"} # {}
      BY <2>2, <3>2
    <3> QED BY <3>3, <3>4
  <2>4. u.verdict = Tally(vs \cup {v})
    <3>1. vs \subseteq Claimable /\ cv.verdict = Tally(vs)
      BY DEF Tells
    <3>2. Precedence["vulnerable"] = 4 /\ Precedence["clean"] = 3 /\ Precedence["inconclusive"] = 1
      BY DEF Precedence
    <3>3. CASE v = "vulnerable"
      BY <2>2, <3>1, <3>2, <3>3 DEF Tally, Resolve, Claimable
    <3>4. CASE v = "clean"
      BY <2>2, <3>1, <3>2, <3>4 DEF Tally, Resolve, Claimable
    <3>5. CASE v = "inconclusive"
      BY <2>2, <3>1, <3>2, <3>5 DEF Tally, Resolve, Claimable
    <3> QED BY <1>2, <3>3, <3>4, <3>5 DEF Claimable
  <2> QED BY <1>2, <2>1, <2>3, <2>4 DEF Tells, u
<1> QED BY <1>1, <1>2

(* The tally is the summary the property asks for. *)
LEMMA TallyIsSummary ==
  ASSUME NEW cv, NEW vs, Tells(cv, vs), NEW ph
  PROVE  cv.verdict \in Allowed(ph, vs)
<1>1. vs \subseteq Claimable /\ cv.verdict = Tally(vs)
  BY DEF Tells
<1>2. Precedence["vulnerable"] = 4 /\ Precedence["clean"] = 3 /\ Precedence["inconclusive"] = 1
  BY DEF Precedence
<1> DEFINE best == CHOOSE v \in vs : \A u \in vs : Precedence[u] <= Precedence[v]
<1>3. CASE vs = {} \/ {"vulnerable", "clean"} \subseteq vs
  BY <1>1, <1>3 DEF Tally, Allowed
<1>4. CASE vs # {} /\ ~ ({"vulnerable", "clean"} \subseteq vs)
  <2>1. Allowed(ph, vs) = {best}
    BY <1>4 DEF Allowed
  <2>2. Tally(vs) \in vs /\ \A u \in vs : Precedence[u] <= Precedence[Tally(vs)]
    BY <1>1, <1>2, <1>4 DEF Tally, Claimable
  <2>3. best \in vs /\ \A u \in vs : Precedence[u] <= Precedence[best]
    BY <2>2
  <2> HIDE DEF best
  <2>4. best = Tally(vs)
    <3>1. best \in Claimable /\ Tally(vs) \in Claimable
      BY <1>1, <2>2, <2>3
    <3>2. Precedence[best] <= Precedence[Tally(vs)] /\ Precedence[Tally(vs)] <= Precedence[best]
      BY <2>2, <2>3
    <3> HIDE DEF Tally
    <3> QED BY <1>2, <3>1, <3>2 DEF Claimable
  <2> QED BY <1>1, <2>1, <2>4
<1> QED BY <1>3, <1>4

(* A wave's claims, merged in plan order. *)
LEMMA MergedTells ==
  ASSUME FleetInv, NEW p \in Pairs, NEW run \in SUBSET Chunks,
         \A c \in Ids : worker[c].claims[p] \in Claimable \cup {"none"},
         NEW vs, Tells(view[p], vs)
  PROVE  Tells(Merged(p, run), vs \cup ClaimsOf(run, p))
<1> DEFINE By(n) == vs \cup {v \in Claimable : \E c \in run : c <= n /\ worker[c].claims[p] = v}
           G == {t \in Nat \X ClassVerdict : Tells(t[2], By(t[1]))}
<1>1. /\ Len(plan) \in Nat /\ Chunks = 1..Len(plan) /\ Chunks \subseteq Ids /\ run \subseteq Nat
      /\ worker \in [Ids -> Worker] /\ view \in [Pairs -> ClassVerdict]
  BY PlanFacts DEF FleetInv, TypeOK, Shape, Ids
<1>2. <<0, view[p]>> \in G
  <2>1. By(0) = vs
    BY <1>1
  <2> QED BY <1>1, <2>1
<1>3. ASSUME NEW n \in 1..Len(plan), NEW cv, <<n - 1, cv>> \in G
      PROVE  <<n, MergeStep(cv, p, run, n)>> \in G
  <2>1. n \in Nat /\ n \in Ids /\ cv \in ClassVerdict /\ Tells(cv, By(n - 1))
    <3>1. n \in Nat /\ n \in Ids
      BY <1>1
    <3> HIDE DEF By
    <3>2. cv \in ClassVerdict /\ Tells(cv, By(n - 1))
      BY <1>3
    <3> QED BY <3>1, <3>2
  <2>2. worker[n].claims[p] \in Claimable \cup {"none"} /\ worker[n].times \in {1, 2}
    BY <1>1, <2>1 DEF Worker
  <2>3. CASE n \in run
    <3>1. MergeStep(cv, p, run, n) = Update(cv, worker[n].claims[p], worker[n].times)
      BY <2>3 DEF MergeStep
    <3>2. By(n) = By(n - 1) \cup ({worker[n].claims[p]} \ {"none"})
      <4>1. \A c \in run : c <= n <=> c <= n - 1 \/ c = n
        BY <1>1, <2>1
      <4>2. "none" \notin Claimable
        BY DEF Claimable
      <4> QED BY <2>2, <2>3, <4>1, <4>2
    <3>3. Tells(MergeStep(cv, p, run, n), By(n))
      <4> HIDE DEF By
      <4> QED BY <2>1, <2>2, <3>1, <3>2, UpdateTells
    <3>4. MergeStep(cv, p, run, n) \in ClassVerdict
      <4>1. Claimable \subseteq Verdicts
        BY DEF Claimable, Verdicts
      <4> QED BY <2>1, <2>2, <3>1, <4>1, UpdateType
    <3> HIDE DEF By
    <3> QED BY <2>1, <3>3, <3>4
  <2>4. CASE n \notin run
    <3>1. MergeStep(cv, p, run, n) = cv
      BY <2>4 DEF MergeStep
    <3>2. By(n) = By(n - 1)
      <4>1. \A c \in run : c <= n <=> c <= n - 1
        <5> TAKE c \in run
        <5>1. c \in Nat /\ c # n /\ n \in Nat
          BY <1>1, <2>1, <2>4
        <5> QED BY <5>1
      <4> QED BY <4>1
    <3> HIDE DEF By
    <3> QED BY <2>1, <3>1, <3>2
  <2> QED BY <2>3, <2>4
<1>4. <<Len(plan), Merged(p, run)>> \in G
  <2> HIDE DEF G
  <2> QED BY <1>1, <1>2, <1>3, MergeInduction
<1>5. By(Len(plan)) = vs \cup ClaimsOf(run, p)
  BY <1>1 DEF ClaimsOf
<1> HIDE DEF By
<1> QED BY <1>4, <1>5

LEMMA SaidAfter ==
  ASSUME NEW run \in SUBSET Ids, NEW p \in Pairs, Ids' = Ids,
         \A c \in Ids : worker[c].claims[p] \in Claimable \cup {"none"},
         said' = said \cup Claimed(run)
  PROVE  Heard(said', Ids', p) = Said(p) \cup ClaimsOf(run, p)
<1>1. \A v, c : <<p, v, c>> \in Claimed(run) <=> v \in Verdicts /\ c \in run /\ worker[c].claims[p] = v
  BY DEF Claimed
<1>1a. \A c \in run : worker[c].claims[p] \in Claimable \cup {"none"}
  OBVIOUS
<1>2. Claimable \subseteq Verdicts /\ "none" \notin Verdicts
  BY DEF Claimable, Verdicts
<1>3. \A v, c : <<p, v, c>> \in said' <=> <<p, v, c>> \in said \/ <<p, v, c>> \in Claimed(run)
  OBVIOUS
<1>4. ASSUME NEW v
      PROVE  v \in Heard(said', Ids', p) <=> v \in Said(p) \/ (v \in Claimable /\ \E c \in run : worker[c].claims[p] = v)
  <2>1. v \in Heard(said', Ids', p) <=> v \in Verdicts /\ \E c \in Ids : <<p, v, c>> \in said'
    BY DEF Heard
  <2>2. v \in Said(p) <=> v \in Verdicts /\ \E c \in Ids : <<p, v, c>> \in said
    BY DEF Said, Heard
  <2>3. (\E c \in Ids : <<p, v, c>> \in Claimed(run)) <=> v \in Verdicts /\ \E c \in run : worker[c].claims[p] = v
    BY <1>1
  <2>4. v \in Verdicts /\ (\E c \in run : worker[c].claims[p] = v)
        <=> v \in Claimable /\ \E c \in run : worker[c].claims[p] = v
    BY <1>1a, <1>2
  <2> QED BY <1>3, <2>1, <2>2, <2>3, <2>4
<1> QED BY <1>4 DEF ClaimsOf

(* Claims are made by Finish alone; every other step keeps or clears them. *)
LEMMA ClaimsStay ==
  ASSUME FleetInv, LedgerInv, [Next]_vars
  PROVE  \A c \in Ids', p \in Pairs : worker'[c].claims[p] \in Claimable \cup {"none"}
<1> DEFINE Sober(w) == \A p \in Pairs : w.claims[p] \in Claimable \cup {"none"}
<1>1. worker \in [Ids -> Worker] /\ \A c \in Ids : Sober(worker[c])
  BY DEF FleetInv, TypeOK, LedgerInv
<1>2. Sober(Absent) /\ Sober([Absent EXCEPT !.pc = "failed"]) /\ \A share, decl : Sober(Launched(share, decl))
  BY DEF Absent, NoClaims, Launched
<1>3. CASE Coordinate
  <2>1. Ids' = Ids
    BY <1>3 DEF Coordinate, EnvelopeSpent, HaltedByBreaker, LaunchWave, WavesDone, Join, JoinFails, Gapfill, GapNext,
           GapJoin, Adjudicate, Ids, Chunks
  <2>2. \A c \in Ids : Sober(worker'[c])
    <3> HIDE DEF Sober
    <3>1. CASE EnvelopeSpent \/ HaltedByBreaker \/ WavesDone \/ Gapfill \/ Adjudicate
      BY <1>1, <3>1 DEF EnvelopeSpent, HaltedByBreaker, WavesDone, Gapfill, Adjudicate
    <3>2. CASE LaunchWave
      BY <1>1, <1>2, <3>2 DEF LaunchWave
    <3>3. CASE Join \/ JoinFails
      <4>1. worker' = [c \in Ids |-> Absent]
        BY <3>3 DEF Join, JoinFails
      <4> QED BY <1>2, <4>1
    <3>4. CASE GapNext
      <4>1. worker' = worker \/ \E p \in todo : worker' = [worker EXCEPT ![0] = Launched(0, {p})]
        BY <3>4 DEF GapNext
      <4>2. \A c \in Ids : worker'[c] = worker[c] \/ \E p : worker'[c] = Launched(0, {p})
        BY <1>1, <4>1
      <4>3. ASSUME NEW c \in Ids PROVE Sober(worker'[c])
        <5>1. CASE worker'[c] = worker[c]  BY <1>1, <5>1
        <5>2. ASSUME NEW p, worker'[c] = Launched(0, {p}) PROVE Sober(worker'[c])
          BY <1>2, <5>2
        <5> QED BY <4>2, <5>1, <5>2
      <4> QED BY <4>3
    <3>5. CASE GapJoin
      <4>1. worker' = [worker EXCEPT ![0] = Absent]
        BY <3>5 DEF GapJoin
      <4> QED BY <1>1, <1>2, <4>1
    <3> QED BY <1>3, <3>1, <3>2, <3>3, <3>4, <3>5 DEF Coordinate
  <2> QED BY <2>1, <2>2
<1>4. CASE \E c \in Ids : Work(c) \/ Clear(c) \/ Signal(c)
  <2>1. PICK c \in Ids : Work(c) \/ Clear(c) \/ Signal(c)
    BY <1>4
  <2>2. Ids' = Ids
    BY <2>1, FleetInvWork DEF Ids, Chunks
  <2>3. \A d \in Ids : Sober(worker'[d])
    <3>1. CASE Start(c) \/ Take(c) \/ Refuse(c) \/ Clear(c) \/ Signal(c)
      <4>1. \A d \in Ids : worker'[d].claims = worker[d].claims
        <5>1. CASE Start(c)  BY <1>1, <5>1 DEF Start, Worker
        <5>2. CASE Take(c)
          <6>1. \/ worker' = [worker EXCEPT ![c].pc = "run", ![c].sent = @ + 1]
                \/ worker' = [worker EXCEPT ![c].pc = "run"]
            BY <5>2 DEF Take
          <6>2. CASE worker' = [worker EXCEPT ![c].pc = "run", ![c].sent = @ + 1]
            BY <1>1, <6>2 DEF Worker
          <6>3. CASE worker' = [worker EXCEPT ![c].pc = "run"]
            BY <1>1, <6>3 DEF Worker
          <6> QED BY <6>1, <6>2, <6>3
        <5>3. CASE Refuse(c) BY <1>1, <5>3 DEF Refuse, Worker
        <5>4. CASE Clear(c)  BY <1>1, <5>4 DEF Clear, Worker
        <5>5. CASE Signal(c) BY <5>5 DEF Signal
        <5> QED BY <3>1, <5>1, <5>2, <5>3, <5>4, <5>5
      <4> QED BY <1>1, <4>1
    <3>2. CASE Fail(c)
      <4> HIDE DEF Sober
      <4> QED BY <1>1, <1>2, <3>2 DEF Fail
    <3>3. CASE Finish(c)
      <4>1. \A d \in Ids \ {c} : worker'[d] = worker[d]
        BY <1>1, <3>3 DEF Finish
      <4>2. \E found \in SUBSET Pairs, touched \in SUBSET worker[c].decl : \E attempted \in SUBSET touched :
              worker'[c].claims = ClaimsFromChunk(worker[c].decl, found, touched, attempted)
        <5>1. PICK found \in SUBSET Pairs, touched \in SUBSET worker[c].decl :
                \E attempted \in SUBSET touched, times \in {1, 2} :
                  worker' = [worker EXCEPT
                    ![c] = [@ EXCEPT !.pc = "done", !.times = IF found = {} THEN 1 ELSE times,
                                     !.claims = ClaimsFromChunk(worker[c].decl, found, touched, attempted)]]
          BY <3>3 DEF Finish
        <5>2. PICK attempted \in SUBSET touched, times \in {1, 2} :
                worker' = [worker EXCEPT
                  ![c] = [@ EXCEPT !.pc = "done", !.times = IF found = {} THEN 1 ELSE times,
                                   !.claims = ClaimsFromChunk(worker[c].decl, found, touched, attempted)]]
          BY <5>1
        <5>3. worker'[c].claims = ClaimsFromChunk(worker[c].decl, found, touched, attempted)
          BY <1>1, <5>2 DEF Worker
        <5> QED BY <5>3
      <4>3. \A decl, found, touched, attempted : \A p \in Pairs :
              ClaimsFromChunk(decl, found, touched, attempted)[p] \in Claimable \cup {"none"}
        BY DEF ClaimsFromChunk, Claimable
      <4>4. Sober(worker'[c])
        BY <4>2, <4>3
      <4> QED BY <1>1, <4>1, <4>4
    <3> QED BY <2>1, <3>1, <3>2, <3>3 DEF Work
  <2> QED BY <2>2, <2>3
<1>5. CASE Expire \/ UNCHANGED vars
  BY <1>1, <1>5 DEF Expire, vars, coord, Ids, Chunks
<1> QED BY <1>3, <1>4, <1>5 DEF Next

LEMMA LedgerInvStep ==
  ASSUME FleetInv, LedgerInv, [Next]_vars
  PROVE  LedgerInv'
<1>1. \A c \in Ids', p \in Pairs : worker'[c].claims[p] \in Claimable \cup {"none"}
  BY ClaimsStay
<1>2. \A c \in Ids, p \in Pairs : worker[c].claims[p] \in Claimable \cup {"none"}
  BY DEF LedgerInv
<1>3. ASSUME Ids' = Ids, phase # "done", phase' # "done", \A p \in Pairs : Tells(view'[p], Heard(said', Ids', p))
      PROVE  LedgerInv'
  <2>1. \A p \in Pairs : view'[p].verdict \in Allowed(phase', Heard(said', Ids', p))
    BY <1>3, TallyIsSummary
  <2> QED BY <1>1, <1>3, <2>1 DEF LedgerInv, Said
<1>4. ASSUME UNCHANGED <<plan, view, said>>, phase' = phase \/ (phase' # "done" /\ phase # "done") PROVE LedgerInv'
  <2>1. Ids' = Ids /\ \A p : Heard(said', Ids', p) = Said(p)
    BY <1>4 DEF Ids, Chunks, Said, Heard
  <2>2. phase' # "done" \/ phase' = phase
    BY <1>4
  <2>3. \A p \in Pairs : view'[p].verdict \in Allowed(phase', Said(p))
    <3>1. CASE phase' = phase
      BY <1>4, <3>1 DEF LedgerInv
    <3>2. CASE phase' # "done" /\ phase # "done"
      BY <1>4, <3>2, TallyIsSummary DEF LedgerInv
    <3> QED BY <1>4, <3>1, <3>2
  <2>4. phase' # "done" => \A p \in Pairs : Tells(view'[p], Said(p))
    BY <1>4 DEF LedgerInv
  <2> HIDE DEF LedgerInv
  <2>5. /\ phase' # "done" => \A p \in Pairs : Tells(view'[p], Heard(said', Ids', p))
        /\ \A p \in Pairs : view'[p].verdict \in Allowed(phase', Heard(said', Ids', p))
    BY <2>1, <2>3, <2>4
  <2> QED BY <1>1, <2>5 DEF LedgerInv, Said
<1>5. CASE EnvelopeSpent \/ HaltedByBreaker \/ WavesDone \/ LaunchWave \/ JoinFails \/ Gapfill \/ GapNext
  <2>1. UNCHANGED <<plan, view, said>> /\ phase' # "done" /\ phase # "done"
    BY <1>5 DEF EnvelopeSpent, HaltedByBreaker, WavesDone, LaunchWave, JoinFails, Gapfill, GapNext
  <2> QED BY <1>4, <2>1
<1>6. CASE (\E c \in Ids : Work(c) \/ Clear(c) \/ Signal(c)) \/ Expire \/ UNCHANGED vars
  <2>1. UNCHANGED <<plan, view, said, phase>>
    BY <1>6, FleetInvWork DEF Expire, vars, coord
  <2> QED BY <1>4, <2>1
<1>7. CASE Join
  <2>1. /\ phase # "done" /\ phase' # "done" /\ Ids' = Ids
        /\ view' = [p \in Pairs |-> Merged(p, Ran)] /\ said' = said \cup Claimed(Ran)
    BY <1>7 DEF Join, Ids, Chunks
  <2>2. Ran \subseteq Chunks /\ Ran \subseteq Ids
    BY <1>7, WaveFacts DEF Join, FleetInv, Shape, Ids
  <2>3. ASSUME NEW p \in Pairs PROVE Tells(view'[p], Heard(said', Ids', p))
    <3>1. Tells(view[p], Said(p))
      BY <2>1 DEF LedgerInv
    <3>2. Heard(said', Ids', p) = Said(p) \cup ClaimsOf(Ran, p)
      BY <1>2, <2>1, <2>2, SaidAfter
    <3>3. Tells(Merged(p, Ran), Said(p) \cup ClaimsOf(Ran, p))
      BY <1>2, <2>2, <3>1, MergedTells
    <3> QED BY <2>1, <3>2, <3>3
  <2> QED BY <1>3, <2>1, <2>3
<1>8. CASE GapJoin
  <2>1. /\ phase # "done" /\ phase' # "done" /\ Ids' = Ids /\ 0 \in Ids
        /\ view' = [p \in Pairs |-> Update(view[p], worker[0].claims[p], worker[0].times)]
        /\ said' = said \cup Claimed({0})
    BY <1>8 DEF GapJoin, Ids, Chunks
  <2>2. ASSUME NEW p \in Pairs PROVE Tells(view'[p], Heard(said', Ids', p))
    <3> DEFINE v == worker[0].claims[p]
    <3>1. Tells(view[p], Said(p)) /\ view[p] \in ClassVerdict /\ worker[0].times \in {1, 2}
          /\ v \in Claimable \cup {"none"}
      BY <1>2, <2>1 DEF LedgerInv, FleetInv, TypeOK, Shape, Worker
    <3>2. Heard(said', Ids', p) = Said(p) \cup ClaimsOf({0}, p)
      BY <1>2, <2>1, SaidAfter
    <3>3. ClaimsOf({0}, p) = {v} \ {"none"}
      BY <3>1 DEF Claimable, ClaimsOf
    <3>4. Tells(Update(view[p], v, worker[0].times), Said(p) \cup ({v} \ {"none"}))
      <4> HIDE DEF v
      <4> QED BY <3>1, UpdateTells
    <3> QED BY <2>1, <3>2, <3>3, <3>4
  <2> QED BY <1>3, <2>1, <2>2
<1>9. CASE Adjudicate
  <2>1. /\ phase # "done" /\ phase' = "done" /\ Ids' = Ids /\ said' = said
    BY <1>9 DEF Adjudicate, Ids, Chunks
  <2>2. PICK ballot \in [{p \in Pairs : view[p].verdict = "contested"} -> Votes] :
          view' = [p \in Pairs |-> IF Jurors > 0 /\ p \in DOMAIN ballot
                                     THEN ResolveContested(view[p], Majority(ballot[p][1], ballot[p][2]))
                                     ELSE view[p]]
    BY <1>9 DEF Adjudicate
  <2> DEFINE panel == {"contested", "vulnerable", "clean"}
  <2>3. ASSUME NEW p \in Pairs PROVE view'[p].verdict \in Allowed("done", Said(p))
    <3>1. Tells(view[p], Said(p)) /\ view[p] \in ClassVerdict
      BY <2>1 DEF LedgerInv, FleetInv, Shape
    <3>2. CASE Jurors > 0 /\ view[p].verdict = "contested"
      <4>1. {"vulnerable", "clean"} \subseteq Said(p)
        BY <3>1, <3>2 DEF Tells, Tally
      <4>2. view'[p] = ResolveContested(view[p], Majority(ballot[p][1], ballot[p][2]))
        BY <2>2, <3>2
      <4>3. \A to : ResolveContested(view[p], to).verdict \in panel
        BY <3>1, <3>2 DEF ResolveContested, ClassVerdict
      <4> QED BY <3>2, <4>1, <4>2, <4>3 DEF Allowed
    <3>3. CASE ~ (Jurors > 0 /\ view[p].verdict = "contested")
      <4>1. view'[p] = view[p]
        BY <2>2, <3>3
      <4>2. view[p].verdict \in Allowed("done", Said(p))
        BY <3>1, TallyIsSummary
      <4> QED BY <4>1, <4>2
    <3> QED BY <3>2, <3>3
  <2>4. \A p \in Pairs : view'[p].verdict \in Allowed(phase', Heard(said', Ids', p))
    BY <2>1, <2>3 DEF Said
  <2> QED BY <1>1, <2>1, <2>4 DEF LedgerInv, Said
<1> QED BY <1>5, <1>6, <1>7, <1>8, <1>9 DEF Next, Coordinate

(* The worldview says what the claims say, in whatever order the workers   *)
(* finished and the waves were merged; a panel moves contested pairs only. *)
THEOREM LedgerSaysWhatWasClaimed == Spec => []LedgerIsSummary
<1>1. Init => LedgerInv
  <2> SUFFICES ASSUME Init PROVE LedgerInv
    OBVIOUS
  <2>1. phase = "between" /\ \A p \in Pairs : Said(p) = {} /\ view[p] = Unseen
    BY DEF Init, Said, Heard
  <2>2. \A p \in Pairs : Tells(view[p], Said(p))
    BY <2>1 DEF Tells, Tally, Unseen
  <2>3. \A p \in Pairs : view[p].verdict \in Allowed(phase, Said(p))
    BY <2>2, TallyIsSummary
  <2>4. \A c \in Ids, p \in Pairs : worker[c].claims[p] \in Claimable \cup {"none"}
    BY DEF Init, Absent, NoClaims
  <2> QED BY <2>2, <2>3, <2>4 DEF LedgerInv
<1>2. LedgerInv => LedgerIsSummary
  BY DEF LedgerInv, LedgerIsSummary, Allowed, Summary, Said, Heard
<1> QED BY <1>1, <1>2, LedgerInvStep, FleetInvariant, PTL DEF Spec

-----------------------------------------------------------------------------
(* The sum of MapThenSumSet, whose fold is a recursive function on the     *)
(* subsets of a set: f adds up w over every subset of S.                   *)
AnyOf(s) == CHOOSE x \in s : TRUE
Adds(f, w, S) == f = [s \in SUBSET S |-> IF s = {} THEN 0 ELSE w[AnyOf(s)] + f[s \ {AnyOf(s)}]]
SumOf(w, S) == (CHOOSE f : Adds(f, w, S))[S]

(* Induction on the size of a finite set. *)
LEMMA SmallerFirst ==
  ASSUME NEW S, IsFiniteSet(S), NEW G, {} \in G,
         \A T \in SUBSET S : T # {} /\ (\A x \in T : T \ {x} \in G) => T \in G
  PROVE  SUBSET S \subseteq G
<1> DEFINE K == {k \in Nat : \A T \in SUBSET S : Cardinality(T) = k => T \in G}
<1>1. \A T \in SUBSET S : IsFiniteSet(T) /\ Cardinality(T) \in Nat /\ (Cardinality(T) = 0 <=> T = {})
  BY FS_Subset, FS_CardinalityType, FS_EmptySet
<1>2. 0 \in K
  BY <1>1
<1>3. ASSUME NEW k \in Nat, k \in K PROVE k + 1 \in K
  <2>1. ASSUME NEW T \in SUBSET S, Cardinality(T) = k + 1 PROVE T \in G
    <3>1. T # {}
      BY <1>1, <2>1
    <3>2. ASSUME NEW x \in T PROVE T \ {x} \in G
      <4>1. Cardinality(T \ {x}) = k /\ T \ {x} \in SUBSET S
        BY <1>1, <2>1, FS_RemoveElement
      <4> QED BY <1>3, <4>1
    <3> QED BY <3>1, <3>2
  <2> QED BY <2>1
<1> HIDE DEF K
<1>4. Nat \subseteq K
  BY <1>2, <1>3, NatSetInduction
<1> QED BY <1>1, <1>4 DEF K

(* The recursive function exists: it is built up by the size of the set. *)
LEMMA AddsExists ==
  ASSUME NEW S, IsFiniteSet(S), NEW w
  PROVE  \E f : Adds(f, w, S)
<1> DEFINE Dom(k) == {T \in SUBSET S : Cardinality(T) <= k}
           Body(f, s) == IF s = {} THEN 0 ELSE w[AnyOf(s)] + f[s \ {AnyOf(s)}]
           UpTo(k, f) == f = [s \in Dom(k) |-> Body(f, s)]
           K == {k \in Nat : \E f : UpTo(k, f)}
<1>1. \A T \in SUBSET S : IsFiniteSet(T) /\ Cardinality(T) \in Nat /\ Cardinality(T) <= Cardinality(S)
                          /\ (Cardinality(T) = 0 <=> T = {})
  BY FS_Subset, FS_CardinalityType, FS_EmptySet
<1>2. \A T \in SUBSET S : T # {} => AnyOf(T) \in T
  BY DEF AnyOf
<1>3. 0 \in K
  <2> DEFINE f == [s \in Dom(0) |-> 0]
  <2>1. \A s \in Dom(0) : s = {}
    BY <1>1
  <2>2. \A s \in Dom(0) : Body(f, s) = 0
    BY <2>1
  <2> HIDE DEF Dom, Body
  <2>3. UpTo(0, f)
    BY <2>2
  <2> QED BY <2>3
<1>4. ASSUME NEW k \in Nat, k \in K PROVE k + 1 \in K
  <2>1. PICK f : UpTo(k, f)
    BY <1>4
  <2> DEFINE g == [s \in Dom(k + 1) |-> Body(f, s)]
  <2>2. ASSUME NEW s \in Dom(k + 1), s # {} PROVE g[s \ {AnyOf(s)}] = f[s \ {AnyOf(s)}]
    <3> DEFINE r == s \ {AnyOf(s)}
    <3>1. r \in Dom(k) /\ r \in Dom(k + 1)
      <4>1. Cardinality(r) = Cardinality(s) - 1 /\ r \in SUBSET S
        BY <1>1, <1>2, <2>2, FS_RemoveElement
      <4> HIDE DEF r
      <4>2. Cardinality(s) <= k + 1 /\ Cardinality(s) \in Nat
        BY <1>1
      <4>3. Cardinality(r) <= k /\ Cardinality(r) <= k + 1
        BY <4>1, <4>2
      <4> QED BY <4>1, <4>3
    <3> HIDE DEF r, Body, Dom
    <3>2. f[r] = Body(f, r)
      BY <2>1, <3>1
    <3>3. g[r] = Body(f, r)
      BY <3>1
    <3> QED BY <3>2, <3>3 DEF r
  <2>3. \A s \in Dom(k + 1) : Body(g, s) = Body(f, s)
    <3> HIDE DEF g, Dom
    <3> QED BY <2>2
  <2>4. UpTo(k + 1, g)
    <3> HIDE DEF Body, Dom
    <3> QED BY <2>3
  <2> HIDE DEF UpTo, g
  <2>5. \E h : UpTo(k + 1, h)
    BY <2>4
  <2> QED BY <2>5
<1>5. Cardinality(S) \in Nat
  BY FS_CardinalityType
<1>6. Cardinality(S) \in K
  <2> HIDE DEF K
  <2> QED BY <1>3, <1>4, <1>5, NatSetInduction
<1>7. PICK f : UpTo(Cardinality(S), f)
  BY <1>6
<1>8. Dom(Cardinality(S)) = SUBSET S
  BY <1>1
<1>9. Adds(f, w, S)
  BY <1>7, <1>8 DEF Adds
<1> QED BY <1>9

(* The chosen function is one that adds up. *)
LEMMA SumOfAdds ==
  ASSUME NEW S, IsFiniteSet(S), NEW w
  PROVE  \E f : Adds(f, w, S) /\ SumOf(w, S) = f[S]
<1>1. \E f : Adds(f, w, S)
  BY AddsExists
<1>2. Adds(CHOOSE f : Adds(f, w, S), w, S)
  BY <1>1
<1> QED BY <1>2 DEF SumOf

(* The order of the elements does not matter. *)
AnyOrder(f, w, S) ==
  /\ f[{}] = 0
  /\ \A T \in SUBSET S : f[T] \in Nat /\ \A x \in T : f[T] = w[x] + f[T \ {x}]

LEMMA AddsInAnyOrder ==
  ASSUME NEW S, IsFiniteSet(S), NEW w, \A x \in S : w[x] \in Nat, NEW f, Adds(f, w, S)
  PROVE  AnyOrder(f, w, S)
<1> DEFINE N == {T \in SUBSET S : f[T] \in Nat}
           G == {T \in SUBSET S : \A x \in T : f[T] = w[x] + f[T \ {x}]}
<1>1. \A T \in SUBSET S : f[T] = IF T = {} THEN 0 ELSE w[AnyOf(T)] + f[T \ {AnyOf(T)}]
  BY DEF Adds
<1>2. \A T \in SUBSET S : T # {} => AnyOf(T) \in T
  BY DEF AnyOf
<1>3. f[{}] = 0
  BY <1>1
<1>4. SUBSET S \subseteq N
  <2>1. ASSUME NEW T \in SUBSET S, T # {}, \A x \in T : T \ {x} \in N PROVE T \in N
    <3>1. AnyOf(T) \in T /\ f[T] = w[AnyOf(T)] + f[T \ {AnyOf(T)}]
      BY <1>1, <1>2, <2>1
    <3>2. f[T \ {AnyOf(T)}] \in Nat /\ w[AnyOf(T)] \in Nat
      BY <2>1, <3>1
    <3>3. f[T] \in Nat
      BY <3>1, <3>2
    <3> QED BY <3>3
  <2>2. {} \in N
    BY <1>3
  <2> HIDE DEF N
  <2> QED BY <2>1, <2>2, SmallerFirst
<1>5. ASSUME NEW T \in SUBSET S, T # {}, \A x \in T : T \ {x} \in G PROVE T \in G
  <2> DEFINE y == AnyOf(T)
  <2>1. y \in T /\ f[T] = w[y] + f[T \ {y}]
    BY <1>1, <1>2, <1>5
  <2> HIDE DEF y
  <2>2. ASSUME NEW x \in T, x # y PROVE f[T] = w[x] + f[T \ {x}]
    <3> DEFINE r == T \ {x, y}
    <3>1. (T \ {y}) \ {x} = r /\ (T \ {x}) \ {y} = r
      OBVIOUS
    <3>2. f[T \ {y}] = w[x] + f[(T \ {y}) \ {x}]
      BY <1>5, <2>1, <2>2
    <3>3. f[T \ {x}] = w[y] + f[(T \ {x}) \ {y}]
      BY <1>5, <2>1, <2>2
    <3>4. f[r] \in Nat /\ w[x] \in Nat /\ w[y] \in Nat
      BY <1>4, <2>1
    <3> HIDE DEF r
    <3> QED BY <2>1, <3>1, <3>2, <3>3, <3>4
  <2> QED BY <2>1, <2>2
<1>6. SUBSET S \subseteq G
  <2>1. {} \in G
    OBVIOUS
  <2> HIDE DEF G
  <2> QED BY <1>5, <2>1, SmallerFirst
<1> QED BY <1>3, <1>4, <1>6 DEF AnyOrder

(* Less to add adds up to less. *)
LEMMA AddsLess ==
  ASSUME NEW S, IsFiniteSet(S), NEW T, IsFiniteSet(T), NEW A \in SUBSET S, A \in SUBSET T,
         NEW w, NEW v, \A x \in S : w[x] \in Nat, \A x \in T : v[x] \in Nat,
         \A x \in A : v[x] <= w[x],
         NEW f, NEW g, Adds(f, w, S), Adds(g, v, T)
  PROVE  g[A] <= f[A]
<1> DEFINE G == {U \in SUBSET A : g[U] <= f[U]}
<1>1. IsFiniteSet(A)
  BY FS_Subset
<1>a. AnyOrder(f, w, S) /\ AnyOrder(g, v, T)
  BY AddsInAnyOrder
<1>2. /\ f[{}] = 0
      /\ \A U \in SUBSET S : f[U] \in Nat /\ \A x \in U : f[U] = w[x] + f[U \ {x}]
  BY <1>a DEF AnyOrder
<1>3. /\ g[{}] = 0
      /\ \A U \in SUBSET T : g[U] \in Nat /\ \A x \in U : g[U] = v[x] + g[U \ {x}]
  BY <1>a DEF AnyOrder
<1>4. {} \in G
  BY <1>2, <1>3
<1>5. ASSUME NEW U \in SUBSET A, U # {}, \A x \in U : U \ {x} \in G PROVE U \in G
  <2>1. PICK x \in U : TRUE
    BY <1>5
  <2>2. g[U \ {x}] <= f[U \ {x}]
    BY <1>5, <2>1
  <2>3. v[x] <= w[x] /\ v[x] \in Nat /\ w[x] \in Nat
    BY <2>1
  <2>4. U \in SUBSET S /\ U \ {x} \in SUBSET S /\ U \in SUBSET T /\ U \ {x} \in SUBSET T
    OBVIOUS
  <2>5. f[U] = w[x] + f[U \ {x}] /\ f[U \ {x}] \in Nat
    BY <1>2, <2>1, <2>4
  <2>6. g[U] = v[x] + g[U \ {x}] /\ g[U \ {x}] \in Nat
    BY <1>3, <2>1, <2>4
  <2>7. g[U] <= f[U]
    BY <2>2, <2>3, <2>5, <2>6
  <2> QED BY <2>7
<1> HIDE DEF G
<1>6. SUBSET A \subseteq G
  BY <1>1, <1>4, <1>5, SmallerFirst
<1> QED BY <1>6 DEF G

(* What is used of it below. *)
LEMMA SumFacts ==
  ASSUME NEW S, IsFiniteSet(S), NEW w, \A x \in S : w[x] \in Nat
  PROVE  /\ SumOf(w, S) \in Nat /\ (S = {} => SumOf(w, S) = 0)
         /\ \A x \in S : SumOf(w, S) = w[x] + SumOf(w, S \ {x})
<1>1. PICK f : Adds(f, w, S) /\ SumOf(w, S) = f[S]
  BY SumOfAdds
<1>2. /\ f[{}] = 0
      /\ \A T \in SUBSET S : f[T] \in Nat /\ \A x \in T : f[T] = w[x] + f[T \ {x}]
  BY <1>1, AddsInAnyOrder DEF AnyOrder
<1>3. ASSUME NEW x \in S PROVE f[S \ {x}] = SumOf(w, S \ {x})
  <2> DEFINE T == S \ {x}
  <2>1. IsFiniteSet(T) /\ T \in SUBSET S
    BY FS_Subset
  <2> HIDE DEF T
  <2>2. PICK g : Adds(g, w, T) /\ SumOf(w, T) = g[T]
    BY <2>1, SumOfAdds
  <2>3. \A y \in T : w[y] \in Nat /\ w[y] <= w[y]
    BY <2>1
  <2>4. g[T] <= f[T] /\ f[T] <= g[T]
    BY <1>1, <2>1, <2>2, <2>3, AddsLess
  <2>5. f[T] \in Nat /\ g[T] \in Nat
    BY <1>1, <1>2, <2>1, <2>2, <2>3, AddsInAnyOrder DEF AnyOrder
  <2> QED BY <2>2, <2>4, <2>5 DEF T
<1>4. SumOf(w, S) \in Nat
  BY <1>1, <1>2
<1>5. S = {} => SumOf(w, S) = 0
  BY <1>1, <1>2
<1>6. \A x \in S : SumOf(w, S) = w[x] + SumOf(w, S \ {x})
  BY <1>1, <1>2, <1>3
<1> QED BY <1>4, <1>5, <1>6

(* Less of everything makes less in all. *)
LEMMA SumLess ==
  ASSUME NEW S, IsFiniteSet(S), NEW w, NEW v,
         \A x \in S : w[x] \in Nat /\ v[x] \in Nat /\ v[x] <= w[x]
  PROVE  SumOf(v, S) <= SumOf(w, S)
<1>1. PICK f : Adds(f, w, S) /\ SumOf(w, S) = f[S]
  BY SumOfAdds
<1>2. PICK g : Adds(g, v, S) /\ SumOf(v, S) = g[S]
  BY SumOfAdds
<1>3. S \in SUBSET S /\ (\A x \in S : w[x] \in Nat) /\ (\A x \in S : v[x] \in Nat)
      /\ \A x \in S : v[x] <= w[x]
  OBVIOUS
<1>4. g[S] <= f[S]
  BY <1>1, <1>2, <1>3, AddsLess
<1> QED BY <1>1, <1>2, <1>4

(* What the workers S of a table W may still send, as the model sums it up *)
(* and as the lemmas above do. *)
RestOf(W, S) == MapThenSumSet(LAMBDA c : W[c].cap - W[c].sent, S)
Rest(W, S) == [c \in S |-> W[c].cap - W[c].sent]

(* The two are the same number. *)
LEMMA RestIsSum ==
  ASSUME NEW S, IsFiniteSet(S), NEW W, \A c \in S : W[c].cap - W[c].sent \in Nat
  PROVE  RestOf(W, S) = SumOf(Rest(W, S), S)
<1> DEFINE w == Rest(W, S)
           Body(g) == [s \in SUBSET S |-> IF s = {} THEN 0
                         ELSE (W[AnyOf(s)].cap - W[AnyOf(s)].sent) + g[s \ {AnyOf(s)}]]
           It(g) == g = Body(g)
<1>1. RestOf(W, S) = (CHOOSE g : It(g))[S]
  BY DEF RestOf, MapThenSumSet, MapThenFoldSet, AnyOf
<1>2. ASSUME NEW g PROVE It(g) <=> Adds(g, w, S)
  <2>1. \A s \in SUBSET S : s # {} => w[AnyOf(s)] = W[AnyOf(s)].cap - W[AnyOf(s)].sent
    BY DEF Rest, AnyOf
  <2> HIDE DEF w
  <2>2. Body(g) = [s \in SUBSET S |-> IF s = {} THEN 0 ELSE w[AnyOf(s)] + g[s \ {AnyOf(s)}]]
    BY <2>1
  <2> HIDE DEF Body
  <2> QED BY <2>2 DEF Adds
<1>3. \A x \in S : w[x] \in Nat
  BY DEF Rest
<1> HIDE DEF It, w
<1>4. \E g : It(g)
  BY <1>2, AddsExists
<1>5. It(CHOOSE g : It(g))
  BY <1>4
<1>6. PICK g : Adds(g, w, S) /\ RestOf(W, S) = g[S]
  BY <1>1, <1>2, <1>5
<1>7. PICK f : Adds(f, w, S) /\ SumOf(w, S) = f[S]
  BY SumOfAdds
<1>8. \A x \in S : w[x] <= w[x]
  BY <1>3
<1>9. f[S] <= g[S] /\ g[S] <= f[S]
  BY <1>3, <1>6, <1>7, <1>8, AddsLess
<1>10. f[S] \in Nat /\ g[S] \in Nat
  BY <1>3, <1>6, <1>7, AddsInAnyOrder DEF AnyOrder
<1> QED BY <1>6, <1>7, <1>9, <1>10 DEF w

(* Equal parts and one more for each of E. *)
LEMMA EvenSum ==
  ASSUME NEW S, IsFiniteSet(S), NEW E \in SUBSET S, NEW q \in Nat, NEW w,
         \A x \in S : w[x] = q + (IF x \in E THEN 1 ELSE 0)
  PROVE  SumOf(w, S) = Cardinality(S) * q + Cardinality(E)
<1> DEFINE G == {T \in SUBSET S : SumOf(w, T) = Cardinality(T) * q + Cardinality(T \cap E)}
<1>1. \A T \in SUBSET S : IsFiniteSet(T) /\ Cardinality(T) \in Nat
  BY FS_Subset, FS_CardinalityType
<1>2. \A T \in SUBSET S : \A x \in T : w[x] \in Nat
  OBVIOUS
<1>3. {} \in G
  <2>1. SumOf(w, {}) = 0
    BY <1>1, SumFacts
  <2>2. Cardinality({}) = 0 /\ {} \cap E = {}
    BY FS_EmptySet
  <2> QED BY <2>1, <2>2
<1>4. ASSUME NEW T \in SUBSET S, T # {}, \A x \in T : T \ {x} \in G PROVE T \in G
  <2>1. PICK x \in T : TRUE
    BY <1>4
  <2> DEFINE r == T \ {x}
  <2>2. SumOf(w, T) = w[x] + SumOf(w, r)
    BY <1>1, <1>2, SumFacts
  <2>3. SumOf(w, r) = Cardinality(r) * q + Cardinality(r \cap E)
    BY <1>4
  <2>4. Cardinality(T) = Cardinality(r) + 1 /\ Cardinality(r) \in Nat
    BY <1>1, FS_RemoveElement
  <2>5. Cardinality(T \cap E) = Cardinality(r \cap E) + (IF x \in E THEN 1 ELSE 0)
        /\ Cardinality(r \cap E) \in Nat
    <3>1. CASE x \in E
      <4>1. r \cap E = (T \cap E) \ {x} /\ x \in T \cap E
        BY <3>1
      <4>2. Cardinality(r \cap E) = Cardinality(T \cap E) - 1 /\ Cardinality(T \cap E) \in Nat
            /\ Cardinality(r \cap E) \in Nat
        <5>1. T \cap E \in SUBSET S /\ r \cap E \in SUBSET S
          OBVIOUS
        <5> HIDE DEF r
        <5>2. IsFiniteSet(T \cap E) /\ Cardinality(T \cap E) \in Nat /\ Cardinality(r \cap E) \in Nat
          BY <1>1, <5>1
        <5>3. Cardinality((T \cap E) \ {x}) = Cardinality(T \cap E) - 1
          BY <4>1, <5>2, FS_RemoveElement
        <5> QED BY <4>1, <5>2, <5>3
      <4> QED BY <3>1, <4>2
    <3>2. CASE x \notin E
      <4>1. r \cap E = T \cap E
        BY <3>2
      <4> QED BY <1>1, <3>2, <4>1
    <3> QED BY <3>1, <3>2
  <2> HIDE DEF r
  <2> DEFINE k == Cardinality(r)
  <2>6. (k + 1) * q = k * q + q
    <3>1. k \in Nat
      BY <2>4
    <3> HIDE DEF k
    <3> QED BY <3>1
  <2>7. k * q \in Nat
    BY <2>4
  <2>8. SumOf(w, T) = Cardinality(T) * q + Cardinality(T \cap E)
    BY <2>2, <2>3, <2>4, <2>5, <2>6, <2>7
  <2> QED BY <2>8
<1> HIDE DEF G
<1>5. S \in G
  BY <1>3, <1>4, SmallerFirst
<1>6. S \cap E = E
  OBVIOUS
<1> QED BY <1>5, <1>6 DEF G

(* SplitReservations hands out no more than there is. *)
LEMMA SharesAddUp ==
  ASSUME FleetInv, NEW run \in SUBSET Ids, run # {}
  PROVE  SumOf([c \in run |-> Share(run, c)], run) <= left
<1> DEFINE n == Cardinality(run)
           q == left \div n
           r == left % n
           Before(c) == {d \in run : d < c}
           rank(c) == Cardinality(Before(c))
           E == {c \in run : rank(c) < r}
           w == [c \in run |-> Share(run, c)]
<1>1. IsFiniteSet(run) /\ n \in Nat \ {0} /\ left \in Nat /\ run \subseteq Nat
  BY PlanFacts, FS_EmptySet, FleetAssumption DEF FleetInv, TypeOK, Ids
<1>2. q \in Nat /\ r \in Nat /\ left = n * q + r
  <2> HIDE DEF n
  <2> QED BY <1>1
<1>3. \A c \in run : rank(c) \in Nat /\ IsFiniteSet(Before(c))
  BY <1>1, FS_Subset, FS_CardinalityType
<1>4. ASSUME NEW c \in run, NEW d \in run, c < d PROVE rank(c) < rank(d)
  <2>1. Before(c) \subseteq Before(d) /\ c \in Before(d) /\ c \notin Before(c)
    <3>1. c \in Nat /\ d \in Nat /\ run \subseteq Nat
      BY <1>1
    <3>2. \A e \in run : e < c => e < d
      BY <3>1, <1>4
    <3>3. Before(c) \subseteq Before(d)
      BY <3>2
    <3>4. c \in Before(d)
      BY <1>4
    <3>5. c \notin Before(c)
      BY <3>1
    <3> QED BY <3>3, <3>4, <3>5
  <2>2. rank(c) <= rank(d) /\ rank(c) # rank(d)
    <3> HIDE DEF Before
    <3> QED BY <1>3, <2>1, FS_Subset
  <2> QED BY <1>3, <2>2
<1>5. Cardinality(E) <= r
  <2> DEFINE f == [c \in E |-> rank(c)]
  <2>1. f \in Injection(E, 0..(r - 1))
    <3>1. f \in [E -> 0..(r - 1)]
      BY <1>2, <1>3
    <3>2. ASSUME NEW c \in E, NEW d \in E, f[c] = f[d] PROVE c = d
      <4>1. f[c] = rank(c) /\ f[d] = rank(d) /\ c \in run /\ d \in run
        OBVIOUS
      <4> HIDE DEF rank, f, E
      <4>2. c \in Nat /\ d \in Nat
        BY <1>1, <4>1
      <4>3. rank(c) \in Nat /\ rank(d) \in Nat /\ rank(c) = rank(d)
        BY <1>3, <3>2, <4>1
      <4>4. ~(c < d) /\ ~(d < c)
        BY <1>4, <4>1, <4>3
      <4> QED BY <4>2, <4>4
    <3> HIDE DEF f
    <3> QED BY <3>1, <3>2 DEF Injection, IsInjective
  <2>2. IsFiniteSet(0..(r - 1)) /\ Cardinality(0..(r - 1)) = r
    <3> HIDE DEF r
    <3>1. r - 1 \in Int /\ 0 \in Int /\ (0 > r - 1 => r = 0) /\ (r - 1) - 0 + 1 = r
      BY <1>2
    <3>2. /\ IsFiniteSet(0..(r - 1))
          /\ Cardinality(0..(r - 1)) = IF 0 > r - 1 THEN 0 ELSE (r - 1) - 0 + 1
      BY <3>1, FS_Interval
    <3> QED BY <3>1, <3>2
  <2> HIDE DEF f, E, r
  <2> QED BY <2>1, <2>2, FS_Injection
<1>6. \A c \in run : w[c] = q + (IF c \in E THEN 1 ELSE 0)
  BY DEF Share
<1>7. SumOf(w, run) = n * q + Cardinality(E)
  <2>1. E \in SUBSET run
    OBVIOUS
  <2> HIDE DEF E, w, q
  <2> QED BY <1>1, <1>2, <1>6, <2>1, EvenSum
<1>8. Cardinality(E) \in Nat
  BY <1>1, FS_Subset, FS_CardinalityType
<1> HIDE DEF w, E, q, r, n
<1>9. n * q \in Nat
  BY <1>1, <1>2
<1>10. SumOf(w, run) <= left
  BY <1>2, <1>5, <1>7, <1>8, <1>9
<1> QED BY <1>10 DEF w

-----------------------------------------------------------------------------
(* The reservations of a wave.                                             *)

Open == {c \in Ids : worker[c].pc \notin {"absent", "done"}}

(* What ReservationsBacked speaks of: a healthy wave in which every chunk  *)
(* got a share.                                                            *)
Reserved == phase = "wave" /\ ~Cancelled /\ \A c \in Ran : worker[c].share > 0

(* No worker has sent more than its cap, and what the open ones may still  *)
(* send is there.                                                          *)
BackedInv ==
  /\ \A c \in Ids : worker[c].sent <= worker[c].cap
  /\ Reserved => SumOf(Rest(worker, Open), Open) <= left

(* The invariant is the property, read through the sum lemmas. *)
LEMMA BackedIsReserved ==
  ASSUME FleetInv, BackedInv
  PROVE  ReservationsBacked
<1> SUFFICES ASSUME Reserved
             PROVE  RestOf(worker, Open) <= left
  <2>1. Open = {c \in Ran : worker[c].pc # "done"}
    BY DEF Open, Ran
  <2> QED BY <2>1 DEF ReservationsBacked, RestOf, Reserved
<1>1. IsFiniteSet(Open)
  BY PlanFacts DEF Open, FleetInv, TypeOK
<1>2. \A c \in Open : worker[c].cap - worker[c].sent \in Nat
  <2>1. \A c \in Ids : worker[c].cap \in Nat /\ worker[c].sent \in Nat
    <3>1. MaxRequests \in Nat /\ \A c \in Ids : worker[c] \in Worker
      BY FleetAssumption DEF FleetInv, TypeOK
    <3> QED BY <3>1 DEF Worker
  <2> QED BY <2>1 DEF Open, BackedInv
<1>3. RestOf(worker, Open) = SumOf(Rest(worker, Open), Open)
  BY <1>1, <1>2, RestIsSum
<1> QED BY <1>3 DEF BackedInv

(* The same amounts add up to the same. *)
LEMMA SumSame ==
  ASSUME NEW S, IsFiniteSet(S), NEW w, NEW v, \A x \in S : w[x] \in Nat /\ v[x] = w[x]
  PROVE  SumOf(v, S) = SumOf(w, S)
<1>1. \A x \in S : w[x] \in Nat /\ v[x] \in Nat /\ v[x] <= w[x] /\ w[x] <= v[x]
  OBVIOUS
<1>2. SumOf(v, S) <= SumOf(w, S) /\ SumOf(w, S) <= SumOf(v, S)
  BY <1>1, SumLess
<1>3. SumOf(v, S) \in Nat /\ SumOf(w, S) \in Nat
  BY <1>1, SumFacts
<1> QED BY <1>2, <1>3

(* A worker that stays open and changes nothing of its cap and count.      *)
LEMMA BackedStays ==
  ASSUME FleetInv, BackedInv, UNCHANGED <<plan, phase, left>>,
         \A d \in Ids : /\ worker'[d].cap = worker[d].cap /\ worker'[d].sent = worker[d].sent
                        /\ worker'[d].share = worker[d].share
                        /\ worker[d].pc = "failed" => worker'[d].pc = "failed"
                        /\ worker'[d].pc = "absent" <=> worker[d].pc = "absent"
                        /\ worker'[d].pc = "done" <=> worker[d].pc = "done"
  PROVE  BackedInv'
<1>1. Ids' = Ids
  BY DEF Ids, Chunks
<1>2. Open' = Open /\ Ran' = Ran
  BY <1>1 DEF Open, Ran
<1>3. Reserved' => Reserved
  BY <1>1, <1>2 DEF Reserved, Cancelled, Ran
<1>4. Rest(worker', Open) = Rest(worker, Open)
  BY DEF Rest, Open
<1> QED BY <1>1, <1>2, <1>3, <1>4 DEF BackedInv

(* A request takes one from the envelope and one from the worker's rest. *)
LEMMA BackedTake ==
  ASSUME FleetInv, BackedInv, NEW c \in Ids, Take(c)
  PROVE  BackedInv'
<1>1. Ids' = Ids /\ phase' = phase /\ worker \in [Ids -> Worker] /\ left \in Nat /\ left > 0 /\ left' = left - 1
  BY FleetAssumption DEF Take, Ids, Chunks, coord, FleetInv, TypeOK
<1>2. \A d \in Ids : d # c => worker'[d] = worker[d]
  BY <1>1 DEF Take
<1>3. /\ worker[c].pc = "cleared" /\ worker'[c].pc = "run"
      /\ worker'[c].cap = worker[c].cap /\ worker'[c].share = worker[c].share
      /\ worker'[c].sent \in {worker[c].sent, worker[c].sent + 1}
      /\ ~Cancelled => worker'[c].sent = worker[c].sent + 1
  BY <1>1 DEF Take, Worker
<1>4. worker[c].sent < worker[c].cap
  BY <1>3 DEF FleetInv, Shape
<1>5. \A d \in Ids : worker[d].sent \in Nat /\ worker[d].cap \in Nat /\ worker[d].sent <= worker[d].cap
  BY <1>1, FleetAssumption DEF Worker, BackedInv
<1>6. \A d \in Ids : worker'[d].sent <= worker'[d].cap
  BY <1>2, <1>3, <1>4, <1>5
<1>7. ASSUME Reserved' PROVE SumOf(Rest(worker', Open'), Open') <= left'
  <2>1. Open' = Open /\ Ran' = Ran /\ c \in Open
    BY <1>1, <1>2, <1>3 DEF Open, Ran
  <2>2. Reserved
    BY <1>1, <1>2, <1>3, <1>7, <2>1 DEF Reserved, Cancelled, Ran
  <2> DEFINE O == Open
             w == Rest(worker, O)
             v == Rest(worker', O)
  <2>3. IsFiniteSet(O) /\ IsFiniteSet(O \ {c})
    BY PlanFacts DEF Open, FleetInv, TypeOK
  <2>4. \A d \in O : w[d] \in Nat /\ v[d] \in Nat
    BY <1>2, <1>3, <1>4, <1>5 DEF Rest, Open
  <2>5. \A d \in O \ {c} : w[d] = v[d]
    BY <1>2 DEF Rest, Open
  <2>6. w[c] = v[c] + 1
    <3>1. w[c] = worker[c].cap - worker[c].sent /\ v[c] = worker'[c].cap - worker'[c].sent
      BY <2>1 DEF Rest
    <3> QED BY <1>3, <1>5, <2>2, <3>1 DEF Reserved
  <2> HIDE DEF w, v, O
  <2>7. SumOf(w, O) = w[c] + SumOf(w, O \ {c}) /\ SumOf(v, O) = v[c] + SumOf(v, O \ {c})
    BY <2>1, <2>3, <2>4, SumFacts DEF O
  <2>8. SumOf(w, O \ {c}) = SumOf(v, O \ {c})
    BY <2>3, <2>4, <2>5, SumSame
  <2>9. SumOf(w, O \ {c}) \in Nat /\ v[c] \in Nat
    BY <2>1, <2>3, <2>4, SumFacts DEF O
  <2>10. SumOf(w, O) <= left
    BY <2>2 DEF BackedInv, w, O
  <2>11. SumOf(v, O) <= left - 1
    BY <1>1, <2>6, <2>7, <2>8, <2>9, <2>10
  <2> QED BY <1>1, <2>1, <2>11 DEF v, O
<1> QED BY <1>1, <1>6, <1>7 DEF BackedInv

(* A finished worker gives up what it did not send. *)
LEMMA BackedFinish ==
  ASSUME FleetInv, BackedInv, NEW c \in Ids, Finish(c)
  PROVE  BackedInv'
<1>1. Ids' = Ids /\ phase' = phase /\ worker \in [Ids -> Worker] /\ left' = left /\ ~Cancelled
  BY DEF Finish, Ids, Chunks, coord, FleetInv, TypeOK
<1>2. \A d \in Ids : d # c => worker'[d] = worker[d]
  BY <1>1 DEF Finish
<1>3. /\ worker[c].pc \in {"run", "refused"} /\ worker'[c].pc = "done"
      /\ worker'[c].cap = worker[c].cap /\ worker'[c].share = worker[c].share
      /\ worker'[c].sent = worker[c].sent
  BY <1>1 DEF Finish, Worker
<1>4. \A d \in Ids : worker[d].sent \in Nat /\ worker[d].cap \in Nat /\ worker[d].sent <= worker[d].cap
  BY <1>1, FleetAssumption DEF Worker, BackedInv
<1>5. \A d \in Ids : worker'[d].sent <= worker'[d].cap
  BY <1>2, <1>3, <1>4
<1>6. ASSUME Reserved' PROVE SumOf(Rest(worker', Open'), Open') <= left'
  <2>1. Open' = Open \ {c} /\ Ran' = Ran /\ c \in Open
    BY <1>1, <1>2, <1>3 DEF Open, Ran
  <2>2. Reserved
    BY <1>1, <1>2, <1>3, <1>6, <2>1 DEF Reserved, Ran
  <2> DEFINE O == Open
             w == Rest(worker, O)
             v == Rest(worker', O \ {c})
  <2>3. IsFiniteSet(O) /\ IsFiniteSet(O \ {c})
    BY PlanFacts DEF Open, FleetInv, TypeOK
  <2>4. \A d \in O : w[d] \in Nat
    BY <1>4 DEF Rest, Open
  <2>5. \A d \in O \ {c} : w[d] = v[d]
    BY <1>2 DEF Rest, Open
  <2> HIDE DEF w, v, O
  <2>6. SumOf(w, O) = w[c] + SumOf(w, O \ {c})
    BY <2>1, <2>3, <2>4, SumFacts DEF O
  <2>7. SumOf(v, O \ {c}) = SumOf(w, O \ {c})
    BY <2>3, <2>4, <2>5, SumSame
  <2>8. SumOf(w, O \ {c}) \in Nat /\ w[c] \in Nat
    BY <2>1, <2>3, <2>4, SumFacts DEF O
  <2>9. SumOf(w, O) <= left /\ left \in Nat
    BY <2>2, FleetAssumption DEF BackedInv, FleetInv, TypeOK, w, O
  <2>10. SumOf(v, O \ {c}) <= left
    BY <2>6, <2>7, <2>8, <2>9
  <2> QED BY <1>1, <2>1, <2>10 DEF v, O
<1> QED BY <1>1, <1>5, <1>6 DEF BackedInv

(* The shares of a wave add up to what the envelope held when it started.  *)
LEMMA BackedLaunch ==
  ASSUME FleetInv, BackedInv, LaunchWave
  PROVE  BackedInv'
<1>1. Ids' = Ids /\ left' = left /\ phase = "between"
  BY DEF LaunchWave, Ids, Chunks
<1>2. CASE Runnable = {}
  BY <1>1, <1>2 DEF LaunchWave, BackedInv, Reserved
<1>3. CASE Runnable # {}
  <2>1. Runnable \in SUBSET Ids
    BY WaveFacts DEF Runnable, LaunchWave, Ids
  <2>2. worker' = [c \in Ids |-> IF c \in Runnable THEN Launched(Share(Runnable, c), Declared(c))
                                                   ELSE Absent]
    BY <1>3 DEF LaunchWave
  <2>3. \A c \in Runnable : Share(Runnable, c) \in Nat
    BY <1>3, <2>1, ShareType
  <2>4. \A c \in Runnable :
          /\ worker'[c].pc = "queued" /\ worker'[c].share = Share(Runnable, c)
          /\ worker'[c].cap = Cap(Share(Runnable, c)) /\ worker'[c].sent = 0
    BY <2>1, <2>2 DEF Launched, Absent
  <2>5. \A c \in Ids : c \notin Runnable => worker'[c] = Absent
    BY <2>2
  <2>6. \A n \in Nat : Cap(n) \in Nat /\ (n > 0 => Cap(n) <= n)
    BY FleetAssumption DEF Cap
  <2>7. \A c \in Ids : worker'[c].sent <= worker'[c].cap
    BY <2>3, <2>4, <2>5, <2>6 DEF Absent
  <2>8. ASSUME Reserved' PROVE SumOf(Rest(worker', Open'), Open') <= left'
    <3>1. Open' = Runnable /\ Ran' = Runnable
      BY <1>1, <2>1, <2>4, <2>5 DEF Open, Ran, Absent
    <3> DEFINE w == [c \in Runnable |-> Share(Runnable, c)]
               v == Rest(worker', Runnable)
    <3>2. \A c \in Runnable : Share(Runnable, c) > 0
      BY <2>4, <2>8, <3>1 DEF Reserved
    <3>3. \A c \in Runnable : w[c] \in Nat /\ v[c] \in Nat /\ v[c] <= w[c]
      <4> SUFFICES ASSUME NEW c \in Runnable PROVE w[c] \in Nat /\ v[c] \in Nat /\ v[c] <= w[c]
        OBVIOUS
      <4>1. w[c] = Share(Runnable, c) /\ v[c] = Cap(Share(Runnable, c)) - 0
        BY <2>4 DEF Rest
      <4> HIDE DEF w, v
      <4> QED BY <2>3, <2>6, <3>2, <4>1
    <3>4. IsFiniteSet(Runnable)
      BY <2>1, PlanFacts DEF FleetInv, TypeOK
    <3> HIDE DEF v
    <3>5. SumOf(v, Runnable) \in Nat /\ SumOf(w, Runnable) \in Nat
      <4> HIDE DEF w
      <4> QED BY <3>3, <3>4, SumFacts
    <3>6. SumOf(v, Runnable) <= SumOf(w, Runnable)
      <4> HIDE DEF w
      <4> QED BY <3>3, <3>4, SumLess
    <3>7. SumOf(w, Runnable) <= left /\ left \in Nat
      <4>1. SumOf(w, Runnable) <= left
        BY <1>3, <2>1, SharesAddUp
      <4> HIDE DEF w
      <4>2. left \in Nat
        BY FleetAssumption DEF FleetInv, TypeOK
      <4> QED BY <4>1, <4>2
    <3> HIDE DEF w
    <3>8. SumOf(v, Runnable) <= left
      BY <3>5, <3>6, <3>7
    <3> QED BY <1>1, <3>1, <3>8 DEF v
  <2> QED BY <1>1, <2>7, <2>8 DEF BackedInv
<1> QED BY <1>2, <1>3

(* The other steps of the coordinator leave no wave behind them.           *)
LEMMA BackedCoordinate ==
  ASSUME FleetInv, BackedInv, Coordinate
  PROVE  BackedInv'
<1>1. CASE LaunchWave
  BY <1>1, BackedLaunch
<1>2. ASSUME UNCHANGED plan, phase' # "wave",
             \A c \in Ids : \/ worker'[c] = worker[c]
                            \/ worker'[c].sent = 0 /\ worker'[c].cap \in Nat
      PROVE  BackedInv'
  <2>1. Ids' = Ids
    BY <1>2 DEF Ids, Chunks
  <2>2. \A c \in Ids : worker'[c].sent <= worker'[c].cap
    BY <1>2 DEF BackedInv
  <2> QED BY <1>2, <2>1, <2>2 DEF BackedInv, Reserved
<1>3. CASE EnvelopeSpent \/ HaltedByBreaker \/ WavesDone \/ Gapfill \/ Adjudicate
  <2>1. UNCHANGED <<plan, worker>> /\ phase' # "wave"
    BY <1>3 DEF EnvelopeSpent, HaltedByBreaker, WavesDone, Gapfill, Adjudicate
  <2> QED BY <1>2, <2>1
<1>4. CASE JoinFails
  <2>1. UNCHANGED plan /\ phase' # "wave" /\ worker' = [c \in Ids |-> Absent]
    BY <1>4 DEF JoinFails
  <2> QED BY <1>2, <2>1 DEF Absent
<1>5. CASE Join
  <2>1. UNCHANGED plan /\ phase' # "wave" /\ worker' = [c \in Ids |-> Absent]
    BY <1>5 DEF Join
  <2> QED BY <1>2, <2>1 DEF Absent
<1>6. CASE GapNext \/ GapJoin
  <2>1. UNCHANGED plan /\ phase' # "wave"
    BY <1>6 DEF GapNext, GapJoin
  <2>2. worker \in [Ids -> Worker]
    BY DEF FleetInv, TypeOK
  <2>3. \/ worker' = worker
        \/ worker' = [worker EXCEPT ![0] = Absent]
        \/ \E p \in todo : worker' = [worker EXCEPT ![0] = Launched(0, {p})]
    BY <1>6 DEF GapNext, GapJoin
  <2>4. Absent.sent = 0 /\ Absent.cap = 0
    BY DEF Absent
  <2>5. \A p \in todo : Launched(0, {p}).sent = 0 /\ Launched(0, {p}).cap \in Nat
    BY FleetAssumption DEF Launched, Absent, Cap
  <2>6. \A c \in Ids : worker'[c] = worker[c] \/ (worker'[c].sent = 0 /\ worker'[c].cap \in Nat)
    <3> SUFFICES ASSUME NEW c \in Ids
                 PROVE  worker'[c] = worker[c] \/ (worker'[c].sent = 0 /\ worker'[c].cap \in Nat)
      OBVIOUS
    <3>1. CASE worker' = worker
      BY <3>1
    <3>2. ASSUME NEW a, a.sent = 0, a.cap \in Nat, worker' = [worker EXCEPT ![0] = a]
          PROVE  worker'[c] = worker[c] \/ (worker'[c].sent = 0 /\ worker'[c].cap \in Nat)
      BY <2>2, <3>2
    <3>3. CASE worker' = [worker EXCEPT ![0] = Absent]
      <4> DEFINE a == Absent
      <4>1. a.sent = 0 /\ a.cap \in Nat /\ worker' = [worker EXCEPT ![0] = a]
        BY <2>4, <3>3
      <4> HIDE DEF a
      <4> QED BY <3>2, <4>1
    <3>4. ASSUME NEW p \in todo, worker' = [worker EXCEPT ![0] = Launched(0, {p})]
          PROVE  worker'[c] = worker[c] \/ (worker'[c].sent = 0 /\ worker'[c].cap \in Nat)
      <4> DEFINE a == Launched(0, {p})
      <4>1. a.sent = 0 /\ a.cap \in Nat /\ worker' = [worker EXCEPT ![0] = a]
        BY <2>5, <3>4
      <4> HIDE DEF a
      <4> QED BY <3>2, <4>1
    <3> QED BY <2>3, <3>1, <3>3, <3>4
  <2> QED BY <1>2, <2>1, <2>6
<1> QED BY <1>1, <1>3, <1>4, <1>5, <1>6 DEF Coordinate

(* The steps of one worker. *)
LEMMA BackedWork ==
  ASSUME FleetInv, BackedInv, NEW c \in Ids, Work(c) \/ Clear(c) \/ Signal(c)
  PROVE  BackedInv'
<1>1. worker \in [Ids -> Worker]
  BY DEF FleetInv, TypeOK
<1>2. CASE Take(c)
  BY <1>2, BackedTake
<1>3. CASE Finish(c)
  BY <1>3, BackedFinish
<1>4. CASE Fail(c)
  <2>1. Ids' = Ids
    BY <1>4 DEF Fail, Ids, Chunks
  <2>2. worker' = [worker EXCEPT ![c] = [Absent EXCEPT !.pc = "failed"]]
    BY <1>4 DEF Fail
  <2>3. worker'[c].pc = "failed" /\ worker'[c].sent = 0 /\ worker'[c].cap = 0
        /\ \A d \in Ids : d # c => worker'[d] = worker[d]
    BY <1>1, <2>2 DEF Absent
  <2>4. Cancelled'
    BY <2>1, <2>3 DEF Cancelled
  <2>5. \A d \in Ids : worker'[d].sent <= worker'[d].cap
    BY <2>3 DEF BackedInv
  <2> QED BY <2>1, <2>4, <2>5 DEF BackedInv, Reserved
<1>5. CASE Signal(c)
  <2>1. UNCHANGED <<plan, phase, left, worker>>
    BY <1>5 DEF Signal, coord
  <2> QED BY <2>1, BackedStays
<1>6. CASE Start(c) \/ Clear(c) \/ Refuse(c)
  <2>1. UNCHANGED <<plan, phase, left>>
    BY <1>6 DEF Start, Clear, Refuse, coord
  <2>2. PICK to \in {"run", "cleared", "refused"} : worker' = [worker EXCEPT ![c].pc = to]
    BY <1>6 DEF Start, Clear, Refuse
  <2>3. worker[c].pc \in {"queued", "run", "cleared"}
    BY <1>6 DEF Start, Clear, Refuse
  <2>4. \A d \in Ids : d # c => worker'[d] = worker[d]
    BY <1>1, <2>2
  <2>5. /\ worker'[c].pc = to /\ worker'[c].cap = worker[c].cap /\ worker'[c].sent = worker[c].sent
        /\ worker'[c].share = worker[c].share
    BY <1>1, <2>2 DEF Worker
  <2> QED BY <2>1, <2>3, <2>4, <2>5, BackedStays
<1> QED BY <1>2, <1>3, <1>4, <1>5, <1>6 DEF Work

(* A reservation is backed: RunFleet splits what is left of the envelope   *)
(* among the chunks of a wave, and while all have a share and none has     *)
(* failed no worker can spend what was promised to another.                *)
THEOREM SharesAreBacked == Spec => []ReservationsBacked
<1>1. Init => BackedInv
  <2> SUFFICES ASSUME Init PROVE BackedInv
    OBVIOUS
  <2>1. \A c \in Ids : worker[c].sent = 0 /\ worker[c].cap = 0
    BY DEF Init, Absent
  <2>2. ~Reserved
    BY DEF Init, Reserved
  <2> QED BY <2>1, <2>2 DEF BackedInv
<1>2. FleetInv /\ BackedInv /\ [Next]_vars => BackedInv'
  <2> SUFFICES ASSUME FleetInv, BackedInv, [Next]_vars PROVE BackedInv'
    OBVIOUS
  <2>1. CASE UNCHANGED vars
    <3>1. UNCHANGED <<plan, phase, left, worker>>
      BY <2>1 DEF vars, coord
    <3> QED BY <3>1, BackedStays
  <2>2. CASE Expire
    <3>1. UNCHANGED <<plan, phase, left, worker>>
      BY <2>2 DEF Expire, coord
    <3> QED BY <3>1, BackedStays
  <2>3. CASE Coordinate
    BY <2>3, BackedCoordinate
  <2>4. ASSUME NEW c \in Ids, Work(c) \/ Clear(c) \/ Signal(c) PROVE BackedInv'
    BY <2>4, BackedWork
  <2> QED BY <2>1, <2>2, <2>3, <2>4 DEF Next
<1>3. FleetInv /\ BackedInv => ReservationsBacked
  BY BackedIsReserved
<1> QED BY <1>1, <1>2, <1>3, FleetInvariant, PTL DEF Spec

=============================================================================
