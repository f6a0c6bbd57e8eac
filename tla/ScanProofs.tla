----------------------------- MODULE ScanProofs -----------------------------
(***************************************************************************)
(* Proofs about Scan and ScanStore, for any tools, dependencies, targets   *)
(* and any interleaving of tool calls, deadlines and kills.                *)
(***************************************************************************)
EXTENDS ScanStore, FiniteSetTheorems, WellFoundedInduction, TLAPS

-----------------------------------------------------------------------------
(* Induction for a set of numbers, and its least number, from the          *)
(* well-foundedness of < on Nat.                                           *)

LEMMA NatSetInduction ==
  ASSUME NEW S, 0 \in S, \A n \in Nat : n \in S => n + 1 \in S
  PROVE  Nat \subseteq S
<1> SUFFICES ASSUME Nat \ S # {} PROVE FALSE
  OBVIOUS
<1> DEFINE T == Nat \ S
           R == OpToRel(<, Nat)
<1>1. T \subseteq Nat /\ T # {}
  OBVIOUS
<1>2. PICK x \in T : \A y \in T : ~ (<<y, x>> \in R)
  <2> HIDE DEF T
  <2> QED BY <1>1, NatLessThanWellFounded, WFMin
<1>3. x \in Nat \ {0} /\ x - 1 \in Nat /\ x - 1 < x
  OBVIOUS
<1>4. <<x - 1, x>> \in R
  BY <1>3 DEF OpToRel
<1>5. x - 1 \in S
  BY <1>2, <1>3, <1>4
<1>6. (x - 1) + 1 \in S
  BY <1>3, <1>5
<1> QED BY <1>3, <1>6

LEMMA LeastNumber ==
  ASSUME NEW N \in SUBSET Nat, N # {}
  PROVE  \E w \in N : \A v \in N : w <= v
<1> DEFINE R == OpToRel(<, Nat)
<1>1. PICK w \in N : \A v \in N : ~ (<<v, w>> \in R)
  <2> HIDE DEF R
  <2>1. IsWellFoundedOn(R, Nat)
    BY NatLessThanWellFounded DEF R
  <2> QED BY <2>1, WFMin
<1>2. ASSUME NEW v \in N, v < w PROVE FALSE
  <2>1. v \in Nat /\ w \in Nat
    OBVIOUS
  <2>2. <<v, w>> \in R
    BY <2>1, <1>2 DEF OpToRel
  <2> QED BY <1>1, <2>2
<1>3. \A v \in N : w <= v
  BY <1>2
<1> QED BY <1>3

-----------------------------------------------------------------------------
(* partitionWaves: Level(b, k) is the tools of batch b with a chain of k   *)
(* dependencies below them in b.                                           *)
Present(b) == {ToolOf[d] : d \in b}
Above(b, S) == {t \in Present(b) : (Needs[t] \ {t}) \cap S # {}}

Table(b, g, m) == g = [k \in 0..m |-> IF k = 0 THEN Present(b) ELSE Above(b, g[k - 1])]

Level(b, k) == (CHOOSE g : Table(b, g, k))[k]

LEMMA TableExists ==
  ASSUME NEW b, NEW L \in Nat
  PROVE  \E g : Table(b, g, L)
<1> DEFINE S == {m \in Nat : \E g : Table(b, g, m)}
<1>1. 0 \in S
  <2>1. Table(b, [k \in 0..0 |-> Present(b)], 0)
    BY DEF Table
  <2> QED BY <2>1
<1>2. ASSUME NEW m \in Nat, m \in S PROVE m + 1 \in S
  <2>1. PICK f : Table(b, f, m)
    BY <1>2
  <2> DEFINE g == [k \in 0..m + 1 |-> IF k = m + 1 THEN Above(b, f[m]) ELSE f[k]]
             h == [k \in 0..m + 1 |-> IF k = 0 THEN Present(b) ELSE Above(b, g[k - 1])]
  <2>2. ASSUME NEW k \in 0..m + 1 PROVE g[k] = h[k]
    <3>1. CASE k = m + 1
      <4>1. k - 1 = m /\ k - 1 \in 0..m + 1 /\ g[k - 1] = f[m]
        BY <3>1
      <4> QED BY <3>1, <4>1
    <3>2. CASE k \in 1..m
      <4>1. k \in 0..m /\ k - 1 \in 0..m /\ k - 1 \in 0..m + 1 /\ k - 1 # m + 1 /\ k # m + 1
        BY <3>2
      <4>2. g[k - 1] = f[k - 1] /\ g[k] = f[k]
        BY <4>1
      <4>3. f[k] = Above(b, f[k - 1])
        BY <2>1, <3>2, <4>1 DEF Table
      <4> QED BY <3>2, <4>1, <4>2, <4>3
    <3>3. CASE k = 0
      BY <2>1, <3>3 DEF Table
    <3> QED BY <3>1, <3>2, <3>3
  <2>3. Table(b, g, m + 1)
    <3>1. g = h
      <4> HIDE DEF g, h
      <4>1. g = [k \in 0..m + 1 |-> g[k]] /\ h = [k \in 0..m + 1 |-> h[k]]
        BY DEF g, h
      <4> QED BY <2>2, <4>1
    <3> QED BY <3>1 DEF h, Table
  <2>4. \E x : Table(b, x, m + 1)
    <3> HIDE DEF g, h
    <3> QED BY <2>3
  <2> QED BY <2>4
<1>3. L \in S
  <2> HIDE DEF S
  <2> QED BY <1>1, <1>2, NatSetInduction
<1> QED BY <1>3

LEMMA TableUnique ==
  ASSUME NEW b, NEW m \in Nat, NEW n \in Nat, NEW g, NEW h, Table(b, g, m), Table(b, h, n),
         NEW k \in Nat, k <= m, k <= n
  PROVE  g[k] = h[k]
<1> DEFINE S == {j \in Nat : j <= m /\ j <= n => g[j] = h[j]}
<1>1. 0 \in S
  <2>1. 0 \in 0..m /\ 0 \in 0..n
    OBVIOUS
  <2> QED BY <2>1 DEF Table
<1>2. ASSUME NEW j \in Nat, j \in S PROVE j + 1 \in S
  <2> SUFFICES ASSUME j + 1 <= m, j + 1 <= n PROVE g[j + 1] = h[j + 1]
    OBVIOUS
  <2>1. j + 1 \in 0..m /\ j + 1 \in 0..n /\ j + 1 # 0 /\ (j + 1) - 1 = j /\ j <= m /\ j <= n
    OBVIOUS
  <2>2. g[j + 1] = Above(b, g[j]) /\ h[j + 1] = Above(b, h[j])
    BY <2>1 DEF Table
  <2> QED BY <1>2, <2>1, <2>2
<1>3. k \in S
  <2> HIDE DEF S
  <2> QED BY <1>1, <1>2, NatSetInduction
<1> QED BY <1>3

LEMMA LevelSteps ==
  ASSUME NEW b
  PROVE  /\ Level(b, 0) = Present(b)
         /\ \A k \in Nat : Level(b, k + 1) = Above(b, Level(b, k))
<1> DEFINE T(k) == CHOOSE g : Table(b, g, k)
<1>1. \A k \in Nat : Table(b, T(k), k)
  BY TableExists
<1>2. \A k \in Nat : Level(b, k) = T(k)[k]
  BY DEF Level
<1> HIDE DEF T
<1>3. Level(b, 0) = Present(b)
  <2>1. Table(b, T(0), 0) /\ 0 \in 0..0
    BY <1>1
  <2> QED BY <1>2, <2>1 DEF Table
<1>4. ASSUME NEW k \in Nat PROVE Level(b, k + 1) = Above(b, Level(b, k))
  <2>1. Table(b, T(k + 1), k + 1) /\ Table(b, T(k), k) /\ k + 1 \in Nat
    BY <1>1
  <2>2. T(k + 1)[k] = T(k)[k]
    BY <2>1, TableUnique
  <2>3. T(k + 1)[k + 1] = Above(b, T(k + 1)[k])
    <3>1. k + 1 \in 0..k + 1 /\ k + 1 # 0 /\ (k + 1) - 1 = k
      OBVIOUS
    <3> QED BY <2>1, <3>1 DEF Table
  <2> QED BY <1>2, <2>1, <2>2, <2>3
<1> QED BY <1>3, <1>4

(* The recursive function of the specification is Level.                   *)
LEMMA WaveIsLevel ==
  ASSUME NEW b, NEW n \in Nat
  PROVE  Wave(b, n) = {d \in b : ToolOf[d] \in Level(b, n) \ Level(b, n + 1)}
<1> DEFINE Rec(f) == f = [k \in Nat |->
                            IF k = 0 THEN Present(b)
                            ELSE {t \in Present(b) : (Needs[t] \ {t}) \cap f[k - 1] # {}}]
           F == [k \in Nat |-> Level(b, k)]
           atLeast == CHOOSE f : Rec(f)
<1>1. Rec(F)
  <2> DEFINE H == [k \in Nat |-> IF k = 0 THEN Present(b)
                                 ELSE {t \in Present(b) : (Needs[t] \ {t}) \cap F[k - 1] # {}}]
  <2>1. ASSUME NEW k \in Nat PROVE F[k] = H[k]
    <3>1. CASE k = 0
      BY <3>1, LevelSteps
    <3>2. CASE k # 0
      <4>1. k - 1 \in Nat /\ (k - 1) + 1 = k
        BY <3>2
      <4>2. Level(b, k) = Above(b, Level(b, k - 1))
        BY <4>1, LevelSteps
      <4> QED BY <3>2, <4>1, <4>2 DEF Above
    <3> QED BY <3>1, <3>2
  <2>2. F = H
    <3> HIDE DEF F, H
    <3>1. F = [k \in Nat |-> F[k]] /\ H = [k \in Nat |-> H[k]]
      BY DEF F, H
    <3> QED BY <2>1, <3>1
  <2> QED BY <2>2
<1>2. Rec(atLeast)
  <2>1. \E f : Rec(f)
    <3> HIDE DEF F, Rec
    <3> QED BY <1>1
  <2> QED BY <2>1
<1>3. ASSUME NEW k \in Nat PROVE atLeast[k] = Level(b, k)
  <2> HIDE DEF atLeast
  <2> DEFINE S == {j \in Nat : atLeast[j] = Level(b, j)}
  <2>1. 0 \in S
    BY <1>2, LevelSteps
  <2>2. ASSUME NEW j \in Nat, j \in S PROVE j + 1 \in S
    <3>1. j + 1 \in Nat /\ j + 1 # 0 /\ (j + 1) - 1 = j
      OBVIOUS
    <3>2. atLeast[j + 1] = Above(b, atLeast[j])
      BY <1>2, <3>1 DEF Above
    <3> QED BY <2>2, <3>1, <3>2, LevelSteps
  <2>3. k \in S
    <3> HIDE DEF S
    <3> QED BY <2>1, <2>2, NatSetInduction
  <2> QED BY <2>3
<1>4. Wave(b, n) = {d \in b : ToolOf[d] \in atLeast[n] \ atLeast[n + 1]}
  BY DEF Wave, Present
<1> HIDE DEF atLeast
<1> QED BY <1>3, <1>4

LEMMA LevelFalls ==
  ASSUME NEW b, NEW m \in Nat, NEW n \in Nat, m <= n
  PROVE  Level(b, n) \subseteq Level(b, m)
<1>1. ASSUME NEW k \in Nat PROVE Level(b, k + 1) \subseteq Level(b, k)
  <2> DEFINE S == {j \in Nat : Level(b, j + 1) \subseteq Level(b, j)}
  <2>1. 0 \in S
    BY LevelSteps DEF Above
  <2>2. ASSUME NEW j \in Nat, j \in S PROVE j + 1 \in S
    <3>1. Level(b, (j + 1) + 1) = Above(b, Level(b, j + 1)) /\ Level(b, j + 1) = Above(b, Level(b, j))
      BY LevelSteps
    <3>2. Above(b, Level(b, j + 1)) \subseteq Above(b, Level(b, j))
      BY <2>2 DEF Above
    <3> QED BY <3>1, <3>2
  <2>3. k \in S
    <3> HIDE DEF S
    <3> QED BY <2>1, <2>2, NatSetInduction
  <2> QED BY <2>3
<1> DEFINE S == {j \in Nat : Level(b, m + j) \subseteq Level(b, m)}
<1>2. 0 \in S
  BY m + 0 = m
<1>3. ASSUME NEW j \in Nat, j \in S PROVE j + 1 \in S
  <2>1. m + j \in Nat /\ m + (j + 1) = (m + j) + 1
    OBVIOUS
  <2> QED BY <1>1, <1>3, <2>1
<1>4. n - m \in S
  <2> HIDE DEF S
  <2>1. n - m \in Nat
    OBVIOUS
  <2> QED BY <1>2, <1>3, <2>1, NatSetInduction
<1>5. m + (n - m) = n
  OBVIOUS
<1> QED BY <1>4, <1>5

(* No dispatch is in two waves. *)
LEMMA WavesDisjoint ==
  ASSUME NEW b, NEW m \in Nat, NEW n \in Nat, NEW d, d \in Wave(b, m), d \in Wave(b, n)
  PROVE  m = n
<1>1. ASSUME NEW i \in Nat, NEW j \in Nat, d \in Wave(b, i), d \in Wave(b, j), i < j PROVE FALSE
  <2>1. Level(b, j) \subseteq Level(b, i + 1)
    BY <1>1, LevelFalls
  <2> QED BY <1>1, <2>1, WaveIsLevel
<1> QED BY <1>1

(* What a tool of the batch depends on is in an earlier wave. *)
LEMMA WaveBelow ==
  ASSUME NEW b, NEW n \in Nat, NEW d \in Wave(b, n), NEW e \in b, ToolOf[e] \in Needs[ToolOf[d]] \ {ToolOf[d]}
  PROVE  n > 0 /\ \E m \in 0..n - 1 : e \in Wave(b, m)
<1>1. d \in b /\ ToolOf[d] \in Level(b, n) \ Level(b, n + 1)
  BY WaveIsLevel
<1>2. ToolOf[e] \in Present(b) /\ ToolOf[d] \in Present(b)
  BY <1>1 DEF Present
<1>3. ToolOf[e] \notin Level(b, n)
  <2>1. Level(b, n + 1) = Above(b, Level(b, n))
    BY LevelSteps
  <2> QED BY <1>1, <1>2, <2>1 DEF Above
<1>4. PICK k \in Nat : ToolOf[e] \notin Level(b, k) /\ \A j \in Nat : ToolOf[e] \notin Level(b, j) => k <= j
  <2> DEFINE N == {j \in Nat : ToolOf[e] \notin Level(b, j)}
  <2>1. N \in SUBSET Nat /\ N # {}
    BY <1>3
  <2>2. PICK k \in N : \A j \in N : k <= j
    <3> HIDE DEF N
    <3> QED BY <2>1, LeastNumber
  <2> QED BY <2>2
<1>5. k # 0
  BY <1>2, <1>4, LevelSteps
<1>6. k - 1 \in Nat /\ (k - 1) + 1 = k /\ k <= n /\ ~(k <= k - 1)
  BY <1>3, <1>4, <1>5
<1>7. ToolOf[e] \in Level(b, k - 1)
  BY <1>4, <1>6
<1>8. e \in Wave(b, k - 1)
  BY <1>4, <1>6, <1>7, WaveIsLevel
<1>9. n > 0 /\ k - 1 \in 0..n - 1
  BY <1>5, <1>6
<1> QED BY <1>8, <1>9

(* The waves end at the first empty one. *)
LEMMA WavesEnd ==
  ASSUME NEW b, NEW n \in Nat, Wave(b, n) = {}, NEW m \in Nat, n <= m
  PROVE  Wave(b, m) = {}
<1>1. ASSUME NEW k \in Nat, Wave(b, k) = {} PROVE Wave(b, k + 1) = {}
  <2> SUFFICES ASSUME NEW d \in Wave(b, k + 1) PROVE FALSE
    OBVIOUS
  <2>1. ToolOf[d] \in Level(b, k + 1) \ Level(b, (k + 1) + 1)
    BY WaveIsLevel
  <2>2. Level(b, k + 1) = Above(b, Level(b, k)) /\ Level(b, (k + 1) + 1) = Above(b, Level(b, k + 1))
    BY LevelSteps
  <2>3. PICK u \in Needs[ToolOf[d]] \ {ToolOf[d]} : u \in Level(b, k)
    BY <2>1, <2>2 DEF Above
  <2>4. u \notin Level(b, k + 1)
    BY <2>1, <2>2 DEF Above
  <2>5. u \in Present(b)
    <3>1. Level(b, k) \subseteq Level(b, 0)
      BY LevelFalls
    <3> QED BY <2>3, <3>1, LevelSteps
  <2>6. PICK e \in b : ToolOf[e] = u
    BY <2>5 DEF Present
  <2>7. e \in Wave(b, k)
    BY <2>3, <2>4, <2>6, WaveIsLevel
  <2> QED BY <1>1, <2>7
<1> DEFINE S == {j \in Nat : Wave(b, n + j) = {}}
<1>2. 0 \in S
  BY n + 0 = n
<1>3. ASSUME NEW j \in Nat, j \in S PROVE j + 1 \in S
  <2>1. n + j \in Nat /\ n + (j + 1) = (n + j) + 1
    OBVIOUS
  <2> QED BY <1>1, <1>3, <2>1
<1>4. m - n \in S
  <2> HIDE DEF S
  <2>1. m - n \in Nat
    OBVIOUS
  <2> QED BY <1>2, <1>3, <2>1, NatSetInduction
<1>5. n + (m - n) = m
  OBVIOUS
<1> QED BY <1>4, <1>5

(* A tool has at least as many ranks below it as it has levels, so there   *)
(* are no more waves than tools.                                           *)
LEMMA ToolsFinite == IsFiniteSet(Tools) /\ Cardinality(Tools) \in Nat
<1> DEFINE f == [x \in Dispatches |-> ToolOf[x]]
<1>1. f \in [Dispatches -> Tools] /\ \A t \in Tools : \E x \in Dispatches : f[x] = t
  BY DEF Tools
<1>2. f \in Surjection(Dispatches, Tools)
  BY <1>1 DEF Surjection
<1> HIDE DEF f
<1> QED BY <1>2, ScanAssumption, FS_Surjection, FS_CardinalityType

LEMMA RankBounds ==
  ASSUME NEW b, NEW rank \in [Tools -> 0..Cardinality(Tools)],
         \A t \in Tools : \A u \in Needs[t] \ {t} : rank[u] < rank[t],
         NEW n \in Nat, NEW t \in Tools, t \in Level(b, n)
  PROVE  n <= rank[t]
<1>1. Needs \in [Tools -> SUBSET Tools]
  BY ScanAssumption
<1>2. \A v \in Tools : rank[v] \in Nat
  BY ToolsFinite
<1> DEFINE S == {k \in Nat : \A v \in Tools : rank[v] < k => v \notin Level(b, k)}
<1>3. 0 \in S
  BY <1>2
<1>4. ASSUME NEW k \in Nat, k \in S PROVE k + 1 \in S
  <2> SUFFICES ASSUME NEW v \in Tools, rank[v] < k + 1, v \in Level(b, k + 1) PROVE FALSE
    OBVIOUS
  <2>1. PICK u \in Needs[v] \ {v} : u \in Level(b, k)
    BY LevelSteps DEF Above
  <2>2. u \in Tools /\ rank[u] < rank[v] /\ rank[u] \in Nat /\ rank[v] \in Nat
    BY <1>1, <1>2, <2>1
  <2>3. rank[u] < k
    BY <2>2
  <2> QED BY <1>4, <2>1, <2>2, <2>3
<1>5. n \in S
  <2> HIDE DEF S
  <2> QED BY <1>3, <1>4, NatSetInduction
<1>6. ~(rank[t] < n)
  BY <1>5
<1> QED BY <1>2, <1>6

LEMMA WaveBound ==
  ASSUME NEW b \in SUBSET Dispatches, NEW n \in Nat, Wave(b, n) # {}
  PROVE  n \in 0..Cardinality(Tools)
<1>1. PICK rank \in [Tools -> 0..Cardinality(Tools)] :
        \A t \in Tools : \A u \in Needs[t] \ {t} : rank[u] < rank[t]
  BY DependencyAssumption
<1>2. PICK d \in b : ToolOf[d] \in Level(b, n)
  BY WaveIsLevel
<1>3. ToolOf[d] \in Tools
  BY DEF Tools
<1> QED BY <1>1, <1>2, <1>3, RankBounds, ToolsFinite

(* Dependencies without a cycle put every dispatch into some wave. *)
LEMMA EveryoneHasAWave ==
  ASSUME NEW b \in SUBSET Dispatches, NEW d \in b
  PROVE  \E n \in Nat : d \in Wave(b, n)
<1>1. PICK rank \in [Tools -> 0..Cardinality(Tools)] :
        \A t \in Tools : \A u \in Needs[t] \ {t} : rank[u] < rank[t]
  BY DependencyAssumption
<1> DEFINE t == ToolOf[d]
<1>2. t \in Present(b) /\ t \in Tools /\ rank[t] \in Nat /\ rank[t] + 1 \in Nat
  BY <1>1, ToolsFinite DEF Present, Tools
<1>3. t \notin Level(b, rank[t] + 1)
  <2>1. ~(rank[t] + 1 <= rank[t])
    BY <1>2
  <2> QED BY <1>1, <1>2, <2>1, RankBounds
<1>4. PICK k \in Nat : t \notin Level(b, k) /\ \A j \in Nat : t \notin Level(b, j) => k <= j
  <2> DEFINE N == {j \in Nat : t \notin Level(b, j)}
  <2>1. N \in SUBSET Nat /\ N # {}
    BY <1>2, <1>3
  <2>2. PICK k \in N : \A j \in N : k <= j
    <3> HIDE DEF N
    <3> QED BY <2>1, LeastNumber
  <2> QED BY <2>2
<1>5. k # 0
  BY <1>2, <1>4, LevelSteps
<1>6. k - 1 \in Nat /\ (k - 1) + 1 = k /\ ~(k <= k - 1)
  BY <1>4, <1>5
<1>7. d \in Wave(b, k - 1)
  BY <1>4, <1>6, WaveIsLevel
<1> QED BY <1>6, <1>7

-----------------------------------------------------------------------------
(* The scan.                                                               *)

(* What each stage runs, and what it has not come to yet.                  *)
Off(ds) == \A d \in ds : st[d] = "off"

Staged ==
  /\ stage = "idle" => Off(Dispatches)
  /\ stage = "recon" => batch = Recon /\ Off(Fanout \cup Deep)
  /\ stage = "fanout" => Off(Fanout \cup Deep)
  /\ stage = "detect" => batch \in {Fanout, Fanout \ Behind} /\ Off(Deep)
  /\ stage = "final" => Off(Deep)
  /\ stage = "escalate" => batch \subseteq Deep

Waved == stage \in {"detect", "escalate"}

(* Only the current wave is under way; what was started is in a wave up to *)
(* it.                                                                     *)
Fronted ==
  /\ \A d \in Dispatches : st[d] \in {"queued", "running"} => Working /\ d \in Current
  /\ Working => \A d \in Current : st[d] # "off"
  /\ Waved => \A d \in batch : st[d] # "off" => \E m \in 0..wave : d \in Wave(batch, m)

(* The waves behind have ended, and what they captured is in the session,  *)
(* which every dispatch started since has been given.                      *)
Behinds ==
  Waved => \A m \in 0..wave - 1 : \A e \in Wave(batch, m) :
    st[e] \in {"done", "failed"} /\ (e \in captured => session)

Handed ==
  Waved => \A m \in 0..wave : \A k \in 0..m - 1 : \A d \in Wave(batch, m), e \in Wave(batch, k) :
    st[d] \in {"running", "done"} /\ e \in captured => d \in authed

(* Nothing a tool returned is lost.                                        *)
KeptInv == \A d \in Dispatches : st[d] = "done" => hits[d] \subseteq found \/ (Working /\ d \in Current)

ScanInv == ScanTypeOK /\ Staged /\ Fronted /\ Behinds /\ Handed /\ KeptInv

LEMMA WavePart ==
  ASSUME NEW b, NEW n \in Nat
  PROVE  Wave(b, n) \subseteq b
BY WaveIsLevel

LEMMA ScanInvInit == ScanInit => ScanInv
<1> SUFFICES ASSUME ScanInit PROVE ScanInv
  OBVIOUS
<1>1. \A d \in Dispatches : st[d] = "off"
  BY DEF ScanInit
<1>2. ScanTypeOK
  <2>1. In("running") = {}
    BY <1>1 DEF In
  <2>2. Cardinality(In("running")) <= Concurrency
    <3>1. Cardinality({}) = 0 /\ Concurrency \in Nat
      BY FS_EmptySet, ScanAssumption
    <3> QED BY <2>1, <3>1
  <2>3. st \in [Dispatches -> Status] /\ hits \in [Dispatches -> SUBSET Issues]
    BY DEF ScanInit, Status
  <2>4. session \in BOOLEAN /\ expired \in BOOLEAN /\ err \in BOOLEAN /\ failures \in BOOLEAN
    BY Zenon DEF ScanInit
  <2>5. /\ stage \in {"idle", "recon", "fanout", "detect", "final", "escalate", "write"}
        /\ batch \subseteq Dispatches /\ wave \in 0..Cardinality(Tools)
        /\ authed \subseteq Dispatches /\ captured \subseteq Logins
        /\ found \subseteq Issues /\ reports \subseteq Report /\ scans \in 0..MaxScans /\ changes \in 0..MaxChanges /\ live \subseteq Issues /\ absent \subseteq Issues
    BY ToolsFinite, ScanAssumption DEF ScanInit
  <2> QED BY <2>2, <2>3, <2>4, <2>5 DEF ScanTypeOK
<1>3. stage = "idle"
  BY DEF ScanInit
<1> QED BY <1>1, <1>2, <1>3 DEF ScanInv, Staged, Off, Fronted, Behinds, Handed, KeptInv, Working, Waved

(* One dispatch of the current wave moves on. *)
Moved(d, s) ==
  /\ Working /\ st[d] \in {"queued", "running"} /\ st' = [st EXCEPT ![d] = s]
  /\ UNCHANGED <<stage, batch, wave, session, found>>
  /\ authed' \in {authed, authed \cup {d}} /\ captured' \subseteq captured \cup {d}
  /\ \A e \in Dispatches \ {d} : hits'[e] = hits[e]

LEMMA MovedKeeps ==
  ASSUME ScanInv, NEW d \in Dispatches, NEW s \in {"running", "dropped", "failed", "done"}, Moved(d, s),
         s = "running" /\ session => d \in authed',
         s = "done" => st[d] = "running"
  PROVE  (Staged /\ Fronted /\ Behinds /\ Handed /\ KeptInv)'
<1>1. Working /\ d \in Current /\ st \in [Dispatches -> Status] /\ batch \subseteq Dispatches /\ wave \in Nat
  BY ToolsFinite DEF ScanInv, Fronted, Moved, ScanTypeOK
<1>2. st'[d] = s /\ \A e \in Dispatches \ {d} : st'[e] = st[e]
  BY <1>1 DEF Moved
<1>3. Current' = Current /\ Working' = Working /\ Waved' = Waved
  BY DEF Current, Working, Waved, Moved
<1>4. Waved => Current = Wave(batch, wave) /\ d \in Wave(batch, wave)
  BY <1>1 DEF Waved, Current
<1>5. ASSUME Waved, NEW m \in Nat, m # wave PROVE d \notin Wave(batch, m)
  BY <1>1, <1>4, <1>5, WavesDisjoint
<1>6. Staged'
  <2>1. stage \in {"recon", "detect", "escalate"}
    BY <1>1 DEF Working
  <2>2. stage = "recon" => d \in Recon
    BY <1>1 DEF ScanInv, Staged, Current
  <2>3. stage = "detect" => d \in Fanout
    BY <1>1, <1>4, WavePart DEF ScanInv, Staged, Waved
  <2>4. Recon \cap (Fanout \cup Deep) = {} /\ Fanout \cap Deep = {}
    BY ScanAssumption
  <2>5. Fanout \cup Deep \subseteq Dispatches
    BY DEF Dispatches
  <2> QED BY <1>2, <2>1, <2>2, <2>3, <2>4, <2>5 DEF ScanInv, Staged, Off, Moved
<1>7. Fronted'
  <2>1. \A e \in Dispatches : st'[e] \in {"queued", "running"} => Working' /\ e \in Current'
    BY <1>1, <1>2, <1>3 DEF ScanInv, Fronted
  <2>2. Working' => \A e \in Current' : st'[e] # "off"
    <3>1. Current \subseteq Dispatches
      BY <1>1, WavePart DEF Current
    <3> QED BY <1>1, <1>2, <1>3, <3>1 DEF ScanInv, Fronted
  <2>3. Waved' => \A e \in batch' : st'[e] # "off" => \E m \in 0..wave' : e \in Wave(batch', m)
    <3> SUFFICES ASSUME Waved, NEW e \in batch, st'[e] # "off" PROVE \E m \in 0..wave : e \in Wave(batch, m)
      BY <1>3 DEF Moved
    <3>1. CASE e = d
      BY <1>1, <1>4, <3>1
    <3>2. CASE e # d
      BY <1>1, <1>2, <3>2 DEF ScanInv, Fronted
    <3> QED BY <3>1, <3>2
  <2> QED BY <2>1, <2>2, <2>3 DEF Fronted
<1>8. Behinds'
  <2> SUFFICES ASSUME Waved, NEW m \in 0..wave - 1, NEW e \in Wave(batch, m)
               PROVE  /\ st'[e] \in {"done", "failed"}
                      /\ e \in captured' => session
    BY <1>3 DEF Behinds, Moved
  <2>1. e # d /\ e \in Dispatches
    <3>1. m \in Nat /\ m # wave
      BY <1>1
    <3> QED BY <1>1, <1>5, <3>1, WavePart
  <2> QED BY <1>2, <2>1 DEF ScanInv, Behinds, Moved
<1>9. Handed'
  <2> SUFFICES ASSUME Waved, NEW m \in 0..wave, NEW k \in 0..m - 1, NEW x \in Wave(batch, m), NEW e \in Wave(batch, k),
                      st'[x] \in {"running", "done"}, e \in captured'
               PROVE  x \in authed'
    BY <1>3 DEF Handed, Moved
  <2>1. e # d /\ e \in Dispatches /\ x \in Dispatches
    <3>1. k \in Nat /\ k # wave /\ m \in Nat
      BY <1>1
    <3> QED BY <1>1, <1>5, <3>1, WavePart
  <2>2. e \in captured
    BY <2>1 DEF Moved
  <2>3. CASE x # d
    BY <1>2, <2>1, <2>2, <2>3 DEF ScanInv, Handed, Moved
  <2>4. CASE x = d /\ st[d] = "running"
    BY <2>1, <2>2, <2>4 DEF ScanInv, Handed, Moved
  <2>5. CASE x = d /\ s = "running"
    <3>1. m = wave
      BY <1>1, <1>5, <2>5
    <3>2. session
      BY <2>2, <3>1 DEF ScanInv, Behinds
    <3> QED BY <2>5, <3>2
  <2> QED BY <1>2, <2>3, <2>4, <2>5
<1>10. KeptInv'
  BY <1>1, <1>2, <1>3 DEF ScanInv, KeptInv, Moved
<1> QED BY <1>6, <1>7, <1>8, <1>9, <1>10

LEMMA RunningFinite == IsFiniteSet(In("running")) /\ Cardinality(In("running")) \in Nat /\ Concurrency \in Nat
BY ScanAssumption, FS_Subset, FS_CardinalityType DEF In

LEMMA FewerRun ==
  ASSUME ScanTypeOK, In("running")' \subseteq In("running")
  PROVE  Cardinality(In("running")') <= Concurrency
<1>1. Cardinality(In("running")') <= Cardinality(In("running")) /\ Cardinality(In("running")') \in Nat
  BY RunningFinite, FS_Subset, FS_CardinalityType
<1> QED BY <1>1, RunningFinite DEF ScanTypeOK

(* The four ways a dispatch moves keep the types. *)
LEMMA CallTypes ==
  ASSUME ScanInv, NEW d \in Dispatches, Start(d) \/ Drop(d) \/ CallFails(d) \/ CallReturns(d)
  PROVE  ScanTypeOK'
<1>1. ScanTypeOK /\ st \in [Dispatches -> Status] /\ hits \in [Dispatches -> SUBSET Issues] /\ authed \subseteq Dispatches
  BY DEF ScanInv, ScanTypeOK
<1>2. PICK s \in {"running", "dropped", "failed", "done"} : st' = [st EXCEPT ![d] = s]
  BY DEF Start, Drop, CallFails, CallReturns
<1>3. st' \in [Dispatches -> Status] /\ \A e \in Dispatches : st'[e] = IF e = d THEN s ELSE st[e]
  BY <1>1, <1>2 DEF Status
<1>4. hits' \in [Dispatches -> SUBSET Issues]
  <2>1. CASE CallReturns(d)
    <3>1. Finds[d] \cap live \cap (IF d \in authed THEN Issues ELSE Issues \ Private) \in SUBSET Issues
      BY ScanAssumption
    <3> QED BY <1>1, <2>1, <3>1 DEF CallReturns
  <2> QED BY <1>1, <2>1 DEF Start, Drop, CallFails
<1>5. authed' \subseteq Dispatches /\ captured' \subseteq Logins
  <2>1. captured' = captured \/ captured' = captured \cup ({d} \cap Logins)
    BY DEF Start, Drop, CallFails, CallReturns
  <2>2. captured \subseteq Logins
    BY DEF ScanInv, ScanTypeOK
  <2> QED BY <1>1, <2>1, <2>2 DEF Start, Drop, CallFails, CallReturns
<1>6. Cardinality(In("running")') <= Concurrency
  <2>1. CASE Start(d)
    <3>1. In("running")' = In("running") \cup {d} /\ d \notin In("running") /\ Cardinality(In("running")) < Concurrency
      BY <1>1, <2>1 DEF Start, In
    <3>2. Cardinality(In("running")') = Cardinality(In("running")) + 1
      BY <3>1, RunningFinite, FS_AddElement
    <3> QED BY <3>1, <3>2, RunningFinite
  <2>2. CASE s # "running"
    <3>1. In("running")' \subseteq In("running")
      BY <1>1, <1>3, <2>2 DEF In
    <3> QED BY <1>1, <3>1, FewerRun
  <2>3. CASE s = "running" /\ ~Start(d)
    BY <1>1, <1>2, <2>3 DEF Drop, CallFails, CallReturns
  <2> QED BY <2>1, <2>2, <2>3
<1>7. UNCHANGED <<stage, batch, wave, session, err, found, failures, expired, reports, scans, changes, live, absent>>
  BY DEF Start, Drop, CallFails, CallReturns
<1> QED BY <1>1, <1>3, <1>4, <1>5, <1>6, <1>7 DEF ScanTypeOK

LEMMA ScanInvCalls ==
  ASSUME ScanInv, NEW d \in Dispatches, Start(d) \/ Drop(d) \/ CallFails(d) \/ CallReturns(d)
  PROVE  ScanInv'
<1>1. CASE Start(d)
  BY <1>1, CallTypes, MovedKeeps DEF Start, Moved, ScanInv
<1>2. CASE Drop(d)
  BY <1>2, CallTypes, MovedKeeps DEF Drop, Moved, ScanInv
<1>3. CASE CallFails(d)
  BY <1>3, CallTypes, MovedKeeps DEF CallFails, Moved, ScanInv
<1>4. CASE CallReturns(d)
  <2>1. \A e \in Dispatches \ {d} : hits'[e] = hits[e]
    BY <1>4 DEF CallReturns, ScanInv, ScanTypeOK
  <2>2. captured' \subseteq captured \cup {d}
    BY <1>4 DEF CallReturns
  <2> QED BY <1>4, <2>1, <2>2, CallTypes, MovedKeeps DEF CallReturns, Moved, ScanInv
<1> QED BY <1>1, <1>2, <1>3, <1>4

(* A batch is started when nothing is under way. *)
LEMMA ExecuteKeeps ==
  ASSUME ScanInv, ~Working, NEW s \in {"recon", "detect", "escalate"}, NEW b \in SUBSET Dispatches, Execute(s, b),
         Off(b), UNCHANGED <<hits, captured, authed, err, found, failures, expired, reports, changes, live>>,
         scans' \in 0..MaxScans, absent' \subseteq Issues,
         s = "recon" => b = Recon /\ Off(Fanout \cup Deep),
         s = "detect" => b \in {Fanout, Fanout \ Behind} /\ Off(Deep),
         s = "escalate" => b \subseteq Deep
  PROVE  ScanInv'
<1> DEFINE First == IF s = "recon" THEN b ELSE Wave(b, 0)
<1>1. stage' = s /\ batch' = b /\ wave' = 0 /\ session' = FALSE /\ st' = Queued(First)
  BY DEF Execute
<1>2. First \subseteq b /\ Current' = First
  BY <1>1, WavePart DEF Current
<1>3. Working' /\ (Waved' <=> s # "recon")
  BY <1>1 DEF Working, Waved
<1>4. ScanTypeOK /\ st \in [Dispatches -> Status]
  BY DEF ScanInv, ScanTypeOK
<1> HIDE DEF First
<1>5. st' \in [Dispatches -> Status] /\ \A d \in Dispatches : st'[d] = IF d \in First THEN "queued" ELSE st[d]
  BY <1>1, <1>4 DEF Queued, Status
<1>6. ScanTypeOK'
  <2>1. In("running")' \subseteq In("running")
    BY <1>5 DEF In
  <2>2. Cardinality(In("running")') <= Concurrency
    BY <1>4, <2>1, FewerRun
  <2>3. 0 \in 0..Cardinality(Tools)
    BY ToolsFinite
  <2> QED BY <1>1, <1>4, <1>5, <2>2, <2>3 DEF ScanTypeOK
<1>7. Staged'
  <2>1. Recon \cap (Fanout \cup Deep) = {} /\ Fanout \cap Deep = {} /\ Fanout \cup Deep \subseteq Dispatches
    BY ScanAssumption DEF Dispatches
  <2> QED BY <1>1, <1>2, <1>5, <2>1 DEF Staged, Off
<1>8. Fronted'
  <2>1. \A d \in Dispatches : st'[d] \in {"queued", "running"} => Working' /\ d \in Current'
    BY <1>2, <1>3, <1>5 DEF ScanInv, Fronted
  <2>2. \A d \in Current' : st'[d] # "off"
    BY <1>2, <1>5
  <2>3. Waved' => \A d \in batch' : st'[d] # "off" => \E m \in 0..wave' : d \in Wave(batch', m)
    <3> SUFFICES ASSUME s # "recon", NEW d \in b, st'[d] # "off" PROVE \E m \in 0..0 : d \in Wave(b, m)
      BY <1>1, <1>3
    <3>1. d \in Wave(b, 0)
      BY <1>5 DEF First, Off
    <3> QED BY <3>1
  <2> QED BY <2>1, <2>2, <2>3 DEF Fronted
<1>9. Behinds' /\ Handed'
  <2>1. 0..wave' - 1 = {} /\ \A m \in 0..wave' : 0..m - 1 = {}
    BY <1>1
  <2> QED BY <2>1 DEF Behinds, Handed
<1>10. KeptInv'
  BY <1>5 DEF ScanInv, KeptInv
<1> QED BY <1>6, <1>7, <1>8, <1>9, <1>10 DEF ScanInv

LEMMA PlanIsDeep == PlanEscalation \subseteq Deep
BY DEF PlanEscalation, Deep

LEMMA ScanInvPlans ==
  ASSUME ScanInv, Begin \/ PlanFanout \/ Finalize
  PROVE  ScanInv'
<1>1. Recon \subseteq Dispatches /\ Fanout \subseteq Dispatches /\ Deep \subseteq Dispatches
  BY DEF Dispatches
<1>2. Staged /\ ScanTypeOK
  BY DEF ScanInv
<1>3. CASE Begin
  <2>1. ~Working /\ Off(Dispatches)
    BY <1>2, <1>3 DEF Begin, Staged, Working
  <2>2. scans' \in 0..MaxScans /\ absent' \subseteq Issues
    BY <1>2, <1>3, ScanAssumption DEF Begin, ScanTypeOK
  <2> QED BY <1>1, <1>3, <2>1, <2>2, ExecuteKeeps DEF Begin, Off
<1>4. CASE PlanFanout
  <2>1. ~Working /\ Off(Fanout \cup Deep)
    BY <1>2, <1>4 DEF PlanFanout, Staged, Working
  <2> QED BY <1>1, <1>2, <1>4, <2>1, ExecuteKeeps DEF PlanFanout, Off, ScanTypeOK
<1>5. CASE Finalize
  <2>1. ~Working /\ Off(Deep)
    BY <1>2, <1>5 DEF Finalize, Staged, Working
  <2>2. CASE Execute("escalate", PlanEscalation)
    BY <1>1, <1>2, <1>5, <2>1, <2>2, PlanIsDeep, ExecuteKeeps DEF Finalize, Off, ScanTypeOK
  <2>3. CASE stage' = "write" /\ UNCHANGED <<batch, wave, st, session>>
    <3>1. UNCHANGED <<hits, captured, authed, err, found, failures, expired, reports, scans, changes, live, absent>>
      BY <1>5 DEF Finalize
    <3>2. In("running")' = In("running")
      BY <2>3 DEF In
    <3>3. ScanTypeOK'
      BY <1>2, <2>3, <3>1, <3>2 DEF ScanTypeOK, Logins
    <3>4. ~Working' /\ ~Waved'
      BY <2>3 DEF Working, Waved
    <3> QED BY <2>1, <2>3, <3>1, <3>3, <3>4 DEF ScanInv, Staged, Fronted, Behinds, Handed, KeptInv
  <2> QED BY <1>5, <2>2, <2>3 DEF Finalize
<1> QED BY <1>3, <1>4, <1>5

LEMMA ScanInvRest ==
  ASSUME ScanInv, Write \/ Killed \/ Expire \/ (\E i \in Issues : TargetChanges(i)) \/ UNCHANGED scanVars
  PROVE  ScanInv'
<1>1. ScanTypeOK
  BY DEF ScanInv
<1>2. ASSUME Exit, reports' \subseteq Report PROVE ScanInv'
  <2>1. \A d \in Dispatches : st'[d] = "off"
    BY <1>2 DEF Exit
  <2>2. In("running")' = {}
    BY <2>1 DEF In
  <2>3. Cardinality(In("running")') <= Concurrency
    BY <1>1, <2>2, FewerRun
  <2>4. st' \in [Dispatches -> Status] /\ hits' \in [Dispatches -> SUBSET Issues]
    BY <1>2 DEF Exit, Status
  <2>5. 0 \in 0..Cardinality(Tools)
    BY ToolsFinite
  <2>6. ScanTypeOK'
    BY <1>1, <1>2, <2>3, <2>4, <2>5 DEF Exit, ScanTypeOK
  <2>7. stage' = "idle"
    BY <1>2 DEF Exit
  <2> QED BY <2>1, <2>6, <2>7 DEF ScanInv, Staged, Off, Fronted, Behinds, Handed, KeptInv, Working, Waved
<1>3. CASE Write
  <2> DEFINE all == Logins \cap In("done") \subseteq captured
             new == [found |-> found, failed |-> failures, partial |-> err, absent |-> absent, loggedIn |-> all]
  <2>1. all \in BOOLEAN
    BY Zenon
  <2>2. reports' = reports \cup {new} /\ Exit
    BY <1>3 DEF Write
  <2> HIDE DEF all
  <2>3. new \in Report
    BY <1>1, <2>1 DEF ScanTypeOK, Report
  <2> HIDE DEF new
  <2> QED BY <1>1, <1>2, <2>2, <2>3 DEF ScanTypeOK
<1>4. CASE Killed
  BY <1>1, <1>2, <1>4 DEF Killed, ScanTypeOK
<1>5. ASSUME UNCHANGED run, ScanTypeOK' PROVE ScanInv'
  <2>1. Current' = Current /\ Working' = Working /\ Waved' = Waved
    BY <1>5 DEF run, Current, Working, Waved
  <2>2. Staged' /\ Fronted' /\ Behinds'
    BY <1>5, <2>1 DEF ScanInv, run, Staged, Off, Fronted, Behinds
  <2>3. Handed' /\ KeptInv'
    BY <1>5, <2>1 DEF ScanInv, run, Handed, KeptInv
  <2> QED BY <1>5, <2>2, <2>3 DEF ScanInv
<1>6. In("running")' = In("running") \/ ~UNCHANGED run
  BY DEF In, run
<1>7. CASE Expire
  <2>1. ScanTypeOK'
    BY <1>1, <1>6, <1>7 DEF Expire, run, ScanTypeOK
  <2> QED BY <1>5, <1>7, <2>1 DEF Expire
<1>8. CASE \E i \in Issues : TargetChanges(i)
  <2>1. PICK i \in Issues : TargetChanges(i)
    BY <1>8
  <2>2. changes' \in 0..MaxChanges /\ live' \subseteq Issues /\ absent' \subseteq Issues
    BY <1>1, <2>1, ScanAssumption DEF TargetChanges, ScanTypeOK
  <2>3. ScanTypeOK'
    BY <1>1, <1>6, <2>1, <2>2 DEF TargetChanges, run, ScanTypeOK
  <2> QED BY <1>5, <2>1, <2>3 DEF TargetChanges
<1>9. CASE UNCHANGED scanVars
  <2>1. ScanTypeOK'
    BY <1>1, <1>6, <1>9 DEF scanVars, run, ScanTypeOK
  <2> QED BY <1>5, <1>9, <2>1 DEF scanVars
<1> QED BY <1>3, <1>4, <1>7, <1>8, <1>9

Over == CutShort(Current) \/ stage = "recon" \/ Wave(batch, wave + 1) = {}

LEMMA CurrentPart == ScanInv => Current \subseteq batch /\ Current \subseteq Dispatches /\ wave \in Nat
BY WavePart, ToolsFinite DEF ScanInv, ScanTypeOK, Current

LEMMA JoinFacts ==
  ASSUME ScanInv, Join
  PROVE  /\ \A d \in Dispatches : st[d] \notin {"queued", "running"}
         /\ \A d \in Dispatches : st[d] = "done" => hits[d] \subseteq found'
         /\ found' \subseteq Issues /\ session' \in BOOLEAN /\ failures' \in BOOLEAN /\ err' \in BOOLEAN
         /\ session => session'
         /\ \A e \in Current : e \in captured => session'
<1>1. ScanTypeOK /\ Settled(Current) /\ Current \subseteq Dispatches
  BY CurrentPart DEF ScanInv, Join
<1>2. \A d \in Dispatches : st[d] \notin {"queued", "running"}
  BY <1>1 DEF ScanInv, Fronted, Settled, In
<1>3. found' = found \cup Results(Current)
  BY DEF Join, Kept
<1>4. \A d \in Dispatches : st[d] = "done" => hits[d] \subseteq found'
  BY <1>3 DEF ScanInv, KeptInv, Results
<1>5. found' \subseteq Issues
  <2>1. \A d \in Current : hits[d] \subseteq Issues
    BY <1>1 DEF ScanTypeOK
  <2> QED BY <1>1, <1>3, <2>1 DEF ScanTypeOK, Results
<1>6. /\ session' = (session \/ Current \cap captured # {})
      /\ failures' = (failures \/ Current \cap In("failed") # {})
      /\ err' = (err \/ (CutShort(Current) /\ stage # "escalate"))
  BY DEF Join
<1>7. session' \in BOOLEAN /\ failures' \in BOOLEAN /\ err' \in BOOLEAN
  BY <1>6
<1>8. session => session'
  BY <1>6
<1>9. \A e \in Current : e \in captured => session'
  BY <1>6
<1> QED BY <1>2, <1>4, <1>5, <1>7, <1>8, <1>9

LEMMA ScanInvJoin ==
  ASSUME ScanInv, Join
  PROVE  ScanInv'
<1>1. /\ ScanTypeOK /\ st \in [Dispatches -> Status] /\ batch \subseteq Dispatches /\ wave \in Nat
      /\ Current \subseteq Dispatches /\ Working
  BY CurrentPart DEF ScanInv, ScanTypeOK, Join
<1>2. UNCHANGED <<batch, hits, captured, authed, expired, reports, scans, changes, live, absent>>
  BY DEF Join
<1>3. CASE Over
  <2>1. UNCHANGED <<wave, st>>
    BY <1>3 DEF Join, Over
  <2>2. /\ stage = "recon" => stage' \in {"final", "fanout"}
        /\ stage = "detect" => stage' = "final"
        /\ stage = "escalate" => stage' = "write"
    BY <1>3 DEF Join, Over
  <2>3. stage \in {"recon", "detect", "escalate"}
    BY <1>1 DEF Working
  <2>4. ~Working' /\ ~Waved'
    BY <2>2, <2>3 DEF Working, Waved
  <2>5. In("running")' = In("running")
    BY <2>1 DEF In
  <2>6. ScanTypeOK'
    BY <1>1, <1>2, <2>1, <2>2, <2>3, <2>5, JoinFacts DEF ScanTypeOK
  <2>7. Staged'
    BY <2>1, <2>2, <2>3 DEF ScanInv, Staged, Off
  <2>8. Fronted' /\ KeptInv'
    BY <1>2, <2>1, <2>4, JoinFacts DEF Fronted, KeptInv
  <2> QED BY <2>4, <2>6, <2>7, <2>8 DEF ScanInv, Behinds, Handed
<1>4. CASE ~Over
  <2> DEFINE Following == Wave(batch, wave + 1)
  <2>1. stage' = stage /\ wave' = wave + 1 /\ st' = Queued(Following)
    BY <1>4 DEF Join, Over
  <2>2. Waved /\ Waved' /\ Working'
    BY <1>1, <1>4, <2>1 DEF Over, Working, Waved
  <2>3. Current = Wave(batch, wave) /\ Current' = Following
    BY <1>2, <2>1, <2>2 DEF Current, Waved
  <2>4. \A d \in Dispatches : st'[d] = IF d \in Following THEN "queued" ELSE st[d]
    BY <2>1 DEF Queued
  <2>5. st' \in [Dispatches -> Status]
    BY <1>1, <2>1 DEF Queued, Status
  <2>6. wave + 1 \in Nat /\ wave + 1 # wave /\ Following \subseteq batch /\ Following # {}
    BY <1>1, <1>4, WavePart DEF Over
  <2> HIDE DEF Following
  <2>7. ScanTypeOK'
    <3>1. In("running")' \subseteq In("running")
      BY <2>4 DEF In
    <3>2. Cardinality(In("running")') <= Concurrency
      BY <1>1, <3>1, FewerRun
    <3>3. wave' \in 0..Cardinality(Tools)
      BY <1>1, <2>1, <2>6, WaveBound DEF Following
    <3> QED BY <1>1, <1>2, <2>1, <2>5, <3>2, <3>3, JoinFacts DEF ScanTypeOK
  <2>8. Staged'
    <3>1. Recon \cap (Fanout \cup Deep) = {} /\ Fanout \cap Deep = {}
      BY ScanAssumption
    <3>2. Fanout \cup Deep \subseteq Dispatches
      BY DEF Dispatches
    <3> QED BY <1>2, <2>1, <2>2, <2>4, <2>6, <3>1, <3>2 DEF ScanInv, Staged, Off, Waved
  <2>9. Fronted'
    <3>1. \A d \in Dispatches : st'[d] \in {"queued", "running"} => Working' /\ d \in Current'
      BY <2>2, <2>3, <2>4, JoinFacts
    <3>2. \A d \in Current' : st'[d] # "off"
      BY <1>1, <2>3, <2>4, <2>6
    <3>3. \A d \in batch' : st'[d] # "off" => \E m \in 0..wave' : d \in Wave(batch', m)
      <4> SUFFICES ASSUME NEW d \in batch, st'[d] # "off" PROVE \E m \in 0..wave + 1 : d \in Wave(batch, m)
        BY <1>2, <2>1
      <4>1. CASE d \in Following
        BY <2>6, <4>1 DEF Following
      <4>2. CASE d \notin Following
        <5>1. PICK m \in 0..wave : d \in Wave(batch, m)
          BY <1>1, <2>2, <2>4, <4>2 DEF ScanInv, Fronted
        <5>2. m \in 0..wave + 1
          BY <1>1
        <5> QED BY <5>1, <5>2
      <4> QED BY <4>1, <4>2
    <3> QED BY <3>1, <3>2, <3>3 DEF Fronted
  <2>10. ASSUME NEW m \in 0..wave, NEW e \in Wave(batch, m)
         PROVE  e \in Dispatches /\ st'[e] = st[e]
    <3>1. m \in Nat /\ m # wave + 1
      BY <1>1
    <3>2. e \notin Following
      BY <2>6, <3>1, WavesDisjoint DEF Following
    <3> QED BY <1>1, <2>4, <3>1, <3>2, WavePart
  <2>11. Behinds'
    <3> SUFFICES ASSUME NEW m \in 0..wave, NEW e \in Wave(batch, m)
                 PROVE  /\ st'[e] \in {"done", "failed"}
                        /\ e \in captured => session'
      <4>1. (wave + 1) - 1 = wave
        BY <1>1
      <4> QED BY <1>2, <2>1, <4>1 DEF Behinds
    <3>1. CASE m = wave
      <4>1. e \in Current /\ st[e] \notin {"off", "queued", "running"} /\ st[e] \in Status
        BY <1>1, <2>3, <2>10, <3>1, JoinFacts DEF ScanInv, Fronted
      <4>2. st[e] # "dropped"
        BY <1>4, <4>1 DEF Over, CutShort
      <4> QED BY <2>10, <4>1, <4>2, JoinFacts DEF Status
    <3>2. CASE m # wave
      <4>1. m \in 0..wave - 1
        BY <1>1, <3>2
      <4> QED BY <2>2, <2>10, <4>1, JoinFacts DEF ScanInv, Behinds
    <3> QED BY <3>1, <3>2
  <2>12. Handed'
    <3> SUFFICES ASSUME NEW m \in 0..wave + 1, NEW k \in 0..m - 1, NEW x \in Wave(batch, m), NEW e \in Wave(batch, k),
                        st'[x] \in {"running", "done"}, e \in captured
                 PROVE  x \in authed
      BY <1>2, <2>1 DEF Handed
    <3>1. m # wave + 1
      <4>1. CASE m = wave + 1
        <5>1. x \in Following /\ x \in Dispatches
          BY <1>1, <2>6, <4>1 DEF Following
        <5> QED BY <2>4, <5>1
      <4> QED BY <4>1
    <3>2. m \in 0..wave /\ k \in 0..wave
      BY <1>1, <3>1
    <3>3. st[x] \in {"running", "done"}
      BY <2>10, <3>2
    <3> QED BY <2>2, <3>2, <3>3 DEF ScanInv, Handed
  <2>13. KeptInv'
    BY <1>2, <2>4, JoinFacts DEF KeptInv
  <2> QED BY <2>7, <2>8, <2>9, <2>11, <2>12, <2>13 DEF ScanInv
<1> QED BY <1>3, <1>4

LEMMA ScanInvStep ==
  ASSUME ScanInv, ScanNext \/ UNCHANGED scanVars
  PROVE  ScanInv'
BY ScanInvCalls, ScanInvPlans, ScanInvRest, ScanInvJoin DEF ScanNext

(* Commands of the tracker leave the scan alone.                           *)
LEMMA NextScans == [Next]_vars => ScanNext \/ UNCHANGED scanVars
BY DEF Next, vars, Load, IngestSave, SetSave, CommandFails, Investigate

LEMMA ScanInvariant == Spec => []ScanInv
<1>1. Init => ScanInv
  BY ScanInvInit DEF Init
<1>2. ScanInv /\ [Next]_vars => ScanInv'
  BY ScanInvStep, NextScans
<1> QED BY <1>1, <1>2, PTL DEF Spec

-----------------------------------------------------------------------------
(* What follows from the invariant alone.                                  *)

(* A scan's state is well formed, and executeAll's semaphore is never      *)
(* overdrawn, whatever tools, deadlines and kills do.                      *)
THEOREM ScanTypeCorrect == Spec => []ScanTypeOK
<1>1. ScanInv => ScanTypeOK
  BY DEF ScanInv
<1> QED BY <1>1, ScanInvariant, PTL

(* Join and Write: whatever instant the deadline strikes at, what every    *)
(* tool that returned has seen is in the findings that are written.        *)
THEOREM NoResultIsLost == Spec => []ResultsSurvive
<1>1. ScanInv => ResultsSurvive
  <2> SUFFICES ASSUME ScanInv, stage = "write" PROVE Results(In("done")) \subseteq found
    BY DEF ResultsSurvive
  <2>1. ~Working
    BY DEF Working
  <2>2. \A d \in In("done") : hits[d] \subseteq found
    BY <2>1 DEF ScanInv, KeptInv, In
  <2> QED BY <2>2 DEF Results
<1> QED BY <1>1, ScanInvariant, PTL

(* partitionWaves and executeWaves: for every acyclic table of             *)
(* dependencies, a tool runs after those it depends on, and with the       *)
(* session if one of them captured one: a login may return without.        *)
THEOREM WritersComeFirst == Spec => []WriterBeforeReader
<1>1. ScanInv => WriterBeforeReader
  <2> SUFFICES ASSUME ScanInv, Working, NEW d \in batch, NEW e \in batch, st[d] \in {"running", "done"},
                      ToolOf[e] \in Needs[ToolOf[d]] \ {ToolOf[d]}
               PROVE  /\ st[e] \in {"done", "failed"}
                      /\ e \in captured => d \in authed
    BY DEF WriterBeforeReader
  <2>1. Waved
    <3>1. stage # "recon"
      BY DependencyAssumption DEF ScanInv, Staged
    <3> QED BY <3>1 DEF Working, Waved
  <2>2. PICK m \in 0..wave : d \in Wave(batch, m)
    BY <2>1 DEF ScanInv, Fronted
  <2>3. wave \in Nat /\ m \in Nat
    BY CurrentPart
  <2>4. m > 0 /\ \E k \in 0..m - 1 : e \in Wave(batch, k)
    BY <2>2, <2>3, WaveBelow
  <2>5. PICK k \in 0..m - 1 : e \in Wave(batch, k)
    BY <2>4
  <2>6. k \in 0..wave - 1
    BY <2>3, <2>4
  <2>7. st[e] \in {"done", "failed"}
    BY <2>1, <2>5, <2>6 DEF ScanInv, Behinds
  <2>8. e \in captured => d \in authed
    BY <2>1, <2>2, <2>5 DEF ScanInv, Handed
  <2> QED BY <2>7, <2>8
<1> QED BY <1>1, ScanInvariant, PTL

-----------------------------------------------------------------------------
(* A clean report.                                                         *)

(* e is a login that d depends on. *)
Logs(e, d) == ToolOf[e] \in (Needs[ToolOf[d]] \ {ToolOf[d]}) \cap Writers

(* What is seen only with a session counts as something a tool can detect  *)
(* only when toolDependencies puts a login of the same stage before it.    *)
LoginFirst ==
  \A d \in Recon \cup Fanout :
    Finds[d] \cap Private # {} => d \in Fanout /\ \E e \in Fanout : Logs(e, d)

(* A tool that returned saw whatever was there during the whole scan.      *)
Witnessed ==
  /\ stage # "idle" => Issues \ live \subseteq absent
  /\ \A d \in Dispatches : st[d] = "done" =>
       \A i \in Finds[d] \ absent : d \in authed \/ i \notin Private => i \in hits[d]

(* A failure or a drop is in the sink, or in the error, once its wave has  *)
(* been joined.                                                            *)
Noted ==
  /\ ~failures => \A d \in Dispatches : st[d] = "failed" => Working /\ d \in Current
  /\ ~err => \A d \in Recon \cup Fanout : st[d] = "dropped" => Working /\ d \in Current

(* Without either, the stages behind ran everything they had to, with the  *)
(* sessions the logins captured.                                           *)
Covered ==
  ~err /\ ~failures =>
    /\ stage \in {"fanout", "detect", "final", "escalate", "write"} =>
         \A d \in Recon : st[d] = "done"
    /\ stage = "detect" => batch = Fanout
    /\ stage \in {"final", "escalate", "write"} =>
         /\ \A d \in Fanout : st[d] = "done"
         /\ \A d, e \in Fanout : Logs(e, d) /\ e \in captured => d \in authed

(* So a report that says it is complete lists what could be detected, or   *)
(* it was not there all along, or it is behind a login that was refused.   *)
Hidden(loggedIn) == IF loggedIn THEN {} ELSE Private

CleanReports ==
  \A r \in reports : ~r.partial /\ ~r.failed =>
    Detected \subseteq r.found \cup r.absent \cup Hidden(r.loggedIn)

CleanInv == Witnessed /\ Noted /\ Covered /\ CleanReports

LEMMA Stages ==
  /\ Recon \cap (Fanout \cup Deep) = {} /\ Fanout \cap Deep = {}
  /\ Recon \subseteq Dispatches /\ Fanout \subseteq Dispatches /\ Deep \subseteq Dispatches
BY ScanAssumption DEF Dispatches

LEMMA CleanInvCalls ==
  ASSUME ScanInv, CleanInv, NEW d \in Dispatches, Start(d) \/ Drop(d) \/ CallFails(d) \/ CallReturns(d)
  PROVE  CleanInv'
<1>1. Working /\ st[d] \in {"queued", "running"} /\ st \in [Dispatches -> Status] /\ hits \in [Dispatches -> SUBSET Issues]
  BY DEF Start, Drop, CallFails, CallReturns, ScanInv, ScanTypeOK
<1>2. d \in Current
  BY <1>1 DEF ScanInv, Fronted
<1>3. \A e \in Dispatches \ {d} : st'[e] = st[e] /\ hits'[e] = hits[e] /\ (e \in authed' <=> e \in authed)
  BY <1>1 DEF Start, Drop, CallFails, CallReturns
<1>4. /\ UNCHANGED <<stage, batch, wave, err, failures, reports, live, absent>>
      /\ authed \subseteq authed' /\ captured' \subseteq captured \cup {d}
  BY DEF Start, Drop, CallFails, CallReturns
<1>5. Current' = Current /\ Working' = Working
  BY <1>4 DEF Current, Working
<1>6. Witnessed'
  <2> SUFFICES ASSUME NEW e \in Dispatches, st'[e] = "done", NEW i \in Finds[e] \ absent, e \in authed' \/ i \notin Private
               PROVE  i \in hits'[e]
    BY <1>4 DEF CleanInv, Witnessed
  <2>1. CASE e # d
    BY <1>3, <2>1 DEF CleanInv, Witnessed
  <2>2. CASE e = d
    <3>1. CallReturns(d)
      BY <1>1, <2>2 DEF Start, Drop, CallFails
    <3>2. i \in Issues /\ i \in live
      BY <1>1, ScanAssumption DEF CleanInv, Witnessed, Working
    <3> QED BY <1>1, <2>2, <3>1, <3>2 DEF CallReturns
  <2> QED BY <2>1, <2>2
<1>7. Noted'
  <2>1. ~failures => \A e \in Dispatches : st'[e] = "failed" => Working /\ e \in Current
    BY <1>1, <1>2, <1>3 DEF CleanInv, Noted
  <2>2. ~err => \A e \in Recon \cup Fanout : st'[e] = "dropped" => Working /\ e \in Current
    BY <1>1, <1>2, <1>3, Stages DEF CleanInv, Noted
  <2> QED BY <1>4, <1>5, <2>1, <2>2 DEF Noted
<1>8. Covered'
  <2>1. stage \in {"recon", "detect", "escalate"}
    BY <1>1 DEF Working
  <2>2. d \in batch
    BY <1>2, CurrentPart
  <2>3. stage = "detect" => d \notin Recon
    BY <2>2, Stages, ScanAssumption DEF ScanInv, Staged
  <2>4. stage = "escalate" => d \notin Recon /\ d \notin Fanout
    BY <2>2, Stages DEF ScanInv, Staged
  <2> QED BY <1>3, <1>4, <2>1, <2>3, <2>4, Stages DEF CleanInv, Covered
<1>9. CleanReports'
  BY <1>4 DEF CleanInv, CleanReports
<1> QED BY <1>6, <1>7, <1>8, <1>9 DEF CleanInv

LEMMA CleanInvPlans ==
  ASSUME ScanInv, CleanInv, Begin \/ PlanFanout \/ Finalize
  PROVE  CleanInv'
<1>1. ~Working /\ st \in [Dispatches -> Status] /\ Staged
  BY DEF Begin, PlanFanout, Finalize, Working, ScanInv, ScanTypeOK
<1>2. UNCHANGED <<hits, captured, authed, err, failures, reports, live>>
  BY DEF Begin, PlanFanout, Finalize
<1>3. CleanReports'
  BY <1>2 DEF CleanInv, CleanReports
<1>4. ASSUME NEW s, NEW b, Execute(s, b)
      PROVE  /\ stage' = s /\ batch' = b
             /\ \A d \in Dispatches : st'[d] = st[d] \/ (d \in b /\ st'[d] = "queued")
  BY <1>4, WavePart DEF Execute, Queued
<1>5. CASE Begin
  <2>1. \A d \in Dispatches : st'[d] \in {"off", "queued"}
    BY <1>1, <1>4, <1>5 DEF Begin, Staged, Off
  <2>2. Recon = {} => Behind = {}
    BY ScanAssumption
  <2>3. IF Recon = {} THEN stage' = "detect" /\ batch' = Fanout ELSE stage' = "recon"
    BY <1>4, <1>5 DEF Begin
  <2>4. Covered'
    BY <2>3 DEF Covered
  <2>5. Witnessed' /\ Noted'
    BY <1>5, <2>1, Stages DEF Begin, Witnessed, Noted
  <2> QED BY <1>3, <2>4, <2>5 DEF CleanInv
<1>6. ASSUME UNCHANGED absent, stage # "idle",
             \A d \in Dispatches : st'[d] = st[d] \/ st'[d] = "queued"
      PROVE  Witnessed' /\ Noted'
  <2>1. Witnessed'
    BY <1>2, <1>6 DEF CleanInv, Witnessed
  <2>2. Noted'
    BY <1>1, <1>2, <1>6, Stages DEF CleanInv, Noted
  <2> QED BY <2>1, <2>2
<1>7. CASE PlanFanout
  <2>1. \A d \in Dispatches : st'[d] = st[d] \/ (d \in Fanout /\ st'[d] = "queued")
    BY <1>4, <1>7, ScanAssumption DEF PlanFanout
  <2>2. stage = "fanout" /\ stage' = "detect" /\ UNCHANGED absent
    BY <1>4, <1>7 DEF PlanFanout
  <2>3. batch' = IF Recon \cap In("done") = {} THEN Fanout \ Behind ELSE Fanout
    BY <1>4, <1>7 DEF PlanFanout
  <2>4. ~err /\ ~failures => (\A d \in Recon : st[d] = "done" /\ st'[d] = "done")
    BY <2>1, <2>2, Stages DEF CleanInv, Covered
  <2>5. ~err /\ ~failures => batch' = Fanout
    <3>1. CASE Recon = {}
      BY <2>3, <3>1, ScanAssumption
    <3>2. CASE Recon # {}
      BY <2>3, <2>4, <3>2, Stages DEF In
    <3> QED BY <3>1, <3>2
  <2>6. Covered'
    BY <1>2, <2>2, <2>4, <2>5 DEF Covered
  <2> QED BY <1>3, <1>6, <2>1, <2>2, <2>6 DEF CleanInv
<1>8. CASE Finalize
  <2>1. \A d \in Dispatches : st'[d] = st[d] \/ (d \in Deep /\ st'[d] = "queued")
    <3>1. CASE Execute("escalate", PlanEscalation)
      BY <1>4, <3>1, PlanIsDeep
    <3>2. CASE UNCHANGED st
      BY <3>2
    <3> QED BY <1>8, <3>1, <3>2 DEF Finalize
  <2>2. stage = "final" /\ stage' \in {"escalate", "write"} /\ UNCHANGED absent
    BY <1>4, <1>8 DEF Finalize
  <2>3. \A d \in Recon \cup Fanout : st'[d] = st[d]
    BY <2>1, Stages
  <2>4. Covered'
    BY <1>2, <2>2, <2>3 DEF CleanInv, Covered
  <2> QED BY <1>3, <1>6, <2>1, <2>2, <2>4 DEF CleanInv
<1> QED BY <1>5, <1>7, <1>8

LEMMA CleanInvJoin ==
  ASSUME ScanInv, CleanInv, Join
  PROVE  CleanInv'
<1>1. Working /\ Current \subseteq Dispatches /\ Current \subseteq batch /\ wave \in Nat /\ st \in [Dispatches -> Status]
      /\ batch \in SUBSET Dispatches
  BY CurrentPart DEF Join, ScanInv, ScanTypeOK
<1>2. UNCHANGED <<batch, hits, captured, authed, reports, live, absent>>
  BY DEF Join
<1>3. /\ failures' = (failures \/ Current \cap In("failed") # {})
      /\ err' = (err \/ (CutShort(Current) /\ stage # "escalate"))
  BY DEF Join
<1>4. CleanReports'
  BY <1>2 DEF CleanInv, CleanReports
<1>5. stage \in {"recon", "detect", "escalate"}
  BY <1>1 DEF Working
(* A failure of the wave is in the sink now, and so is a drop in the error. *)
<1>6. ~failures' => \A d \in Dispatches : st[d] # "failed"
  BY <1>1, <1>3 DEF CleanInv, Noted, In
<1>7. ~err' => \A d \in Recon \cup Fanout : st[d] # "dropped"
  <2> SUFFICES ASSUME ~err', NEW d \in Recon \cup Fanout, st[d] = "dropped" PROVE FALSE
    OBVIOUS
  <2>1. d \in Current
    BY <1>3 DEF CleanInv, Noted
  <2>2. CutShort(Current)
    BY <2>1 DEF CutShort
  <2>3. stage # "escalate"
    BY <1>1, <2>1, Stages DEF ScanInv, Staged
  <2> QED BY <1>3, <2>2, <2>3
<1>8. ~err' /\ ~failures' => \A d \in Recon \cup Fanout : st[d] \in {"off", "done"}
  BY <1>1, <1>6, <1>7, JoinFacts, Stages DEF Status
<1>9. ~err' => ~err /\ (stage # "escalate" => ~CutShort(Current))
  BY <1>3
<1>10. ~failures' => ~failures
  BY <1>3
<1>11. CASE Over
  <2>1. UNCHANGED st
    BY <1>11 DEF Join, Over
  <2>2. /\ stage = "recon" => stage' = IF CutShort(Current) THEN "final" ELSE "fanout"
        /\ stage = "detect" => stage' = "final"
        /\ stage = "escalate" => stage' = "write"
    BY <1>11 DEF Join, Over
  <2>3. Witnessed'
    BY <1>2, <1>5, <2>1 DEF CleanInv, Witnessed
  <2>4. Noted'
    BY <1>6, <1>7, <2>1 DEF Noted
  <2>5. ASSUME ~err', ~failures' PROVE \A d \in Recon : st[d] = "done"
    <3>1. CASE stage = "recon"
      <4>1. Current = Recon
        BY <3>1 DEF ScanInv, Staged, Current
      <4> QED BY <1>1, <1>8, <2>5, <4>1 DEF ScanInv, Fronted
    <3>2. CASE stage # "recon"
      BY <1>5, <1>9, <1>10, <2>5, <3>2 DEF CleanInv, Covered
    <3> QED BY <3>1, <3>2
  <2>6. ASSUME ~err', ~failures', stage = "detect"
        PROVE  /\ \A d \in Fanout : st[d] = "done"
               /\ \A d, e \in Fanout : Logs(e, d) /\ e \in captured => d \in authed
    <3>1. batch = Fanout /\ Waved /\ Wave(batch, wave + 1) = {}
      BY <1>9, <1>10, <1>11, <2>6 DEF CleanInv, Covered, Waved, Over
    <3>2. ASSUME NEW d \in Fanout, NEW m \in Nat, d \in Wave(Fanout, m)
          PROVE  m \in 0..wave /\ st[d] = "done"
      <4>1. m <= wave
        <5>1. CASE wave + 1 <= m
          <6>1. wave + 1 \in Nat
            BY <1>1
          <6>2. Wave(Fanout, m) = {}
            BY <3>1, <5>1, <6>1, WavesEnd
          <6> QED BY <3>2, <6>2
        <5> QED BY <1>1, <5>1
      <4>2. CASE m = wave
        <5>1. d \in Current
          BY <3>1, <3>2, <4>2 DEF Current, Waved
        <5>2. st[d] # "off"
          BY <1>1, <5>1 DEF ScanInv, Fronted
        <5>3. st[d] \in {"off", "done"}
          BY <1>8, <2>6
        <5>4. m \in 0..wave
          BY <1>1, <4>2
        <5> QED BY <5>2, <5>3, <5>4
      <4>3. CASE m # wave
        <5>1. m \in 0..wave - 1
          BY <1>1, <4>1, <4>3
        <5>2. st[d] \in {"done", "failed"}
          BY <3>1, <3>2, <5>1 DEF ScanInv, Behinds
        <5> QED BY <1>1, <1>6, <2>6, <4>1, <5>2, Stages
      <4> QED BY <1>1, <4>1, <4>2, <4>3
    <3>3. \A d \in Fanout : \E m \in 0..wave : d \in Wave(Fanout, m) /\ st[d] = "done"
      <4> SUFFICES ASSUME NEW d \in Fanout PROVE \E m \in 0..wave : d \in Wave(Fanout, m) /\ st[d] = "done"
        OBVIOUS
      <4>1. PICK m \in Nat : d \in Wave(Fanout, m)
        BY EveryoneHasAWave, Stages
      <4> QED BY <3>2, <4>1
    <3>4. ASSUME NEW d \in Fanout, NEW e \in Fanout, Logs(e, d), e \in captured PROVE d \in authed
      <4>1. PICK m \in 0..wave : d \in Wave(Fanout, m)
        BY <3>3
      <4>2. m \in Nat
        BY <1>1
      <4>3. PICK k \in 0..m - 1 : e \in Wave(Fanout, k)
        BY <3>4, <4>1, <4>2, WaveBelow DEF Logs
      <4>4. st[d] = "done"
        BY <3>3
      <4> QED BY <3>1, <3>4, <4>1, <4>3, <4>4 DEF ScanInv, Handed
    <3> QED BY <3>3, <3>4
  <2>7. ASSUME ~err', ~failures', stage = "escalate"
        PROVE  /\ \A d \in Fanout : st[d] = "done"
               /\ \A d, e \in Fanout : Logs(e, d) /\ e \in captured => d \in authed
    BY <1>9, <1>10, <2>7 DEF CleanInv, Covered
  <2>8. Covered'
    <3>1. ~err' => ~(stage = "recon" /\ stage' = "final")
      BY <1>9, <2>2
    <3> QED BY <1>2, <1>5, <2>1, <2>2, <2>5, <2>6, <2>7, <3>1 DEF Covered
  <2> QED BY <1>4, <2>3, <2>4, <2>8 DEF CleanInv
<1>12. CASE ~Over
  <2> DEFINE Following == Wave(batch, wave + 1)
  <2>1. stage' = stage /\ st' = Queued(Following)
    BY <1>12 DEF Join, Over
  <2>2. stage \in {"detect", "escalate"}
    BY <1>5, <1>12 DEF Over
  <2>3. Following \subseteq batch
    BY <1>1, WavePart
  <2> HIDE DEF Following
  <2>4. \A d \in Dispatches : st'[d] = IF d \in Following THEN "queued" ELSE st[d]
    BY <2>1 DEF Queued
  <2>5. Witnessed'
    BY <1>2, <2>1, <2>4 DEF CleanInv, Witnessed
  <2>6. Noted'
    BY <1>6, <1>7, <2>4, Stages DEF Noted
  <2>7. stage = "detect" => batch \subseteq Fanout
    BY DEF ScanInv, Staged
  <2>8. stage = "escalate" => batch \subseteq Deep
    BY DEF ScanInv, Staged
  <2>9. \A d \in Recon : st'[d] = st[d]
    BY <2>2, <2>3, <2>4, <2>7, <2>8, Stages
  <2>10. Covered'
    <3>1. ASSUME ~err', ~failures'
          PROVE  (\A d \in Recon : st'[d] = "done") /\ (stage = "detect" => batch = Fanout)
      BY <1>9, <1>10, <2>2, <2>9, <3>1 DEF CleanInv, Covered
    <3>2. stage' \notin {"fanout", "final", "write"} /\ stage' = stage /\ batch' = batch
      BY <1>2, <2>1, <2>2
    <3>3. ASSUME ~err', ~failures', stage = "escalate"
          PROVE  /\ \A d \in Fanout : st'[d] = "done"
                 /\ \A d, e \in Fanout : Logs(e, d) /\ e \in captured => d \in authed
      <4>1. \A d \in Fanout : st'[d] = st[d]
        BY <2>3, <2>4, <2>8, <3>3, Stages
      <4> QED BY <1>9, <1>10, <3>3, <4>1 DEF CleanInv, Covered
    <3> QED BY <1>2, <3>1, <3>2, <3>3 DEF Covered
  <2> QED BY <1>4, <2>5, <2>6, <2>10 DEF CleanInv
<1> QED BY <1>11, <1>12

(* Write: what a report without a failure or an error stands for.          *)
LEMMA CleanInvWrite ==
  ASSUME LoginFirst, ScanInv, CleanInv, stage = "write", ~err, ~failures
  PROVE  Detected \subseteq found \cup absent \cup Hidden(Logins \cap In("done") \subseteq captured)
<1> DEFINE all == Logins \cap In("done") \subseteq captured
<1> SUFFICES ASSUME NEW d \in Recon \cup Fanout, NEW i \in Finds[d], i \notin absent, i \notin Hidden(all)
             PROVE  i \in found
  BY DEF Detected
<1>1. d \in Dispatches /\ st[d] = "done"
  BY Stages DEF CleanInv, Covered
<1>2. ASSUME i \in Private PROVE d \in authed
  <2>1. PICK e \in Fanout : Logs(e, d)
    BY <1>2 DEF LoginFirst
  <2>2. e \in Dispatches /\ st[e] = "done" /\ ToolOf[e] \in Writers
    BY <2>1, Stages DEF CleanInv, Covered, Logs
  <2>3. e \in captured
    BY <1>2, <2>2 DEF Hidden, Logins, In
  <2>4. d \in Fanout
    BY <1>2 DEF LoginFirst
  <2> QED BY <2>1, <2>3, <2>4 DEF CleanInv, Covered
<1>3. i \in hits[d]
  BY <1>1, <1>2 DEF CleanInv, Witnessed
<1> QED BY <1>1, <1>3 DEF ScanInv, KeptInv, Working

LEMMA CleanInvRest ==
  ASSUME LoginFirst, ScanInv, CleanInv,
         Write \/ Killed \/ Expire \/ (\E i \in Issues : TargetChanges(i)) \/ UNCHANGED scanVars
  PROVE  CleanInv'
<1>1. ASSUME Exit, CleanReports' PROVE CleanInv'
  <2>1. stage' = "idle" /\ \A d \in Dispatches : st'[d] = "off"
    BY <1>1 DEF Exit
  <2> QED BY <1>1, <2>1, Stages DEF CleanInv, Witnessed, Noted, Covered
<1>2. CASE Write
  <2> DEFINE all == Logins \cap In("done") \subseteq captured
             new == [found |-> found, failed |-> failures, partial |-> err, absent |-> absent, loggedIn |-> all]
  <2>1. reports' = reports \cup {new} /\ stage = "write"
    BY <1>2 DEF Write
  <2>2. new.found = found /\ new.failed = failures /\ new.partial = err /\ new.absent = absent /\ new.loggedIn = all
    OBVIOUS
  <2>3. ~err /\ ~failures => Detected \subseteq found \cup absent \cup Hidden(all)
    BY <2>1, CleanInvWrite
  <2> HIDE DEF all, new
  <2>4. CleanReports'
    BY <2>1, <2>2, <2>3 DEF CleanInv, CleanReports
  <2> QED BY <1>1, <1>2, <2>4 DEF Write
<1>3. CASE Killed
  <2>1. CleanReports'
    BY <1>3 DEF Killed, CleanInv, CleanReports
  <2> QED BY <1>1, <1>3, <2>1 DEF Killed
<1>4. ASSUME UNCHANGED <<run, reports>>, Witnessed' PROVE CleanInv'
  <2>1. Current' = Current /\ Working' = Working
    BY <1>4 DEF run, Current, Working
  <2> QED BY <1>4, <2>1 DEF CleanInv, run, Noted, Covered, CleanReports
<1>5. CASE Expire \/ UNCHANGED scanVars
  <2>1. UNCHANGED <<run, reports, live, absent>>
    BY <1>5 DEF Expire, scanVars
  <2>2. Witnessed'
    BY <2>1 DEF CleanInv, Witnessed, run
  <2> QED BY <1>4, <2>1, <2>2
<1>6. CASE \E i \in Issues : TargetChanges(i)
  <2>1. PICK i \in Issues : TargetChanges(i)
    BY <1>6
  <2>2. UNCHANGED <<run, reports>> /\ absent \subseteq absent'
        /\ live' = (live \ {i}) \cup ({i} \ live)
        /\ absent' = IF i \in live /\ stage # "idle" THEN absent \cup {i} ELSE absent
    BY <2>1 DEF TargetChanges
  <2>3. Witnessed'
    <3>1. stage' # "idle" => Issues \ live' \subseteq absent'
      BY <2>2 DEF CleanInv, Witnessed, run
    <3>2. UNCHANGED <<st, authed, hits>>
      BY <2>2 DEF run
    <3> QED BY <2>2, <3>1, <3>2 DEF CleanInv, Witnessed
  <2> QED BY <1>4, <2>2, <2>3
<1> QED BY <1>2, <1>3, <1>5, <1>6

LEMMA CleanInvariant == ASSUME LoginFirst PROVE Spec => []CleanInv
<1>1. Init => CleanInv
  <2> SUFFICES ASSUME ScanInit PROVE CleanInv
    BY DEF Init
  <2>1. stage = "idle" /\ reports = {} /\ \A d \in Dispatches : st[d] = "off"
    BY DEF ScanInit
  <2> QED BY <2>1, Stages DEF CleanInv, Witnessed, Noted, Covered, CleanReports
<1>2. ScanInv /\ CleanInv /\ [Next]_vars => CleanInv'
  <2> SUFFICES ASSUME ScanInv, CleanInv, ScanNext \/ UNCHANGED scanVars PROVE CleanInv'
    BY NextScans
  <2> QED BY CleanInvCalls, CleanInvPlans, CleanInvJoin, CleanInvRest DEF ScanNext
<1> QED BY <1>1, <1>2, ScanInvariant, PTL DEF Spec

-----------------------------------------------------------------------------
(* The tracker.                                                            *)
StoreTypes ==
  /\ db \in Tracker /\ cmd \in [Commands -> Command]
  /\ bundles \subseteq SUBSET Issues
  /\ last \subseteq Issues /\ touched \subseteq Issues
  /\ fixedBy \in [Issues -> EvidenceType]

Unseen == [i \in Issues |-> "none"]
Ready == [doing |-> "idle", copy |-> Unseen, input |-> Nothing]

LEMMA ReadyType == Unseen \in Tracker /\ Nothing \in Input /\ Ready \in Command
<1>1. Unseen \in Tracker
  BY DEF Unseen, Tracker, Statuses
<1>2. Nothing \in Input
  BY DEF Nothing, Input
<1> QED BY <1>1, <1>2 DEF Ready, Command

LEMMA EndedIs ==
  ASSUME StoreTypes, NEW c \in Commands
  PROVE  /\ Ended(c) \in [Commands -> Command]
         /\ Ended(c)[c] = Ready /\ \A k \in Commands \ {c} : Ended(c)[k] = cmd[k]
<1>1. cmd \in [Commands -> Command] /\ cmd[c] \in Command
  BY DEF StoreTypes
<1>2. Ended(c)[c] = [cmd[c] EXCEPT !.doing = "idle", !.input = Nothing, !.copy = Unseen]
  BY <1>1 DEF Ended, Unseen
<1>3. [cmd[c] EXCEPT !.doing = "idle", !.input = Nothing, !.copy = Unseen] = Ready
  <2> DEFINE k1 == [cmd[c] EXCEPT !.doing = "idle"]
             k2 == [k1 EXCEPT !.input = Nothing]
             k3 == [k2 EXCEPT !.copy = Unseen]
  <2>1. k1 \in Command /\ k1.doing = "idle"
    BY <1>1 DEF Command
  <2> HIDE DEF k1
  <2>2. k2 \in Command /\ k2.doing = "idle" /\ k2.input = Nothing
    BY <2>1, ReadyType DEF Command
  <2> HIDE DEF k2
  <2>3. k3 \in Command /\ k3.doing = "idle" /\ k3.input = Nothing /\ k3.copy = Unseen
    BY <2>2, ReadyType DEF Command
  <2> HIDE DEF k3
  <2>4. k3 = Ready
    BY <2>3 DEF Command, Ready
  <2>5. [cmd[c] EXCEPT !.doing = "idle", !.input = Nothing, !.copy = Unseen] = k3
    BY DEF k1, k2, k3
  <2> QED BY <2>4, <2>5
<1>4. \A k \in Commands \ {c} : Ended(c)[k] = cmd[k]
  BY <1>1 DEF Ended
<1>5. Ended(c) = [k \in Commands |-> Ended(c)[k]]
  BY <1>1 DEF Ended
<1>6. \A k \in Commands : Ended(c)[k] \in Command
  BY <1>1, <1>2, <1>3, <1>4, ReadyType
<1> QED BY <1>2, <1>3, <1>4, <1>5, <1>6

LEMMA InputTypes ==
  ASSUME reports \subseteq Report, bundles \subseteq SUBSET Issues
  PROVE  Inputs \subseteq Input
<1>1. ASSUME NEW r \in reports PROVE FromReport(r) \in Input
  <2>1. r.found \subseteq Issues /\ r.absent \subseteq Issues
    BY DEF Report
  <2>2. Ingestible(r) \subseteq Issues
    BY <2>1 DEF Ingestible
  <2>3. (~r.partial /\ ~r.failed) \in BOOLEAN
    BY Zenon
  <2>4. (IF r.loggedIn THEN {} ELSE Private) \subseteq Issues
    BY ScanAssumption
  <2> QED BY <2>1, <2>2, <2>3, <2>4 DEF FromReport, Input
<1>2. ASSUME NEW b \in bundles PROVE FromBundle(b) \in Input
  BY DEF FromBundle, Input
<1> QED BY <1>1, <1>2 DEF Inputs

LEMMA FoldType ==
  ASSUME NEW t \in Tracker, NEW in \in Input
  PROVE  Fold(t, in) \in Tracker
<1> DEFINE new(i) == IF i \in in.listed THEN CASE t[i] = "none" -> "open"
                                              [] t[i] \in {"fixed", "verified"} -> "reopened"
                                              [] OTHER -> t[i]
                     ELSE IF t[i] \in {"open", "reopened"} THEN "fixed" ELSE t[i]
<1>1. ASSUME NEW i \in Issues PROVE new(i) \in Statuses
  <2>1. t[i] \in Statuses
    BY DEF Tracker
  <2> QED BY <2>1 DEF Statuses
<1>2. Fold(t, in) = [i \in Issues |-> new(i)]
  BY DEF Fold
<1> HIDE DEF new
<1> QED BY <1>1, <1>2 DEF Tracker

LEMMA StoreTypesStep ==
  ASSUME StoreTypes, ScanTypeOK, [Next]_vars
  PROVE  StoreTypes'
<1>1. CASE UNCHANGED storeVars
  BY <1>1 DEF storeVars, StoreTypes
<1>2. CASE Investigate
  BY <1>2 DEF Investigate, StoreTypes, ScanTypeOK
<1>3. ASSUME NEW c \in Commands, Load(c) PROVE StoreTypes'
  <2>1. PICK k \in Command : cmd' = [cmd EXCEPT ![c] = k]
    <3>1. CASE \E in \in Inputs : cmd' = [cmd EXCEPT ![c] = [doing |-> "ingest", copy |-> db, input |-> in]]
      <4>1. PICK in \in Inputs : cmd' = [cmd EXCEPT ![c] = [doing |-> "ingest", copy |-> db, input |-> in]]
        BY <3>1
      <4>2. in \in Input
        BY InputTypes DEF StoreTypes, ScanTypeOK
      <4>3. [doing |-> "ingest", copy |-> db, input |-> in] \in Command
        BY <4>2 DEF StoreTypes, Command
      <4> QED BY <4>1, <4>3
    <3>2. CASE cmd' = [cmd EXCEPT ![c] = [doing |-> "set", copy |-> db, input |-> Nothing]]
      <4>1. [doing |-> "set", copy |-> db, input |-> Nothing] \in Command
        BY ReadyType DEF StoreTypes, Command
      <4> QED BY <3>2, <4>1
    <3> QED BY <1>3, <3>1, <3>2 DEF Load
  <2>2. cmd' \in [Commands -> Command]
    BY <2>1 DEF StoreTypes
  <2> QED BY <1>3, <2>2 DEF Load, StoreTypes
<1>4. ASSUME NEW c \in Commands, IngestSave(c) PROVE StoreTypes'
  <2>1. cmd[c].copy \in Tracker /\ cmd[c].input \in Input
    BY DEF StoreTypes, Command
  <2> DEFINE new == Fold(cmd[c].copy, cmd[c].input)
  <2>2. new \in Tracker
    BY <2>1, FoldType
  <2>3. /\ db' = new /\ cmd' = Ended(c) /\ last' = cmd[c].input.listed /\ touched' = {} /\ bundles' = bundles
        /\ fixedBy' = [i \in Issues |-> IF new[i] = "fixed" /\ cmd[c].copy[i] # "fixed"
                                        THEN Evidence(cmd[c].input, i) ELSE fixedBy[i]]
    BY <1>4 DEF IngestSave
  <2>4. last' \subseteq Issues
    BY <2>1, <2>3 DEF Input
  <2> HIDE DEF new
  <2>5. fixedBy' \in [Issues -> EvidenceType]
    BY <2>3 DEF StoreTypes, Evidence, EvidenceType
  <2>6. cmd' \in [Commands -> Command]
    BY <2>3, EndedIs
  <2> QED BY <2>2, <2>3, <2>4, <2>5, <2>6 DEF StoreTypes
<1>5. ASSUME NEW c \in Commands, NEW i \in Issues, NEW to \in Decisions, SetSave(c, i, to) PROVE StoreTypes'
  <2>1. cmd[c].copy \in Tracker /\ to \in Statuses
    BY StoreAssumption DEF StoreTypes, Command, Statuses
  <2>2. db' \in Tracker
    BY <1>5, <2>1 DEF SetSave, Tracker
  <2>3. cmd' \in [Commands -> Command]
    BY <1>5, EndedIs DEF SetSave
  <2>4. fixedBy' \in [Issues -> EvidenceType]
    BY <1>5 DEF SetSave, StoreTypes, EvidenceType
  <2>5. last' = last /\ bundles' = bundles /\ touched' \subseteq Issues
    BY <1>5 DEF SetSave, StoreTypes
  <2> QED BY <2>2, <2>3, <2>4, <2>5 DEF StoreTypes
<1>6. ASSUME NEW c \in Commands, CommandFails(c) PROVE StoreTypes'
  <2>1. cmd' \in [Commands -> Command]
    BY <1>6, EndedIs DEF CommandFails
  <2> QED BY <1>6, <2>1 DEF CommandFails, StoreTypes
<1> QED BY <1>1, <1>2, <1>3, <1>4, <1>5, <1>6 DEF Next, vars, storeVars

LEMMA StoreTypesInit == Init => StoreTypes
<1> SUFFICES ASSUME Init PROVE StoreTypes
  OBVIOUS
<1>1. db = Unseen /\ bundles = {} /\ last = {} /\ touched = {}
  BY DEF Init, Unseen
<1>2. cmd = [c \in Commands |-> Ready]
  BY DEF Init, Ready, Unseen
<1>3. fixedBy \in [Issues -> EvidenceType]
  BY DEF Init, EvidenceType
<1>4. cmd \in [Commands -> Command]
  BY <1>2, ReadyType
<1> QED BY <1>1, <1>3, <1>4, ReadyType DEF StoreTypes

(* The scan's and the tracker's state are well formed, however many        *)
(* commands load, fold, set and save the file at once.                     *)
THEOREM ScanStoreTypeCorrect == Spec => []TypeOK
<1>1. StoreTypes /\ ScanInv /\ [Next]_vars => StoreTypes'
  BY StoreTypesStep DEF ScanInv
<1>2. StoreTypes /\ ScanInv => TypeOK
  BY DEF TypeOK, StoreTypes, ScanInv
<1> QED BY <1>1, <1>2, StoreTypesInit, ScanInvariant, PTL DEF Spec

(* An input that claims to come from a complete scan is no more than a     *)
(* clean report said, and no detectable finding was made fixed on a claim  *)
(* alone.                                                                  *)
CleanInputs ==
  \A c \in Commands : cmd[c].input.clean =>
    Detected \ Dismissed \subseteq cmd[c].input.listed \cup cmd[c].input.absent \cup cmd[c].input.hidden

NoClaims == \A i \in Detected \ Dismissed : fixedBy[i] # "claimed"

LEMMA CleanSources ==
  ASSUME CleanReports, NEW in \in Inputs, in.clean
  PROVE  Detected \ Dismissed \subseteq in.listed \cup in.absent \cup in.hidden
<1>1. CASE \E b \in bundles : in = FromBundle(b)
  BY <1>1 DEF FromBundle
<1>2. ASSUME NEW r \in reports, in = FromReport(r)
      PROVE  Detected \ Dismissed \subseteq in.listed \cup in.absent \cup in.hidden
  <2>1. /\ ~r.partial /\ ~r.failed /\ in.listed = Ingestible(r) /\ in.absent = r.absent
        /\ in.hidden = Hidden(r.loggedIn)
    BY <1>2 DEF FromReport, Hidden
  <2>2. r.found \ Dismissed \subseteq Ingestible(r)
    BY DEF Ingestible
  <2> QED BY <2>1, <2>2 DEF CleanReports
<1> QED BY <1>1, <1>2 DEF Inputs

LEMMA DetectedIssues == Detected \subseteq Issues
BY ScanAssumption DEF Detected, Dispatches

LEMMA NoClaimsStep ==
  ASSUME StoreTypes, CleanReports, CleanInputs, NoClaims, [Next]_vars
  PROVE  (CleanInputs /\ NoClaims)'
<1>1. ~Nothing.clean
  BY DEF Nothing
<1>2. ASSUME NEW c \in Commands, cmd' = Ended(c) PROVE CleanInputs'
  <2>1. \A k \in Commands : cmd'[k] = IF k = c THEN Ready ELSE cmd[k]
    BY <1>2, EndedIs
  <2>2. ~Ready.input.clean
    BY <1>1 DEF Ready
  <2> QED BY <2>1, <2>2 DEF CleanInputs
<1>3. CASE UNCHANGED storeVars \/ Investigate
  BY <1>3 DEF storeVars, Investigate, CleanInputs, NoClaims
<1>4. ASSUME NEW c \in Commands, Load(c) PROVE (CleanInputs /\ NoClaims)'
  <2>1. NoClaims'
    BY <1>4 DEF Load, NoClaims
  <2>2. ASSUME NEW in, NEW s, cmd' = [cmd EXCEPT ![c] = [doing |-> s, copy |-> db, input |-> in]],
               in.clean => Detected \ Dismissed \subseteq in.listed \cup in.absent \cup in.hidden
        PROVE  CleanInputs'
    <3>1. \A k \in Commands : cmd'[k] = IF k = c THEN [doing |-> s, copy |-> db, input |-> in] ELSE cmd[k]
      BY <2>2 DEF StoreTypes
    <3> QED BY <2>2, <3>1 DEF CleanInputs
  <2>3. CASE \E in \in Inputs : cmd' = [cmd EXCEPT ![c] = [doing |-> "ingest", copy |-> db, input |-> in]]
    BY <2>1, <2>2, <2>3, CleanSources
  <2>4. CASE cmd' = [cmd EXCEPT ![c] = [doing |-> "set", copy |-> db, input |-> Nothing]]
    BY <1>1, <2>1, <2>2, <2>4
  <2> QED BY <1>4, <2>3, <2>4 DEF Load
<1>5. ASSUME NEW c \in Commands, IngestSave(c) PROVE (CleanInputs /\ NoClaims)'
  <2> DEFINE new == Fold(cmd[c].copy, cmd[c].input)
  <2>1. fixedBy' = [i \in Issues |-> IF new[i] = "fixed" /\ cmd[c].copy[i] # "fixed"
                                     THEN Evidence(cmd[c].input, i) ELSE fixedBy[i]]
    BY <1>5 DEF IngestSave
  <2>2. ASSUME NEW i \in Issues, new[i] = "fixed" PROVE i \notin cmd[c].input.listed
    BY <2>2 DEF Fold
  <2>3. ASSUME NEW i \in Detected \ Dismissed, new[i] = "fixed" PROVE Evidence(cmd[c].input, i) # "claimed"
    <3>1. i \notin cmd[c].input.listed
      BY <2>2, <2>3, DetectedIssues
    <3> QED BY <3>1 DEF CleanInputs, Evidence
  <2> HIDE DEF new
  <2>4. NoClaims'
    BY <2>1, <2>3, DetectedIssues DEF NoClaims
  <2> QED BY <1>2, <1>5, <2>4 DEF IngestSave
<1>6. ASSUME NEW c \in Commands, NEW i \in Issues, NEW to \in Decisions, SetSave(c, i, to)
      PROVE  (CleanInputs /\ NoClaims)'
  <2>1. NoClaims'
    BY <1>6 DEF SetSave, NoClaims, StoreTypes
  <2> QED BY <1>2, <1>6, <2>1 DEF SetSave
<1>7. ASSUME NEW c \in Commands, CommandFails(c) PROVE (CleanInputs /\ NoClaims)'
  <2>1. NoClaims'
    BY <1>7 DEF CommandFails, NoClaims
  <2> QED BY <1>2, <1>7, <2>1 DEF CommandFails
<1>8. \/ UNCHANGED storeVars \/ Investigate
      \/ \E c \in Commands : Load(c) \/ IngestSave(c) \/ CommandFails(c)
      \/ \E c \in Commands : \E i \in Issues, to \in Decisions : SetSave(c, i, to)
  BY DEF Next, vars, storeVars
<1> QED BY <1>3, <1>4, <1>5, <1>6, <1>7, <1>8

(* runScan and Store.ingest: a report that names no failure and no error   *)
(* earns its "fixed".  Whatever the deadline, a failed tool, a dropped     *)
(* dispatch or an unfinished recon does, and however many commands run,    *)
(* no finding that detection can see becomes fixed while it is there on    *)
(* the word of a scan that claims to be complete, unless it is behind a    *)
(* login that was refused (FailedLoginShows is false of the code).         *)
THEOREM CleanScansEarnFixed == ASSUME LoginFirst PROVE Spec => []FixedIsEarned
<1>1. Init => CleanInputs /\ NoClaims
  <2> SUFFICES ASSUME Init PROVE CleanInputs /\ NoClaims
    OBVIOUS
  <2>1. \A c \in Commands : cmd[c].input = Nothing
    BY DEF Init
  <2>2. \A i \in Issues : fixedBy[i] = "person"
    BY DEF Init
  <2> QED BY <2>1, <2>2, DetectedIssues DEF CleanInputs, NoClaims, Nothing
<1>2. CleanInputs /\ NoClaims /\ CleanInv /\ TypeOK /\ [Next]_vars => (CleanInputs /\ NoClaims)'
  BY NoClaimsStep DEF CleanInv, TypeOK, StoreTypes
<1>3. NoClaims => FixedIsEarned
  BY DEF NoClaims, FixedIsEarned
<1>4. Spec => []CleanInv
  BY CleanInvariant
<1> QED BY <1>1, <1>2, <1>3, <1>4, ScanStoreTypeCorrect, PTL DEF Spec

-----------------------------------------------------------------------------
(* With one command at a time the tracker keeps the life cycle.            *)
Alone == \A c, k \in Commands : c = k

(* The copy of the command that runs is the file.                          *)
Fresh == \A c \in Commands : cmd[c].doing # "idle" => cmd[c].copy = db

LEMMA FreshStep ==
  ASSUME Alone, StoreTypes, Fresh, [Next]_vars
  PROVE  Fresh'
<1>1. ASSUME NEW c \in Commands, cmd' = Ended(c) PROVE Fresh'
  <2>1. cmd'[c].doing = "idle"
    BY <1>1, EndedIs DEF Ready
  <2> QED BY <2>1 DEF Alone, Fresh
<1>2. CASE UNCHANGED storeVars \/ Investigate
  BY <1>2 DEF storeVars, Investigate, Fresh
<1>3. ASSUME NEW c \in Commands, Load(c) PROVE Fresh'
  <2>1. cmd'[c].copy = db /\ db' = db
    BY <1>3 DEF Load, StoreTypes
  <2> QED BY <2>1 DEF Alone, Fresh
<1> QED BY <1>1, <1>2, <1>3 DEF Next, vars, storeVars, IngestSave, SetSave, CommandFails

(* Store.ingest makes only the moves one scan may make. *)
LEMMA FoldObserves ==
  ASSUME NEW t \in Tracker, NEW in, NEW i \in Issues
  PROVE  Fold(t, in)[i] = t[i] \/ <<t[i], Fold(t, in)[i]>> \in Lifecycle!Observe
<1>1. CASE i \in in.listed
  <2>1. Fold(t, in)[i] = CASE t[i] = "none" -> "open"
                           [] t[i] \in {"fixed", "verified"} -> "reopened"
                           [] OTHER -> t[i]
    BY <1>1 DEF Fold
  <2> QED BY <2>1 DEF Lifecycle!Observe
<1>2. CASE i \notin in.listed
  <2>1. Fold(t, in)[i] = IF t[i] \in {"open", "reopened"} THEN "fixed" ELSE t[i]
    BY <1>2 DEF Fold
  <2> QED BY <2>1 DEF Lifecycle!Observe
<1> QED BY <1>1, <1>2

LEMMA LifecycleStep ==
  ASSUME StoreTypes, Fresh, [Next]_vars
  PROVE  [Lifecycle!Next]_db
<1>1. CASE UNCHANGED db
  BY <1>1
<1>2. ASSUME NEW c \in Commands, IngestSave(c) PROVE Lifecycle!Next
  <2>1. cmd[c].copy = db /\ db' = Fold(db, cmd[c].input)
    BY <1>2 DEF IngestSave, Fresh
  <2>2. db \in Tracker /\ cmd[c].input \in Input
    BY DEF StoreTypes, Command
  <2>3. db' \in [Issues -> Lifecycle!Statuses]
    BY <2>1, <2>2, FoldType DEF Tracker, Statuses, Lifecycle!Statuses
  <2>4. \A i \in Issues : db'[i] = db[i] \/ <<db[i], db'[i]>> \in Lifecycle!Observe
    BY <2>1, <2>2, FoldObserves
  <2> QED BY <2>3, <2>4 DEF Lifecycle!Next, Lifecycle!Ingest
<1>3. ASSUME NEW c \in Commands, NEW i \in Issues, NEW to \in Decisions, SetSave(c, i, to) PROVE Lifecycle!Next
  BY <1>3 DEF SetSave, Fresh, Lifecycle!Next, Lifecycle!Decide
<1> QED BY <1>1, <1>2, <1>3 DEF Next, vars, storeVars, Load, CommandFails, Investigate

(* Store.ingest and Store.Transition refine FindingLifecycle: nothing      *)
(* vanishes from the tracker and no scan undoes what a person decided.     *)
(* The hypothesis is what the code leaves to its callers: two commands     *)
(* that overlap lose a write (Load, Save: no lock on the file).            *)
THEOREM TrackerIsALifecycle == ASSUME Alone PROVE Spec => LifecycleHolds
<1>1. Init => Lifecycle!Init /\ Fresh
  BY DEF Init, Lifecycle!Init, Fresh
<1>2. Fresh /\ TypeOK /\ [Next]_vars => Fresh'
  BY FreshStep DEF TypeOK, StoreTypes
<1>3. Fresh /\ TypeOK /\ [Next]_vars => [Lifecycle!Next]_db
  BY LifecycleStep DEF TypeOK, StoreTypes
<1> QED BY <1>1, <1>2, <1>3, ScanStoreTypeCorrect, PTL DEF Spec, LifecycleHolds, Lifecycle!Spec
=============================================================================
