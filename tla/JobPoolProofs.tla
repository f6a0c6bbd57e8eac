--------------------------- MODULE JobPoolProofs ---------------------------
(* Theorems about the job pool, for any number of callers, workers and     *)
(* jobs and any queue size and retention cap.                              *)
EXTENDS JobPool, FiniteSetTheorems, TLAPS

(* prune() drops a natural number of entries, so what is left of order is  *)
(* a sequence of the same ids.                                             *)
LEMMA PrunedOrderType ==
  ASSUME NEW js, NEW o \in Seq(JobIds)
  PROVE  PrunedOrder(js, o) \in Seq(JobIds)
<1>1. IsFiniteSet(1..Len(o))
  BY FS_Interval
<1>2. IsFiniteSet(Prunable(js, o))
  BY <1>1, FS_Subset DEF Prunable
<1>3. Cardinality(Prunable(js, o)) \in Nat
  BY <1>2, FS_CardinalityType
<1> QED
  BY <1>3 DEF PrunedOrder

(* Every variable of the pool keeps its type; the channel never holds more *)
(* than QueueSize tasks.                                                   *)
THEOREM TypeCorrect == Spec => []TypeOK
<1> USE PoolAssumption, LockAssumption DEF TypeOK, Status, InFlight, Outcome, CallerPc, Returned, WorkerPc, Shut
<1>1. Init => TypeOK
  <2> SUFFICES ASSUME Init PROVE TypeOK
    OBVIOUS
  <2>1. DOMAIN jobs \subseteq JobIds /\ jobs \in [DOMAIN jobs -> Status]
    BY DEF Init
  <2>2. order \in Seq(JobIds) /\ ch \in Seq(JobIds) /\ Len(ch) <= QueueSize
    BY DEF Init
  <2> QED BY <2>1, <2>2 DEF Init
<1>2. TypeOK /\ [Next]_vars => TypeOK'
  <2> SUFFICES ASSUME TypeOK, [Next]_vars PROVE TypeOK'
    OBVIOUS
  <2>1. ASSUME NEW c \in Callers, EnqueueStep(c) PROVE TypeOK'
    <3>1. CASE EnqueueLock(c)      BY <3>1 DEF EnqueueLock
    <3>2. CASE EnqueueSend(c)      BY <3>2 DEF EnqueueSend
    <3>3. CASE EnqueueBusy(c)      BY <3>3 DEF EnqueueBusy
    <3>4. CASE EnqueueRefused(c)   BY <3>4 DEF EnqueueRefused
    <3>5. CASE EnqueueRecord(c)
      <4> DEFINE j  == caller[c].id
                 js == [k \in DOMAIN jobs \cup {j} |-> IF k = j THEN "queued" ELSE jobs[k]]
      <4>1. order' \in Seq(JobIds)
        <5>1. order' = PrunedOrder(js, Append(order, j)) /\ j \in JobIds
          BY <3>5 DEF EnqueueRecord
        <5> HIDE DEF js
        <5>2. Append(order, j) \in Seq(JobIds)
          BY <5>1
        <5> QED BY <5>1, <5>2, PrunedOrderType
      <4>2. DOMAIN jobs' \subseteq JobIds /\ jobs' \in [DOMAIN jobs' -> Status]
        <5>1. js \in [DOMAIN jobs \cup {j} -> Status] /\ j \in JobIds
          BY <3>5 DEF EnqueueRecord
        <5>2. jobs' = PrunedJobs(js, Append(order, j))
          BY <3>5 DEF EnqueueRecord
        <5> HIDE DEF js
        <5> QED BY <5>1, <5>2 DEF PrunedJobs
      <4> QED BY <3>5, <4>1, <4>2 DEF EnqueueRecord
    <3> QED BY <2>1, <3>1, <3>2, <3>3, <3>4, <3>5 DEF EnqueueStep
  <2>2. ASSUME NEW w \in Workers, WorkerStep(w) PROVE TypeOK'
    <3>1. CASE WorkerReceive(w)
      <4>1. Head(ch) \in JobIds /\ Tail(ch) \in Seq(JobIds) /\ Len(Tail(ch)) <= QueueSize
        BY <3>1 DEF WorkerReceive
      <4>2. worker' \in [Workers -> [pc : WorkerPc, id : JobIds \cup {NoJob}, out : Outcome]]
        BY <3>1, <4>1 DEF WorkerReceive
      <4> QED BY <3>1, <4>1, <4>2 DEF WorkerReceive
    <3>2. CASE WorkerStart(w)
      <4>1. DOMAIN jobs' \subseteq JobIds /\ jobs' \in [DOMAIN jobs' -> Status]
        BY <3>2 DEF WorkerStart, Update
      <4> QED BY <3>2, <4>1 DEF WorkerStart
    <3>3. CASE FnReturn(w)
      <4>0. PICK o \in Outcome : worker' = [worker EXCEPT ![w].pc = "finish", ![w].out = o]
        BY <3>3 DEF FnReturn
      <4>1. worker' \in [Workers -> [pc : WorkerPc, id : JobIds \cup {NoJob}, out : Outcome]]
        BY <4>0
      <4> QED BY <3>3, <4>1 DEF FnReturn
    <3>4. CASE WorkerFinish(w)
      <4>1. DOMAIN jobs' \subseteq JobIds /\ jobs' \in [DOMAIN jobs' -> Status]
        BY <3>4 DEF WorkerFinish, Update
      <4> QED BY <3>4, <4>1 DEF WorkerFinish
    <3>5. CASE WorkerExit(w)       BY <3>5 DEF WorkerExit
    <3> QED BY <2>2, <3>1, <3>2, <3>3, <3>4, <3>5 DEF WorkerStep
  <2>3. CASE ShutdownClose \/ ShutdownDone \/ ShutdownExpired
    BY <2>3 DEF ShutdownClose, ShutdownDone, ShutdownExpired
  <2>4. CASE UNCHANGED vars
    BY <2>4 DEF vars
  <2> QED BY <2>1, <2>2, <2>3, <2>4 DEF Next
<1> QED BY <1>1, <1>2, PTL DEF Spec

-----------------------------------------------------------------------------
(* The inductive invariant: where an id can be.                            *)

Elements(q) == {q[i] : i \in 1..Len(q)}
Distinct(q) == \A i, k \in 1..Len(q) : q[i] = q[k] => i = k

(* p.mu belongs to the call that is past the closed check, and to no call  *)
(* once the pool is closed.                                                *)
LockInv ==
  /\ \A c \in Callers : caller[c].pc \in {"send", "record"} <=> mu = c
  /\ \A c \in Callers : caller[c].pc # "record" => caller[c].id = NoJob
  /\ closed => mu = NoOne

(* A task is in the channel or with one worker, never both and never twice.*)
OnePlace ==
  /\ Distinct(ch)
  /\ Elements(ch) \subseteq minted
  /\ DOMAIN jobs \subseteq minted
  /\ \A w \in Workers : Holding(w) => worker[w].id \in minted \ Elements(ch)
  /\ \A v, w \in Workers : Holding(v) /\ Holding(w) /\ worker[v].id = worker[w].id => v = w

(* The job a call is about to record has its task in the channel already,  *)
(* or with a worker that waits for p.mu.                                   *)
AboutToRecord ==
  \A c \in Callers : caller[c].pc = "record" =>
    /\ caller[c].id \in minted \ DOMAIN jobs
    /\ \/ caller[c].id \in Elements(ch)
       \/ \E w \in Workers : worker[w].pc = "got" /\ worker[w].id = caller[c].id

(* A task in the channel belongs to a job that is queued or about to be.   *)
ChannelIsQueued ==
  \A j \in Elements(ch) :
    \/ j \in DOMAIN jobs /\ jobs[j] = "queued"
    \/ mu # NoOne /\ caller[mu].id = j

(* A job in flight has a task that will end it.                            *)
InFlightHasTask ==
  \A j \in DOMAIN jobs : jobs[j] \in InFlight =>
    \/ j \in Elements(ch)
    \/ \E w \in Workers : Holding(w) /\ worker[w].id = j

(* A worker leaves a closed and empty channel only, and Shutdown returns   *)
(* nil after the last has left.                                            *)
LeftDrained ==
  /\ (\E w \in Workers : worker[w].pc = "exited") => closed /\ ch = <<>>
  /\ shut = "nil" => \A w \in Workers : worker[w].pc = "exited"

PoolInv == /\ LockInv /\ OnePlace /\ AboutToRecord /\ ChannelIsQueued
           /\ InFlightHasTask /\ LeftDrained /\ WorkerKnowsJob

(* What sending and receiving do to the set of tasks in the channel. *)
LEMMA SendElements ==
  ASSUME NEW q \in Seq(JobIds), NEW j \in JobIds
  PROVE  /\ Elements(Append(q, j)) = Elements(q) \cup {j}
         /\ Distinct(q) /\ j \notin Elements(q) => Distinct(Append(q, j))
BY DEF Elements, Distinct

LEMMA ReceiveElements ==
  ASSUME NEW q \in Seq(JobIds), q # <<>>, Distinct(q)
  PROVE  /\ Head(q) \in Elements(q)
         /\ Elements(Tail(q)) = Elements(q) \ {Head(q)}
         /\ Distinct(Tail(q))
<1>1. Len(q) \in Nat \ {0} /\ Head(q) = q[1] /\ Len(Tail(q)) = Len(q) - 1
  OBVIOUS
<1>2. \A i \in 1..Len(q) - 1 : Tail(q)[i] = q[i + 1]
  OBVIOUS
<1>3. ASSUME NEW x \in Elements(q), x # Head(q) PROVE x \in Elements(Tail(q))
  <2>1. PICK i \in 1..Len(q) : x = q[i]
    BY DEF Elements
  <2>2. i # 1 /\ i - 1 \in 1..Len(q) - 1
    BY <1>1, <1>3, <2>1
  <2>3. Tail(q)[i - 1] = x
    BY <1>2, <2>1, <2>2
  <2> QED BY <1>1, <2>2, <2>3 DEF Elements
<1>4. ASSUME NEW x \in Elements(Tail(q)) PROVE x \in Elements(q) /\ x # Head(q)
  <2>1. PICK i \in 1..Len(q) - 1 : x = q[i + 1]
    BY <1>1, <1>2 DEF Elements
  <2> QED BY <1>1, <2>1 DEF Elements, Distinct
<1>5. Distinct(Tail(q))
  BY <1>1, <1>2 DEF Distinct
<1>6. Head(q) \in Elements(q)
  BY <1>1 DEF Elements
<1> QED BY <1>3, <1>4, <1>5, <1>6

(* prune() drops no job in flight and changes none of those it keeps. *)
LEMMA PruneKeeps ==
  ASSUME NEW js, NEW o
  PROVE  /\ DOMAIN PrunedJobs(js, o) \subseteq DOMAIN js
         /\ \A k \in DOMAIN PrunedJobs(js, o) : PrunedJobs(js, o)[k] = js[k]
         /\ \A k \in DOMAIN js : js[k] \in InFlight => k \in DOMAIN PrunedJobs(js, o)
BY DEF PrunedJobs, Prunable, IsInFlight

LEMMA PoolInvInit == Init => PoolInv
<1> SUFFICES ASSUME Init PROVE PoolInv
  OBVIOUS
<1> USE PoolAssumption, LockAssumption
<1>1. LockInv /\ LeftDrained
  BY DEF Init, LockInv, LeftDrained
<1>2. Elements(ch) = {} /\ Distinct(ch)
  BY DEF Init, Elements, Distinct
<1>3. OnePlace /\ AboutToRecord /\ ChannelIsQueued /\ InFlightHasTask /\ WorkerKnowsJob
  BY <1>2 DEF Init, OnePlace, AboutToRecord, ChannelIsQueued, InFlightHasTask, WorkerKnowsJob, Holding
<1> QED BY <1>1, <1>3 DEF PoolInv

(* Steps of Enqueue that leave the jobs, the channel and the workers alone.*)
LEMMA PoolInvEnqueueQuiet ==
  ASSUME TypeOK, PoolInv, NEW c \in Callers,
         EnqueueLock(c) \/ EnqueueBusy(c) \/ EnqueueRefused(c)
  PROVE  PoolInv'
<1> USE PoolAssumption, LockAssumption
<1>0. UNCHANGED <<jobs, order, ch, closed, worker, shut, minted>>
  BY DEF EnqueueLock, EnqueueBusy, EnqueueRefused
<1>1. LockInv'
  <2>1. CASE EnqueueLock(c)
    BY <2>1 DEF TypeOK, PoolInv, LockInv, EnqueueLock, Returned, CallerPc
  <2>2. CASE EnqueueBusy(c)
    BY <2>2 DEF TypeOK, PoolInv, LockInv, EnqueueBusy
  <2>3. CASE EnqueueRefused(c)
    BY <2>3 DEF TypeOK, PoolInv, LockInv, EnqueueRefused, Returned, CallerPc
  <2> QED BY <2>1, <2>2, <2>3
<1>2. OnePlace' /\ InFlightHasTask' /\ LeftDrained'
  BY <1>0 DEF PoolInv, OnePlace, InFlightHasTask, LeftDrained, Holding, Elements, Distinct
<1>3. caller[c].pc # "record" /\ \A d \in Callers \ {c} : caller'[d] = caller[d]
  BY DEF TypeOK, EnqueueLock, EnqueueBusy, EnqueueRefused, Returned, CallerPc
<1>4. caller'[c].pc # "record" /\ caller'[c].id = NoJob
  BY DEF TypeOK, PoolInv, LockInv, EnqueueLock, EnqueueBusy, EnqueueRefused, Returned, CallerPc
<1>5. AboutToRecord'
  BY <1>0, <1>3, <1>4 DEF PoolInv, AboutToRecord, Elements
<1>6. mu # NoOne => mu = c
  BY DEF PoolInv, LockInv, TypeOK, EnqueueLock, EnqueueBusy, EnqueueRefused
<1>7. mu # NoOne => caller[mu].id = NoJob
  BY <1>3, <1>6 DEF PoolInv, LockInv
<1>8. ChannelIsQueued'
  <2>1. Elements(ch) \subseteq JobIds
    BY DEF TypeOK, PoolInv, OnePlace
  <2> QED BY <1>0, <1>7, <2>1 DEF PoolInv, ChannelIsQueued, Elements
<1>9. WorkerKnowsJob'
  <2>1. \A w \in Workers : Holding(w) => worker[w].id \in JobIds
    BY DEF TypeOK, PoolInv, OnePlace
  <2> QED BY <1>0, <1>7, <2>1 DEF PoolInv, WorkerKnowsJob, Holding
<1> QED BY <1>1, <1>2, <1>5, <1>8, <1>9 DEF PoolInv

LEMMA PoolInvSend ==
  ASSUME TypeOK, PoolInv, NEW c \in Callers, EnqueueSend(c)
  PROVE  PoolInv'
<1> USE PoolAssumption, LockAssumption
<1>1. PICK j \in JobIds \ minted :
        /\ minted' = minted \cup {j}
        /\ ch' = Append(ch, j)
        /\ caller' = [caller EXCEPT ![c] = [pc |-> "record", id |-> j]]
  BY DEF EnqueueSend
<1>2. UNCHANGED <<jobs, order, closed, mu, worker, shut>> /\ caller[c].pc = "send"
  BY DEF EnqueueSend
<1>3. mu = c /\ mu # NoOne /\ ~closed /\ caller[c].id = NoJob /\ NoJob \notin minted
  BY <1>2 DEF TypeOK, PoolInv, LockInv
<1>4. Elements(ch') = Elements(ch) \cup {j} /\ j \notin Elements(ch) /\ Distinct(ch')
  BY <1>1, SendElements DEF TypeOK, PoolInv, OnePlace
<1>5. /\ caller'[c].pc = "record" /\ caller'[c].id = j
      /\ \A d \in Callers \ {c} : caller'[d] = caller[d]
  BY <1>1 DEF TypeOK
<1>6. LockInv'
  BY <1>2, <1>3, <1>5 DEF PoolInv, LockInv
<1>7. OnePlace'
  BY <1>1, <1>2, <1>4 DEF PoolInv, OnePlace, Holding
<1>8. AboutToRecord'
  BY <1>1, <1>2, <1>3, <1>4, <1>5 DEF PoolInv, AboutToRecord, LockInv, OnePlace
<1>9. ChannelIsQueued'
  <2>1. \A k \in Elements(ch) : k \in DOMAIN jobs /\ jobs[k] = "queued"
    BY <1>3 DEF PoolInv, ChannelIsQueued, OnePlace
  <2> QED BY <1>2, <1>3, <1>4, <1>5, <2>1 DEF ChannelIsQueued
<1>9a. InFlightHasTask'
  BY <1>2, <1>4 DEF PoolInv, InFlightHasTask, Holding
<1>10. LeftDrained'
  BY <1>2, <1>3 DEF PoolInv, LeftDrained
<1>11. WorkerKnowsJob'
  <2>1. \A w \in Workers : worker[w].pc = "got" => worker[w].id # NoJob
    BY <1>3 DEF PoolInv, OnePlace, Holding
  <2> QED BY <1>2, <1>3, <2>1 DEF PoolInv, WorkerKnowsJob
<1> QED BY <1>6, <1>7, <1>8, <1>9, <1>9a, <1>10, <1>11 DEF PoolInv

LEMMA PoolInvRecord ==
  ASSUME TypeOK, PoolInv, NEW c \in Callers, EnqueueRecord(c)
  PROVE  PoolInv'
<1> USE PoolAssumption, LockAssumption
<1> DEFINE j == caller[c].id
           js == [k \in DOMAIN jobs \cup {j} |-> IF k = j THEN "queued" ELSE jobs[k]]
<1>1. /\ caller[c].pc = "record" /\ mu' = NoOne
      /\ UNCHANGED <<ch, closed, worker, shut, minted>>
      /\ jobs' = PrunedJobs(js, Append(order, j))
  BY DEF EnqueueRecord
<1>2. /\ caller'[c].pc = "accepted" /\ caller'[c].id = NoJob
      /\ \A d \in Callers \ {c} : caller'[d] = caller[d]
  BY DEF TypeOK, EnqueueRecord
<1>3. mu = c /\ mu # NoOne /\ j \in minted \ DOMAIN jobs
  BY <1>1 DEF PoolInv, LockInv, AboutToRecord
<1>4. /\ DOMAIN jobs' \subseteq DOMAIN jobs \cup {j}
      /\ \A k \in DOMAIN jobs' : jobs'[k] = IF k = j THEN "queued" ELSE jobs[k]
      /\ j \in DOMAIN jobs'
      /\ \A k \in DOMAIN jobs : jobs[k] \in InFlight => k \in DOMAIN jobs'
  <2>1. DOMAIN js = DOMAIN jobs \cup {j} /\ js[j] = "queued" /\ \A k \in DOMAIN jobs : js[k] = jobs[k]
    BY <1>3
  <2> HIDE DEF js
  <2>2. /\ DOMAIN jobs' \subseteq DOMAIN js
        /\ \A k \in DOMAIN jobs' : jobs'[k] = js[k]
        /\ \A k \in DOMAIN js : js[k] \in InFlight => k \in DOMAIN jobs'
    BY <1>1, PruneKeeps
  <2> QED BY <2>1, <2>2 DEF InFlight
<1> HIDE DEF j, js
<1>5. Elements(ch') = Elements(ch) /\ (Distinct(ch) => Distinct(ch'))
  BY <1>1
<1>6. LockInv'
  BY <1>1, <1>2, <1>3 DEF PoolInv, LockInv
<1>7. OnePlace'
  BY <1>1, <1>3, <1>4, <1>5 DEF PoolInv, OnePlace, Holding
<1>8. AboutToRecord'
  BY <1>1, <1>2, <1>3, <1>4, <1>5 DEF PoolInv, AboutToRecord, LockInv
<1>9. ChannelIsQueued'
  BY <1>1, <1>3, <1>4, <1>5 DEF PoolInv, ChannelIsQueued, InFlight, j
<1>10. InFlightHasTask'
  <2>1. ASSUME NEW k \in DOMAIN jobs', jobs'[k] \in InFlight
        PROVE  k \in Elements(ch) \/ \E w \in Workers : Holding(w) /\ worker[w].id = k
    <3>1. CASE k = j
      BY <1>1, <3>1 DEF PoolInv, AboutToRecord, Holding, j
    <3>2. CASE k # j
      BY <1>4, <2>1, <3>2 DEF PoolInv, InFlightHasTask
    <3> QED BY <3>1, <3>2
  <2> QED BY <1>1, <1>5, <2>1 DEF InFlightHasTask, Holding
<1>11. LeftDrained'
  BY <1>1 DEF PoolInv, LeftDrained
<1>12. WorkerKnowsJob'
  BY <1>1, <1>3, <1>4 DEF PoolInv, WorkerKnowsJob, InFlight, j
<1> QED BY <1>6, <1>7, <1>8, <1>9, <1>10, <1>11, <1>12 DEF PoolInv

LEMMA PoolInvReceive ==
  ASSUME TypeOK, PoolInv, NEW w \in Workers, WorkerReceive(w)
  PROVE  PoolInv'
<1> USE PoolAssumption, LockAssumption
<1> DEFINE j == Head(ch)
<1>1. /\ worker[w].pc = "recv" /\ ch # <<>> /\ ch' = Tail(ch)
      /\ UNCHANGED <<jobs, order, closed, mu, caller, shut, minted>>
  BY DEF WorkerReceive
<1>2. /\ worker'[w].pc = "got" /\ worker'[w].id = j
      /\ \A v \in Workers \ {w} : worker'[v] = worker[v]
  BY DEF TypeOK, WorkerReceive
<1>3. j \in Elements(ch) /\ Elements(ch') = Elements(ch) \ {j} /\ Distinct(ch')
  BY <1>1, ReceiveElements DEF TypeOK, PoolInv, OnePlace
<1> HIDE DEF j
<1>4. ~Holding(w) /\ Holding(w)' /\ \A v \in Workers \ {w} : Holding(v)' = Holding(v)
  BY <1>1, <1>2 DEF Holding
<1>5. LockInv'
  BY <1>1 DEF PoolInv, LockInv
<1>6. OnePlace'
  BY <1>1, <1>2, <1>3, <1>4 DEF PoolInv, OnePlace
<1>7. AboutToRecord'
  BY <1>1, <1>2, <1>3 DEF PoolInv, AboutToRecord
<1>8. ChannelIsQueued'
  BY <1>1, <1>3 DEF PoolInv, ChannelIsQueued
<1>9. InFlightHasTask'
  <2> SUFFICES ASSUME NEW k \in DOMAIN jobs, jobs[k] \in InFlight
               PROVE  k \in Elements(ch') \/ \E v \in Workers : Holding(v)' /\ worker'[v].id = k
    BY <1>1 DEF InFlightHasTask
  <2>1. CASE k = j
    BY <1>2, <1>4, <2>1
  <2>2. CASE k \in Elements(ch) /\ k # j
    BY <1>3, <2>2
  <2>3. CASE \E v \in Workers : Holding(v) /\ worker[v].id = k
    BY <1>2, <1>4, <2>3
  <2> QED BY <2>1, <2>2, <2>3 DEF PoolInv, InFlightHasTask
<1>10. LeftDrained'
  BY <1>1, <1>2 DEF PoolInv, LeftDrained
<1>11. WorkerKnowsJob'
  BY <1>1, <1>2, <1>3 DEF PoolInv, WorkerKnowsJob, ChannelIsQueued
<1> QED BY <1>5, <1>6, <1>7, <1>8, <1>9, <1>10, <1>11 DEF PoolInv

(* Marking a job Running and recording its outcome: the worker that holds  *)
(* the task is the only one to write that job.                             *)
LEMMA PoolInvUpdate ==
  ASSUME TypeOK, PoolInv, NEW w \in Workers, WorkerStart(w) \/ WorkerFinish(w)
  PROVE  PoolInv'
<1> USE PoolAssumption, LockAssumption
<1> DEFINE j == worker[w].id
<1>1. /\ Holding(w) /\ mu = NoOne
      /\ UNCHANGED <<order, ch, closed, mu, caller, shut, minted>>
      /\ DOMAIN jobs' = DOMAIN jobs
      /\ \A k \in DOMAIN jobs : k # j => jobs'[k] = jobs[k]
  BY DEF WorkerStart, WorkerFinish, Update, Holding
<1>2. \A v \in Workers \ {w} : worker'[v] = worker[v]
  BY DEF TypeOK, WorkerStart, WorkerFinish
<1>3. j \in DOMAIN jobs
  BY <1>1 DEF PoolInv, WorkerKnowsJob, Holding
<1>4. \/ worker'[w].pc = "run" /\ worker'[w].id = j /\ jobs'[j] = "running"
      \/ worker'[w].pc = "recv" /\ jobs'[j] \notin InFlight
  <2>1. CASE WorkerStart(w)
    BY <1>3, <2>1 DEF TypeOK, WorkerStart, Update
  <2>2. CASE WorkerFinish(w)
    BY <1>3, <2>2 DEF TypeOK, WorkerFinish, Update, Outcome, InFlight
  <2> QED BY <2>1, <2>2
<1>5. j \in minted \ Elements(ch) /\ \A v \in Workers \ {w} : Holding(v) => worker[v].id # j
  BY <1>1 DEF PoolInv, OnePlace
<1> HIDE DEF j
<1>6. Elements(ch') = Elements(ch) /\ (Distinct(ch) => Distinct(ch'))
  BY <1>1
<1>7. LockInv'
  BY <1>1 DEF PoolInv, LockInv
<1>8. \A v \in Workers : Holding(v)' => Holding(v) /\ worker'[v].id = worker[v].id
  BY <1>1, <1>2, <1>4 DEF Holding, j
<1>9. OnePlace'
  BY <1>1, <1>6, <1>8 DEF PoolInv, OnePlace
<1>10. AboutToRecord'
  BY <1>1 DEF PoolInv, AboutToRecord, LockInv
<1>11. ChannelIsQueued'
  BY <1>1, <1>5, <1>6 DEF PoolInv, ChannelIsQueued
<1>12. InFlightHasTask'
  <2> SUFFICES ASSUME NEW k \in DOMAIN jobs, jobs'[k] \in InFlight
               PROVE  k \in Elements(ch) \/ \E v \in Workers : Holding(v)' /\ worker'[v].id = k
    BY <1>1, <1>6 DEF InFlightHasTask
  <2>1. CASE k = j
    BY <1>4, <2>1 DEF Holding
  <2>2. CASE k # j
    <3>1. k \in Elements(ch) \/ \E v \in Workers \ {w} : Holding(v) /\ worker[v].id = k
      BY <1>1, <2>2 DEF PoolInv, InFlightHasTask, j
    <3> QED BY <1>2, <3>1 DEF Holding
  <2> QED BY <2>1, <2>2
<1>13. LeftDrained'
  <2>1. \A v \in Workers : worker'[v].pc = "exited" <=> worker[v].pc = "exited"
    BY <1>1, <1>2, <1>4 DEF Holding
  <2> QED BY <1>1, <2>1 DEF PoolInv, LeftDrained
<1>14. WorkerKnowsJob'
  BY <1>1, <1>2, <1>3, <1>4, <1>5 DEF PoolInv, WorkerKnowsJob, Holding
<1> QED BY <1>7, <1>9, <1>10, <1>11, <1>12, <1>13, <1>14 DEF PoolInv

(* The job's function returning, a worker leaving, and Shutdown.           *)
LEMMA PoolInvRest ==
  ASSUME TypeOK, PoolInv,
         \/ \E w \in Workers : FnReturn(w) \/ WorkerExit(w)
         \/ ShutdownClose \/ ShutdownDone \/ ShutdownExpired
  PROVE  PoolInv'
<1> USE PoolAssumption, LockAssumption
<1>1. /\ UNCHANGED <<jobs, order, ch, mu, caller, minted>>
      /\ \A w \in Workers : worker'[w].id = worker[w].id
      /\ \A w \in Workers : Holding(w)' = Holding(w)
      /\ \A w \in Workers : worker'[w].pc = "got" <=> worker[w].pc = "got"
      /\ \A w \in Workers : worker'[w].pc \in {"run", "finish"} <=> worker[w].pc \in {"run", "finish"}
  <2>1. CASE \E w \in Workers : FnReturn(w)
    BY <2>1 DEF TypeOK, FnReturn, Holding
  <2>2. CASE \E w \in Workers : WorkerExit(w)
    BY <2>2 DEF TypeOK, WorkerExit, Holding
  <2>3. CASE ShutdownClose \/ ShutdownDone \/ ShutdownExpired
    BY <2>3 DEF ShutdownClose, ShutdownDone, ShutdownExpired, Holding
  <2> QED BY <2>1, <2>2, <2>3
<1>2. LockInv' /\ LeftDrained'
  <2>1. CASE \E w \in Workers : FnReturn(w)
    BY <2>1 DEF TypeOK, PoolInv, LockInv, LeftDrained, FnReturn
  <2>2. CASE \E w \in Workers : WorkerExit(w)
    BY <2>2 DEF TypeOK, PoolInv, LockInv, LeftDrained, WorkerExit
  <2>3. CASE ShutdownClose \/ ShutdownDone \/ ShutdownExpired
    BY <2>3 DEF PoolInv, LockInv, LeftDrained, ShutdownClose, ShutdownDone, ShutdownExpired
  <2> QED BY <2>1, <2>2, <2>3
<1>3. Elements(ch') = Elements(ch) /\ (Distinct(ch) => Distinct(ch'))
  BY <1>1
<1>4. OnePlace' /\ AboutToRecord' /\ ChannelIsQueued' /\ InFlightHasTask' /\ WorkerKnowsJob'
  BY <1>1, <1>3 DEF PoolInv, OnePlace, AboutToRecord, ChannelIsQueued, InFlightHasTask, WorkerKnowsJob
<1> QED BY <1>2, <1>4 DEF PoolInv

LEMMA PoolInvariant == Spec => [](TypeOK /\ PoolInv)
<1>1. TypeOK /\ PoolInv /\ [Next]_vars => PoolInv'
  <2> SUFFICES ASSUME TypeOK, PoolInv, [Next]_vars PROVE PoolInv'
    OBVIOUS
  <2>1. CASE \E c \in Callers : EnqueueStep(c)
    BY <2>1, PoolInvEnqueueQuiet, PoolInvSend, PoolInvRecord DEF EnqueueStep
  <2>2. CASE \E w \in Workers : WorkerStep(w)
    BY <2>2, PoolInvReceive, PoolInvUpdate, PoolInvRest DEF WorkerStep
  <2>3. CASE ShutdownClose \/ ShutdownDone \/ ShutdownExpired
    BY <2>3, PoolInvRest
  <2>4. CASE UNCHANGED vars
    BY <2>4 DEF vars, PoolInv, LockInv, OnePlace, AboutToRecord, ChannelIsQueued, InFlightHasTask,
                LeftDrained, WorkerKnowsJob, Holding, Elements, Distinct
  <2> QED BY <2>1, <2>2, <2>3, <2>4 DEF Next
<1> QED BY <1>1, PoolInvInit, TypeCorrect, PTL DEF Spec

(* update() never misses: a worker that is about to mark its job Running   *)
(* finds it queued or waits for the call that records it, and one that     *)
(* reports an outcome finds it running, however small the retention cap.   *)
THEOREM WorkersKnowTheirJobs == Spec => []WorkerKnowsJob
<1>1. TypeOK /\ PoolInv => WorkerKnowsJob
  BY DEF PoolInv
<1> QED BY <1>1, PoolInvariant, PTL

(* Shutdown returns nil only over a drained channel and no job in flight.  *)
THEOREM NilShutdownMeansDrained == Spec => []NilShutdownDrained
<1>1. TypeOK /\ PoolInv => NilShutdownDrained
  <2> SUFFICES ASSUME TypeOK, PoolInv, shut = "nil" PROVE ch = <<>> /\ \A j \in DOMAIN jobs : jobs[j] \notin InFlight
    BY DEF NilShutdownDrained
  <2>1. \A w \in Workers : worker[w].pc = "exited" /\ ~Holding(w)
    BY DEF PoolInv, LeftDrained, Holding
  <2>2. ch = <<>>
    BY <2>1, PoolAssumption DEF PoolInv, LeftDrained
  <2>3. Elements(ch) = {}
    BY <2>2 DEF Elements
  <2> QED BY <2>1, <2>2, <2>3 DEF PoolInv, InFlightHasTask
<1> QED BY <1>1, PoolInvariant, PTL

(* No Enqueue sends on the channel once Shutdown has closed it.            *)
THEOREM NeverSendsOnClosed == Spec => NoSendOnClosed
<1>1. TypeOK /\ PoolInv /\ [Next]_vars => (Len(ch') > Len(ch) => ~closed) \/ UNCHANGED vars
  <2> SUFFICES ASSUME TypeOK, PoolInv, Next, Len(ch') > Len(ch) PROVE ~closed
    OBVIOUS
  <2>1. ASSUME NEW c \in Callers, EnqueueSend(c) PROVE ~closed
    BY <2>1, LockAssumption DEF EnqueueSend, PoolInv, LockInv
  <2>2. ASSUME NEW w \in Workers, WorkerReceive(w) PROVE FALSE
    BY <2>2 DEF WorkerReceive, TypeOK
  <2>3. ASSUME ch' = ch PROVE FALSE
    BY <2>3 DEF TypeOK
  <2> QED BY <2>1, <2>2, <2>3 DEF Next, EnqueueStep, WorkerStep, EnqueueLock, EnqueueBusy, EnqueueRecord,
        EnqueueRefused, WorkerStart, FnReturn, WorkerFinish, WorkerExit, ShutdownClose, ShutdownDone, ShutdownExpired
<1> QED BY <1>1, PoolInvariant, PTL DEF Spec, NoSendOnClosed
=============================================================================
