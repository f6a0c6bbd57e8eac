------------------------------ MODULE JobPool ------------------------------
(***************************************************************************)
(* internal/jobs: the bounded in-process worker pool that runs scans off   *)
(* the request path.  Request goroutines (Callers) call Enqueue, worker    *)
(* goroutines (Workers) range over the channel, one goroutine at a time    *)
(* calls Shutdown.  Enqueue is split where another goroutine can run: the  *)
(* closed check, the channel send (a worker may receive the task at once,  *)
(* channels do not need the mutex) and the recording of the job, all three *)
(* inside one critical section of p.mu.                                    *)
(*                                                                         *)
(* Abstracted: Tenant, Kind, Result, timestamps.  A job is its id; the     *)
(* function it runs is its outcome, chosen when the function returns (a    *)
(* panic and a deadline are both the outcome "failed").                    *)
(***************************************************************************)
EXTENDS Integers, Sequences, FiniteSets

CONSTANTS Callers,    \* request goroutines
          Workers,    \* worker goroutines
          JobIds,     \* ids newID can mint; bounds the number of jobs
          QueueSize,  \* capacity of the channel
          Retain,     \* retention cap
          NoJob       \* "holds no job"

ASSUME PoolAssumption ==
  /\ QueueSize \in Nat \ {0}
  /\ Retain \in Nat \ {0}
  /\ NoJob \notin JobIds
  /\ Workers # {}
  /\ Callers \cap Workers = {}

NoOne == "no one"
ASSUME LockAssumption == NoOne \notin Callers

VARIABLES
  jobs,    \* p.jobs: recorded job id -> status
  order,   \* p.order: recorded ids, oldest first
  ch,      \* p.ch: ids of the tasks sent and not yet received
  closed,  \* p.closed (set together with close(p.ch))
  mu,      \* the Enqueue call inside p.mu, or NoOne
  caller,  \* Enqueue call of each request goroutine
  worker,  \* loop state of each worker goroutine
  shut,    \* the Shutdown call
  minted   \* ids handed out so far

vars == <<jobs, order, ch, closed, mu, caller, worker, shut, minted>>

Status    == {"queued", "running", "done", "failed"}
InFlight  == {"queued", "running"}
Outcome   == {"done", "failed"}

(* Where an Enqueue call is ("send": past the closed check; "record": its  *)
(* task is in the channel), or what the last one returned.                 *)
CallerPc  == {"idle", "send", "record", "accepted", "busy", "refused"}
Returned  == CallerPc \ {"send", "record"}
(* Where a worker is: blocked on the channel, holding a received task not  *)
(* yet marked Running, in the job's function, back from it, gone.          *)
WorkerPc  == {"recv", "got", "run", "finish", "exited"}
Shut      == {"no", "waiting", "nil", "expired"}

TypeOK ==
  /\ DOMAIN jobs \subseteq JobIds
  /\ jobs \in [DOMAIN jobs -> Status]
  /\ order \in Seq(JobIds)
  /\ ch \in Seq(JobIds) /\ Len(ch) <= QueueSize
  /\ closed \in BOOLEAN
  /\ mu \in Callers \cup {NoOne}
  /\ caller \in [Callers -> [pc : CallerPc, id : JobIds \cup {NoJob}]]
  /\ \A c \in Callers : caller[c].pc = "record" => caller[c].id \in JobIds
  /\ worker \in [Workers -> [pc : WorkerPc, id : JobIds \cup {NoJob}, out : Outcome]]
  /\ shut \in Shut
  /\ minted \subseteq JobIds

Init ==
  /\ jobs = [j \in {} |-> "queued"]
  /\ order = <<>>
  /\ ch = <<>>
  /\ closed = FALSE
  /\ mu = NoOne
  /\ caller = [c \in Callers |-> [pc |-> "idle", id |-> NoJob]]
  /\ worker = [w \in Workers |-> [pc |-> "recv", id |-> NoJob, out |-> "done"]]
  /\ shut = "no"
  /\ minted = {}

-----------------------------------------------------------------------------
(* Readers and the retention rule.                                         *)

IsInFlight(js, j) == j \in DOMAIN js /\ js[j] \in InFlight

(* Inflight(): what the Prometheus gauge reports. *)
Inflight == Cardinality({i \in 1..Len(order) : IsInFlight(jobs, order[i])})

(* The positions prune() drops: it takes the oldest while more than Retain *)
(* are left, and stops at the first job still in flight.                   *)
Prunable(js, o) ==
  {i \in 1..Len(o) : /\ i <= Len(o) - Retain
                     /\ \A k \in 1..i : ~IsInFlight(js, o[k])}

PrunedOrder(js, o) == SubSeq(o, Cardinality(Prunable(js, o)) + 1, Len(o))

PrunedJobs(js, o) ==
  LET gone == {o[i] : i \in Prunable(js, o)}
  IN  [j \in DOMAIN js \ gone |-> js[j]]

-----------------------------------------------------------------------------
(* Enqueue, one action per stretch of its critical section.                *)

(* Lock p.mu; "jobs: pool is shutting down" when closed. *)
EnqueueRefused(c) ==
  /\ mu = NoOne
  /\ caller[c].pc \in Returned
  /\ closed
  /\ caller' = [caller EXCEPT ![c].pc = "refused"]
  /\ UNCHANGED <<jobs, order, ch, closed, mu, worker, shut, minted>>

EnqueueLock(c) ==
  /\ mu = NoOne
  /\ caller[c].pc \in Returned
  /\ ~closed
  /\ minted # JobIds     \* bound: an id is left to mint
  /\ mu' = c
  /\ caller' = [caller EXCEPT ![c].pc = "send"]
  /\ UNCHANGED <<jobs, order, ch, closed, worker, shut, minted>>

(* The select's send case: the task is in the channel, the job not yet in  *)
(* the map.  Sending on a closed channel would panic.                      *)
EnqueueSend(c) ==
  /\ caller[c].pc = "send"
  /\ Len(ch) < QueueSize
  /\ \E j \in JobIds \ minted :
       /\ minted' = minted \cup {j}
       /\ ch' = Append(ch, j)
       /\ caller' = [caller EXCEPT ![c] = [pc |-> "record", id |-> j]]
  /\ UNCHANGED <<jobs, order, closed, mu, worker, shut>>

(* The select's default case: ErrBusy, nothing recorded; unlock. *)
EnqueueBusy(c) ==
  /\ caller[c].pc = "send"
  /\ Len(ch) >= QueueSize
  /\ mu' = NoOne
  /\ caller' = [caller EXCEPT ![c].pc = "busy"]
  /\ UNCHANGED <<jobs, order, ch, closed, worker, shut, minted>>

(* Record the job, append it to order, prune; unlock and return it. *)
EnqueueRecord(c) ==
  /\ caller[c].pc = "record"
  /\ LET j  == caller[c].id
         js == [k \in DOMAIN jobs \cup {j} |-> IF k = j THEN "queued" ELSE jobs[k]]
         o  == Append(order, j)
     IN  /\ jobs' = PrunedJobs(js, o)
         /\ order' = PrunedOrder(js, o)
  /\ mu' = NoOne
  /\ caller' = [caller EXCEPT ![c] = [pc |-> "accepted", id |-> NoJob]]
  /\ UNCHANGED <<ch, closed, worker, shut, minted>>

-----------------------------------------------------------------------------
(* The worker loop.                                                        *)

(* range p.ch: receive a task; needs no lock. *)
WorkerReceive(w) ==
  /\ worker[w].pc = "recv"
  /\ ch # <<>>
  /\ ch' = Tail(ch)
  /\ worker' = [worker EXCEPT ![w].pc = "got", ![w].id = Head(ch)]
  /\ UNCHANGED <<jobs, order, closed, mu, caller, shut, minted>>

(* Mutant: update without p.mu. *)
UpdateUnlocked(j, s) ==
  jobs' = [k \in DOMAIN jobs |-> IF k = j THEN s ELSE jobs[k]]

(* update(id, f) under p.mu: a no-op for an id that is not in the map. *)
Update(j, s) ==
  /\ mu = NoOne
  /\ jobs' = [k \in DOMAIN jobs |-> IF k = j THEN s ELSE jobs[k]]

WorkerStart(w) ==
  /\ worker[w].pc = "got"
  /\ Update(worker[w].id, "running")
  /\ worker' = [worker EXCEPT ![w].pc = "run"]
  /\ UNCHANGED <<order, ch, closed, mu, caller, shut, minted>>

(* run(timeout, fn) returns: a result, or an error (deadline and panic     *)
(* included), and the worker goes on either way.                           *)
FnReturn(w) ==
  /\ worker[w].pc = "run"
  /\ \E o \in Outcome : worker' = [worker EXCEPT ![w].pc = "finish", ![w].out = o]
  /\ UNCHANGED <<jobs, order, ch, closed, mu, caller, shut, minted>>

(* Mutant: a failed job's status is never written. *)
WorkerFinishForgetsFailure(w) ==
  /\ worker[w].pc = "finish"
  /\ IF worker[w].out = "failed" THEN mu = NoOne /\ UNCHANGED jobs
                                 ELSE Update(worker[w].id, worker[w].out)
  /\ worker' = [worker EXCEPT ![w] = [pc |-> "recv", id |-> NoJob, out |-> "done"]]
  /\ UNCHANGED <<order, ch, closed, mu, caller, shut, minted>>

WorkerFinish(w) ==
  /\ worker[w].pc = "finish"
  /\ Update(worker[w].id, worker[w].out)
  /\ worker' = [worker EXCEPT ![w] = [pc |-> "recv", id |-> NoJob, out |-> "done"]]
  /\ UNCHANGED <<order, ch, closed, mu, caller, shut, minted>>

(* Mutant: the worker leaves as soon as the pool is closed. *)
WorkerExitUndrained(w) ==
  /\ worker[w].pc = "recv"
  /\ closed
  /\ worker' = [worker EXCEPT ![w].pc = "exited"]
  /\ UNCHANGED <<jobs, order, ch, closed, mu, caller, shut, minted>>

(* The range ends when the channel is closed AND drained; wg.Done. *)
WorkerExit(w) ==
  /\ worker[w].pc = "recv"
  /\ closed /\ ch = <<>>
  /\ worker' = [worker EXCEPT ![w].pc = "exited"]
  /\ UNCHANGED <<jobs, order, ch, closed, mu, caller, shut, minted>>

-----------------------------------------------------------------------------
(* Shutdown: close under the lock once, then wait for the workers or ctx.  *)

(* Mutant: close without p.mu. *)
ShutdownCloseUnlocked ==
  /\ shut \in {"no", "nil", "expired"}
  /\ closed' = TRUE
  /\ shut' = "waiting"
  /\ UNCHANGED <<jobs, order, ch, mu, caller, worker, minted>>

ShutdownClose ==
  /\ shut \in {"no", "nil", "expired"}
  /\ mu = NoOne
  /\ closed' = TRUE
  /\ shut' = "waiting"
  /\ UNCHANGED <<jobs, order, ch, mu, caller, worker, minted>>

ShutdownDone ==
  /\ shut = "waiting"
  /\ \A w \in Workers : worker[w].pc = "exited"
  /\ shut' = "nil"
  /\ UNCHANGED <<jobs, order, ch, closed, mu, caller, worker, minted>>

ShutdownExpired ==
  /\ shut = "waiting"
  /\ shut' = "expired"
  /\ UNCHANGED <<jobs, order, ch, closed, mu, caller, worker, minted>>

-----------------------------------------------------------------------------
EnqueueStep(c) == EnqueueLock(c) \/ EnqueueSend(c) \/ EnqueueBusy(c)
                  \/ EnqueueRecord(c) \/ EnqueueRefused(c)
WorkerStep(w)  == WorkerReceive(w) \/ WorkerStart(w) \/ FnReturn(w)
                  \/ WorkerFinish(w) \/ WorkerExit(w)

Next ==
  \/ \E c \in Callers : EnqueueStep(c)
  \/ \E w \in Workers : WorkerStep(w)
  \/ ShutdownClose \/ ShutdownDone \/ ShutdownExpired

Spec == Init /\ [][Next]_vars

(* Goroutines that can run do run; a request inside the critical section   *)
(* finishes it.  FnReturn is fair because run() hands every function a     *)
(* deadline and the platform's jobs honour their context.  Nothing obliges *)
(* anyone to call Enqueue or Shutdown.                                     *)
Fairness ==
  /\ \A w \in Workers : SF_vars(WorkerStart(w)) /\ SF_vars(WorkerFinish(w))
                        /\ WF_vars(WorkerReceive(w)) /\ WF_vars(FnReturn(w))
                        /\ WF_vars(WorkerExit(w))
  /\ \A c \in Callers : WF_vars(EnqueueSend(c)) /\ WF_vars(EnqueueBusy(c))
                        /\ WF_vars(EnqueueRecord(c))
  /\ WF_vars(ShutdownDone)

FairSpec == Spec /\ Fairness

-----------------------------------------------------------------------------
(* Properties.                                                             *)

Holding(w) == worker[w].pc \in {"got", "run", "finish"}

(* A worker always finds its job in the map in the state it expects: the   *)
(* claim of the comment in Enqueue.  A task received before Enqueue has    *)
(* recorded its job waits on p.mu, so update() is never a silent no-op and *)
(* a Running job is never pruned from under its worker.                    *)
WorkerKnowsJob ==
  \A w \in Workers :
    /\ worker[w].pc = "got" =>
         \/ worker[w].id \in DOMAIN jobs /\ jobs[worker[w].id] = "queued"
         \/ mu # NoOne /\ caller[mu].id = worker[w].id
    /\ worker[w].pc \in {"run", "finish"} =>
         worker[w].id \in DOMAIN jobs /\ jobs[worker[w].id] = "running"

(* The Inflight gauge counts exactly the tasks in the channel and the ones *)
(* a worker holds: no job leaks out of it, none is counted twice.          *)
GaugeIsExact ==
  mu = NoOne => Inflight = Len(ch) + Cardinality({w \in Workers : Holding(w)})

(* Shutdown returning nil means every accepted job ran to its end: the     *)
(* workers drained the closed channel before they left.                    *)
NilShutdownDrained ==
  shut = "nil" => /\ ch = <<>>
                  /\ \A j \in DOMAIN jobs : jobs[j] \notin InFlight

(* Enqueue never sends on the closed channel (which would panic the        *)
(* request): the closed check and the send share one critical section with *)
(* Shutdown's close.                                                       *)
NoSendOnClosed == [][Len(ch') > Len(ch) => ~closed]_vars

(* A recorded job only moves queued -> running -> done/failed, and only a  *)
(* finished job ever leaves the map (prune).                               *)
LifecycleStep(j) ==
  IF j \in DOMAIN jobs'
    THEN \/ jobs'[j] = jobs[j]
         \/ jobs[j] = "queued" /\ jobs'[j] = "running"
         \/ jobs[j] = "running" /\ jobs'[j] \in Outcome
    ELSE jobs[j] \notin InFlight
JobLifecycle == [][\A j \in DOMAIN jobs : LifecycleStep(j)]_vars

(* Every accepted job finishes, whatever else is queued and even when the  *)
(* pool is shut down meanwhile.                                            *)
JobsFinish ==
  \A j \in JobIds : IsInFlight(jobs, j) ~> ~IsInFlight(jobs, j)

(* After Shutdown every worker leaves, so wg.Wait returns. *)
WorkersLeave == closed ~> \A w \in Workers : worker[w].pc = "exited"

(* NewPool's comment: "At most `retain` finished jobs are kept (oldest     *)
(* pruned)", read at rest, right after an Enqueue has pruned.  prune()     *)
(* stops at an in-flight oldest job, so finished jobs behind it pile up.   *)
RetentionCap ==
  [][mu # NoOne /\ mu' = NoOne =>
       Cardinality({j \in DOMAIN jobs' : jobs'[j] \in Outcome}) <= Retain]_vars

=============================================================================
