------------------------------- MODULE Fleet -------------------------------
(***************************************************************************)
(* internal/fleet: one engagement of parallel web agents.  RunFleet splits *)
(* the planned chunks into waves, runs up to Workers of a wave at once,    *)
(* and merges what they claim into the worldview, a ledger of verdicts per *)
(* route and class.  All workers draw on one request envelope and share    *)
(* one latching breaker; a watchdog stops waves that bring nothing new; a  *)
(* second, narrower pass retries what stayed inconclusive; a panel settles *)
(* what is contested.                                                      *)
(*                                                                         *)
(* A chunk is its position in the plan.  Decompose gives every chunk one   *)
(* route, sets AuthCtx only on the session chunk and sets no StateKey, so  *)
(* the two wave rules about those fields never apply and are left out.     *)
(* What a worker finds is the environment's choice, given that it sent     *)
(* something; only requests through webagent's Send are counted.  The      *)
(* breaker is modelled for one kind of signal.  Texts, tokens and costs    *)
(* are left out.                                                           *)
(***************************************************************************)
EXTENDS Integers, Sequences, FiniteSets, FiniteSetsExt

CONSTANTS
  Plans,       \* chunk plans: sequences of [tier, route, class]
  Pairs,       \* route and class, as records [route, class]
  Workers,     \* Config.Workers
  Total,       \* engagement envelope, after applyAssurance
  MaxRequests, \* a worker's own cap
  CoverK,      \* looks that settle a pair
  StaleWaves,
  Limit,       \* signals that trip the breaker
  MaxGapfill,  \* 0: no gapfill
  Jurors       \* size of the panel, 0: no adjudication

Tiers == {"auth", "seed", "residual"}

ASSUME FleetAssumption ==
  /\ \A plan \in Plans : plan \in Seq([tier : Tiers, route : STRING, class : STRING])
  /\ {Workers, MaxRequests, CoverK, StaleWaves, Limit} \subseteq Nat \ {0}
  /\ {Total, MaxGapfill, Jurors} \subseteq Nat
  /\ IsFiniteSet(Pairs)

VARIABLES
  plan,
  waves,      \* the plan, partitioned
  phase,      \* where RunFleet is
  wi,         \* the wave
  worker,     \* the goroutine of each chunk; index 0 is the gapfill worker
  left,       \* the envelope
  events,     \* signals inside the breaker's window
  tripped,
  view,       \* the worldview
  todo,       \* pairs the gapfill has still to try
  skipped, disclosed, reported,  \* chunks: settled already, named as not run, run
  stale, lastVerdicts,           \* the stall watchdog
  sent,       \* history: requests sent
  late,       \* history: those sent after the breaker tripped
  said        \* history: which worker claimed what

coord == <<phase, wi, todo, skipped, disclosed, reported, stale, lastVerdicts, view, said>>
vars == <<plan, waves, coord, worker, left, events, tripped, sent, late>>

Chunks == DOMAIN plan
Ids == Chunks \cup {0}

Verdicts == {"vulnerable", "clean", "denied", "inconclusive", "contested"}

(* ClassVerdict; looks is its field Workers.                               *)
Unseen == [verdict |-> "none", vuln |-> FALSE, clean |-> FALSE, looks |-> 0]

NoClaims == [p \in Pairs |-> "none"]

(* share: the reservation.  decl: the pair the chunk declares, if any.     *)
(* times: how many claims carry each verdict.                              *)
Absent == [pc |-> "absent", share |-> 0, cap |-> 0, sent |-> 0, decl |-> {},
           claims |-> NoClaims, times |-> 1]

Worker == [pc : {"absent", "queued", "run", "cleared", "refused", "done", "failed"},
           share : Nat, cap : 0..MaxRequests, sent : 0..MaxRequests, decl : SUBSET Pairs,
           claims : [Pairs -> Verdicts \cup {"none"}], times : {1, 2}]

TypeOK ==
  /\ plan \in Plans /\ UNION {waves[w] : w \in DOMAIN waves} = Chunks
  /\ phase \in {"between", "wave", "gapfill", "gap", "judge", "done", "failed"}
  /\ wi \in 1..Len(plan) + 1
  /\ worker \in [Ids -> Worker]
  /\ Cardinality({c \in Ids : worker[c].pc \in {"run", "cleared", "refused"}}) <= Workers
  /\ left \in 0..Total /\ sent \in Nat /\ late \in Nat
  /\ events \in 0..Limit /\ tripped \in BOOLEAN
  /\ \A p \in Pairs : view[p].verdict \in Verdicts \cup {"none"} /\ view[p].looks \in Nat
  /\ todo \subseteq Pairs
  /\ skipped \subseteq Chunks /\ disclosed \subseteq Chunks /\ reported \subseteq Chunks
  /\ stale \in 0..StaleWaves /\ lastVerdicts \in Int
  /\ said \subseteq Pairs \X Verdicts \X Ids

-----------------------------------------------------------------------------
(* The plan: waves and shares.                                             *)

(* excluded: two workers never race one route.                             *)
Excluded(a, b) == plan[a].route = plan[b].route

(* Mutant: everything runs at once. *)
PlaceAnywhere(ws, c) == IF ws = <<>> THEN <<{c}>> ELSE [ws EXCEPT ![1] = @ \cup {c}]

(* A chunk joins the first wave it is compatible with, else opens the next.*)
Place(ws, c) ==
  LET fits == {w \in DOMAIN ws : \A m \in ws[w] : ~Excluded(m, c)}
  IN  IF fits = {} THEN Append(ws, {c})
      ELSE [ws EXCEPT ![CHOOSE w \in fits : \A v \in fits : w <= v] = @ \cup {c}]

PartitionWaves ==
  LET placed[n \in 0..Len(plan)] == IF n = 0 THEN <<>> ELSE Place(placed[n - 1], n)
  IN  placed[Len(plan)]

Later(w) == UNION {waves[v] : v \in w..Len(waves)}

Declared(c) == {p \in Pairs : p.route = plan[c].route /\ p.class = plan[c].class}

(* settledBy: a chunk with no class is never settled.                      *)
Settled(c) == Declared(c) # {} /\ \A p \in Declared(c) : view[p].looks >= CoverK

(* Mutant: every worker is promised what is left. *)
ShareWhole(run, c) == left

(* SplitReservations: equal parts, the earlier ones take the remainder.    *)
Share(run, c) ==
  LET n == Cardinality(run)
      before == Cardinality({d \in run : d < c})
  IN  (left \div n) + (IF before < left % n THEN 1 ELSE 0)

Cap(share) == IF share > 0 /\ share < MaxRequests THEN share ELSE MaxRequests

Launched(share, decl) ==
  [Absent EXCEPT !.pc = "queued", !.share = share, !.cap = Cap(share), !.decl = decl]

Init ==
  /\ plan \in Plans /\ waves = PartitionWaves
  /\ phase = "between" /\ wi = 1
  /\ worker = [c \in Ids |-> Absent]
  /\ left = Total /\ events = 0 /\ tripped = FALSE
  /\ view = [p \in Pairs |-> Unseen]
  /\ todo = {} /\ skipped = {} /\ disclosed = {} /\ reported = {}
  /\ stale = 0 /\ lastVerdicts = -1
  /\ sent = 0 /\ late = 0 /\ said = {}

-----------------------------------------------------------------------------
(* The top of the wave loop: halt, skip what is settled, or launch.        *)

Runnable == {c \in waves[wi] : ~Settled(c)}

(* Mutant: only the waves that follow are named. *)
EnvelopeSpentForgets ==
  /\ phase = "between" /\ wi <= Len(waves)
  /\ ~tripped /\ left = 0
  /\ skipped' = skipped \cup (waves[wi] \ Runnable)
  /\ disclosed' = disclosed \cup Later(wi + 1)
  /\ phase' = "gapfill"
  /\ UNCHANGED <<plan, waves, wi, worker, left, events, tripped, view, todo, reported, stale,
                 lastVerdicts, sent, late, said>>

EnvelopeSpent ==
  /\ phase = "between" /\ wi <= Len(waves)
  /\ ~tripped /\ left = 0
  /\ skipped' = skipped \cup (waves[wi] \ Runnable)
  /\ disclosed' = disclosed \cup Runnable \cup Later(wi + 1)
  /\ phase' = "gapfill"
  /\ UNCHANGED <<plan, waves, wi, worker, left, events, tripped, view, todo, reported, stale,
                 lastVerdicts, sent, late, said>>

HaltedByBreaker ==
  /\ phase = "between" /\ wi <= Len(waves)
  /\ tripped
  /\ disclosed' = disclosed \cup Later(wi)
  /\ phase' = "gapfill"
  /\ UNCHANGED <<plan, waves, wi, worker, left, events, tripped, view, todo, skipped, reported, stale,
                 lastVerdicts, sent, late, said>>

LaunchWave ==
  /\ phase = "between" /\ wi <= Len(waves)
  /\ ~tripped /\ left > 0
  /\ skipped' = skipped \cup (waves[wi] \ Runnable)
  /\ IF Runnable = {}
       THEN wi' = wi + 1 /\ UNCHANGED <<phase, worker>>
       ELSE /\ phase' = "wave"
            /\ worker' = [c \in Ids |-> IF c \in Runnable
                                          THEN Launched(Share(Runnable, c), Declared(c))
                                          ELSE Absent]
            /\ UNCHANGED wi
  /\ UNCHANGED <<plan, waves, left, events, tripped, view, todo, disclosed, reported, stale,
                 lastVerdicts, sent, late, said>>

WavesDone ==
  /\ phase = "between" /\ wi > Len(waves)
  /\ phase' = "gapfill"
  /\ UNCHANGED <<plan, waves, wi, worker, left, events, tripped, view, todo, skipped, disclosed,
                 reported, stale, lastVerdicts, sent, late, said>>

-----------------------------------------------------------------------------
(* A worker: webagent.Investigate, with Requester.Send in two steps.       *)

Cancelled == \E c \in Ids : worker[c].pc = "failed"

Busy == {c \in Ids : worker[c].pc \in {"run", "cleared", "refused"}}

(* errgroup with SetLimit.                                                 *)
Start(c) ==
  /\ worker[c].pc = "queued" /\ Cardinality(Busy) < Workers
  /\ worker' = [worker EXCEPT ![c].pc = "run"]
  /\ UNCHANGED <<plan, waves, coord, left, events, tripped, sent, late>>

(* Mutant: a latched breaker is not consulted. *)
ClearHeedless(c) ==
  /\ worker[c].pc = "run" /\ ~Cancelled
  /\ worker[c].sent < worker[c].cap
  /\ worker' = [worker EXCEPT ![c].pc = "cleared"]
  /\ UNCHANGED <<plan, waves, coord, left, events, tripped, sent, late>>

(* Send, first half: the breaker and the worker's own cap.                 *)
Clear(c) ==
  /\ worker[c].pc = "run" /\ ~Cancelled
  /\ ~tripped
  /\ worker[c].sent < worker[c].cap
  /\ worker' = [worker EXCEPT ![c].pc = "cleared"]
  /\ UNCHANGED <<plan, waves, coord, left, events, tripped, sent, late>>

(* Mutant: the envelope is counted down and not consulted. *)
TakeUnmetered(c) ==
  /\ worker[c].pc = "cleared"
  /\ left' = IF left > 0 THEN left - 1 ELSE 0
  /\ worker' = [worker EXCEPT ![c].pc = "run", ![c].sent = @ + 1]
  /\ sent' = sent + 1
  /\ late' = IF tripped THEN late + 1 ELSE late
  /\ UNCHANGED <<plan, waves, coord, events, tripped>>

(* Send, second half: take from the envelope, then send.  A cancelled      *)
(* context may end the wait between the two and lose what was taken.       *)
Take(c) ==
  /\ worker[c].pc = "cleared"
  /\ left > 0 /\ left' = left - 1
  /\ \/ /\ worker' = [worker EXCEPT ![c].pc = "run", ![c].sent = @ + 1]
        /\ sent' = sent + 1
        /\ late' = IF tripped THEN late + 1 ELSE late
     \/ /\ Cancelled
        /\ worker' = [worker EXCEPT ![c].pc = "run"]
        /\ UNCHANGED <<sent, late>>
  /\ UNCHANGED <<plan, waves, coord, events, tripped>>

(* Nothing left to take: stop and report.                                  *)
Refuse(c) ==
  /\ worker[c].pc = "cleared" /\ left = 0
  /\ worker' = [worker EXCEPT ![c].pc = "refused"]
  /\ UNCHANGED <<plan, waves, coord, left, events, tripped, sent, late>>

(* Breaker.Record: latch when the window holds Limit signals.              *)
Record == events' = (IF events < Limit THEN events + 1 ELSE events) /\ tripped' = (tripped \/ events + 1 >= Limit)

(* The worker was caught steering out of bounds.                           *)
Signal(c) ==
  /\ worker[c].pc = "run" /\ ~tripped
  /\ Record
  /\ UNCHANGED <<plan, waves, coord, worker, left, sent, late>>

(* Signals leave the sliding window; the latch stays.                      *)
Expire ==
  /\ events > 0 /\ ~tripped /\ Busy # {}
  /\ events' = events - 1
  /\ UNCHANGED <<plan, waves, coord, worker, left, tripped, sent, late>>

(* ClaimsFromChunk: a finding anywhere; for the declared pair, clean if    *)
(* the class was attempted there, inconclusive if it was only touched.     *)
ClaimsFromChunk(decl, found, touched, attempted) ==
  [p \in Pairs |->
     CASE p \in found -> "vulnerable"
       [] p \in decl \ found /\ p \in attempted -> "clean"
       [] p \in decl \ found /\ p \in touched \ attempted -> "inconclusive"
       [] OTHER -> "none"]

(* The worker reports; observeHealth may record a signal.                  *)
Finish(c) ==
  /\ worker[c].pc \in {"run", "refused"} /\ ~Cancelled
  /\ \E found \in SUBSET Pairs, touched \in SUBSET worker[c].decl : \E attempted \in SUBSET touched :
       /\ worker[c].sent = 0 => found = {} /\ touched = {}
       /\ \E times \in {1, 2} :
            worker' = [worker EXCEPT
              ![c] = [@ EXCEPT !.pc = "done", !.times = IF found = {} THEN 1 ELSE times,
                               !.claims = ClaimsFromChunk(worker[c].decl, found, touched, attempted)]]
  /\ Record \/ UNCHANGED <<events, tripped>>
  /\ UNCHANGED <<plan, waves, coord, left, sent, late>>

(* Investigate returns an error, its own or the cancelled context's.       *)
Fail(c) ==
  /\ worker[c].pc \in {"run", "refused"}
  /\ worker' = [worker EXCEPT ![c] = [Absent EXCEPT !.pc = "failed"]]
  /\ UNCHANGED <<plan, waves, coord, left, events, tripped, sent, late>>

-----------------------------------------------------------------------------
(* The worldview.                                                          *)

Precedence == [vulnerable |-> 4, clean |-> 3, denied |-> 2, inconclusive |-> 1]

(* Mutant: the stronger verdict wins, also over a disagreement. *)
ResolveByRank(a, b) ==
  IF a = "contested" \/ b = "contested" THEN "contested"
  ELSE IF Precedence[a] >= Precedence[b] THEN a ELSE b

(* resolve: contested absorbs, proven against tested-safe is contested,    *)
(* anything else goes by precedence.                                       *)
Resolve(a, b) ==
  IF "contested" \in {a, b} \/ {a, b} = {"vulnerable", "clean"} THEN "contested"
  ELSE IF Precedence[a] >= Precedence[b] THEN a ELSE b

(* Update with the claims of one worker on one pair.                       *)
Update(cv, verdict, times) ==
  IF verdict = "none" THEN cv
  ELSE [verdict |-> IF cv.verdict = "none" THEN verdict ELSE Resolve(cv.verdict, verdict),
        vuln  |-> cv.vuln \/ verdict = "vulnerable",
        clean |-> cv.clean \/ verdict # "vulnerable",
        looks |-> cv.looks + (IF verdict = "vulnerable" THEN times ELSE 1)]

(* The workers of a wave are merged in plan order.                         *)
Merged(p, run) ==
  LET upTo[n \in 0..Len(plan)] ==
        IF n = 0 THEN view[p]
        ELSE IF n \in run THEN Update(upTo[n - 1], worker[n].claims[p], worker[n].times)
        ELSE upTo[n - 1]
  IN  upTo[Len(plan)]

Claimed(run) ==
  {t \in Pairs \X Verdicts \X run : worker[t[3]].claims[t[1]] = t[2]}

Ran == {c \in Ids : worker[c].pc \notin {"absent"}}

(* g.Wait failed: RunFleet returns the error and nothing else.             *)
JoinFails ==
  /\ phase \in {"wave", "gap"} /\ Cancelled
  /\ \A c \in Ran : worker[c].pc \in {"done", "failed"}
  /\ phase' = "failed"
  /\ worker' = [c \in Ids |-> Absent]
  /\ UNCHANGED <<plan, waves, wi, left, events, tripped, view, todo, skipped, disclosed, reported,
                 stale, lastVerdicts, sent, late, said>>

(* Merge, then the stall watchdog: no pair new to the ledger for           *)
(* StaleWaves waves, and waves still to come.                              *)
Join ==
  LET known == Cardinality({p \in Pairs : view'[p].verdict # "none"})
      idle  == IF known = lastVerdicts THEN stale + 1 ELSE 0
      stall == idle >= StaleWaves /\ wi < Len(waves)
  IN  /\ phase = "wave" /\ Ran # {} /\ \A c \in Ran : worker[c].pc = "done"
      /\ view' = [p \in Pairs |-> Merged(p, Ran)]
      /\ said' = said \cup Claimed(Ran)
      /\ reported' = reported \cup Ran
      /\ worker' = [c \in Ids |-> Absent]
      /\ stale' = (IF idle > StaleWaves THEN StaleWaves ELSE idle) /\ lastVerdicts' = known
      /\ disclosed' = IF stall THEN disclosed \cup Later(wi + 1) ELSE disclosed
      /\ phase' = IF stall THEN "gapfill" ELSE "between"
      /\ wi' = wi + 1
      /\ UNCHANGED <<plan, waves, left, events, tripped, todo, skipped, sent, late>>

-----------------------------------------------------------------------------
(* Gapfill: one narrow worker after the other, over inconclusive pairs     *)
(* whose route a reported chunk probed.                                    *)

Inconclusive ==
  {p \in Pairs : view[p].verdict = "inconclusive" /\ \E c \in reported : plan[c].route = p.route}

Gapfill ==
  /\ phase = "gapfill"
  /\ IF MaxGapfill > 0 /\ left > 0 /\ Inconclusive # {}
       THEN \E pairs \in SUBSET Inconclusive :
              /\ Cardinality(pairs) <= MaxGapfill
              /\ pairs # Inconclusive => Cardinality(pairs) = MaxGapfill
              /\ todo' = pairs /\ phase' = "gap"
       ELSE phase' = "judge" /\ UNCHANGED todo
  /\ UNCHANGED <<plan, waves, wi, worker, left, events, tripped, view, skipped, disclosed, reported,
                 stale, lastVerdicts, sent, late, said>>

(* Mutant: a pair stays queued until it is settled. *)
GapNextRetries ==
  /\ phase = "gap" /\ Ran = {}
  /\ IF todo = {} \/ tripped \/ left = 0
       THEN phase' = "judge" /\ todo' = {} /\ UNCHANGED worker
       ELSE \E p \in todo :
              /\ worker' = [worker EXCEPT ![0] = Launched(0, {p})]
              /\ UNCHANGED <<todo, phase>>
  /\ UNCHANGED <<plan, waves, wi, left, events, tripped, view, skipped, disclosed, reported,
                 stale, lastVerdicts, sent, late, said>>

GapNext ==
  /\ phase = "gap" /\ Ran = {}
  /\ IF todo = {} \/ tripped \/ left = 0
       THEN phase' = "judge" /\ todo' = {} /\ UNCHANGED worker
       ELSE \E p \in todo :
              /\ worker' = [worker EXCEPT ![0] = Launched(0, {p})]
              /\ todo' = todo \ {p} /\ UNCHANGED phase
  /\ UNCHANGED <<plan, waves, wi, left, events, tripped, view, skipped, disclosed, reported,
                 stale, lastVerdicts, sent, late, said>>

GapJoin ==
  /\ phase = "gap" /\ worker[0].pc = "done"
  /\ view' = [p \in Pairs |-> Update(view[p], worker[0].claims[p], worker[0].times)]
  /\ said' = said \cup Claimed({0})
  /\ worker' = [worker EXCEPT ![0] = Absent]
  /\ UNCHANGED <<plan, waves, phase, wi, left, events, tripped, todo, skipped, disclosed, reported,
                 stale, lastVerdicts, sent, late>>

-----------------------------------------------------------------------------
(* AdjudicateContested: votes for vulnerable and for clean, a failed or    *)
(* declined vote is none; a majority of the whole panel decides.           *)

Majority(v, c) ==
  LET need == (Jurors \div 2) + 1
  IN  CASE v >= need /\ v > c -> "vulnerable" [] c >= need /\ c > v -> "clean" [] OTHER -> "contested"

(* ResolveContested refuses a side without evidence.                       *)
ResolveContested(cv, to) ==
  IF (to = "vulnerable" /\ cv.vuln) \/ (to = "clean" /\ cv.clean) THEN [cv EXCEPT !.verdict = to] ELSE cv

Votes == {b \in (0..Jurors) \X (0..Jurors) : b[1] + b[2] <= Jurors}

Adjudicate ==
  /\ phase = "judge"
  /\ \E ballot \in [{p \in Pairs : view[p].verdict = "contested"} -> Votes] :
       view' = [p \in Pairs |-> IF Jurors > 0 /\ p \in DOMAIN ballot
                                  THEN ResolveContested(view[p], Majority(ballot[p][1], ballot[p][2]))
                                  ELSE view[p]]
  /\ phase' = "done"
  /\ UNCHANGED <<plan, waves, wi, worker, left, events, tripped, todo, skipped, disclosed, reported,
                 stale, lastVerdicts, sent, late, said>>

-----------------------------------------------------------------------------
Coordinate ==
  \/ EnvelopeSpent \/ HaltedByBreaker \/ LaunchWave \/ WavesDone
  \/ Join \/ JoinFails \/ Gapfill \/ GapNext \/ GapJoin \/ Adjudicate

Work(c) == Start(c) \/ Take(c) \/ Refuse(c) \/ Finish(c) \/ Fail(c)

Next ==
  \/ Coordinate
  \/ \E c \in Ids : Work(c) \/ Clear(c) \/ Signal(c)
  \/ Expire
  \/ phase \in {"done", "failed"} /\ UNCHANGED vars

(* The coordinator is one goroutine; a worker that is let run is scheduled *)
(* and its agent loop ends (MaxIters).                                     *)
Spec == Init /\ [][Next]_vars /\ WF_vars(Coordinate) /\ WF_vars(\E c \in Ids : Work(c))

-----------------------------------------------------------------------------
(* Properties.                                                             *)

(* The engagement envelope is the absolute wall: workers, gapfill and lost *)
(* takes together never exceed it, however they interleave.                *)
EnvelopeHolds == sent + left <= Total

(* A reservation is backed: while every share of the wave is positive and  *)
(* no worker has failed, what the unfinished workers may still send is in  *)
(* the envelope, so no worker spends another's share.                      *)
ReservationsBacked ==
  LET open == {c \in Ran : worker[c].pc # "done"}
  IN  phase = "wave" /\ ~Cancelled /\ (\A c \in Ran : worker[c].share > 0)
        => MapThenSumSet(LAMBDA c : worker[c].cap - worker[c].sent, open) <= left

(* Two workers never race one route: their controls would be corrupted.    *)
OneWorkerPerRoute ==
  \A c, d \in Busy : c # d => plan[c].route # plan[d].route

(* Once the breaker has tripped, only requests already past its check go   *)
(* out: at most one per running worker, for the rest of the engagement.    *)
HaltIsPrompt == late <= Workers

(* Nothing is silently dropped: when RunFleet returns a result, every      *)
(* chunk of the plan was run, was settled already, or is named as not run. *)
NothingDropped == phase = "done" => reported \cup skipped \cup disclosed = Chunks

(* The ledger is what the claims say, in whatever order workers finished   *)
(* and were merged: contested when one proved the class and another found  *)
(* it clean, else the strongest claim.  A panel moves only contested pairs.*)
Summary(vs) ==
  CASE vs = {} -> {"none"}
    [] {"vulnerable", "clean"} \subseteq vs ->
         IF phase = "done" /\ Jurors > 0 THEN {"contested", "vulnerable", "clean"} ELSE {"contested"}
    [] OTHER -> {CHOOSE v \in vs : \A u \in vs : Precedence[u] <= Precedence[v]}

LedgerIsSummary ==
  \A p \in Pairs : view[p].verdict \in Summary({v \in Verdicts : \E c \in Ids : <<p, v, c>> \in said})

(* RunFleet returns, whatever its workers run into.                        *)
FleetReturns == <>(phase \in {"done", "failed"})

(* Workers is the number of independent looks: a chunk is skipped as       *)
(* settled only if CoverK different workers looked at its pair.            *)
SkippedWasCovered ==
  \A c \in skipped, p \in Pairs :
    p \in Declared(c) => Cardinality({d \in Ids : \E v \in Verdicts : <<p, v, d>> \in said}) >= CoverK

(* Every halt names what did not run: when the breaker stopped workers, a  *)
(* result says so.                                                         *)
HaltDisclosed == phase = "done" /\ tripped => disclosed # {}

(* A reservation caps the worker.                                          *)
ShareHolds == \A c \in Ran \ {0} : worker[c].sent <= worker[c].share

(* The stall watchdog stops only waves without progress: no pair of a      *)
(* chunk it drops is still short of looks.                                 *)
StallIsReal ==
  [][Join /\ phase' = "gapfill" => \A p \in Pairs : view'[p] = view[p]]_vars

(* The session chunk is wave 0: other chunks reuse the session it made.    *)
SessionFirst ==
  \A c, d \in Busy : plan[c].tier = "auth" => d = c

=============================================================================
