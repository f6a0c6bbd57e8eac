-------------------------------- MODULE Scan --------------------------------
(***************************************************************************)
(* internal/orchestrator: one scan of one target.  RunWithSurface runs     *)
(* recon, then detection over what recon discovered, then the deeper       *)
(* dispatches the signals ask for, each stage as dependency-ordered waves  *)
(* of concurrent tool calls under one deadline, and the command line       *)
(* writes what came back as a report (vulnerabilities.json).               *)
(*                                                                         *)
(* A dispatch is a model value; the sets given as constants are what the   *)
(* asset's handler plans and its Filter keeps, so a handler without recon  *)
(* has Recon = {}.  A tool reports the issues it can see that are live     *)
(* when it returns, and a cookie lets it see the ones behind the login.  A *)
(* login that the target refuses is a result without a session, no error.  *)
(* The per-tool timeout is one of the reasons a call fails.  Coverage      *)
(* gaps, the repository sweep, traces and signatures are left out.         *)
(***************************************************************************)
EXTENDS Integers, Sequences, FiniteSets

CONSTANTS
  Recon,         \* dispatches of the recon stage
  Fanout,        \* detection dispatches on the whole surface
  Behind,        \* those of them on URLs only recon discovers
  Escalation,    \* what PlanEscalation can propose, in its order
  Signal,        \* escalation dispatch -> issues that call for it, {}: the surface does
  Pruned,        \* escalation dispatches Filter removes
  ToolOf,        \* dispatch -> tool
  Needs,         \* toolDependencies
  Writers,       \* tools whose result may carry a session
  Issues, Finds, \* dispatch -> issues it can see
  Private,       \* issues seen only with a session
  Concurrency, MaxEscalation,
  MaxScans, MaxChanges \* bounds: scans started, changes to the target

Deep == {Escalation[k] : k \in DOMAIN Escalation}
Dispatches == Recon \cup Fanout \cup Deep
Tools == {ToolOf[d] : d \in Dispatches}

ASSUME ScanAssumption ==
  /\ IsFiniteSet(Dispatches) /\ Escalation \in Seq(Deep)
  /\ Recon \cap (Fanout \cup Deep) = {} /\ Fanout \cap Deep = {}
  /\ Behind \subseteq Fanout /\ (Recon = {} => Behind = {}) /\ Pruned \subseteq Deep
  /\ Signal \in [Deep -> SUBSET Issues]
  /\ Needs \in [Tools -> SUBSET Tools] /\ Writers \subseteq Tools
  /\ Finds \in [Dispatches -> SUBSET Issues] /\ Private \subseteq Issues
  /\ {Concurrency, MaxScans} \subseteq Nat \ {0} /\ {MaxEscalation, MaxChanges} \subseteq Nat

(* The table of dependencies has no cycle, and no recon tool depends on    *)
(* another: recon runs as one wave.                                        *)
ASSUME DependencyAssumption ==
  /\ \E rank \in [Tools -> 0..Cardinality(Tools)] :
       \A t \in Tools : \A u \in Needs[t] \ {t} : rank[u] < rank[t]
  /\ \A d, e \in Recon : ToolOf[e] \notin Needs[ToolOf[d]] \ {ToolOf[d]}

VARIABLES
  stage,     \* where RunWithSurface is
  batch,     \* dispatches of the executeWaves call under way
  wave,      \* its current wave
  st,        \* each dispatch of this scan
  hits,      \* the result slot of each dispatch
  session,   \* executeWaves' local: captured by an earlier wave
  captured,  \* dispatches whose result carries a session
  authed,    \* dispatches given the session
  expired,   \* the context is done
  err,       \* the error RunWithSurface will return
  found,     \* the issues of the results accumulated so far
  failures,  \* the failure sink holds a failure
  reports,   \* reports written
  scans, changes, live, \* the target: issues that are really there
  absent     \* history: issues that were not there at some moment of this scan

run == <<stage, batch, wave, st, hits, session, captured, authed, err, found, failures>>
scanVars == <<run, expired, reports, scans, changes, live, absent>>

(* vulnerabilities.json, with the history the properties need.             *)
Report == [found : SUBSET Issues, failed : BOOLEAN,
           partial : BOOLEAN, absent : SUBSET Issues, loggedIn : BOOLEAN]

Status == {"off", "queued", "running", "done", "failed", "dropped"}
In(s) == {d \in Dispatches : st[d] = s}
Logins == {d \in Dispatches : ToolOf[d] \in Writers}

-----------------------------------------------------------------------------
(* Mutant: flat concurrency, without the dependency classifier.            *)
WaveFlat(b, n) == IF n = 0 THEN b ELSE {}

(* partitionWaves: a tool's level is one more than the highest level of    *)
(* the tools of the same batch it depends on; wave n holds level n.        *)
Wave(b, n) ==
  LET present == {ToolOf[d] : d \in b}
      atLeast[k \in Nat] ==
        IF k = 0 THEN present
        ELSE {t \in present : (Needs[t] \ {t}) \cap atLeast[k - 1] # {}}
  IN  {d \in b : ToolOf[d] \in atLeast[n] \ atLeast[n + 1]}

Queued(ds) == [d \in Dispatches |-> IF d \in ds THEN "queued" ELSE st[d]]

(* executeWaves: a new batch starts with no session.                       *)
Execute(s, b) ==
  /\ stage' = s /\ batch' = b /\ wave' = 0 /\ session' = FALSE
  /\ st' = Queued(IF s = "recon" THEN b ELSE Wave(b, 0))

(* RunWithSurface.                                                         *)
Begin ==
  /\ stage = "idle" /\ scans < MaxScans
  /\ scans' = scans + 1 /\ absent' = Issues \ live
  /\ IF Recon = {} THEN Execute("detect", Fanout) ELSE Execute("recon", Recon)
  /\ UNCHANGED <<hits, captured, authed, err, found, failures, expired, reports, changes, live>>

Working == stage \in {"recon", "detect", "escalate"}

(* A goroutine of executeAll takes a slot of the semaphore.  When the      *)
(* context is done as well, the select may take either branch.             *)
Start(d) ==
  /\ Working /\ st[d] = "queued" /\ Cardinality(In("running")) < Concurrency
  /\ st' = [st EXCEPT ![d] = "running"]
  /\ authed' = IF session THEN authed \cup {d} ELSE authed
  /\ UNCHANGED <<stage, batch, wave, hits, session, captured, err, found, failures,
                 expired, reports, scans, changes, live, absent>>

(* Still queued when the context ends: it returns gctx.Err().              *)
Drop(d) ==
  /\ Working /\ st[d] = "queued" /\ expired
  /\ st' = [st EXCEPT ![d] = "dropped"]
  /\ UNCHANGED <<stage, batch, wave, hits, session, captured, authed, err, found, failures,
                 expired, reports, scans, changes, live, absent>>

(* Execute returns an error: the tool, its own timeout or the deadline.    *)
CallFails(d) ==
  /\ Working /\ st[d] = "running"
  /\ st' = [st EXCEPT ![d] = "failed"]
  /\ UNCHANGED <<stage, batch, wave, hits, session, captured, authed, err, found, failures,
                 expired, reports, scans, changes, live, absent>>

(* Execute returns a result.  A login's carries a session, or it does not: *)
(* seed_auth returns no error when the form login fails.                   *)
CallReturns(d) ==
  /\ Working /\ st[d] = "running"
  /\ st' = [st EXCEPT ![d] = "done"]
  /\ hits' = [hits EXCEPT ![d] = Finds[d] \cap live \cap
                                   (IF d \in authed THEN Issues ELSE Issues \ Private)]
  /\ captured' \in {captured} \cup {captured \cup {e} : e \in {d} \cap Logins}
  /\ UNCHANGED <<stage, batch, wave, session, authed, err, found, failures,
                 expired, reports, scans, changes, live, absent>>

-----------------------------------------------------------------------------
Current == IF stage = "recon" THEN batch ELSE Wave(batch, wave)
Results(ds) == UNION {hits[d] : d \in ds}

(* Mutant: the error of a queued goroutine is swallowed like a tool's.     *)
CutShortNever(ds) == FALSE

(* executeAll's error: a dispatch was dropped, or the context is done.     *)
CutShort(ds) == expired \/ \E d \in ds : st[d] = "dropped"

(* Mutant: the error is checked before the wave's results are kept.        *)
KeptUnlessCut(ds) == IF CutShort(ds) THEN found ELSE found \cup Results(ds)

(* What executeWaves accumulates of a wave, before it looks at the error.  *)
Kept(ds) == found \cup Results(ds)

(* g.Wait() returns.                                                       *)
Settled(ds) == ds \cap (In("queued") \cup In("running")) = {}

(* The end of one executeAll: the next wave of the batch, or its stage is  *)
(* over.  An escalation's error goes nowhere.                              *)
Join ==
  LET ds == Current
      over == CutShort(ds) \/ stage = "recon" \/ Wave(batch, wave + 1) = {}
  IN
  /\ Working /\ Settled(ds)
  /\ found' = Kept(ds)
  /\ failures' = (failures \/ ds \cap In("failed") # {})
  /\ session' = (session \/ ds \cap captured # {})
  /\ err' = (err \/ (CutShort(ds) /\ stage # "escalate"))
  /\ IF over
       THEN /\ stage' = CASE stage = "recon" -> IF CutShort(ds) THEN "final" ELSE "fanout"
                          [] stage = "detect" -> "final"
                          [] stage = "escalate" -> "write"
            /\ UNCHANGED <<wave, st>>
       ELSE /\ wave' = wave + 1
            /\ st' = Queued(Wave(batch, wave + 1))
            /\ UNCHANGED stage
  /\ UNCHANGED <<batch, hits, captured, authed, expired, reports, scans, changes, live, absent>>

(* runWithRecon's second half: PlanFanout over the surface recon found.    *)
PlanFanout ==
  /\ stage = "fanout"
  /\ Execute("detect", IF Recon \cap In("done") = {} THEN Fanout \ Behind ELSE Fanout)
  /\ UNCHANGED <<hits, captured, authed, err, found, failures,
                 expired, reports, scans, changes, live, absent>>

(* finalizeWithEscalation plans from the interim findings, capEscalation   *)
(* cuts the plan, Filter prunes what is left.                              *)
PlanEscalation ==
  LET asked == {k \in DOMAIN Escalation :
                  Signal[Escalation[k]] = {} \/ Signal[Escalation[k]] \cap found # {}}
  IN  {Escalation[k] : k \in {j \in asked : Cardinality(asked \cap 1..j) <= MaxEscalation}} \ Pruned

Finalize ==
  /\ stage = "final"
  /\ IF ~expired /\ PlanEscalation # {}
       THEN Execute("escalate", PlanEscalation)
       ELSE stage' = "write" /\ UNCHANGED <<batch, wave, st, session>>
  /\ UNCHANGED <<hits, captured, authed, err, found, failures,
                 expired, reports, scans, changes, live, absent>>

(* The process ends, and its memory with it.                               *)
Exit ==
  /\ stage' = "idle" /\ batch' = {} /\ wave' = 0 /\ session' = FALSE
  /\ captured' = {} /\ authed' = {}
  /\ st' = [d \in Dispatches |-> "off"] /\ hits' = [d \in Dispatches |-> {}]
  /\ expired' = FALSE /\ err' = FALSE /\ found' = {} /\ failures' = FALSE /\ absent' = {}
  /\ UNCHANGED <<scans, changes, live>>

(* runScan: the report is written, partial when there was an error.        *)
(* loggedIn: history, every login that ran gave a session.                 *)
Write ==
  /\ stage = "write"
  /\ reports' = reports \cup
       {[found |-> found, failed |-> failures, partial |-> err, absent |-> absent,
         loggedIn |-> Logins \cap In("done") \subseteq captured]}
  /\ Exit

(* The process is killed; nothing was written.                             *)
Killed == stage # "idle" /\ Exit /\ UNCHANGED reports

(* The deadline, or an interrupt.                                          *)
Expire ==
  /\ stage # "idle" /\ ~expired /\ expired' = TRUE
  /\ UNCHANGED <<run, reports, scans, changes, live, absent>>

(* The target changes: an issue is introduced or fixed.                    *)
TargetChanges(i) ==
  /\ changes < MaxChanges /\ changes' = changes + 1
  /\ live' = (live \ {i}) \cup ({i} \ live)
  /\ absent' = IF i \in live /\ stage # "idle" THEN absent \cup {i} ELSE absent
  /\ UNCHANGED <<run, expired, reports, scans>>

ScanInit ==
  /\ stage = "idle" /\ batch = {} /\ wave = 0 /\ session = FALSE
  /\ captured = {} /\ authed = {}
  /\ st = [d \in Dispatches |-> "off"] /\ hits = [d \in Dispatches |-> {}]
  /\ expired = FALSE /\ err = FALSE /\ found = {} /\ failures = FALSE
  /\ reports = {} /\ scans = 0 /\ changes = 0 /\ live \in SUBSET Issues /\ absent = {}

ScanNext ==
  \/ Begin \/ Join \/ PlanFanout \/ Finalize \/ Write \/ Killed \/ Expire
  \/ \E d \in Dispatches : Start(d) \/ Drop(d) \/ CallFails(d) \/ CallReturns(d)
  \/ \E i \in Issues : TargetChanges(i)

-----------------------------------------------------------------------------
(* The scan's variables have the types the code gives them, and no more    *)
(* tool calls run than the semaphore has slots.                            *)
ScanTypeOK ==
  /\ stage \in {"idle", "recon", "fanout", "detect", "final", "escalate", "write"}
  /\ batch \subseteq Dispatches /\ wave \in 0..Cardinality(Tools)
  /\ st \in [Dispatches -> Status] /\ hits \in [Dispatches -> SUBSET Issues]
  /\ Cardinality(In("running")) <= Concurrency
  /\ session \in BOOLEAN /\ authed \subseteq Dispatches /\ captured \subseteq Logins
  /\ expired \in BOOLEAN /\ err \in BOOLEAN
  /\ found \subseteq Issues /\ failures \in BOOLEAN /\ reports \subseteq Report
  /\ scans \in 0..MaxScans /\ changes \in 0..MaxChanges
  /\ live \subseteq Issues /\ absent \subseteq Issues

(* A tool runs only after the tools of its batch it depends on have ended, *)
(* and with the session if one of them captured one (deps.go: no race      *)
(* between a state-writer and its reader; executeWaves threads the         *)
(* session).                                                               *)
WriterBeforeReader ==
  Working =>
    \A d, e \in batch :
      st[d] \in {"running", "done"} /\ ToolOf[e] \in Needs[ToolOf[d]] \ {ToolOf[d]} =>
        /\ st[e] \in {"done", "failed"}
        /\ e \in captured => d \in authed

(* No result is lost on the way to the report: what every tool of the scan *)
(* that returned has seen is in it, whenever the deadline struck.          *)
ResultsSurvive == stage = "write" => Results(In("done")) \subseteq found

(* Once started, a scan ends, even if every tool hangs until the deadline. *)
ScanReturns == (stage # "idle") ~> (stage = "idle")

(* What scan.go says of a report that is not partial: the scan ran to      *)
(* completion, so no dispatch was left behind by the deadline.             *)
NothingSilent == stage = "write" /\ In("dropped") # {} => err

(* What deps.go says of the web detectors in an authenticated scan: the    *)
(* session is threaded into them.                                          *)
SessionReachesDetectors ==
  \A d \in Dispatches :
    st[d] = "running" /\ (\E e \in captured : ToolOf[e] \in Needs[ToolOf[d]])
      => d \in authed
=============================================================================
