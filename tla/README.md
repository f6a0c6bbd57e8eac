# A TLA+ verification of tsengine's control loop

tsengine is the engine and the platform of an autonomous security team. It
scans a customer's estate, turns what it finds into incidents and control gaps,
proposes remediations, delivers the approved ones, and then checks whether they
worked. It runs unattended, on a schedule, and acts on customers' systems. The
questions worth a model are therefore about control:

* can something be changed at a customer without the approval it needs, twice,
  or after the brake was pulled;
* can the product say "resolved", "fixed" or "met" when nobody looked;
* can a record made by one goroutine be lost to another that writes back an
  older copy;
* does the work that was accepted get done.

The modules here model the code that answers those questions. TLC checks them
on small instances and TLAPS proves nearly all of the safety properties, and
the two refinements, for every instance. `PROJECT.json` lists the components, the runs, the mutants, the
correspondence of definitions and source lines, and the hazards.

## Running it

    tlc -workers 2 -config Desk.cfg MCDesk
    tlapm DeskProofs.tla

Each configuration belongs to the MC module its name begins with: `Desk*.cfg`
to `MCDesk`, `Detector*` to `MCDetector`, `Fix*` to `MCFixVerification`,
`Fleet*` to `MCFleet`, `JobPool*` to `MCJobPool`, `Pass*` to
`MCMonitoringPass`, `Pentest*` to `MCPentest`, `Scan*` to `MCScanStore`,
`Ticket*` to `MCTicketSync`.

## 1. Inventory

### The parts and how they interact

    scheduler tick ---+                      +--> detect.Reconcile / OpenFor --> incidents
    job pool (rescan)-+--> RescanTenant -----+--> retest.Verify, ApplyReattack --> actions
    webhook / API ----+    scan, sync        +--> grc.Apply, Reconcile --------> controls
                                             +--> remediate.Propose --> hitl.Submit
                                             +--> ticketsync.Sync <--> customer's tracker
    event poll ------------------------------+
    person -- API --> hitl.Decide, kill-switch, acknowledge, resolve, grants
    person, schedule --> pentest run, probe, re-test --> engagement, findings, detect
    pentest hunt, CLI --> fleet.RunFleet --> web agents over one envelope and breaker
    CLI scan --> orchestrator (recon, fan-out, escalation) --> report
    CLI findings ingest / set --> findingstore --> tracker file

Everything above shares one thing: the tenant's records in `internal/store`.
The store's methods are atomic one by one, and a record is always replaced
whole. No lock spans a read and the write that follows it, and a monitoring
pass started by the scheduler does not exclude one started from the job pool or
a person's request. That is where most hazards of this code come from.

| Component | State | Operations | Hard behaviours | What makes it correct |
|---|---|---|---|---|
| `internal/jobs` | channel, job table, order, closed flag | Enqueue, worker loop, Shutdown | send racing close, receive racing record, panics, pruning | no lost, repeated or forgotten job; a drain that is a drain |
| `internal/hitl` | actions, ledger, tenant's halt flag | Submit, Decide, apply | stale copy, switch racing delivery, failure or crash after delivery | the gate holds; delivered once; what the record says happened |
| `internal/detect` | incidents | Reconcile, OpenFor, EscalateOverdue | overlapping read-modify-writes, partial coverage, hysteresis | closed only when really missed often enough; a person's word sticks |
| `internal/retest`, `fieldevidence`, `autonomy` | verdicts and their history on actions; grants | verify, re-attack, grant, withdraw | two kinds of evidence that disagree, history that feeds trust | a working exploit wins; a failure ends a grant; nothing is forgotten |
| `internal/runner` | one pass in progress | RescanTenant | skipped assets, failed tools, failed fetches, a halt in the middle | absence is concluded only from looking |
| `internal/grc` | control states | Apply, Reconcile | clearing a gap on incomplete evidence | a found issue is a gap, a cleared one is gone |
| `internal/ticketsync`, `runner` polling | ticket references on actions | Sync, syncTickets, PollEvents | two goroutines over one record, failing tracker, closes and reopens in between | told once, told at all, a disagreement earned, a verdict not undone |
| `internal/pentest`, its API handlers | engagement record, findings | create, run, schedule, probe, re-test, sign-off | long operations that put the whole record; gates checked early; a budget over all of them | live traffic only within the rules; the cap holds; a halt and a signature stick |
| `internal/fleet`, `breaker`, `envelope` | worldview, waves, envelope, breaker | plan, run workers, merge, gapfill, adjudicate | concurrent draw-down, a latch behind a check, worker failure, merge order | never above the envelope; nothing dropped in silence; order does not matter |
| `internal/orchestrator`, `cmd/tsengine` | dispatches of one scan, report | scan | dependency waves, bounded concurrency, deadline, partial results | a reader waits for its writer; no result lost; cut short is never "clean" |
| `internal/findingstore` | tracker file | ingest, set | any order of scans, bundles and decisions; whole-file saves | only legal moves of a finding's life cycle |
| `internal/scheduler`, syncs with a cursor | cursors | Tick, sync | duplicate and missed events | planned |
| `pkg/ledger`, `execpolicy`, `cloudsafety`, `ratelimit` | hash chain; buckets | Append; Check, Allow | gaps in the chain; windows and limits | planned |
| sign-in, AI spend meter | sessions, 2FA; meter | login; charge | replay, concurrent charge | planned |

The rest (assessors over a snapshot, IAM and graph evaluators, connectors,
importers, language-model agents, reports, the frontend, benchmarks and
repository gates) is either pure computation over data, network I/O, or chosen
by a language model; `PROJECT.json` gives the reason for each.

### Hazards

The list is in `PROJECT.json` under `hazards`, each at the line where it bites
and with the properties that would catch it. In short: whole-record writes from
stale copies (actions, incidents, the tenant), checks separated from the act
they guard (pending, kill-switch), a step that succeeds and whose record fails
(delivery and ledger), absence read from a pass that did not look, history that
is trimmed or alternates, a counter at its threshold, budgets and a latch shared
by workers, a deadline in the middle of a wave, and an outside system (tracker,
target) that changes while we look. A hazard whose property the code does not
keep has no run of its own; section 3 says how TLC shows it.

## 2. Modules and code

### JobPool (`internal/jobs/jobs.go`)

`jobs`, `order`, `ch`, `closed` are the fields of `Pool`; `mu` is the caller
inside the lock. `Enqueue` is three steps, `EnqueueLock` (or `EnqueueRefused`),
`EnqueueSend` (or `EnqueueBusy`) and `EnqueueRecord`, because a worker can
receive the task as soon as it is sent. A worker goes `WorkerReceive`,
`WorkerStart`, `FnReturn` (the function returns, fails, times out or panics),
`WorkerFinish`, and leaves by `WorkerExit`. `Shutdown` is `ShutdownClose` and
then `ShutdownDone` or `ShutdownExpired`. `Update` and the `Pruned*` operators
are `update` and `prune`. Left out: tenants, kinds, results, times.

### ActionGate and Desk (`internal/hitl/hitl.go`)

`ActionGate` is the abstract promise: an action waits or is applied, a waiting
one is decided once, and only an applied one has reached the customer. `Desk`
is the code, each call split at every store access and at the delivery:
`Submit` and `Queue`; `Decide` (read and check the copy), `Judged` (the order in
which the flags of a verdict are tested, and `Edited`), `StoreVerdict`,
`ApprovalGate`; then `apply`: `CheckSignature`, `CheckSwitch`, `Requeue`,
`Deliver`, `StoreApplied` or `StoreFailed`, with `Record` for the ledger entry.
A call carries its own copy of the action. `KillSwitch` and `Crash` are the
environment, and the constant `Faults` says which of a failing `PutAction`, a
failing read of the tenant and a crash can happen.

`Desk` implements `ActionGate` under the mapping in `AtomicGate`: an action
counts as settled from the delivery on, before its outcome is stored. With
calls that overlap it does not (`SecondDecisionFails` shows it), so the
refinement is checked for one call at a time.

### Detector (`internal/detect`, and the acknowledge and resolve handlers)

A call lists the incidents (`Begin`, `Reconcile`, `OpenFor`, `ReconcileStore`,
`EscalateOverdue`, `AckRead`, `ResolveRead`) and then writes whole records back
one at a time (`OpenNew`, `Sweep`, `Page`, `AckWrite`, `ResolveWrite`); any
`PutIncident` can fail and end the call. `Present`, `Covers`, `IsEvent`,
`Swept`, `ByKey`, `Overdue` are the code's helpers under their own names. Which
keys a pass reports, which producers it covered and which findings are under
attack are the environment's choice. `misses`, `streak`, `unseen`, `gone`,
`acks`, `nagged` are history variables that no action's guard reads. Left out:
titles, owners, the ledger entries, and the pages sent on opening with their
cap.

### FixVerification (`internal/retest`, `fieldevidence`, `autonomy`)

A pass lists the actions, judges each applied one by what the re-scan says
(`Rescanned`, with the class distrusted or not), writes the changed ones
(`PutVerdict`), re-runs the exploits on what it listed, as judged
(`Reattacked`), and writes again. Every `PutAction` can fail: the error becomes
the pass's, and the pass goes on with the verdict it could not store
(`Unstored`). So the store can keep a re-scan's "fixed" although the exploit
worked, or forget a contradiction; `lost` and `contra` (history, like
`reported`, `attacked`, `failures` and `exploits`) say which verdicts did not
arrive and which contradictions did. `RecordVerification` appends to the history when the verdict
differs from the last and keeps the last `MaxHistory`. `Distrusted` is the
field-evidence corpus, `Qualifies` and `GrantActive` the autonomy bar. One
tenant, one class and fix type, one finding key per action.

### MonitoringPass (`internal/runner/runner.go`, `internal/grc`)

`RescanTenant` from the kill-switch read (`Start`) through the assets in order
(`SkipInactive`, `ScanErrors`, `ScanCompletes`), the surfaces (`Sync`,
`ReadTenant` for those that write the tenant back), to the three consumers
`Detect`, `Retest` and `Grc`. Skips, failing scans, tools, fetches, finding
puts, listings and store writes are the environment's choice, as far as
`Faults` allows. Whether a connection was inactive is decided when the turn of
its asset comes, although the code reads the status at the start: nothing reads
it in between. For the same reason the estate (`live`) and the applied fixes
change only while a pass is looking or none runs (`Reading`): the second half
of a pass reads neither before `Retest`, so such a change commutes with it.
`looked` and `seen` record what was truly examined, so a property can
compare what a pass concludes with what it looked at. The constants describe
the estate: which producer finds what, which tools a scan plans, which of them
are only dispatched when asked for (`Gated`), which surfaces report a read
although every fetch failed (`Lenient`), are never folded into the controls
(`Unfolded`), or report a difference only once (`OneShot`); each such value is
what the code does for the surface named in `MCMonitoringPass`.

Coverage is a set of producers, not of places, and the control layer does not
consult it at all. The two safety properties say exactly how far that carries.
`AbsenceIsReal` is asked of the issues whose place coverage speaks of
(`Covers`): those of a tool every scan of the asset runs, and those of a
producer that works at one place only and never reports a read it did not do.
`ClearedIsReal` is asked of the tools every scan runs (`Always`). For what they
leave out (a producer two surfaces share, a surface that was not read, a tool
that was not requested), the code does not keep the promise, and the table of
disagreements has the configurations that show it. The detector
and retest appear as one function per issue (`Reconciled`, `Verified`); their
own interleavings are in `Detector` and `FixVerification`.

### TicketSync (`internal/ticketsync`, `internal/runner/sync_tickets.go`)

`acts` is the action store, `tracker` the customer's, and each goroutine of
`proc` is a full pass or an event poll. The pass re-tests (`RetestList`,
`RetestPut`) and then syncs; the poll only syncs. `SyncList` lists the actions
and selects what is due (`Settled`, `Due`, `Selected`); `Read` or `ReadFails`
handles one ticket on the listed copy, with `Observed`, `ClosedStillPresent`
and `CommentFor` under the code's names and the comment in the same step;
`PersistGet` and `PersistPut` are the re-read and the put that replaces only
the ticket. `Close` and `Reopen` are people in the tracker. `mishaps` records
what has gone wrong, so that a property can say under which circumstances it
holds; no guard of the code's steps depends on it, except that `MaxMishaps`
bounds it.

### Pentest (`internal/pentest`, `internal/platformapi/pentest*.go`)

One engagement `eng`, the tenant's findings (`known`, `proved`), the switch and
the ownership of the target. A call reads the record (`RunRead`, `SchedRead`,
`ProbeRead`, `RetestRead`, `Sign`, `SetCadence`), works on its copy and puts it
whole (`RunPut`, `SchedPut`, `Put`). A run passes `RunGate`, the hunt of
`runWebDiscovery` (`HuntFires`, `HuntRefused`, `Merged`), the loop of
`pentest.Run` (`LoopHalted`, `LoopDone`, `LoopDenied`, `LoopFires`, with
`Check` and `Denied`), the put and the feedback into the finding store. The
schedule uses the same loop with the passive driver. What a driver finds is the
environment's choice; `live` remembers where a call sent live traffic, and
`executed` counts what fired. Left out: attempts and their audit, reports,
progress, proposed remediations, and the ban on destructive actions, which no
driver proposes.

### Fleet (`internal/fleet`, `breaker`, `envelope`, `webagent` Send)

`RunFleet` is the coordinator: `LaunchWave` with `Share` and `Cap`, or
`HaltedByBreaker`, `EnvelopeSpent`, `WavesDone`; `Join` with the merge and the
stall watchdog, or `JoinFails`; `Gapfill`, `GapNext`, `GapJoin`; `Adjudicate`.
`PartitionWaves` is a recursive function over the plan, from which the initial
state takes its waves. A worker is `Start`, then any number of requests in two
steps, `Clear` (breaker and own cap) and `Take` or `Refuse` (the envelope), and
`Finish` with claims or `Fail`. `Signal` and `Expire` are the breaker's window.
`sent`, `late` and `said` are history. A chunk has one route, as `Decompose`
makes it; the breaker has one kind of signal.

### Scan, ScanStore and FindingLifecycle (`internal/orchestrator`, `cmd/tsengine`, `internal/findingstore`)

`Scan` is one process of `tsengine scan` after the other: `Begin`; the calls of
`executeAll` (`Start`, `Drop`, `CallFails`, `CallReturns`); `Join`, the end of
`executeAll`, which keeps the results, looks at the error, takes the session
over if a result carries one and goes to the next wave or stage; `PlanFanout`, `Finalize` with `PlanEscalation`; `Write`.
`Expire` is the deadline or an interrupt, `Killed` a kill, `TargetChanges` the
target. A login that returns need not have captured a session (`captured`):
`seed_auth` gives no error and no cookie when the form login fails, the later
tools then run without a session, and the report says nothing of it. `loggedIn`
is a history field of the report, and evidence "loggedOut" one of the tracker,
that set those scans apart. `Wave` is `partitionWaves` as a level of the dependency relation.
`ScanStore` extends it with the tracker: a command is `Load` and then
`IngestSave`, `SetSave` or `CommandFails`, and `Fold` is `Store.ingest`.
A scan and a command share only reports, which appear whole, so their steps
commute and commands run between scans; commands interleave with one another.

`FindingLifecycle` is the abstract specification: a finding appears, is fixed
when it is not seen, returns when it is seen again, and what a person closed or
accepted stays until a person changes it. `LifecycleHolds` states that
`ScanStore` implements it, with the tracker file for the abstract status.

## 3. What the runs check

### Runs that pass

| Run | Shows | Instance |
|---|---|---|
| `pool` | a worker finds its job, a nil Shutdown drained, no send on a closed channel; every accepted job ends | 2 callers, 2 workers, 3 jobs, queue 1, retain 1 |
| `desk` | the tier gate, the target, the brake, and that "applied" is true, under overlapping calls, store errors and a crash | 2 calls, 1 action, tiers 1 to 3, 1 fault |
| `desk_serial` | the desk implements ActionGate: each action is decided and delivered at most once | 1 call, 2 actions, failing tenant reads |
| `detector` | event incidents need a person; enough covered misses before a scan closes | 2 overlapping calls of any kind, store errors |
| `detector_serial` | consecutive misses, one open incident per issue, a person's close sticks | 3 kinds of issue, 2 incidents, calls in sequence |
| `fix` | a failure ends a grant, a stored contradiction is remembered, a live exploit wins unless the write of that verdict failed | 2 actions, 3 passes, history 4, any write failing |
| `pass` | a gap of an always-run tool is cleared only when its issue was looked for and gone; absence is concluded only from looking, where coverage speaks of the place | 2 assets, one with a gated tool, a synced surface, an issue of each producer; skips, failing scans, tools, fetches, finding puts and store writes |
| `pass_live` | an issue gone for good is concluded, once the switch stays off | an engine asset, a workspace, an identity surface and one whose sync writes the tenant back, the kill-switch flipping |
| `pentest` | live traffic within the rules, the cap, no record stored half-way, no lead untried, a halt sticks | 3 operations of any kind, 2 at once, 2 leads, cap 2, stall limit 2, every store access failing |
| `tickets` | each outcome posted once, every ticket's turn, a flag earned, a verdict kept | 2 tickets, a pass and a poll, one read per sync, 5 dated events, one kind of mishap |
| `fleet` | envelope, shares, routes, prompt halt, nothing dropped, ledger independent of order; the run returns | 2 plans of 4 chunks, 2 workers, 4 requests, breaker at 2, one gapfill, 3 jurors |
| `scan` | readers wait for the login and get what it captured, no result lost, fixed is earned unless a login was refused, life cycle refined | 2 scans of 5 dispatches in 3 stages, one slot, one change of the target, a bundle, decisions |

`detector_serial` and `desk_serial` use one call because the properties do not
hold for overlapping calls; the counterexamples below show it.

Further properties hold on the instance of a run and are left out of its list,
because they follow from the ones in it, say less, or only give the types. To
check one, add it to the configuration: `GaugeIsExact`, `JobLifecycle`,
`WorkersLeave` (`JobPool`), `DeliveredOnce` (`DeskSerial`),
`AckStopsEscalation` (`DetectorSerial`), `AppendOnly` (`FixVerification`),
`FoundIsGap` (`PassLive`), `SignoffSticks` (`Pentest`), `TicketWasTold`
(`TicketSync`), `TrackerAgrees` (`ScanStore`), and every module's `TypeOK`. The
types of every module but `MonitoringPass`, `SignoffSticks` and `AppendOnly`
are proved (`AppendOnly` with one pass at a time).

### Observed disagreements

While modelling, sentences of the repository's comments and docs were stated
and found not to be what the code does. Each is a definition at the end of its
module, outside the run list. Checked with the configuration named here, in
place of the properties the configuration lists, TLC answers it with a short
counterexample. They are kept so that a change of the code, or of the sentence,
can be checked.

| Configuration | Definition | The code |
|---|---|---|
| `JobPoolRetention` | `RetentionCap` | a long job at the head stops pruning (jobs.go:197), finished jobs exceed the cap of jobs.go:72 |
| `Desk` | `SecondDecisionFails` | two verdicts on one action both pass the pending check (hitl.go:145) and both deliver, where approvals_bulk.go:125 counts on the second being refused |
| `Desk` | `NoDeliveryWhileHalted` | a switch engaged after the backstop's read (hitl.go:222) does not stop the delivery |
| `Desk` | `EveryDeliveryRecorded` | a store error after a delivery returns before the ledger entry (hitl.go:254) |
| `DetectorSerial` | `NoGhostIncident` | a pentest reconciles the accumulated store (pentest.go:303) and reopens what was found gone, against detect.go:113 |
| `Detector` | `AckIsKept` | a stale write-back (detect.go:169, 189, 377) erases an acknowledgement |
| `DetectorSerial` | `ReappearanceResets` | a degraded pass that sees the issue keeps its absence count (runner.go:628, types.go:1529) |
| `DetectorSerial` | `ClosedWasAbsent` | an incident is closed while its finding is still reported, because the attack stopped (detect.go:164) |
| `FixVerification` | `ExploitEndsGrant` | `still_exploitable` does not void a grant (autonomy.go:111), against autonomy.go:17 |
| `FixVerification` | `NoDuplicateEvents` | re-scan and re-attack verdicts alternate and grow the history on every pass (types.go:2306) |
| `FixVerification` | `VariantWasSeen` | "the SCANNER STILL SEES the finding" is recorded although it did not (reattack.go:123) |
| `FixVerification` | `ExploitOverridesFixed` | when the put of the re-attack's verdict fails (runner.go:673), the re-scan's "fixed" stays, against reattack.go:60 |
| `FixRace` | `HistorySurvives` | overlapping passes put whole records and lose each other's verdicts (runner.go:659) |
| `PassSspm`, `PassOsint` | `UnreadNeverResolves` | an unread surface is concluded clean (runner.go:534, collect.go:79) |
| `PassDrop` | `SeenIsNotFixed` | a finding that could not be stored confirms its fix (runner.go:818) |
| `PassDrift` | `ResolvedIsGone` | drift, reported once, resolves while it is still there (runner.go:586) |
| `PassGrc` | `ClearedWasLookedFor` | controls of a producer that was not read are cleared (runner.go:736), against runner.go:732 |
| `PassDrop` | `FoundIsGap` | SaaS and OSINT findings never open a gap (runner.go:824, 994) |
| `PassLive` | `NothingRunsWhileHalted` | a pass goes on after the halt (runner.go:430) |
| `PassUndo` | `HaltIsNotUndone` | a sync writes back a tenant record read before the halt (runner.go:944) |
| `Pentest` | `UsedIsExecuted` | every hunt adds the copy's whole count back (pentest_discover.go:212): refused hunts cost budget, against runner.go:84 |
| `Pentest` | `ProofReachesStore` | a human probe's proof is stored on the engagement only (pentestprobe.go:107), not fed back as a run's is |
| `PentestStall` | `AdvancingDriverRuns` | denials in a row end a run although the driver advances (runner.go:36) |
| `Pentest` | `NeverStuck` | a scheduled run that cannot list the findings stores `retesting`, from which nothing leads on (pentest_schedule.go:89) |
| `Pentest` | `SignedReportStays` | a re-run changes the findings under a standing signature (platformapi/pentest.go:428) |
| `TicketSilent` | `DisagreementSurfaces` | a repeated verdict keeps its old time (retest.go:146), so a re-scan after the close that still finds the issue is not counted |
| `TicketSilent` | `CountsAfterThisClose` | reopened and closed again between two syncs, a ticket keeps its first close's time |
| `TicketStarved` | `TurnComesAnyway` | a ticket whose reads fail keeps its place at the front and starves the others, against ticketsync.go:91 |
| `TicketTorn` | `VerdictAlwaysKept` | a put between the re-read and the put is undone, against the comment of sync_tickets.go:13 |
| `Fleet` | `SkippedWasCovered` | two findings of one worker count as two independent looks (worldview.go:113) |
| `Fleet` | `HaltDisclosed` | a breaker that trips in the last wave, or in gapfill's last worker, is not disclosed, against coordinator.go:63 |
| `FleetShare` | `ShareHolds` | a share of 0 means no cap (coordinator.go:169), so a worker spends what others were promised |
| `Fleet` | `StallIsReal` | the watchdog counts ledger entries (coordinator.go:218), and a wave that changes verdicts or looks counts as stalled |
| `Fleet` | `SessionFirst` | the session chunk shares its wave with others (waves.go:54), since no other chunk carries AuthCtx |
| `ScanStore` | `NothingSilent` | the escalation's error is discarded (orchestrator.go:186): cut short there, the report is not partial, against pkg/types/scan.go:44 |
| `ScanStore` | `SessionReachesDetectors` | the session is local to one `executeWaves` (orchestrator.go:256), so escalated detectors run without it, against deps.go:28 |
| `ScanStore` | `FailedLoginShows` | a refused form login is no error and no session (seedauth.go:64): the report is complete and what is behind the login becomes fixed, against "surface it" (seedauth.go:62) |
| `ScanStore` | `FixedMeansGone` | partial scans, failed tools and web-agent bundles mark what they do not list as fixed (store.go:163) |
| `ScanDismissed` | `DismissedStays` | when every finding was dismissed the raw ones are ingested (store.go:109), against store.go:103 |
| `ScanLost` | `LifecycleHolds` | two findings commands overlap between Load and Save, and one undoes the other (main.go:1671) |

One more configuration passes and is kept out of the list: `ScanReturns` checks
that a scan ends even when every tool hangs until the deadline.

### Bounds, and why they are enough

The races here are between two read-modify-writes of one record, so two calls
and one record reach them; a second record is there where a property relates
records (`desk_serial`, `fix`, `detector_serial`). `ResolveAfterAbsent` is 2 as
in the code, the smallest value where "consecutive" means something; only in
`pass`, whose properties look at each single absence, it is 1. `MaxIssues`
bounds how many issues come up in one behaviour of `MonitoringPass`: in `pass`
any two of three, one of the first asset's always-run tool, one of its gated
tool and one of the surface, and one pass can meet and miss both. `MaxFaults`
is 1 in `desk`: every single failure point is reached at every step. The history
limit is 4 instead of 32 and there are 3 passes of up to two entries, so trimming
happens. `JobIds`, `IncIds` and `MaxPasses` bound otherwise unbounded counters;
when they are used up the detector and the fix model stop, hence
`CHECK_DEADLOCK FALSE` there. `MinClosed` is 1 instead of the code's higher
floor: autonomy is granted sooner, which makes `FailureEndsGrant` harder to
satisfy. `MinObservations` is 1 instead of the code's 5, and here the bound is a
restriction: `ContradictedNotConfirmed` speaks of a record that has reached the
floor. Below it the code trusts a re-scan by design, contradictions or not, and
the property would not hold.

In `pentest` three operations are enough for a run, something that overlaps it
and something that comes after; `MaxRequests` 2 is reached by one run. The four
rules of engagement differ for exactly one gate each. In `tickets` one read per
sync makes the two tickets compete, and `MaxTime` 5 gives a re-test, a close, a
reopen or second close and two syncs a time each; with "exploited" among the
re-test results the run still passes, in five times the time. In `fleet` one
plan's first wave is larger than the worker limit and the other has three
waves, so shares, the limit, skipping, the stall and gapfill all happen; four
requests run out in the middle. In `scan` one slot makes a call queue at the
deadline, and two scans and one change give found, gone and back. These models
stop when their bounds are used up, hence `CHECK_DEADLOCK FALSE` in `pentest`
and `tickets`. Symmetry is used only in runs that check
no liveness property.

### Fairness

`pool`: a goroutine that can run runs, weakly fair; marking a job running
and finished needs the mutex and is strongly fair, because Go's mutex hands the
lock to a waiter after a bounded time. `FnReturn` is fair because `run` gives
every function a deadline. Nobody has to call Enqueue or Shutdown.
`pass_live`: the scheduler starts passes for ever and a pass runs to its end,
so `PassStep` is weakly fair; the estate and the switch are not.
`fleet`: the coordinator is one goroutine and weakly fair; some worker that can
go on does, because `Investigate` ends after `MaxIters` turns. Sending another
request, signals and the window are not fair.
`ScanReturns`: the deadline comes and some goroutine that can run does; a tool
call is sure to return only once the context is done.

## 4. What is proved

The theorems hold for every number of calls, actions, people, issues, tickets,
tools, incidents and workers, and every value of the thresholds. The
assumptions named in the modules say of which kind the constants are, and in
two places a little more: the pool has a worker (`PoolAssumption`, `NewPool`
starts at least one), and the tools' dependencies are acyclic and inside one stage
(`DependencyAssumption`, as `toolDependencies` is). Some theorems have a
hypothesis of their own, which the constants of the run that checks the
property satisfy. Section 3 shows how the code breaks several of these
properties without it.

| hypothesis | meaning | theorems |
|---|---|---|
| `OneAtATime`, `Durable` | one desk call at a time; no failed `PutAction`, no crash | `GateImplemented` |
| `"tenant_read" \notin Faults` | the tenant record can be read | `BrakeCorrect` |
| `Sequential` | one detector call at a time | `OneIncidentPerIssue`, `PersonsCloseIsFinal`, `MissesInARow` |
| `~StoreFaults` | every incident write lands | `MissesInARow` |
| `Alone` | one pass of a tenant, or one tracker command, at a time | all of `FixVerificationProofs`; `TrackerIsALifecycle` |
| `OnePass` | one full ticket pass at a time | `VerdictsAreKept` |
| `LoginFirst` | what only a session shows is looked for after a login | `CleanScansEarnFixed` |
| `[]Comparable` | when a contradiction is on record, so is the floor of labelled examples, and not more than ten | `ContradictionLasts` |

The arguments, module by module:

* `JobPoolProofs`. `TypeCorrect` is inductive as it stands. The three safety
  properties follow from `PoolInv`: the lock is held exactly by the caller that
  is sending or recording (`LockInv`), a job id is in one place only, in the
  channel or with one worker (`OnePlace`), what is in the channel or being
  recorded is what the map says (`AboutToRecord`, `ChannelIsQueued`), and a job
  in flight is never pruned because its task is still somewhere
  (`InFlightHasTask`). `LeftDrained` adds that workers leave only a closed and
  empty channel.
* `DeskProofs`. The gate, target, outcome and brake theorems are not inductive,
  because a delivery rests on what was decided several steps earlier on a copy
  of the action that nobody else sees. `IInv` adds `CallsSafe` (what a call at
  each program point knows: the gate was passed, the verdict was a plain yes,
  the signature matches, the protected keys are untouched, and after the
  delivery that it happened) and `StoreSafe` (the same of what is stored). Each
  lemma takes the steps of one operation; `OneCall` and `OneWrite` say that a
  step changes only one call and one record. `GateImplemented` is the
  refinement of `ActionGate`: `SerialInv` says that what the call in progress
  knows of the stored action is still so, and each step then maps to a step of
  the gate or to a stutter.
* `DetectorProofs`. What is stored is a copy listed earlier, by a call that
  others may have overtaken. `IInv` therefore bounds the absence count in the
  store (`StoreOK`) and in every copy still to be written (`CallsOK`) by the
  passes that really missed the issue. Misses only grow (`RecMono`, `SnapMono`),
  so a lost update can delay a close and never bring one forward. With calls in
  sequence a call's list is still the store (`Matches`) and what it is going to
  open is still missing (`NewOnly`), which gives the three serial theorems.
* `FixVerificationProofs`. A judged copy has the stored history as a prefix, or
  both are full (`Copied`, `Grown`); a failure since the grant is in the history
  or the history is full (`Remembered`); an action whose exploit worked is
  marked so in the copy and then in the store (`Exploited`). `ContradictionLasts`
  adds `Noted`, the same for a contradicted verdict, and the arithmetic of the
  field-evidence corpus: one of at most ten examples is a tenth, so the class is
  distrusted. A failing put changes no action, so it takes nothing from these
  invariants but what it names: `Exploited` exempts the actions in `lost`, and a
  contradiction counts (`contra`) from the put that stored it. `ContradictionLastsAmongFew` discharges `[]Comparable` for
  constants such as the run's. With the code's 32 entries per action and its
  floor of five it is a condition on the record, and a real one.
* `PentestProofs`. `PentestInv` says of every call at its program point which
  gates it passed and with what on its own copy (`Placed`, `Gated`, `Tried`);
  that holds with any overlap. `CopyInv`, `RestInv`, `FreshInv` and `BudgetInv`
  speak of the stored engagement: with no overlap a copy is not older than the
  store, and with no lost put the count that a call starts from covers all that
  was sent. They rest on one description of what a step can do (`Begun`,
  `Worked`, `Wrote`, `Left`, `Around`).
* `FleetProofs`. The waves partition the plan and keep routes apart: an
  induction over the recursive function of `PartitionWaves`. `FleetInv` says who
  can run in which phase; `HaltInv` counts a cleared worker together with the
  requests already late; `PlanInv` has every chunk settled, reported, disclosed
  or in a wave still to come; `LedgerInv` says that each ledger entry is the
  tally of the claims made so far, by an induction over the merge in plan order.
  `SharesAreBacked` is about a sum: `BackedInv` keeps the rest of the open
  workers within the envelope, `SharesAddUp` shows that the equal parts with the
  remainder given to the first add up to no more than what there is, and the
  lemmas from `SmallerFirst` to `SumFacts` show that the fold of the library
  adds up the same in any order.
* `ScanProofs`. `Wave` is a level of the dependency relation, and the levels are
  disjoint and cover the batch when the relation is acyclic. `ScanInv` says that
  behind the current wave every tool ended, every login among them is in the
  session if it captured one, and what a finished tool saw is kept or still to be
  joined. `CleanInv` carries "nothing failed, no error and no login refused" from
  the tools through the report and a command's input to the tracker. `TrackerIsALifecycle` is the refinement of
  `FindingLifecycle`, from `Fresh`: the copy of the command that runs is the file.
* `TicketSyncProofs`. `Shaped` and `Single` say where a sync is and that
  without overlap its copy of a ticket is the store's; `Known` names the records
  a stored one can come from. `DisagreementIsEarned` follows verdicts and closes
  through these copies, `VerdictsAreKept` needs `Firm` (what was re-read just
  before a put is still stored), `NothingSaidTwice` compares what was posted
  with the mark in the copy, and `EveryTicketHasItsTurn` counts: a ticket passed
  over `n` times has `n * MaxReads` others ahead of it that are being read or
  were read since it was (`Overtaken`), and there are only so many.

Induction over numbers and over the size of a set, where a recursive function
or a fold is involved, is taken from the well-foundedness of < on the naturals
(`NatSetInduction`): the induction theorems with an operator parameter cannot be
used. Where it helped the prover, the model states a set directly: `Claimed`
and `Votes` in `Fleet`, `Probed` in `Pentest`, `PlanEscalation` in `Scan` and
`Labelled` in `FixVerification`.

Only model-checked:

* `JobsFinish`, `GoneIsConcluded` and `FleetReturns`: liveness under fairness is
  out of the prover's reach;
* `ClearedIsReal` and `AbsenceIsReal` of `MonitoringPass`, which have no proof
  yet.

## 5. Not modelled

The scheduler and the event cursors, the alert cap, CERT-In filing and the
components marked planned above; store backends other than the in-memory one;
that the in-memory store hands out records that share maps with what it keeps;
the cross-tenant floors of the field-evidence corpus; exceptions and risk
acceptance in the compliance record; actions with several finding keys; the
breaker's Reset and token budgets; the repository sweep and the cloud view of a
scan, the signing of a report; a pentest's remediations and reports; everything
driven by a language model and everything that is only computation over a
snapshot. That last group is most of the repository by lines: assessors,
importers, IAM evaluators, report writers, handlers that read one record, the
frontend. They keep no state a model could say something about, so the share of
lines the map covers stays small while the parts that hold state and run
concurrently are covered.

## 6. Plan

1. `AbsenceIsReal` and `ClearedIsReal` of `MonitoringPass` for every estate:
   the invariant that ties `looked` and `seen` to what the consumers are given.
2. Weaker hypotheses: the refinement of `ActionGate` with overlapping calls on
   different actions, the serial detector theorems for calls about different
   issues, `FixVerificationProofs` for passes of different tenants.
3. Composition: a pass of `MonitoringPass` whose scans are those of `Scan`, and
   pentest runs beside the detector.
4. `Scheduler`: ticks, queued rescans and cursors over `MonitoringPass`.
5. The ledger's chain with `Desk`, the cloud guard and the rate limiter, sign-in
   with a second factor, the AI spend meter, compliance exceptions.
