----------------------------- MODULE ScanStore ------------------------------
(***************************************************************************)
(* internal/findingstore behind the scans: "findings ingest" folds a       *)
(* report, or a web agent's evidence bundle about the same target, into    *)
(* the tracker file and "findings set" records what a person decided.      *)
(* Every command loads the file, changes its copy and saves it whole.      *)
(*                                                                         *)
(* One target.  A finding is its fingerprint, so an issue is its record's  *)
(* key; owners, dates, the SLA and the event history are left out.  Save   *)
(* writes a temporary file and renames it: one step.  A scan and a command *)
(* share nothing but a report, which appears whole when the scan ends, so  *)
(* their steps commute: commands interleave with each other and run        *)
(* between scans.                                                          *)
(***************************************************************************)
EXTENDS Scan

CONSTANTS
  Commands,   \* commands that may run at once
  Dismissed,  \* issues the L1.5 false-positive filter drops
  Agent,      \* issues only the web agent's bundles report
  Decisions,  \* statuses people set
  MaxBundles  \* bound

ASSUME StoreAssumption ==
  /\ Dismissed \subseteq Issues /\ Agent \subseteq Issues /\ MaxBundles \in Nat
  /\ Decisions \subseteq {"fixed", "verified", "closed", "accepted_risk"}

VARIABLES
  db,       \* the tracker file: issue -> status
  cmd,      \* each command: the copy it loaded and what it will fold in
  bundles,  \* evidence bundles written
  last,     \* history: what the last ingest listed
  touched,  \* history: findings a person has set since
  fixedBy   \* history: what stood behind making a finding fixed

storeVars == <<db, cmd, bundles, last, touched, fixedBy>>
vars == <<scanVars, storeVars>>

Statuses == {"none", "open", "fixed", "reopened", "verified", "closed", "accepted_risk"}
Tracker == [Issues -> Statuses]

(* An input of "findings ingest": what it lists, and whether it is the     *)
(* report of a scan that says nothing was cut short or failed.  hidden:    *)
(* history, the issues no tool of that scan could see for want of a login. *)
Input == [listed : SUBSET Issues, clean : BOOLEAN,
          absent : SUBSET Issues, hidden : SUBSET Issues]
Nothing == [listed |-> {}, clean |-> FALSE, absent |-> {}, hidden |-> {}]

(* Was the finding gone during the scan that made it fixed?  If not, did   *)
(* that scan claim to be complete, and had its logins failed?              *)
EvidenceType == {"person", "gone", "loggedOut", "claimed", "nothing"}
Evidence(in, i) ==
  IF i \in in.absent THEN "gone"
  ELSE IF ~in.clean THEN "nothing"
  ELSE IF i \in in.hidden THEN "loggedOut" ELSE "claimed"

(* A command between Load and Save.  doing = "set" is "findings set".      *)
Command == [doing : {"idle", "ingest", "set"}, copy : Tracker, input : Input]

(* The tracer drops the dismissed findings from the enriched view, and     *)
(* IngestScan falls back to the raw one when nothing is left.              *)
Ingestible(r) == IF r.found \subseteq Dismissed THEN r.found ELSE r.found \ Dismissed

FromReport(r) == [listed |-> Ingestible(r), absent |-> r.absent,
                  clean |-> ~r.partial /\ ~r.failed,
                  hidden |-> IF r.loggedIn THEN {} ELSE Private]
FromBundle(b) == [listed |-> b, clean |-> FALSE, absent |-> {}, hidden |-> {}]
Inputs == {FromReport(r) : r \in reports} \cup {FromBundle(b) : b \in bundles}

-----------------------------------------------------------------------------
(* Mutant: whatever is seen again is reopened.                             *)
FoldReopensAll(t, in) ==
  [i \in Issues |->
     IF i \in in.listed THEN CASE t[i] = "none" -> "open"
                               [] t[i] \in {"fixed", "verified", "closed"} -> "reopened"
                               [] OTHER -> t[i]
     ELSE IF t[i] \in {"open", "reopened"} THEN "fixed" ELSE t[i]]

(* Store.ingest.                                                           *)
Fold(t, in) ==
  [i \in Issues |->
     IF i \in in.listed THEN CASE t[i] = "none" -> "open"
                               [] t[i] \in {"fixed", "verified"} -> "reopened"
                               [] OTHER -> t[i]
     ELSE IF t[i] \in {"open", "reopened"} THEN "fixed" ELSE t[i]]

(* runFindingsIngest, runFindingsSet up to the Save: Load and the input.   *)
Load(c) ==
  /\ cmd[c].doing = "idle"
  /\ \/ \E in \in Inputs : cmd' = [cmd EXCEPT ![c] = [doing |-> "ingest", copy |-> db, input |-> in]]
     \/ cmd' = [cmd EXCEPT ![c] = [doing |-> "set", copy |-> db, input |-> Nothing]]
  /\ UNCHANGED <<scanVars, db, bundles, last, touched, fixedBy>>

Ended(c) == [cmd EXCEPT ![c].doing = "idle", ![c].input = Nothing,
                        ![c].copy = [i \in Issues |-> "none"]]

IngestSave(c) ==
  LET new == Fold(cmd[c].copy, cmd[c].input) IN
  /\ cmd[c].doing = "ingest"
  /\ db' = new /\ cmd' = Ended(c)
  /\ last' = cmd[c].input.listed /\ touched' = {}
  /\ fixedBy' = [i \in Issues |-> IF new[i] = "fixed" /\ cmd[c].copy[i] # "fixed"
                                  THEN Evidence(cmd[c].input, i) ELSE fixedBy[i]]
  /\ UNCHANGED <<scanVars, bundles>>

(* Store.Transition; an unknown id is refused.                             *)
SetSave(c, i, to) ==
  /\ cmd[c].doing = "set" /\ cmd[c].copy[i] # "none"
  /\ db' = [cmd[c].copy EXCEPT ![i] = to] /\ cmd' = Ended(c)
  /\ touched' = touched \cup {i}
  /\ fixedBy' = [fixedBy EXCEPT ![i] = "person"]
  /\ UNCHANGED <<scanVars, bundles, last>>

(* The command fails or is killed before the rename.                       *)
CommandFails(c) ==
  /\ cmd[c].doing # "idle" /\ cmd' = Ended(c)
  /\ UNCHANGED <<scanVars, db, bundles, last, touched, fixedBy>>

(* A web-agent run writes its evidence.                                    *)
Investigate ==
  /\ Cardinality(bundles) < MaxBundles
  /\ bundles' = bundles \cup {Agent \cap live}
  /\ UNCHANGED <<scanVars, db, cmd, last, touched, fixedBy>>

Init ==
  /\ ScanInit
  /\ db = [i \in Issues |-> "none"]
  /\ cmd = [c \in Commands |-> [doing |-> "idle", copy |-> db, input |-> Nothing]]
  /\ bundles = {} /\ last = {} /\ touched = {}
  /\ fixedBy = [i \in Issues |-> "person"]

BetweenScans == stage = "idle"
NoCommand == \A c \in Commands : cmd[c].doing = "idle"

Next ==
  \/ NoCommand /\ ScanNext /\ UNCHANGED storeVars
  \/ BetweenScans /\ Investigate
  \/ \E c \in Commands :
       /\ BetweenScans
       /\ \/ Load(c) \/ IngestSave(c) \/ CommandFails(c)
          \/ \E i \in Issues, to \in Decisions : SetSave(c, i, to)

(* The scheduler runs some goroutine that can run, and the deadline comes  *)
(* (--timeout is 10 minutes by default); a tool call is sure to return     *)
(* only once the context is done.                                          *)
Progress ==
  \/ Join \/ PlanFanout \/ Finalize \/ Write
  \/ \E d \in Dispatches : Start(d) \/ Drop(d) \/ (expired /\ (CallFails(d) \/ CallReturns(d)))

Fairness == WF_vars(Progress /\ UNCHANGED storeVars) /\ WF_vars(Expire /\ UNCHANGED storeVars)

Spec == Init /\ [][Next]_vars
FairSpec == Spec /\ Fairness

-----------------------------------------------------------------------------
(* The tracker's variables, and the scan's, have their types.              *)
TypeOK ==
  /\ ScanTypeOK
  /\ db \in Tracker /\ cmd \in [Commands -> Command]
  /\ bundles \subseteq SUBSET Issues
  /\ last \subseteq Issues /\ touched \subseteq Issues
  /\ fixedBy \in [Issues -> EvidenceType]

Detected == UNION {Finds[d] : d \in Recon \cup Fanout}

(* A finding that detection can see and that became fixed by the report of *)
(* a scan that claims to be complete was really gone at some moment of     *)
(* that scan: no deadline, dropped dispatch, failed tool or unfinished     *)
(* recon passes for a clean bill of health.  A refused login does, for     *)
(* what is behind it (FailedLoginShows): "claimed" leaves that case out.   *)
FixedIsEarned ==
  \A i \in Detected \ Dismissed :
    db[i] = "fixed" => fixedBy[i] # "claimed"

(* "Auth failure shouldn't crash the scan - surface it" (seed_auth): the   *)
(* report of a scan whose login was refused says nothing of it, and what   *)
(* is behind the login becomes fixed.                                      *)
FailedLoginShows ==
  \A i \in Detected \ Dismissed :
    db[i] = "fixed" => fixedBy[i] # "loggedOut"

(* The same, whatever was ingested: what the "fixed" of store.go means to  *)
(* the reader of the tracker.                                              *)
FixedMeansGone ==
  \A i \in Issues : db[i] = "fixed" => fixedBy[i] \in {"person", "gone"}

(* The tracker agrees with the last ingest: what it listed is active or    *)
(* was put aside by a person, what it did not list is not active.          *)
TrackerAgrees ==
  \A i \in Issues \ touched :
    IF i \in last THEN db[i] \notin {"none", "fixed", "verified"}
    ELSE db[i] \notin {"open", "reopened"}

Lifecycle == INSTANCE FindingLifecycle WITH status <- db

(* Every change of the tracker file is a legal move of each finding's life *)
(* cycle: nothing vanishes, and no scan undoes what a person decided.      *)
LifecycleHolds == Lifecycle!Spec

(* What IngestScan says it folds in: the enriched findings, so never one   *)
(* the false-positive filter dismissed.                                    *)
DismissedStays == \A i \in Dismissed : db[i] = "none"
=============================================================================
