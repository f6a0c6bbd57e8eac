-------------------------- MODULE FixVerification --------------------------
(***************************************************************************)
(* Did the fix work, and what follows from it.  A monitoring pass lists    *)
(* the tenant's actions, judges every applied one against the re-scan      *)
(* (internal/retest), writes the changed records back one by one, re-runs  *)
(* the exploits, and writes again.  The verdicts feed two readers: the     *)
(* field record that says when a clean re-scan is not enough               *)
(* (internal/fieldevidence) and the earned-autonomy grant that lets a      *)
(* tier-2 fix skip the approval desk (internal/autonomy).                  *)
(*                                                                         *)
(* One tenant, one (finding class, remediation type) pair, one finding key *)
(* per action.  What the scanner and the exploit report is the             *)
(* environment's choice.  Delivery itself is module Desk; here an action   *)
(* is applied in one step, by a person or by the grant.                    *)
(***************************************************************************)
EXTENDS Integers, Sequences, FiniteSets

CONSTANTS ActionIds,
          Passes,        \* monitoring passes that can be in flight together
          MaxHistory,    \* maxVerificationHistory
          MinClosed,     \* autonomy bar
          MinObservations, \* fieldevidence floor
          Attack,        \* TRUE: a Reattacker is wired
          MaxPasses      \* bound on the passes started

ASSUME FixAssumption ==
  /\ MaxHistory \in Nat \ {0}
  /\ MinClosed \in Nat \ {0}
  /\ MinObservations \in Nat \ {0}
  /\ Attack \in BOOLEAN
  /\ MaxPasses \in Nat

VARIABLES
  acts,      \* the action store
  grant,     \* is there a grant for the pair
  since,     \* the actions applied at or after the grant
  pass,      \* each monitoring pass
  started,   \* passes started so far
  reported,  \* history: what the last re-scan that covered it said
  attacked,  \* history: what the last pass's re-attack showed
  lost,      \* history: actions whose last re-attack verdict was not stored
  contra,    \* history: actions on record as disproved by a live exploit
  failures,  \* history: actions of since recorded as a failed or unconfirmed fix
  exploits   \* history: actions of since recorded as still exploitable

vars == <<acts, grant, since, pass, started, reported, attacked, lost, contra, failures, exploits>>

VerStatus == {"fixed", "still_present", "rescan_unconfirmed", "closed_with_proof", "still_exploitable"}
Disagreement == {"none", "rescan_missed_live_exploit", "scanner_sees_variant"}
(* said: RescanSaidFixed *)
FixRecord == [status : VerStatus, dis : Disagreement, said : BOOLEAN]
Unverified == [status |-> "unverified", dis |-> "none", said |-> FALSE]

Scan   == {"absent", "present", "uncovered"}
Verdict == {"works", "fails", "unverifiable"}

(* ver is Verification (Unverified: nil), hist is VerificationHistory. *)
ActionType == [applied : BOOLEAN, ver : FixRecord \cup {Unverified}, hist : Seq(FixRecord)]
Proposed == [applied |-> FALSE, ver |-> Unverified, hist |-> <<>>]
NoSnap == [i \in ActionIds |-> Proposed]

(* "rescan": writing re-scan verdicts, then re-running the exploits;       *)
(* "proof": writing what they showed.  news: history, the actions about    *)
(* which this pass's evidence differs from the last pass's; disproved:     *)
(* history, those whose exploit worked after a clean re-scan.              *)
Pass == [pc : {"idle", "rescan", "proof"}, snap : [ActionIds -> ActionType],
         todo : SUBSET ActionIds, news : SUBSET ActionIds, disproved : SUBSET ActionIds]
IdlePass == [pc |-> "idle", snap |-> NoSnap, todo |-> {}, news |-> {}, disproved |-> {}]

TypeOK ==
  /\ acts \in [ActionIds -> ActionType]
  /\ \A i \in ActionIds : Len(acts[i].hist) <= MaxHistory
  /\ grant \in BOOLEAN
  /\ since \subseteq ActionIds
  /\ pass \in [Passes -> Pass]
  /\ started \in 0..MaxPasses
  /\ reported \in [ActionIds -> Scan]
  /\ attacked \in [ActionIds -> Verdict]
  /\ lost \subseteq ActionIds /\ contra \subseteq ActionIds
  /\ failures \subseteq ActionIds /\ exploits \subseteq ActionIds

Init ==
  /\ acts = NoSnap
  /\ grant = FALSE
  /\ since = {}
  /\ pass = [p \in Passes |-> IdlePass]
  /\ started = 0
  /\ reported = [i \in ActionIds |-> "uncovered"]
  /\ attacked = [i \in ActionIds |-> "unverifiable"]
  /\ lost = {} /\ contra = {} /\ failures = {} /\ exploits = {}

-----------------------------------------------------------------------------
(* Recording a verdict.                                                    *)

LastN(s, n) == IF Len(s) > n THEN SubSeq(s, Len(s) - n + 1, Len(s)) ELSE s

(* Mutant: the latest verdict replaces the one before it. *)
RecordLatest(a, v) == [a EXCEPT !.ver = v, !.hist = <<v>>]

(* RecordVerification: set the current verdict; append it to the history   *)
(* when it differs from the last entry; keep the newest MaxHistory.        *)
RecordVerification(a, v) ==
  [a EXCEPT !.ver = v,
            !.hist = IF @ # <<>> /\ @[Len(@)] = v THEN @ ELSE LastN(Append(@, v), MaxHistory)]

-----------------------------------------------------------------------------
(* fieldevidence: may a clean re-scan confirm a fix of this class?         *)

Labelled(as, contradicted) ==
  {x \in ActionIds \X (1..MaxHistory) :
     LET h == as[x[1]].hist  n == x[2] IN
     /\ n <= Len(h) /\ h[n].said
     /\ contradicted => h[n].dis = "rescan_missed_live_exploit"}

(* known and not sufficient: enough labelled examples, a tenth of them or  *)
(* more contradicted.                                                      *)
Distrusted(as) ==
  LET clean == Cardinality(Labelled(as, FALSE))
  IN  clean >= MinObservations /\ 10 * Cardinality(Labelled(as, TRUE)) >= clean

-----------------------------------------------------------------------------
(* retest: the two verdicts.                                               *)

(* VerifyWithPolicy judges an applied action that is not yet "fixed", when *)
(* the pass covered its producer.                                          *)
Rescannable(a, r) == a.applied /\ a.ver.status # "fixed" /\ r # "uncovered"

RescanStatus(r, distrust) ==
  IF r = "present" THEN "still_present"
  ELSE IF distrust THEN "rescan_unconfirmed" ELSE "fixed"

(* ... and changes it only when the verdict is new. *)
Rescanned(a, r, distrust) ==
  LET s == RescanStatus(r, distrust)
  IN  IF Rescannable(a, r) /\ a.ver.status # s
        THEN RecordVerification(a, [status |-> s, dis |-> "none", said |-> FALSE])
        ELSE a

RescanSaidFixed(a) == a.ver.status \in {"fixed", "rescan_unconfirmed"}

(* Mutant: a "fixed" verdict is terminal for the re-attack too. *)
ReattackedNotFixed(a, v) ==
  IF ~a.applied \/ v = "unverifiable" \/ a.ver.status = "fixed" THEN a
  ELSE RecordVerification(a,
         IF v = "works" THEN [status |-> "still_exploitable", dis |-> "none", said |-> FALSE]
         ELSE [status |-> "closed_with_proof", dis |-> "none", said |-> FALSE])

(* ApplyReattack: a live exploit wins over whatever the re-scan said; a    *)
(* dead one is closure, with a disagreement noted unless the current       *)
(* verdict is the re-scan's "gone"; unverifiable changes nothing.          *)
Reattacked(a, v) ==
  LET said == RescanSaidFixed(a)
  IN  IF ~a.applied \/ v = "unverifiable" THEN a
      ELSE RecordVerification(a,
        IF v = "works"
          THEN [status |-> "still_exploitable", said |-> said,
                dis |-> IF said THEN "rescan_missed_live_exploit" ELSE "none"]
          ELSE [status |-> "closed_with_proof", said |-> said,
                dis |-> IF said THEN "none" ELSE "scanner_sees_variant"])

-----------------------------------------------------------------------------
(* autonomy: the record and the grant.                                     *)

Count(as, s) == Cardinality({i \in ActionIds : as[i].applied /\ as[i].ver.status = s})

(* RemediationsForTenant and qualifies: the current verdicts, of which     *)
(* only the three re-scan statuses count.                                  *)
Qualifies(as) == /\ Count(as, "still_present") = 0
                 /\ Count(as, "rescan_unconfirmed") = 0
                 /\ Count(as, "fixed") >= MinClosed

Failed(s) == s \in {"still_present", "rescan_unconfirmed"}

(* Mutant: only the current verdict of an action is looked at. *)
GrantActiveNow(as) ==
  /\ grant
  /\ \A i \in since : as[i].applied => ~Failed(as[i].ver.status)
  /\ Qualifies(as)

(* status(): no failure in the history of anything applied since the       *)
(* grant, and the record still qualifies.                                  *)
GrantActive(as) ==
  /\ grant
  /\ \A i \in since : as[i].applied =>
       \A n \in 1..Len(as[i].hist) : ~Failed(as[i].hist[n].status)
  /\ Qualifies(as)

(* handleSetAutonomy: refused unless the record qualifies now; a new grant *)
(* replaces the old one and its date.                                      *)
SetGrant ==
  /\ Qualifies(acts)
  /\ grant' = TRUE
  /\ since' = {} /\ failures' = {} /\ exploits' = {}
  /\ UNCHANGED <<acts, pass, started, reported, attacked, lost, contra>>

WithdrawGrant ==
  /\ grant
  /\ grant' = FALSE
  /\ since' = {} /\ failures' = {} /\ exploits' = {}
  /\ UNCHANGED <<acts, pass, started, reported, attacked, lost, contra>>

(* The desk applies a proposed fix: on its own under an active grant, or   *)
(* because a person said yes.                                              *)
Apply(i) ==
  /\ ~acts[i].applied
  /\ acts' = [acts EXCEPT ![i].applied = TRUE]
  /\ since' = IF grant THEN since \cup {i} ELSE since
  /\ UNCHANGED <<grant, pass, started, reported, attacked, lost, contra, failures, exploits>>

-----------------------------------------------------------------------------
(* One monitoring pass.                                                    *)

(* ListActions, the field record of that listing, and the re-scan verdict  *)
(* of every action in it.                                                  *)
PassRescan(p) ==
  /\ pass[p].pc = "idle"
  /\ started < MaxPasses
  /\ started' = started + 1
  /\ \E r \in [ActionIds -> Scan] :
       LET judged == [i \in ActionIds |-> Rescanned(acts[i], r[i], Distrusted(acts))]
       IN  /\ \A i \in ActionIds : ~acts[i].applied => r[i] = "uncovered"
           /\ pass' = [pass EXCEPT ![p] = [pc |-> "rescan", snap |-> judged,
                         todo |-> {i \in ActionIds : judged[i] # acts[i]},
                         news |-> {i \in ActionIds : r[i] # reported[i]},
                         disproved |-> {}]]
           /\ reported' = [i \in ActionIds |-> IF r[i] = "uncovered" THEN reported[i] ELSE r[i]]
  /\ UNCHANGED <<acts, grant, since, attacked, lost, contra, failures, exploits>>

(* PutAction of one judged copy, the whole record as listed, reaches the   *)
(* store.                                                                  *)
Stored(p, i) ==
  LET a == pass[p].snap[i]
  IN  /\ acts' = [acts EXCEPT ![i] = a]
      /\ failures' = IF i \in since /\ Failed(a.ver.status) THEN failures \cup {i} ELSE failures
      /\ exploits' = IF i \in since /\ a.ver.status = "still_exploitable"
                     THEN exploits \cup {i} ELSE exploits
      /\ contra' = contra \cup ({i} \cap pass[p].disproved)
      /\ UNCHANGED lost

(* PutAction fails.  The error is the pass's (firstErr), and the pass goes *)
(* on with the verdict it could not store.                                 *)
Unstored(p, i) ==
  /\ lost' = IF pass[p].pc = "proof" THEN lost \cup {i} ELSE lost
  /\ UNCHANGED <<acts, contra, failures, exploits>>

PutVerdict(p) ==
  /\ pass[p].pc \in {"rescan", "proof"}
  /\ \E i \in pass[p].todo :
       /\ pass' = [pass EXCEPT ![p].todo = @ \ {i}]
       /\ Stored(p, i) \/ Unstored(p, i)
  /\ UNCHANGED <<grant, since, started, reported, attacked>>

(* The Reattacker runs on the applied actions of the listing as judged. *)
PassReattack(p) ==
  /\ pass[p].pc = "rescan"
  /\ pass[p].todo = {}
  /\ Attack
  /\ \E v \in [ActionIds -> Verdict] :
       LET proved == [i \in ActionIds |-> Reattacked(pass[p].snap[i], v[i])]
       IN  /\ \A i \in ActionIds : ~pass[p].snap[i].applied => v[i] = "unverifiable"
           /\ pass' = [pass EXCEPT ![p] = [pc |-> "proof", snap |-> proved,
                         todo |-> {i \in ActionIds : v[i] # "unverifiable"},
                         news |-> pass[p].news \cup {i \in ActionIds : v[i] # attacked[i]},
                         disproved |-> {i \in ActionIds :
                           v[i] = "works" /\ RescanSaidFixed(pass[p].snap[i])}]]
           /\ attacked' = v
  /\ lost' = {}
  /\ UNCHANGED <<acts, grant, since, started, reported, contra, failures, exploits>>

PassEnd(p) ==
  /\ pass[p].pc = (IF Attack THEN "proof" ELSE "rescan")
  /\ pass[p].todo = {}
  /\ pass' = [pass EXCEPT ![p] = IdlePass]
  /\ UNCHANGED <<acts, grant, since, started, reported, attacked, lost, contra, failures, exploits>>

Next == \/ SetGrant \/ WithdrawGrant
        \/ \E i \in ActionIds : Apply(i)
        \/ \E p \in Passes : PassRescan(p) \/ PutVerdict(p) \/ PassReattack(p) \/ PassEnd(p)

Spec == Init /\ [][Next]_vars

-----------------------------------------------------------------------------
(* Properties, of passes that run one after another.                       *)

Full(i) == Len(acts[i].hist) = MaxHistory

(* One recorded failure ends the grant: once anything applied since has    *)
(* been recorded still_present or rescan_unconfirmed, no later clean       *)
(* verdict makes it active again; only the owner does (short of a history  *)
(* so long that its oldest entries were trimmed).                          *)
FailureEndsGrant == (\E i \in failures : ~Full(i)) => ~GrantActive(acts)

(* A contradiction outlives every later clean verdict: when a live exploit *)
(* disproved a clean re-scan and the store took that verdict, no later     *)
(* pass confirms a fix on a re-scan alone, whichever of its own or of the  *)
(* other writes fail.  This holds of a record with at least                *)
(* MinObservations labelled examples (one, in the runs): below that floor  *)
(* the code still trusts the re-scan by design.  More than ten labelled    *)
(* examples may outvote one contradiction; the runs stay below that.       *)
Quiet == \A p \in Passes : pass[p].pc = "idle"
ContradictedNotConfirmed ==
  [][Quiet /\ ~Quiet' /\ (\E i \in contra : ~Full(i)) =>
       \A p \in Passes : \A i \in pass'[p].todo : pass'[p].snap[i].ver.status # "fixed"]_vars

(* A live exploit beats a scanner's silence: between passes, an action     *)
(* whose exploit the last pass ran successfully stands as                  *)
(* still_exploitable, whatever that pass's re-scan wrote or failed to      *)
(* write first, unless the write of that very verdict failed.              *)
LiveExploitWins ==
  Quiet => \A i \in ActionIds \ lost :
             attacked[i] = "works" => acts[i].ver.status = "still_exploitable"

(* What a pass writes back never undoes an application, and never loses an *)
(* entry of the history except to a full one, which dropped its oldest.    *)
KeepsEntry(h, g) == Len(g) = MaxHistory \/ (Len(g) >= Len(h) /\ SubSeq(g, 1, Len(h)) = h)
AppendOnly ==
  [][\A i \in ActionIds : /\ acts[i].applied => acts'[i].applied
                          /\ KeepsEntry(acts[i].hist, acts'[i].hist)]_vars

-----------------------------------------------------------------------------
(* Statements of the repository that the code does not keep.               *)

(* "Re-attack proves it still works -> still_exploitable, whatever the     *)
(* rescan said": when the write of the re-attack's verdict fails, the      *)
(* re-scan's "fixed", written a moment before, is what stays.              *)
ExploitOverridesFixed ==
  Quiet => \A i \in ActionIds : attacked[i] = "works" => acts[i].ver.status # "fixed"

(* "ONE FAILURE ENDS IT. A grant is void the first time anything applied   *)
(* under it is recorded as not closed": still_exploitable, the verdict of  *)
(* a re-attack, is neither in failed() nor in the record.                  *)
ExploitEndsGrant == exploits # {} => ~GrantActive(acts)

(* "Re-recording an unchanged verdict every monitoring pass would inflate  *)
(* the corpus with duplicates of one event": the re-scan's "fixed" and the *)
(* re-attack's "closed_with_proof" replace each other on every pass, so    *)
(* the same evidence grows the history by two entries.                     *)
NoDuplicateEvents ==
  [][\A p \in Passes, i \in ActionIds :
       pass[p].pc = "proof" /\ i \in pass[p].todo \ pass'[p].todo /\ i \notin pass[p].news
         => Len(acts'[i].hist) <= Len(acts[i].hist)]_vars

(* "The exploit no longer works but the SCANNER STILL SEES the finding":   *)
(* recorded whenever the current verdict is not the re-scan's "gone", also *)
(* when no re-scan looked, or the last one that looked saw nothing.        *)
VariantWasSeen ==
  \A i \in ActionIds :
    acts[i].ver.dis = "scanner_sees_variant" => reported[i] = "present"

(* "the APPEND-ONLY verification history": two passes over one tenant each *)
(* write back the copy they listed, and one loses the other's entry.       *)
HistorySurvives ==
  [][\A i \in ActionIds : KeepsEntry(acts[i].hist, acts'[i].hist)]_vars
=============================================================================
