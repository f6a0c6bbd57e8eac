----------------------------- MODULE TicketSync -----------------------------
(***************************************************************************)
(* internal/ticketsync and its callers in internal/runner: reading the     *)
(* tickets we filed back from the customer's tracker, setting the tracker's*)
(* claim ("done") beside our own re-test, and commenting our verdict on    *)
(* the ticket.                                                             *)
(*                                                                         *)
(* The full monitoring pass re-tests the applied actions, puts the changed *)
(* ones back whole, and then syncs; the event poll only syncs.  The two    *)
(* run on clocks of their own and nothing keeps them apart.  A sync works  *)
(* from the list of actions it read at its start, talks to the tracker     *)
(* ticket by ticket, and only then re-reads each changed action and        *)
(* replaces its ticket.                                                    *)
(*                                                                         *)
(* The tracker is external: people close and reopen tickets at any time,   *)
(* a closed ticket may carry no resolution date, reads and comments fail,  *)
(* and the answer to a comment that was posted may be lost.                *)
(*                                                                         *)
(* How a verdict is reached is module FixVerification; here a re-test      *)
(* reports one of Scan.  Status names and the text of SyncError are left   *)
(* out.  Every event has its own time; MaxTime bounds their number.        *)
(***************************************************************************)
EXTENDS Integers, FiniteSets

CONSTANTS
  Tickets,     \* actions delivered as a ticket
  Procs,       \* goroutines that sync
  Passes,      \* those that are full passes and re-test first
  MaxReads,    \* Options.MaxReads
  MaxTime,     \* bound on the events of a behaviour
  Scan,        \* what a re-test can report
  MaxMishaps,  \* bound on the kinds of mishap in a behaviour
  Faults       \* what can fail: "read", "comment", "store"

ASSUME TicketAssumption ==
  /\ IsFiniteSet(Tickets)
  /\ Passes \subseteq Procs
  /\ MaxReads \in Nat \ {0} /\ MaxTime \in Nat /\ MaxMishaps \in Nat
  /\ Scan \subseteq {"present", "absent", "unconfirmed", "exploited"}
  /\ Faults \subseteq {"read", "comment", "store"}

VARIABLES
  acts,      \* the action store
  tracker,   \* the customer's tracker: is the ticket done, and since when
  proc,      \* each goroutine
  clock,
  mishaps,   \* history: what has gone wrong so far
  spoken,    \* history: the last outcome commented on the ticket
  repeated,  \* history: tickets told the same outcome twice in a row
  waits,     \* history: syncs that passed the ticket over since it was read
  closed,    \* history: tickets that have been closed
  relapsed,  \* history: those of which a re-scan found the issue after that
  standing   \* history: closed ones of which the last re-scan found the issue

vars == <<acts, tracker, proc, clock, mishaps, spoken, repeated, waits, closed, relapsed, standing>>

Time     == 0..MaxTime
Verdicts == {"none", "fixed", "still_present", "rescan_unconfirmed", "still_exploitable"}
Outcomes == {"none", "still_present", "fixed"}

(* TicketRef: csp is ClosedStillPresent, synced is LastSyncedAt (0: never). *)
Ref == [resolved : BOOLEAN, resolvedAt : Time, synced : Time, csp : BOOLEAN, notified : Outcomes]

NewRef == [resolved |-> FALSE, resolvedAt |-> 0, synced |-> 0, csp |-> FALSE, notified |-> "none"]

(* An action: applied with a ticket, its current verdict, its ticket.      *)
Action == [filed : BOOLEAN, ver : Verdicts, verAt : Time, ref : Ref]

Unfiled == [filed |-> FALSE, ver |-> "none", verAt |-> 0, ref |-> NewRef]

(* snap: actions as listed.       todo: tickets still to handle in this     *)
(* phase.  got: the actions whose tickets changed.  held: the action just  *)
(* re-read, to be put back with its ticket replaced.                       *)
Proc == [pc : {"idle", "retest", "sync", "read", "persist"},
         snap : [Tickets -> Action], todo : SUBSET Tickets, got : SUBSET Tickets,
         held : SUBSET Tickets, fresh : Action, now : Time]

NoSnap == [t \in Tickets |-> Unfiled]

Idle == [pc |-> "idle", snap |-> NoSnap, todo |-> {}, got |-> {}, held |-> {},
         fresh |-> Unfiled, now |-> 0]

TypeOK ==
  /\ acts \in [Tickets -> Action]
  /\ tracker \in [Tickets -> [done : BOOLEAN, at : Time]]
  /\ proc \in [Procs -> Proc]
  /\ \A p \in Procs : Cardinality(proc[p].todo \cup proc[p].got) <= MaxReads \/ proc[p].pc = "retest"
  /\ clock \in Time
  /\ mishaps \subseteq Faults \cup {"overlap", "torn"}
  /\ spoken \in [Tickets -> Outcomes] /\ repeated \subseteq Tickets
  /\ waits \in [Tickets -> Nat]
  /\ relapsed \subseteq closed /\ closed \subseteq Tickets /\ standing \subseteq relapsed

Init ==
  /\ acts = NoSnap
  /\ tracker = [t \in Tickets |-> [done |-> FALSE, at |-> 0]]
  /\ proc = [p \in Procs |-> Idle]
  /\ clock = 0
  /\ mishaps = {} /\ repeated = {}
  /\ spoken = [t \in Tickets |-> "none"]
  /\ waits = [t \in Tickets |-> 0]
  /\ closed = {} /\ relapsed = {} /\ standing = {}

(* The histories of the serial guarantees stop at the first mishap that    *)
(* ends them.                                                              *)
Serial == mishaps' \subseteq {"comment", "read"}

Mishap(ms) == mishaps' = mishaps \cup ms /\ Cardinality(mishaps' \ {"torn"}) <= MaxMishaps

(* Every event that can be compared with another has a time of its own.    *)
Tick == clock < MaxTime /\ clock' = clock + 1

-----------------------------------------------------------------------------
(* Delivery and the tracker.                                               *)

(* ApplyResult: the ticket is filed and the desk stores its reference.     *)
File(t) ==
  /\ ~acts[t].filed
  /\ acts' = [acts EXCEPT ![t].filed = TRUE]
  /\ UNCHANGED <<tracker, proc, clock, mishaps, spoken, repeated, waits, closed, relapsed, standing>>

(* A person moves the ticket to a done status; the tracker may record when. *)
Close(t) ==
  /\ acts[t].filed /\ ~tracker[t].done
  /\ Tick
  /\ \E at \in {0, clock'} : tracker' = [tracker EXCEPT ![t] = [done |-> TRUE, at |-> at]]
  /\ closed' = closed \cup {t}
  /\ UNCHANGED <<acts, proc, mishaps, spoken, repeated, waits, relapsed, standing>>

Reopen(t) ==
  /\ tracker[t].done
  /\ tracker' = [tracker EXCEPT ![t] = [done |-> FALSE, at |-> 0]]
  /\ spoken' = [spoken EXCEPT ![t] = IF @ = "still_present" THEN "none" ELSE @]
  /\ standing' = standing \ {t}
  /\ UNCHANGED <<acts, proc, clock, mishaps, repeated, waits, closed, relapsed>>

-----------------------------------------------------------------------------
(* The full pass: re-test, put the changed actions back whole, then sync.  *)

Overlap(p) == {m \in {"overlap"} : \E q \in Procs \ {p} : proc[q].pc # "idle"}

(* A goroutine's copies of the actions it is going to handle.              *)
Copies(as, batch) == [t \in Tickets |-> IF t \in batch THEN as[t] ELSE Unfiled]

Verified(a, v) == [a EXCEPT !.ver = v, !.verAt = clock']

(* VerifyWithPolicy and ApplyReattack.  A fix confirmed by a re-scan is    *)
(* final for re-scans, and a verdict that repeats the recorded one is      *)
(* skipped, with its time.  A re-attack records its verdict every time.    *)
Judged(a, r) ==
  LET v == CASE r = "present" -> "still_present"
             [] r = "absent" -> "fixed"
             [] r = "unconfirmed" -> "rescan_unconfirmed"
             [] OTHER -> "still_exploitable"
  IN  IF a.filed /\ (r = "exploited" \/ a.ver \notin {"fixed", v}) THEN Verified(a, v) ELSE a

(* A pass may cover any part of the estate.                                *)
RetestList(p) ==
  /\ p \in Passes /\ proc[p].pc = "idle"
  /\ Tick
  /\ \E covered \in SUBSET {t \in Tickets : acts[t].filed} : \E r \in [covered -> Scan] :
       LET snap == [t \in Tickets |-> IF t \in covered THEN Judged(acts[t], r[t]) ELSE acts[t]]
           todo == {t \in Tickets : snap[t] # acts[t]}
       IN  /\ proc' = [proc EXCEPT ![p] = [Idle EXCEPT !.pc = IF todo = {} THEN "sync" ELSE "retest",
                                                       !.snap = Copies(snap, todo),
                                                       !.todo = todo]]
           /\ relapsed' = relapsed \cup {t \in closed \cap covered : r[t] = "present"}
           /\ standing' = (standing \ covered) \cup
                          {t \in covered : tracker[t].done /\ r[t] = "present"}
  /\ Mishap(Overlap(p))
  /\ UNCHANGED <<acts, tracker, spoken, repeated, waits, closed>>

(* Another goroutine is between its re-read of the action and its put.     *)
Torn(p, t) == {m \in {"torn"} : \E q \in Procs \ {p} : t \in proc[q].held}

RetestPut(p, t) ==
  LET todo == proc[p].todo \ {t}
  IN  /\ proc[p].pc = "retest" /\ t \in proc[p].todo
      /\ \/ acts' = [acts EXCEPT ![t] = proc[p].snap[t]] /\ Mishap(Torn(p, t))
         \/ "store" \in Faults /\ Mishap({"store"}) /\ UNCHANGED acts
      /\ proc' = [proc EXCEPT ![p] = IF todo = {} THEN [Idle EXCEPT !.pc = "sync"]
                                     ELSE [@ EXCEPT !.todo = todo]]
      /\ UNCHANGED <<tracker, clock, spoken, repeated, waits, closed, relapsed, standing>>

-----------------------------------------------------------------------------
(* syncTickets and ticketsync.Sync                                         *)

(* settled: closed, re-tested fixed, and already told.                     *)
Settled(a) == a.ref.resolved /\ a.ref.notified = "fixed" /\ a.ver = "fixed"

Due(snap) == {t \in Tickets : snap[t].filed /\ ~Settled(snap[t])}

(* Mutant: the list is cut before it is sorted. *)
SelectedAny(snap, batch) ==
  /\ batch \subseteq Due(snap)
  /\ Cardinality(batch) <= MaxReads
  /\ Due(snap) # batch => Cardinality(batch) = MaxReads

(* Oldest-synced first, at most MaxReads; the list order breaks ties.      *)
Selected(snap, batch) ==
  /\ batch \subseteq Due(snap)
  /\ Cardinality(batch) <= MaxReads
  /\ Due(snap) # batch => Cardinality(batch) = MaxReads
  /\ \A t \in batch, u \in Due(snap) \ batch : snap[t].ref.synced <= snap[u].ref.synced

SyncList(p) ==
  /\ proc[p].pc \in {"idle", "sync"}
  /\ Tick
  /\ \E batch \in SUBSET Tickets :
       /\ Selected(acts, batch)
       /\ proc' = [proc EXCEPT ![p] =
                     IF batch = {} THEN Idle
                     ELSE [Idle EXCEPT !.pc = "read", !.snap = Copies(acts, batch), !.todo = batch, !.now = clock']]
       /\ Mishap(Overlap(p))
       /\ waits' = [t \in Tickets |-> IF Serial /\ t \in Due(acts) \ batch THEN waits[t] + 1 ELSE 0]
  /\ UNCHANGED <<acts, tracker, spoken, repeated, closed, relapsed, standing>>

(* The tracker's view: newly done, reopened, or as it was.                 *)
Observed(ref, tr, now) ==
  LET r == [ref EXCEPT !.synced = now]
  IN  CASE tr.done /\ ~ref.resolved ->
             [r EXCEPT !.resolved = TRUE, !.resolvedAt = IF tr.at = 0 THEN now ELSE tr.at]
        [] ~tr.done /\ ref.resolved ->
             [r EXCEPT !.resolved = FALSE, !.resolvedAt = 0, !.csp = FALSE,
                       !.notified = IF @ = "still_present" THEN "none" ELSE @]
        [] OTHER -> r

(* Mutant: a verdict from before the close counts. *)
ClosedStillPresentAny(ref, a) == ref.resolved /\ a.ver = "still_present"

(* closedStillPresent: the re-test was made after the ticket was resolved. *)
ClosedStillPresent(ref, a) ==
  ref.resolved /\ a.ver = "still_present" /\ a.verAt >= ref.resolvedAt

(* Mutant: said again on every sync. *)
CommentForAlways(ref, a) ==
  CASE ref.csp -> "still_present" [] a.ver = "fixed" -> "fixed" [] OTHER -> "none"

(* commentFor: the outcome to post, if there is something new to say.      *)
CommentFor(ref, a) ==
  CASE ref.csp /\ ref.notified # "still_present" -> "still_present"
    [] a.ver = "fixed" /\ ref.notified # "fixed" -> "fixed"
    [] OTHER -> "none"

(* The ticket is handled; when all are, the changed ones are persisted.    *)
Handled(p, t, ref) ==
  LET todo == proc[p].todo \ {t}
  IN  proc' = [proc EXCEPT ![p].snap[t].ref = ref, ![p].todo = todo, ![p].got = @ \cup {t},
                           ![p].pc = IF todo = {} THEN "persist" ELSE @]

(* trackerFor or TicketStatus failed: the previous view is kept, and put.  *)
ReadFails(p, t) ==
  /\ proc[p].pc = "read" /\ t \in proc[p].todo
  /\ "read" \in Faults /\ Mishap({"read"})
  /\ Handled(p, t, proc[p].snap[t].ref)
  /\ UNCHANGED <<acts, tracker, clock, spoken, repeated, waits, closed, relapsed, standing>>

(* AddComment: posted and acknowledged; not posted; or posted, with the    *)
(* answer lost.                                                            *)
Posted(t, outcome) ==
  /\ spoken' = [spoken EXCEPT ![t] = IF mishaps = {} THEN outcome ELSE "none"]
  /\ repeated' = repeated \cup {u \in {t} : mishaps = {} /\ spoken[u] = outcome}

Comment(p, t, ref, outcome) ==
  \/ /\ Handled(p, t, [ref EXCEPT !.notified = outcome])
     /\ Posted(t, outcome) /\ UNCHANGED mishaps
  \/ /\ "comment" \in Faults /\ Mishap({"comment"})
     /\ Handled(p, t, ref)
     /\ Posted(t, outcome) \/ UNCHANGED <<spoken, repeated>>

Read(p, t) ==
  LET a   == proc[p].snap[t]
      obs == Observed(a.ref, tracker[t], proc[p].now)
      ref == [obs EXCEPT !.csp = ClosedStillPresent(obs, a)]
  IN  /\ proc[p].pc = "read" /\ t \in proc[p].todo
      /\ IF CommentFor(ref, a) = "none"
           THEN Handled(p, t, ref) /\ UNCHANGED <<mishaps, spoken, repeated>>
           ELSE Comment(p, t, ref, CommentFor(ref, a))
      /\ UNCHANGED <<acts, tracker, clock, waits, closed, relapsed, standing>>

(* Each changed action is re-read, its ticket replaced, and put.           *)
Persisted(p, t) ==
  LET got == proc[p].got \ {t}
  IN  proc' = [proc EXCEPT ![p] = IF got = {} THEN Idle
                                  ELSE [@ EXCEPT !.got = got, !.held = {}, !.fresh = Unfiled, !.snap[t] = Unfiled]]

PersistGet(p, t) ==
  /\ proc[p].pc = "persist" /\ t \in proc[p].got /\ proc[p].held = {}
  /\ proc' = [proc EXCEPT ![p].held = {t}, ![p].fresh = acts[t]]
  /\ UNCHANGED <<acts, tracker, clock, mishaps, spoken, repeated, waits, closed, relapsed, standing>>

(* Mutant: the action is put back as it was listed. *)
ReplacedWhole(p, t) == proc[p].snap[t]

Replaced(p, t) == [proc[p].fresh EXCEPT !.ref = proc[p].snap[t].ref]

PersistPut(p, t) ==
  /\ proc[p].pc = "persist" /\ t \in proc[p].held
  /\ acts' = [acts EXCEPT ![t] = Replaced(p, t)]
  /\ Mishap(Torn(p, t))
  /\ Persisted(p, t)
  /\ UNCHANGED <<tracker, clock, spoken, repeated, waits, closed, relapsed, standing>>

(* The re-read or the put failed; the ticket's news is dropped.            *)
PersistFails(p, t) ==
  /\ proc[p].pc = "persist" /\ t \in proc[p].got /\ proc[p].held \subseteq {t}
  /\ "store" \in Faults /\ Mishap({"store"})
  /\ Persisted(p, t)
  /\ UNCHANGED <<acts, tracker, clock, spoken, repeated, waits, closed, relapsed, standing>>

-----------------------------------------------------------------------------
Steps(p) ==
  \/ RetestList(p) \/ SyncList(p)
  \/ \E t \in Tickets : \/ RetestPut(p, t) \/ Read(p, t) \/ ReadFails(p, t)
                        \/ PersistGet(p, t) \/ PersistPut(p, t) \/ PersistFails(p, t)

Next ==
  \/ \E p \in Procs : Steps(p)
  \/ \E t \in Tickets : File(t) \/ Close(t) \/ Reopen(t)

Spec == Init /\ [][Next]_vars

-----------------------------------------------------------------------------
(* Properties.                                                             *)

Quiet == \A p \in Procs : proc[p].pc = "idle"

(* Each outcome is posted once: a ticket is not told twice in a row the    *)
(* same thing about the same close, as long as syncs do not overlap and    *)
(* nothing fails.                                                          *)
PostedOnce == repeated = {}

(* A bounded sync reaches every ticket: while reads and puts succeed and   *)
(* syncs do not overlap, a ticket is passed over at most as often as the   *)
(* others need to be read once.                                            *)
TurnComes ==
  "read" \notin mishaps => \A t \in Tickets : waits[t] * MaxReads <= Cardinality(Tickets) - 1

(* The stored disagreement is earned, whatever fails, as long as syncs do  *)
(* not overlap: a ticket recorded as closed with the issue still there was *)
(* closed, and a re-scan after that found the issue.                       *)
FlagIsEarned == "overlap" \notin mishaps => \A t \in Tickets : acts[t].ref.csp => t \in relapsed

(* What we know, the ticket says: after a sync that read it and with no    *)
(* failure, a fix confirmed before it was commented, and a recorded        *)
(* disagreement was commented too.                                         *)
TicketWasTold ==
  Quiet /\ mishaps = {} =>
    \A t \in Tickets :
      /\ acts[t].ver = "fixed" /\ acts[t].ref.synced > acts[t].verAt => acts[t].ref.notified = "fixed"
      /\ acts[t].ref.csp => acts[t].ref.notified = "still_present"

(* Writing a ticket back never undoes a verification, unless another put   *)
(* falls between the re-read of the action and its put.                    *)
VerdictKept ==
  [][\A t \in Tickets : "torn" \notin mishaps' => acts'[t].verAt >= acts[t].verAt]_vars

(* ClosedStillPresent: the tracker says done and our re-test still finds   *)
(* the issue.  When a sync reads a closed ticket whose issue the last      *)
(* re-scan found after the close, it records the disagreement.             *)
DisagreementSurfaces ==
  [][\A p \in Procs, t \in standing :
       mishaps' = {} /\ t \in proc'[p].got \ proc[p].got => proc'[p].snap[t].ref.csp]_vars

(* The disagreement only counts a re-test made after the ticket was        *)
(* resolved: after the close that stands, where the tracker dates it.      *)
CountsAfterThisClose ==
  Quiet /\ mishaps = {} =>
    \A t \in Tickets :
      acts[t].ref.csp /\ tracker[t].done /\ acts[t].ref.synced > tracker[t].at
        => acts[t].verAt >= tracker[t].at

(* A bounded pass must reach every ticket eventually, unreadable ones      *)
(* among them or not.                                                      *)
TurnComesAnyway ==
  \A t \in Tickets : waits[t] * MaxReads <= 2 * Cardinality(Tickets)

(* Re-reading the action before the put protects a verification the pass   *)
(* just recorded.                                                          *)
VerdictAlwaysKept == [][\A t \in Tickets : acts'[t].verAt >= acts[t].verAt]_vars

=============================================================================
